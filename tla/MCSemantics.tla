---------------------------- MODULE MCSemantics ----------------------------
(* Programs of four kinds, each every combination of a few parts: variables   *)
(* and operators, functions and their bodies, the declarations of types, and  *)
(* scopes.                                                                     *)
EXTENDS Meaning

Plain(body) == [body |-> body, broken |-> FALSE]
N == Literal(Number)
S == Literal(StringType)
T == Literal(Boolean)
Nul == Literal(Null)
a == Name("a")
b == Name("b")
f == Name("f")
X == ObjectOf(<<Property("x", N)>>)
XY == ObjectOf(<<Property("x", N), Property("y", S)>>)
TypeX == Object([x |-> Number])
TypeXY == Object([x |-> Number] @@ [y |-> StringType])
Log(arguments) == CallOf(MemberOf(Name("console"), "log"), arguments)
TwoX == ObjectOf(<<Property("x", S), Property("x", N)>>)

Variables ==
  {Plain(<<Let("a", type, init), Let("b", other, e), s>>) :
     type \in {Nothing, Number, TypeX},
     init \in {N, S, XY, TwoX, Nul},
     other \in {Nothing, TypeX, Array(TypeX)},
     e \in {a, MemberOf(a, "x"), MemberOf(a, "y"), ArrayOf(<<a, X>>), ArrayOf(<<X, a>>),
            Unary("-", a), Unary("!", a), Binary("+", a, S), Binary("+", a, N),
            Binary("*", a, N), Binary("&&", a, T), Binary("==", a, N), Binary("??", a, X)},
     s \in {Do(Assign("=", a, b)), Do(Assign("=", b, a)), Do(Assign("+=", a, b)),
            Do(Log(<<Name("missing")>>))}}

SomeBodies ==
  LET p == Name("p")
  IN  {<<Return(p)>>, <<Return(MemberOf(p, "x"))>>, <<Return(Nothing)>>, <<>>,
       <<If(Binary("==", p, N), Return(N), Nothing), Return(p)>>,
       <<BlockOf(<<Let("p", Nothing, S)>>), Return(p)>>,
       <<Let("p", Nothing, S), Return(p)>>,
       <<While(p, Do(Assign("=", p, a))), Return(p)>>,
       <<For(Let("p", Nothing, N), Nothing, Assign("+=", p, N), Do(p)), Return(p)>>,
       <<Return(CallOf(Name("g"), <<p>>))>>}

Functions ==
  {Plain(<<Let("a", TypeX, XY), Do(CallOf(f, arguments)),
           Function("f", <<Parameter("p", param)>>, returns, body),
           Let("b", Nothing, CallOf(f, <<XY>>)),
           Export(Function("g", <<Parameter("q", TypeX)>>, Number, <<Return(MemberOf(Name("q"), "x"))>>))>>) :
     param \in {Nothing, TypeX, TypeXY},
     returns \in {Nothing, Number, TypeX},
     body \in SomeBodies,
     arguments \in {<<a>>, <<X>>, <<S>>, <<>>, <<b>>}}

Declared ==
  LET point == Declare("I", [x |-> Number])
      points == Alias("J", Array(Named("I")))
      both == Declare("K", [first |-> Named("I")] @@ [rest |-> Named("J")])
      use == Let("a", Named("K"), ObjectOf(<<Property("first", XY), Property("rest", ArrayOf(<<X, XY>>))>>))
      take(type) == Function("f", <<Parameter("p", type), Parameter("p", Number)>>, type, <<Return(Name("p"))>>)
  IN  {Plain(<<d[1], d[2], d[3], use, s>>) :
         d \in {e \in [1..3 -> {point, points, both, take(Named("I"))}] :
                  \A j, k \in 1..3 : j < k => e[j] # e[k]},
         s \in {Let("b", Named("J"), MemberOf(a, "rest")), Let("a", Nothing, N),
                Let("b", Number, MemberOf(MemberOf(a, "first"), "x")),
                Declare("I", [x |-> Unknown]), Do(CallOf(N, <<>>)), Do(CallOf(f, <<a, N>>))}}

Scopes ==
  LET inside == {Let("b", Nothing, a), Let("a", Nothing, S), BlockOf(<<Let("b", Nothing, a)>>), Skip}
  IN  {[body |-> <<Let("a", Nothing, N), around, Let("c", Nothing, e)>>, broken |-> broken] :
         around \in UNION {{BlockOf(<<s, t>>), If(a, s, t), If(a, BlockOf(<<s>>), Nothing),
                            While(a, s), For(s, a, a, t), For(Nothing, Nothing, Nothing, s),
                            Skip} :
                             s \in inside, t \in inside},
         e \in {a, b},
         broken \in BOOLEAN}
       \union {[body |-> <<Do(ErrorExpression)>>, broken |-> TRUE]}

AllPrograms == Variables \union Functions \union Declared \union Scopes
=============================================================================
