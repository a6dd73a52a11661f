------------------------------ MODULE Meaning ------------------------------
(***************************************************************************)
(* What programs mean, as a reference for module Semantics: the names a    *)
(* statement leaves loose, and the values its execution can bind, by kind. *)
(* An if takes either side and a loop runs once or not at all; a function  *)
(* is a value like any other.  Nothing here is translated from the         *)
(* analyzer.                                                               *)
(***************************************************************************)
EXTENDS Semantics

CONSTANT MaxCalls   \* bound: calls inside each other that are followed

ASSUME MaxCallsAssumption == MaxCalls \in Nat

(* The names. *)

RECURSIVE NamesIn(_, _)
NamesIn(e, arguments) ==
  LET in(es) == UNION {NamesIn(es[k], arguments) : k \in DOMAIN es}
  IN  CASE e.e = "name" -> {e.name}
        [] e.e = "object" -> in([k \in DOMAIN e.properties |-> e.properties[k].value])
        [] e.e = "array" -> in(e.elements)
        [] e.e = "member" -> NamesIn(e.object, arguments)
        [] e.e = "call" ->
             NamesIn(e.callee, arguments) \union (IF arguments THEN in(e.arguments) ELSE {})
        [] e.e = "unary" -> NamesIn(e.argument, arguments)
        [] e.e \in {"binary", "assign"} -> in(<<e.left, e.right>>)
        [] e.e \in {"literal", "error"} -> {}

Some(part) == IF part = Nothing THEN <<>> ELSE <<part>>

\* What a statement declares in the block it stands in.
RECURSIVE Binds(_)
Binds(s) ==
  CASE s.s = "variable" -> {s.name}
    [] s.s = "if" -> Binds(s.body) \union UNION {Binds(a) : a \in ToSet(Some(s.alternate))}
    [] s.s = "while" -> Binds(s.body)
    [] s.s = "export" -> Binds(s.inner)
    [] OTHER -> {}

\* The names statements use where nothing declares them; with the arguments of
\* calls or without.
RECURSIVE Loose(_, _, _)
Loose(statements, bound, arguments) ==
  IF statements = <<>> THEN {}
  ELSE LET s == Head(statements)
           used(parts) == UNION {NamesIn(parts[k], arguments) : k \in DOMAIN parts} \ bound
           inner(parts) == Loose(parts, bound, arguments)
           here == CASE s.s = "variable" -> used(Some(s.init))
                     [] s.s = "return" -> used(Some(s.value))
                     [] s.s = "expression" -> used(<<s.value>>)
                     [] s.s = "if" -> used(<<s.test>>) \union inner(<<s.body>> \o Some(s.alternate))
                     [] s.s = "while" -> used(<<s.test>>) \union inner(<<s.body>>)
                     [] s.s = "for" -> inner(Some(s.init) \o Each(Do, Some(s.test) \o Some(s.update))
                                               \o <<s.body>>)
                     [] s.s = "block" -> inner(s.body)
                     [] s.s = "export" -> inner(<<s.inner>>)
                     [] OTHER -> {}
       IN  here \union Loose(Tail(statements), bound \union Binds(s), arguments)

Bare(s) == IF s.s = "export" THEN s.inner ELSE s
Hoisted(body) ==
  SelectSeq([k \in DOMAIN body |-> Bare(body[k])], LAMBDA s : s.s = "function")

\* A function sees the functions and its parameters; the top level does not
\* lend it its variables.
LooseNames(body, arguments) ==
  LET hoisted == ToSet(Hoisted(body))
      globals == {"console"} \union {f.name : f \in hoisted}
  IN  Loose(body, globals, arguments)
        \union UNION {Loose(f.body, globals \union {f.params[k].name : k \in DOMAIN f.params},
                            arguments) : f \in hoisted}
-----------------------------------------------------------------------------
(* The values. *)

Value(kind) == [v |-> kind]
Record(fields) == [v |-> "object", fields |-> fields]
List(elements) == [v |-> "array", elements |-> elements]
Closure(f) == [v |-> "function", f |-> f]
Builtin == Value("builtin")
Wrong == Value("wrong")

RECURSIVE Inhabits(_, _)
Inhabits(value, type) ==
  CASE type.t = "object" ->
         /\ value.v = "object"
         /\ \A f \in DOMAIN type.fields :
              f \in DOMAIN value.fields /\ Inhabits(value.fields[f], type.fields[f])
    [] type.t = "array" ->
         /\ value.v = "array"
         /\ \A k \in DOMAIN value.elements : Inhabits(value.elements[k], type.element)
    [] type.t = "function" -> value.v \in {"function", "builtin"}
    [] type.t = "unknown" -> TRUE
    [] OTHER -> value.v = type.t

\* One value of each of a sequence of sets; Wrong if one of them is.
Selections(sets) ==
  {c \in [DOMAIN sets -> UNION {sets[k] : k \in DOMAIN sets}] : \A k \in DOMAIN c : c[k] \in sets[k]}
Unless(values, value) == IF Wrong \in Range(values) THEN Wrong ELSE value

Combined(op, left, right) ==
  Unless(<<left, right>>,
         CASE op = "+" /\ Value("string") \in {left, right} -> Value("string")
           [] op \in {"+", "*"} /\ left = right /\ left = Value("number") -> Value("number")
           [] op \in {"&&", "=="} -> Value("boolean")
           [] op = "??" -> IF left.v \in {"null", "undefined"} THEN right ELSE left
           [] OTHER -> Wrong)

At(n, env) == {k \in DOMAIN env : n \in DOMAIN env[k]}
Innermost1(n, env) == CHOOSE k \in At(n, env) : \A j \in At(n, env) : j <= k
Going(env) == [env |-> env, returned |-> Nothing]
Stopped(env, value) == [env |-> env, returned |-> value]
Bound(env, k, n, value) == [env EXCEPT ![k] = With(@, n, value)]

\* The arguments of a builtin are not evaluated.
RECURSIVE Values(_, _, _), Run(_, _, _), RunOne(_, _, _)
Values(e, env, calls) ==
  LET of(x) == Values(x, env, calls)
      all(xs) == Selections([k \in DOMAIN xs |-> of(xs[k])])
      enter(f, arguments) ==
        {IF o.returned = Nothing THEN Value("undefined") ELSE o.returned :
           o \in Run(f.body,
                     <<env[1], [n \in {f.params[k].name : k \in DOMAIN f.params} |->
                                  arguments[CHOOSE k \in DOMAIN f.params : f.params[k].name = n]]>>,
                     calls - 1)}
      apply(f) ==
        CASE f = Builtin -> {Value("undefined")}
          [] f.v = "function" /\ Len(e.arguments) = Len(f.f.params) ->
               UNION {IF Wrong \in Range(a) THEN {Wrong} ELSE IF calls = 0 THEN {} ELSE enter(f.f, a) :
                        a \in all(e.arguments)}
          [] OTHER -> {Wrong}
  IN  CASE e.e = "name" ->
             {IF At(e.name, env) = {} THEN Wrong ELSE env[Innermost1(e.name, env)][e.name]}
        [] e.e = "literal" -> {Value(e.type.t)}
        [] e.e = "error" -> {Wrong}
        [] e.e = "object" ->
             LET ps == e.properties
                 last(n) == CHOOSE k \in DOMAIN ps :
                              ps[k].name = n /\ \A j \in k + 1 .. Len(ps) : ps[j].name # n
             IN  {Unless(c, Record([n \in {ps[k].name : k \in DOMAIN ps} |-> c[last(n)]])) :
                    c \in all([k \in DOMAIN ps |-> ps[k].value])}
        [] e.e = "array" -> {Unless(c, List(c)) : c \in all(e.elements)}
        [] e.e = "member" ->
             {IF o.v = "object" /\ e.name \in DOMAIN o.fields THEN o.fields[e.name] ELSE Wrong :
                o \in of(e.object)}
        [] e.e = "call" -> UNION {apply(f) : f \in of(e.callee)}
        [] e.e = "unary" ->
             {Unless(<<a>>, CASE e.op = "!" -> Value("boolean")
                              [] e.op = "-" /\ a = Value("number") -> a
                              [] OTHER -> Wrong) : a \in of(e.argument)}
        [] e.e = "binary" -> {Combined(e.op, c[1], c[2]) : c \in all(<<e.left, e.right>>)}

\* Assignments are statements, and to names.
RunOne(s, env, calls) ==
  LET then(values, Next1(_)) ==
        UNION {IF v = Wrong THEN {Stopped(env, Wrong)} ELSE Next1(v) : v \in values}
      values(e) == Values(e, env, calls)
      assign(e) ==
        LET new == IF e.op = "=" THEN e.right ELSE Binary("+", Binary("*", e.left, e.left), e.right)
        IN  then(values(e.left), LAMBDA left :
                 then(values(new), LAMBDA v :
                      {Going(Bound(env, Innermost1(e.left.name, env), e.left.name, v))}))
  IN  CASE s.s = "variable" ->
             then(IF s.init = Nothing THEN {Value("undefined")} ELSE values(s.init),
                  LAMBDA v : {Going(Bound(env, Len(env), s.name, v))})
        [] s.s = "return" ->
             then(IF s.value = Nothing THEN {Value("undefined")} ELSE values(s.value),
                  LAMBDA v : {Stopped(env, v)})
        [] s.s = "expression" ->
             IF s.value.e = "assign" THEN assign(s.value)
                                     ELSE then(values(s.value), LAMBDA v : {Going(env)})
        [] s.s = "if" ->
             then(values(s.test), LAMBDA v :
                  Run(<<s.body>>, env, calls) \union Run(Some(s.alternate), env, calls))
        [] s.s = "while" -> RunOne(If(s.test, s.body, Nothing), env, calls)
        [] s.s = "for" ->
             LET round == BlockOf(<<s.body>> \o Each(Do, Some(s.update)))
             IN  RunOne(BlockOf(Some(s.init) \o IF s.test = Nothing THEN <<round>>
                                                ELSE <<If(s.test, round, Nothing)>>), env, calls)
        [] s.s = "block" ->
             {[o EXCEPT !.env = SubSeq(@, 1, Len(env))] :
                o \in Run(s.body, Append(env, [n \in {} |-> Wrong]), calls)}
        [] s.s = "export" -> RunOne(s.inner, env, calls)
        [] OTHER -> {Going(env)}

Run(statements, env, calls) ==
  IF statements = <<>> THEN {Going(env)}
  ELSE UNION {IF o.returned = Nothing THEN Run(Tail(statements), o.env, calls) ELSE {o} :
                o \in RunOne(Head(statements), env, calls)}

\* How the top level can end.  Its variables are not the functions' to see.
Executions(body) ==
  LET hoisted == Hoisted(body)
      named(n) == CHOOSE k \in DOMAIN hoisted :
                    hoisted[k].name = n /\ \A j \in 1 .. k - 1 : hoisted[j].name # n
      globals == With([n \in {hoisted[k].name : k \in DOMAIN hoisted} |-> Closure(hoisted[named(n)])],
                      "console", Record([log |-> Builtin]))
  IN  Run(body, <<globals, [n \in {} |-> Wrong]>>, MaxCalls)
-----------------------------------------------------------------------------
(* Programs that say all their types. *)

\* Every variable is initialized, every parameter and member has a type, a
\* function that says what it returns ends in a return, what is only sometimes
\* executed declares nothing outside a block, and members are not assigned to.
FullyTyped(s) ==
  CASE s.s = "variable" -> s.init # Nothing
    [] s.s = "function" ->
         /\ \A k \in DOMAIN s.params : s.params[k].type # Nothing
         /\ s.returns # Nothing => s.body # <<>> /\ Last(s.body).s = "return"
    [] s.s = "declare" -> s.type.t = "object" => Unknown \notin Range(s.type.fields)
    [] s.s \in {"if", "while"} -> Binds(s) = {}
    [] s.s = "for" -> Binds(s.body) = {}
    [] s.s = "expression" -> s.value.e = "assign" => s.value.left.e = "name"
    [] OTHER -> TRUE

RECURSIVE AllFullyTyped(_)
AllFullyTyped(ss) ==
  \A k \in DOMAIN ss :
    /\ FullyTyped(ss[k])
    /\ AllFullyTyped(CASE ss[k].s \in {"function", "block"} -> ss[k].body
                       [] ss[k].s = "if" -> <<ss[k].body>> \o Some(ss[k].alternate)
                       [] ss[k].s = "while" -> <<ss[k].body>>
                       [] ss[k].s = "for" -> Some(ss[k].init) \o <<ss[k].body>>
                       [] ss[k].s = "export" -> <<ss[k].inner>>
                       [] OTHER -> <<>>)

SaysItsTypes == AllFullyTyped(program.body)
-----------------------------------------------------------------------------
Done == todo = <<>>

\* A program that says all its types and is accepted does not go wrong: no
\* execution of it takes a member of what has none, calls what is no function or
\* with too few arguments, computes with what is no number, or uses a name that
\* is not there, and what each of its top-level variables holds in the end has
\* the type the analyzer gave it.  Subtyping by fields, inference of elements
\* and operators, shadowing and hoisting have to be right together.
AcceptedProgramsRun ==
  (Done /\ diagnostics = {} /\ SaysItsTypes) =>
    \A o \in Executions(program.body) :
      /\ o.returned # Wrong
      /\ \A k \in 1..2 : \A n \in DOMAIN o.env[k] : Inhabits(o.env[k][n], scopes[1][n])

\* An unknown identifier is reported exactly where a name is used that nothing
\* in sight declares: functions are in sight before they are declared and
\* variables are not, a block takes its names with it, and functions do not see
\* the variables around them.  What stands in the arguments of a call may be
\* reported or not, see AcceptedProgramsBind.
UnknownNamesReported ==
  Done =>
    /\ LooseNames(program.body, FALSE) # {} => "UnknownIdentifier" \in diagnostics
    /\ "UnknownIdentifier" \in diagnostics => LooseNames(program.body, TRUE) # {}

\* An accepted program uses no name that nothing declares, as README.md has it:
\* the analyzer "checks scoped local variables" and "Invalid programs return
\* diagnostics and do not produce IR".
AcceptedProgramsBind ==
  (Done /\ diagnostics = {}) => LooseNames(program.body, TRUE) = {}
=============================================================================
