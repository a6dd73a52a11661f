----------------------------- MODULE Semantics -----------------------------
(***************************************************************************)
(* The analyzer of runtime/semantic on syntax trees: two passes over the   *)
(* top level with the function bodies in between, a stack of value scopes, *)
(* and the inference of structural types.                                  *)
(*                                                                         *)
(* The recursion over the tree is the sequence todo of what the calls in   *)
(* progress have still to do, innermost first; the types they have         *)
(* returned to their callers are the stack operands.  Of a diagnostic the  *)
(* model keeps its code, and of the diagnostics which codes occur.         *)
(***************************************************************************)
EXTENDS Naturals, Sequences, FiniteSets, SequencesExt

CONSTANT Programs   \* [body |-> statements, broken |-> whether parsing reported]

VARIABLES
  program,
  todo,
  operands,
  scopes,        \* value_scopes, outermost first: name |-> type
  typeBindings,  \* type_bindings: name |-> type
  functions,     \* the top-level functions found by the first pass
  diagnostics,   \* codes of the diagnostics so far
  returnType     \* current_return_type, or Nothing

vars == <<program, todo, operands, scopes, typeBindings, functions, diagnostics, returnType>>
-----------------------------------------------------------------------------
(* Syntax.  Nothing stands for an absent part. *)

Nothing == [t |-> "nothing"]

Name(n) == [e |-> "name", name |-> n]
Literal(type) == [e |-> "literal", type |-> type]
ObjectOf(properties) == [e |-> "object", properties |-> properties]
Property(n, value) == [name |-> n, value |-> value]
ArrayOf(elements) == [e |-> "array", elements |-> elements]
MemberOf(object, n) == [e |-> "member", object |-> object, name |-> n]
CallOf(callee, arguments) == [e |-> "call", callee |-> callee, arguments |-> arguments]
Unary(op, argument) == [e |-> "unary", op |-> op, argument |-> argument]
Binary(op, left, right) == [e |-> "binary", op |-> op, left |-> left, right |-> right]
Assign(op, left, right) == [e |-> "assign", op |-> op, left |-> left, right |-> right]
ErrorExpression == [e |-> "error"]

Let(n, type, init) == [s |-> "variable", name |-> n, type |-> type, init |-> init]
Function(n, params, returns, body) ==
  [s |-> "function", name |-> n, params |-> params, returns |-> returns, body |-> body]
Parameter(n, type) == [name |-> n, type |-> type]
\* An interface or a class (a set of members) and an alias (a type) name a type.
Declare(n, members) == [s |-> "declare", name |-> n, type |-> [t |-> "object", fields |-> members]]
Alias(n, type) == [s |-> "declare", name |-> n, type |-> type]
Return(value) == [s |-> "return", value |-> value]
Do(e) == [s |-> "expression", value |-> e]
If(test, body, alternate) == [s |-> "if", test |-> test, body |-> body, alternate |-> alternate]
While(test, body) == [s |-> "while", test |-> test, body |-> body]
For(init, test, update, body) ==
  [s |-> "for", init |-> init, test |-> test, update |-> update, body |-> body]
BlockOf(body) == [s |-> "block", body |-> body]
Export(s) == [s |-> "export", inner |-> s]
Skip == [s |-> "nothing"]

(* Types: primitives, objects by their fields, arrays, functions, Unknown. *)

Primitive(kind) == [t |-> kind]
Number == Primitive("number")
StringType == Primitive("string")
Boolean == Primitive("boolean")
Null == Primitive("null")
Undefined == Primitive("undefined")
Unknown == Primitive("unknown")
Primitives == {Number, StringType, Boolean, Null, Undefined}
Object(fields) == [t |-> "object", fields |-> fields]
Array(element) == [t |-> "array", element |-> element]
FunctionType(params, returns, variadic) ==
  [t |-> "function", params |-> params, returns |-> returns, variadic |-> variadic]
Named(n) == [t |-> "named", name |-> n]

\* resolve_type_node: a name that is not bound yet is unknown.
RECURSIVE Resolved(_)
Resolved(node) ==
  CASE node.t = "named" -> IF node.name \in DOMAIN typeBindings THEN typeBindings[node.name] ELSE Unknown
    [] node.t = "array" -> Array(Resolved(node.element))
    [] node.t = "object" -> Object([f \in DOMAIN node.fields |-> Resolved(node.fields[f])])
    [] OTHER -> node

\* The diagnostics of the same.
RECURSIVE ResolveReports(_)
ResolveReports(node) ==
  CASE node.t = "named" -> IF node.name \in DOMAIN typeBindings THEN {} ELSE {"UnknownType"}
    [] node.t = "array" -> ResolveReports(node.element)
    [] node.t = "object" -> UNION {ResolveReports(node.fields[f]) : f \in DOMAIN node.fields}
    [] OTHER -> {}

\* Asks for the fields the actual type has.
RECURSIVE MismatchesOfActual(_, _, _)
MismatchesOfActual(expected, actual, code) ==
  CASE Unknown \in {expected, actual} -> {}
    [] Unknown \notin {expected, actual} /\ expected.t = "object" /\ actual.t = "object" ->
         UNION {MismatchesOfActual(expected.fields[f], actual.fields[f], code) :
                  f \in DOMAIN actual.fields \intersect DOMAIN expected.fields}
    [] Unknown \notin {expected, actual} /\ expected.t = "array" /\ actual.t = "array" ->
         MismatchesOfActual(expected.element, actual.element, code)
    [] OTHER -> IF expected \in Primitives /\ expected = actual THEN {} ELSE {code}

\* require_assignable: what it reports.  Functions fit nothing.
RECURSIVE Mismatches(_, _, _)
Mismatches(expected, actual, code) ==
  CASE Unknown \in {expected, actual} -> {}
    [] Unknown \notin {expected, actual} /\ expected.t = "object" /\ actual.t = "object" ->
         UNION {IF f \in DOMAIN actual.fields
                  THEN Mismatches(expected.fields[f], actual.fields[f], code)
                  ELSE {"MissingProperty"} : f \in DOMAIN expected.fields}
    [] Unknown \notin {expected, actual} /\ expected.t = "array" /\ actual.t = "array" ->
         Mismatches(expected.element, actual.element, code)
    [] OTHER -> IF expected \in Primitives /\ expected = actual THEN {} ELSE {code}

RequireNumbers(left, right) ==
  Mismatches(Number, left, "TypeMismatch") \union Mismatches(Number, right, "TypeMismatch")
RequireBooleans(left, right) ==
  Mismatches(Boolean, left, "TypeMismatch") \union Mismatches(Boolean, right, "TypeMismatch")
-----------------------------------------------------------------------------
(* What there can be to do. *)

Infer(e) == [do |-> "infer", e |-> e]
Build(names) == [do |-> "build", names |-> names]
Join == [do |-> "join"]
BuildArray == [do |-> "buildArray"]
Member(n) == [do |-> "member", name |-> n]
Call(arguments) == [do |-> "call", arguments |-> arguments]
Argument(expected) == [do |-> "argument", expected |-> expected]
Give(type) == [do |-> "give", type |-> type]
Operate(form, op) == [do |-> form, op |-> op]
Drop == [do |-> "drop"]
Declaration(s) == [do |-> "variable", s |-> s]
Returned == [do |-> "return"]
OpenScope == [do |-> "open"]
CloseScope == [do |-> "close"]
Collect(s) == [do |-> "collect", s |-> s]
Bodies == [do |-> "bodies"]
Body(f) == [do |-> "body", f |-> f]
EndBody(previous, empty) == [do |-> "endBody", previous |-> previous, empty |-> empty]
Analyze(s) == [do |-> "statement", s |-> s]

Each(Item(_), sequence) == [k \in DOMAIN sequence |-> Item(sequence[k])]
Optional(part, items) == IF part = Nothing THEN <<>> ELSE items

\* The parts of an expression in the order infer_expression visits them, and
\* what is left to do with their types.
Parts(e) ==
  CASE e.e = "object" ->
         [k \in DOMAIN e.properties |-> Infer(e.properties[k].value)]
           \o <<Build([k \in DOMAIN e.properties |-> e.properties[k].name])>>
    [] e.e = "array" ->
         <<Give(Unknown)>> \o FlattenSeq([k \in DOMAIN e.elements |-> <<Infer(e.elements[k]), Join>>])
           \o <<BuildArray>>
    [] e.e = "member" -> <<Infer(e.object), Member(e.name)>>
    [] e.e = "call" -> <<Infer(e.callee), Call(e.arguments)>>
    [] e.e = "unary" -> <<Infer(e.argument), Operate("unary", e.op)>>
    [] e.e = "binary" -> <<Infer(e.left), Infer(e.right), Operate("binary", e.op)>>
    [] e.e = "assign" -> <<Infer(e.left), Infer(e.right), Operate("assign", e.op)>>
    [] e.e = "literal" -> <<Give(e.type)>>
    [] e.e = "error" -> <<Give(Unknown)>>

\* Leaves a block without leaving its scope.
StatementPartsUnclosed(s) ==
  CASE s.s = "variable" -> Optional(s.init, <<Infer(s.init)>>) \o <<Declaration(s)>>
    [] s.s = "return" -> <<IF s.value = Nothing THEN Give(Undefined) ELSE Infer(s.value), Returned>>
    [] s.s = "expression" -> <<Infer(s.value), Drop>>
    [] s.s = "if" -> <<Infer(s.test), Drop, Analyze(s.body)>>
                       \o Optional(s.alternate, <<Analyze(s.alternate)>>)
    [] s.s = "while" -> <<Infer(s.test), Drop, Analyze(s.body)>>
    [] s.s = "for" -> <<OpenScope>> \o Optional(s.init, <<Analyze(s.init)>>)
                        \o Optional(s.test, <<Infer(s.test), Drop>>)
                        \o Optional(s.update, <<Infer(s.update), Drop>>)
                        \o <<Analyze(s.body), CloseScope>>
    [] s.s = "block" -> Each(Analyze, s.body)
    [] s.s = "export" -> <<Analyze(s.inner)>>
    [] s.s \in {"function", "declare", "nothing"} -> <<>>

\* analyze_statement: throw is an expression; declarations were collected.
StatementParts(s) ==
  CASE s.s = "variable" -> Optional(s.init, <<Infer(s.init)>>) \o <<Declaration(s)>>
    [] s.s = "return" -> <<IF s.value = Nothing THEN Give(Undefined) ELSE Infer(s.value), Returned>>
    [] s.s = "expression" -> <<Infer(s.value), Drop>>
    [] s.s = "if" -> <<Infer(s.test), Drop, Analyze(s.body)>>
                       \o Optional(s.alternate, <<Analyze(s.alternate)>>)
    [] s.s = "while" -> <<Infer(s.test), Drop, Analyze(s.body)>>
    [] s.s = "for" -> <<OpenScope>> \o Optional(s.init, <<Analyze(s.init)>>)
                        \o Optional(s.test, <<Infer(s.test), Drop>>)
                        \o Optional(s.update, <<Infer(s.update), Drop>>)
                        \o <<Analyze(s.body), CloseScope>>
    [] s.s = "block" -> <<OpenScope>> \o Each(Analyze, s.body) \o <<CloseScope>>
    [] s.s = "export" -> <<Analyze(s.inner)>>
    [] s.s \in {"function", "declare", "nothing"} -> <<>>

\* analyze_program: collect the top level, then the functions, then the rest.
Plan(body) ==
  Each(Collect, body) \o <<Bodies>> \o Each(Analyze, SelectSeq(body, LAMBDA s : s.s # "function"))

\* install_browser_builtins.
Console == Object([log |-> FunctionType(<<>>, Undefined, TRUE)])

Init ==
  /\ program \in Programs
  /\ todo = Plan(program.body)
  /\ operands = <<>>
  /\ scopes = <<[console |-> Console]>>
  /\ typeBindings = [n \in {} |-> Unknown]
  /\ functions = <<>>
  /\ diagnostics = IF program.broken THEN {"TypeMismatch"} ELSE {}
  /\ returnType = Nothing
-----------------------------------------------------------------------------
Now(what) == todo # <<>> /\ Head(todo).do = what
Item == Head(todo)
Then(items) == todo' = items \o Tail(todo)
Report(codes) == diagnostics' = diagnostics \union codes

\* The last n types returned are replaced by more.
Top(n) == operands[Len(operands) - n]
Replace(n, more) == operands' = SubSeq(operands, 1, Len(operands) - n) \o more

KeepTables == UNCHANGED <<program, scopes, typeBindings, functions, returnType>>

\* lookup_value: the innermost scope that has the name.
Holding(n) == {k \in DOMAIN scopes : n \in DOMAIN scopes[k]}
Lookup(n) == scopes[CHOOSE k \in Holding(n) : \A j \in Holding(n) : j <= k][n]

InferName ==
  /\ Now("infer") /\ Item.e.e = "name"
  /\ Then(<<>>) /\ KeepTables
  /\ \/ /\ Holding(Item.e.name) # {}
        /\ Replace(0, <<Lookup(Item.e.name)>>) /\ Report({})
     \/ /\ Holding(Item.e.name) = {}
        /\ Replace(0, <<Unknown>>) /\ Report({"UnknownIdentifier"})

InferParts ==
  /\ Now("infer") /\ Item.e.e # "name"
  /\ Then(Parts(Item.e)) /\ Replace(0, <<>>) /\ Report({}) /\ KeepTables

InferGiven ==
  /\ Now("give")
  /\ Then(<<>>) /\ Replace(0, <<Item.type>>) /\ Report({}) /\ KeepTables

\* A property named twice has the type of its last value.
InferObject ==
  LET names == Item.names
      n == Len(names)
      last(f) == CHOOSE k \in 1..n : names[k] = f /\ \A j \in k + 1 .. n : names[j] # f
  IN  /\ Now("build")
      /\ Replace(n, <<Object([f \in {names[k] : k \in 1..n} |-> Top(n - last(f))])>>)
      /\ Then(<<>>) /\ Report({}) /\ KeepTables

\* An element joins the type of the elements before it.
InferElement ==
  /\ Now("join")
  /\ Replace(2, <<IF Top(1) = Unknown THEN Top(0) ELSE Top(1)>>)
  /\ Report(Mismatches(Top(1), Top(0), "TypeMismatch"))
  /\ Then(<<>>) /\ KeepTables

InferArray ==
  /\ Now("buildArray")
  /\ Replace(1, <<Array(Top(0))>>) /\ Then(<<>>) /\ Report({}) /\ KeepTables

\* member_type.
InferMember ==
  LET type == Top(0)
      has == type.t = "object" /\ Item.name \in DOMAIN type.fields
  IN  /\ Now("member")
      /\ Replace(1, <<IF has THEN type.fields[Item.name] ELSE Unknown>>)
      /\ Report(IF has \/ type = Unknown THEN {} ELSE {"InvalidMemberAccess"})
      /\ Then(<<>>) /\ KeepTables

\* infer_call: the arguments that have a parameter, and no others, are looked
\* at; of a callee that is no function none are.
InferCall ==
  LET callee == Top(0)
      arguments == Item.arguments
      checked == IF Len(arguments) < Len(callee.params) THEN Len(arguments) ELSE Len(callee.params)
  IN  /\ Now("call")
      /\ Replace(1, <<>>) /\ KeepTables
      /\ \/ /\ callee.t = "function"
            /\ Report(IF callee.variadic \/ Len(callee.params) = Len(arguments)
                        THEN {} ELSE {"WrongArgumentCount"})
            /\ Then(FlattenSeq([k \in 1..checked |->
                                  <<Infer(arguments[k]), Argument(callee.params[k])>>])
                      \o <<Give(callee.returns)>>)
         \/ /\ callee.t # "function"
            /\ Report(IF callee = Unknown THEN {} ELSE {"InvalidCallTarget"})
            /\ Then(<<Give(Unknown)>>)

CheckArgument ==
  /\ Now("argument")
  /\ Report(Mismatches(Item.expected, Top(0), "TypeMismatch"))
  /\ Replace(1, <<>>) /\ Then(<<>>) /\ KeepTables

InferUnary ==
  /\ Now("unary")
  /\ \/ Item.op = "-" /\ Replace(1, <<Number>>) /\ Report(Mismatches(Number, Top(0), "TypeMismatch"))
     \/ Item.op = "!" /\ Replace(1, <<Boolean>>) /\ Report({})
  /\ Then(<<>>) /\ KeepTables

\* infer_binary: * stands for the arithmetic operators, && for the logical and
\* == for the comparing ones.
InferBinary ==
  LET left == Top(1)
      right == Top(0)
      gives(type, codes) == Replace(2, <<type>>) /\ Report(codes)
  IN  /\ Now("binary")
      /\ CASE Item.op = "+" /\ StringType \in {left, right} -> gives(StringType, {})
           [] Item.op = "+" /\ StringType \notin {left, right} ->
                gives(Number, RequireNumbers(left, right))
           [] Item.op = "*" -> gives(Number, RequireNumbers(left, right))
           [] Item.op = "&&" -> gives(Boolean, RequireBooleans(left, right))
           [] Item.op = "??" -> gives(IF left \in {Null, Undefined} THEN right ELSE left, {})
           [] Item.op = "==" -> gives(Boolean, {})
      /\ Then(<<>>) /\ KeepTables

\* infer_assignment.
InferAssignment ==
  LET left == Top(1)
      right == Top(0)
  IN  /\ Now("assign")
      /\ \/ /\ Item.op = "="
            /\ Replace(2, <<left>>) /\ Report(Mismatches(left, right, "TypeMismatch"))
         \/ /\ Item.op = "+="
            /\ Replace(2, <<Number>>) /\ Report(RequireNumbers(left, right))
      /\ Then(<<>>) /\ KeepTables

DropType ==
  /\ Now("drop")
  /\ Replace(1, <<>>) /\ Then(<<>>) /\ Report({}) /\ KeepTables
-----------------------------------------------------------------------------
Has(f, n) == n \in DOMAIN f
With(f, n, type) == [m \in DOMAIN f \union {n} |-> IF m = n THEN type ELSE f[m]]
Innermost == scopes[Len(scopes)]

\* define_value, after other diagnostics: the first of a name in a scope stays.
Define(n, type, codes) ==
  /\ scopes' = IF Has(Innermost, n) THEN scopes
               ELSE [scopes EXCEPT ![Len(scopes)] = With(@, n, type)]
  /\ Report(codes \union IF Has(Innermost, n) THEN {"DuplicateSymbol"} ELSE {})

AnalyzeStatement ==
  /\ Now("statement")
  /\ Then(StatementParts(Item.s)) /\ Replace(0, <<>>) /\ Report({}) /\ KeepTables

\* analyze_variable.
AnalyzeVariable ==
  LET s == Item.s
      initialized == s.init # Nothing
      declared == IF s.type = Nothing THEN Unknown ELSE Resolved(s.type)
      actual == IF initialized THEN Top(0) ELSE Unknown
  IN  /\ Now("variable")
      /\ Define(s.name, IF s.type = Nothing THEN actual ELSE declared,
                Mismatches(declared, actual, "TypeMismatch")
                  \union IF s.type = Nothing THEN {} ELSE ResolveReports(s.type))
      /\ Replace(IF initialized THEN 1 ELSE 0, <<>>)
      /\ Then(<<>>) /\ UNCHANGED <<program, typeBindings, functions, returnType>>

\* analyze_return: outside of functions there is nothing to compare with.
AnalyzeReturn ==
  /\ Now("return")
  /\ Report(IF returnType = Nothing THEN {}
            ELSE Mismatches(returnType, Top(0), "ReturnTypeMismatch"))
  /\ Replace(1, <<>>) /\ Then(<<>>) /\ KeepTables

OpenNewScope ==
  /\ Now("open")
  /\ scopes' = Append(scopes, [n \in {} |-> Unknown])
  /\ Then(<<>>) /\ UNCHANGED <<program, operands, typeBindings, functions, diagnostics, returnType>>

CloseLastScope ==
  /\ Now("close")
  /\ scopes' = Front(scopes)
  /\ Then(<<>>) /\ UNCHANGED <<program, operands, typeBindings, functions, diagnostics, returnType>>

\* collect_statement_symbol for an interface, an alias or a class: define_type.
CollectType ==
  LET s == Item.s
  IN  /\ Now("collect") /\ s.s = "declare"
      /\ typeBindings' = IF Has(typeBindings, s.name) THEN typeBindings
                         ELSE With(typeBindings, s.name, Resolved(s.type))
      /\ Report(ResolveReports(s.type)
                  \union IF Has(typeBindings, s.name) THEN {"DuplicateSymbol"} ELSE {})
      /\ Then(<<>>) /\ UNCHANGED <<program, operands, scopes, functions, returnType>>

\* The type a signature gives a part of it that has no annotation.
Annotated(node, default) == IF node = Nothing THEN default ELSE Resolved(node)
AnnotationReports(node) == IF node = Nothing THEN {} ELSE ResolveReports(node)
SignatureReports(f) ==
  AnnotationReports(f.returns)
    \union UNION {AnnotationReports(f.params[k].type) : k \in DOMAIN f.params}

\* The same for a function.
CollectFunction ==
  LET f == Item.s
  IN  /\ Now("collect") /\ f.s = "function"
      /\ Define(f.name,
                FunctionType([k \in DOMAIN f.params |-> Annotated(f.params[k].type, Unknown)],
                             Annotated(f.returns, Undefined), FALSE),
                SignatureReports(f))
      /\ functions' = Append(functions, f)
      /\ Then(<<>>) /\ UNCHANGED <<program, operands, typeBindings, returnType>>

CollectOther ==
  /\ Now("collect") /\ Item.s.s \notin {"declare", "function"}
  /\ Then(IF Item.s.s = "export" THEN <<Collect(Item.s.inner)>> ELSE <<>>)
  /\ Replace(0, <<>>) /\ Report({}) /\ KeepTables

AnalyzeBodies ==
  /\ Now("bodies")
  /\ Then(Each(Body, functions)) /\ Replace(0, <<>>) /\ Report({}) /\ KeepTables

\* analyze_function_body: its return type, its scope, its parameters.
EnterBody ==
  LET f == Item.f
      names == {f.params[k].name : k \in DOMAIN f.params}
      first(n) == CHOOSE k \in DOMAIN f.params :
                    f.params[k].name = n /\ \A j \in 1 .. k - 1 : f.params[j].name # n
  IN  /\ Now("body")
      /\ returnType' = Annotated(f.returns, Undefined)
      /\ scopes' = Append(scopes, [n \in names |-> Annotated(f.params[first(n)].type, Unknown)])
      /\ Report(SignatureReports(f)
                  \union IF Cardinality(names) < Len(f.params) THEN {"DuplicateSymbol"} ELSE {})
      /\ Then(Each(Analyze, f.body) \o <<EndBody(returnType, f.body = <<>>)>>)
      /\ UNCHANGED <<program, operands, typeBindings, functions>>

LeaveBody ==
  /\ Now("endBody")
  /\ scopes' = Front(scopes)
  /\ returnType' = Item.previous
  /\ Report(IF Item.empty THEN {"ReturnTypeMismatch"} ELSE {})
  /\ Then(<<>>) /\ UNCHANGED <<program, operands, typeBindings, functions>>

Next ==
  \/ InferName \/ InferParts \/ InferGiven \/ InferObject \/ InferElement \/ InferArray
  \/ InferMember \/ InferCall \/ CheckArgument \/ InferUnary \/ InferBinary
  \/ InferAssignment \/ DropType
  \/ AnalyzeStatement \/ AnalyzeVariable \/ AnalyzeReturn \/ OpenNewScope \/ CloseLastScope
  \/ CollectType \/ CollectFunction \/ CollectOther \/ AnalyzeBodies \/ EnterBody \/ LeaveBody

Spec == Init /\ [][Next]_vars
=============================================================================
