------------------------------- MODULE Parser -------------------------------
(***************************************************************************)
(* The recursive-descent parser of runtime/parser with its recovery from   *)
(* errors, on token kinds.                                                 *)
(*                                                                         *)
(* A parse function is the sequence of what it still has to do, so the     *)
(* call stack is one sequence, todo: the head is what the innermost call   *)
(* does next.  Nodes are their spans.  The node of a construct is closed   *)
(* over the nodes above the height at which it began.  Token n, counted    *)
(* from 0, spans positions 2n to 2n + 1.                                   *)
(*                                                                         *)
(* Tokens are chosen when the parser first looks at them.                  *)
(***************************************************************************)
EXTENDS Integers, Sequences, SequencesExt, FiniteSets, Grammar

CONSTANT
  Profiles   \* what a source may be made of: its kinds of tokens and, as
             \* bounds, the kinds of the first, how many there are and how
             \* many follow a first error

Keywords ==
  {"import", "export", "interface", "type", "class", "function", "let", "return",
   "throw", "if", "while", "for", "else", "from"}
Punctuation == {"{", "}", "(", ")", "[", "]", ";", ",", ":", ".", "!"}
Literals == {"identifier", "string", "number", "true", "null", "undefined"}
TypeNames == {"numberType", "null", "undefined", "identifier"}
PropertyNames == {"identifier", "string", "number"}
AssignmentOperators == {"=", "+="}

\* binary_operator: one operator of each precedence stands for the others.
BinaryOperators == {"||", "&&", "==", "<", "+", "-", "*"}
Precedence(kind) ==
  CASE kind = "||" -> 1 [] kind = "&&" -> 2 [] kind = "==" -> 3
    [] kind = "<" -> 4 [] kind \in {"+", "-"} -> 5 [] kind = "*" -> 6

Kinds ==
  Keywords \union Punctuation \union Literals \union TypeNames
    \union AssignmentOperators \union BinaryOperators

\* The level of an operand that needs no parentheses anywhere.
Atomic == 7

ASSUME ProfilesAssumption ==
  \A p \in Profiles :
    p.first \union p.kinds \subseteq Kinds /\ p.tokens \in Nat /\ p.after \in Nat

VARIABLES
  profile,   \* the profile of this source
  tokens,    \* the tokens advanced over; its length is the cursor
  ahead,     \* the kind peeked at, "end" after the last token
  todo,      \* what the calls in progress have still to do, innermost first
  nodes,     \* the spans parsed and not yet part of a larger one
  failedAt   \* the cursor at the first diagnostic, -1 before it

vars == <<profile, tokens, ahead, todo, nodes, failedAt>>

Cursor == Len(tokens)
AtEnd == ahead = "end"

\* previous_end, with tokens behind; fallback_position and current_start.
PreviousEnd == IF Cursor = 0 THEN 0 ELSE 2 * Cursor - 1
CurrentStart == IF AtEnd THEN PreviousEnd ELSE 2 * Cursor
-----------------------------------------------------------------------------
(* What a parse function can have to do. *)

Advance == [do |-> "advance"]
Expect(kind) == [do |-> "expect", kind |-> kind]
Take(kinds) == [do |-> "take", kinds |-> kinds]

\* if match_kind(kind) { matched } else { missed }
Match(kind, matched, missed) ==
  [do |-> "match", kind |-> kind, matched |-> matched, missed |-> missed]

\* if check(one of kinds) { seen } else { unseen }
Check(kinds, seen, unseen) ==
  [do |-> "check", kinds |-> kinds, seen |-> seen, unseen |-> unseen]

\* while !check(close) && !is_at_end() { element; if !match_kind(Comma) { break } }
List(close, element) == [do |-> "list", close |-> close, element |-> element]

\* while !check(close) && !is_at_end() { element }
\* which the last round began.
Until(close, element) ==
  [do |-> "until", close |-> close, element |-> element]

\* After a top-level statement that began at a cursor.
Progress(cursor) == [do |-> "progress", since |-> cursor]

\* A call of a parse function, and a step that needs the precedence, the start
\* or the height of the nodes of the call it is part of.
Parse(what) == [do |-> what]
Operators(min, height) == [do |-> "operators", min |-> min, height |-> height]
SuffixLoop(height) == [do |-> "suffixes", height |-> height]
AssignmentRest(height) == [do |-> "assignmentRest", height |-> height]
ArraySuffix(start, height) == [do |-> "arraySuffix", start |-> start, height |-> height]
Binary(min) == [do |-> "binary", min |-> min]

\* The end of a construct.  It starts where it was begun or, for start = -1,
\* where its first part starts; it ends at the previous token or with its last
\* part.
Close(what, start, height) ==
  [do |-> "close", what |-> what, start |-> start, height |-> height,
   level |-> Atomic, withLast |-> FALSE]
CloseWithLast(what, start, height) ==
  [Close(what, start, height) EXCEPT !.withLast = TRUE]
CloseOperator(what, level, height) ==
  [CloseWithLast(what, -1, height) EXCEPT !.level = level]

\* Grouped: the inner expression is the node, whatever its level.
Group == [do |-> "group"]

OptionalSemicolon == Match(";", <<>>, <<>>)
Expression == <<Parse("assignment")>>
-----------------------------------------------------------------------------
(* The parse functions, for the start and the height at which they begin.  *)

ImportRest(start, height) ==
  <<Advance,
    Match("{", <<List("}", <<Take({"identifier"})>>), Expect("}")>>, <<Take({"identifier"})>>),
    Expect("from"), Take({"string"}), OptionalSemicolon, Close("import", start, height)>>

ExportRest(start, height) ==
  <<Advance, Parse("statement"), CloseWithLast("export", start, height)>>

InterfaceRest(start, height) ==
  <<Advance, Take({"identifier"}),
    Expect("{"), Until("}", <<Parse("typeMember")>>), Expect("}"),
    Close("interface", start, height)>>

TypeAliasRest(start, height) ==
  <<Advance, Take({"identifier"}), Expect("="), Parse("typeNode"), OptionalSemicolon,
    Close("typeAlias", start, height)>>

ClassRest(start, height) ==
  <<Advance, Take({"identifier"}),
    Expect("{"), Until("}", <<Parse("classMember")>>), Expect("}"),
    Close("class", start, height)>>

OptionalType == Match(":", <<Parse("typeNode")>>, <<>>)
OptionalInitializer == Match("=", Expression, <<>>)

\* After the name of a member.
ClassMemberRest(start, height) ==
  <<OptionalType, OptionalInitializer, OptionalSemicolon, Close("classMember", start, height)>>

FunctionRest(start, height) ==
  <<Advance, Take({"identifier"}),
    Expect("("), List(")", <<Parse("parameter")>>), Expect(")"),
    OptionalType, Parse("block"), CloseWithLast("function", start, height)>>

ParameterRest(start, height) ==
  <<Take({"identifier"}), OptionalType, Close("parameter", start, height)>>

VariableRest(start, height, semicolon) ==
  <<Advance, Take({"identifier"}), OptionalType, OptionalInitializer>>
    \o (IF semicolon THEN <<OptionalSemicolon>> ELSE <<>>)
    \o <<Close("variable", start, height)>>

\* Always expects a value.
ReturnRestWithValue(start, height) ==
  <<Advance>> \o Expression \o <<OptionalSemicolon, Close("return", start, height)>>

ReturnRest(start, height) ==
  <<Advance, Check({";", "}"}, <<>>, Expression), OptionalSemicolon,
    Close("return", start, height)>>

ThrowRest(start, height) ==
  <<Advance>> \o Expression \o <<OptionalSemicolon, Close("throw", start, height)>>

Condition == <<Expect("(")>> \o Expression \o <<Expect(")")>>

IfRest(start, height) ==
  <<Advance>> \o Condition
    \o <<Parse("statement"), Match("else", <<Parse("statement")>>, <<>>),
         CloseWithLast("if", start, height)>>

WhileRest(start, height) ==
  <<Advance>> \o Condition
    \o <<Parse("statement"), CloseWithLast("while", start, height)>>

\* A for without an initializer has used up its first semicolon when the
\* second is expected.
ForRest(start, height) ==
  <<Advance, Expect("("),
    Match(";", <<>>, <<Check({"let"}, <<Parse("forVariable")>>, Expression)>>),
    Expect(";"), Check({";"}, <<>>, Expression),
    Expect(";"), Check({")"}, <<>>, Expression),
    Expect(")"), Parse("statement"), CloseWithLast("for", start, height)>>

BlockRest(start, height) ==
  <<Expect("{"), Until("}", <<Parse("statement")>>), Expect("}"),
    Close("block", start, height)>>

ExpressionRest(start, height) == Expression \o <<OptionalSemicolon>>

PropertyRest(start, height) ==
  <<Take(PropertyNames), Expect(":")>> \o Expression
    \o <<CloseWithLast("property", start, height)>>

TypeMemberRest(start, height) ==
  <<Take(PropertyNames), Expect(":"), Parse("typeNode"),
    Match(";", <<>>, <<Match(",", <<>>, <<>>)>>), Close("typeMember", start, height)>>

\* parse_statement: by the kind ahead.
StatementRest(start, height) ==
  CASE ahead = "import"    -> ImportRest(start, height)
    [] ahead = "export"    -> ExportRest(start, height)
    [] ahead = "interface" -> InterfaceRest(start, height)
    [] ahead = "type"      -> TypeAliasRest(start, height)
    [] ahead = "class"     -> ClassRest(start, height)
    [] ahead = "function"  -> FunctionRest(start, height)
    [] ahead = "let"       -> VariableRest(start, height, TRUE)
    [] ahead = "return"    -> ReturnRest(start, height)
    [] ahead = "throw"     -> ThrowRest(start, height)
    [] ahead = "if"        -> IfRest(start, height)
    [] ahead = "while"     -> WhileRest(start, height)
    [] ahead = "for"       -> ForRest(start, height)
    [] ahead = "{"         -> BlockRest(start, height)
    [] ahead = ";"         -> <<Advance, Close("empty", start, height)>>
    [] OTHER               -> ExpressionRest(start, height)

\* The parse functions that do not look at what is ahead before they begin.
Calls == {"statement", "parameter", "forVariable", "block", "property", "typeMember",
          "assignment", "binary", "callMember"}

Rest(call) ==
  LET start == CurrentStart
      height == Len(nodes)
  IN  CASE call.do = "statement"   -> StatementRest(start, height)
        [] call.do = "parameter"   -> ParameterRest(start, height)
        [] call.do = "forVariable" -> VariableRest(start, height, FALSE)
        [] call.do = "block"       -> BlockRest(start, height)
        [] call.do = "property"    -> PropertyRest(start, height)
        [] call.do = "typeMember"  -> TypeMemberRest(start, height)
        [] call.do = "assignment"  -> <<Binary(0), AssignmentRest(height)>>
        [] call.do = "binary"      -> <<Parse("unary"), Operators(call.min, height)>>
        [] call.do = "callMember"  -> <<Parse("primary"), SuffixLoop(height)>>
-----------------------------------------------------------------------------
Init ==
  /\ profile \in Profiles
  /\ tokens = <<>>
  /\ ahead \in profile.first \union {"end"}
  /\ todo = <<Parse("program")>>
  /\ nodes = <<>>
  /\ failedAt = -1

Now(what) == todo # <<>> /\ Head(todo).do = what
Item == Head(todo)
Then(items) == todo' = items \o Tail(todo)

\* More tokens may follow while the bounds allow.
Following ==
  IF Cursor + 1 < profile.tokens /\ (failedAt = -1 \/ Cursor < failedAt + profile.after)
    THEN profile.kinds \union {"end"} ELSE {"end"}

Consume ==
  /\ ~AtEnd
  /\ tokens' = Append(tokens, ahead)
  /\ ahead' \in Following

Stay == UNCHANGED <<tokens, ahead>>
Report == failedAt' = IF failedAt = -1 THEN Cursor ELSE failedAt
Silent == UNCHANGED failedAt
\* An unexpected token is reported and used up.
Skip == Consume /\ Report

Push(node) == nodes' = Append(nodes, node)
KeepNodes == UNCHANGED nodes

Node(what, start, end, level, parts) ==
  [what |-> what, start |-> start, end |-> end, level |-> level, parts |-> parts]

\* A node as part of another: without its own parts.
Part(node) == [node EXCEPT !.parts = <<>>]

Call ==
  /\ todo # <<>> /\ Item.do \in Calls
  /\ Then(Rest(Item))
  /\ Stay /\ Silent /\ KeepNodes

\* The loop of parse_program, and its guard against a statement that left the
\* cursor where it was.
DoProgram ==
  /\ Now("program")
  /\ Then(IF AtEnd THEN <<>> ELSE <<Parse("statement"), Progress(Cursor), Item>>)
  /\ Stay /\ Silent /\ KeepNodes

DoProgress ==
  /\ Now("progress")
  /\ Then(<<>>) /\ KeepNodes
  /\ IF Cursor = Item.since THEN Consume /\ Report ELSE Stay /\ Silent

DoAdvance ==
  /\ Now("advance")
  /\ Consume /\ Then(<<>>) /\ Silent /\ KeepNodes

\* expect: what is missing is reported and left alone.
DoExpect ==
  /\ Now("expect")
  /\ Then(<<>>) /\ KeepNodes
  /\ \/ ahead = Item.kind /\ Consume /\ Silent
     \/ ahead # Item.kind /\ Stay /\ Report

\* consume_identifier, consume_property_name, the module specifier: the token
\* is used up, right or wrong.
DoTake ==
  /\ Now("take")
  /\ Then(<<>>) /\ KeepNodes
  /\ \/ ahead \in Item.kinds /\ Consume /\ Silent
     \/ ahead \notin Item.kinds /\ ~AtEnd /\ Consume /\ Report
     \/ AtEnd /\ Stay /\ Report

DoMatch ==
  /\ Now("match")
  /\ Silent /\ KeepNodes
  /\ \/ ahead = Item.kind /\ Consume /\ Then(Item.matched)
     \/ ahead # Item.kind /\ Stay /\ Then(Item.missed)

DoCheck ==
  /\ Now("check")
  /\ Then(IF ahead \in Item.kinds THEN Item.seen ELSE Item.unseen)
  /\ Stay /\ Silent /\ KeepNodes

DoList ==
  /\ Now("list")
  /\ Then(IF AtEnd \/ ahead = Item.close THEN <<>>
          ELSE Item.element \o <<Match(",", <<Item>>, <<>>)>>)
  /\ Stay /\ Silent /\ KeepNodes

DoUntil ==
  /\ Now("until")
  /\ Then(IF AtEnd \/ ahead = Item.close THEN <<>>
          ELSE Item.element \o <<Item>>)
  /\ Stay /\ Silent /\ KeepNodes

\* A class member: without a name, synchronize_member looks for the next.
DoClassMember ==
  /\ Now("classMember")
  /\ KeepNodes
  /\ Consume
  /\ \/ /\ ahead = "identifier"
        /\ Then(ClassMemberRest(CurrentStart, Len(nodes))) /\ Silent
     \/ /\ ahead # "identifier"
        /\ Then(<<Parse("synchronize")>>) /\ Report

\* Looks for a separator without going on.
DoSynchronizeStuck ==
  /\ Now("synchronize")
  /\ Silent /\ KeepNodes
  /\ \/ ahead \in {"}", "end"} /\ Stay /\ Then(<<>>)
     \/ ahead \in {";", ","} /\ Consume /\ Then(<<>>)
     \/ ahead \notin {"}", ";", ",", "end"} /\ Stay /\ Then(<<Item>>)

DoSynchronize ==
  /\ Now("synchronize")
  /\ Silent /\ KeepNodes
  /\ \/ ahead \in {"}", "end"} /\ Stay /\ Then(<<>>)
     \/ ahead \in {";", ","} /\ Consume /\ Then(<<>>)
     \/ ahead \notin {"}", ";", ",", "end"} /\ Consume /\ Then(<<Item>>)

\* Takes the token ahead, which comes after the construct, for its last.
EndAhead(parts, withLast) == IF withLast THEN Last(parts).end ELSE 2 * Cursor + 1

End(parts, withLast) == IF withLast THEN Last(parts).end ELSE PreviousEnd

DoClose ==
  /\ Now("close")
  /\ LET parts == SubSeq(nodes, Item.height + 1, Len(nodes))
         node == Node(Item.what,
                      IF Item.start = -1 THEN Head(parts).start ELSE Item.start,
                      End(parts, Item.withLast), Item.level,
                      [k \in DOMAIN parts |-> Part(parts[k])])
     IN  nodes' = Append(SubSeq(nodes, 1, Item.height), node)
  /\ Then(<<>>) /\ Stay /\ Silent
-----------------------------------------------------------------------------
(* Expressions and types look at the token ahead before anything else.     *)

DoAssignmentRest ==
  /\ Now("assignmentRest")
  /\ Silent /\ KeepNodes
  /\ \/ /\ ahead \in AssignmentOperators
        /\ Consume
        /\ Then(Expression \o <<CloseOperator("assignment", 0, Item.height)>>)
     \/ ahead \notin AssignmentOperators /\ Stay /\ Then(<<>>)

\* The right operand takes operators of the same precedence with it.
RightMinimumSame(kind) == Precedence(kind)

RightMinimum(kind) == Precedence(kind) + 1

DoOperators ==
  /\ Now("operators")
  /\ Silent /\ KeepNodes
  /\ \/ /\ ahead \in BinaryOperators
        /\ Precedence(ahead) >= Item.min
        /\ Consume
        /\ Then(<<Binary(RightMinimum(ahead)),
                  CloseOperator("binary", Precedence(ahead), Item.height), Item>>)
     \/ /\ (ahead \in BinaryOperators => Precedence(ahead) < Item.min)
        /\ Stay /\ Then(<<>>)

\* parse_unary; without a token there is an error expression at the end.
DoUnary ==
  /\ Now("unary")
  /\ \/ /\ AtEnd
        /\ Push(Node("error", PreviousEnd, PreviousEnd, Atomic, <<>>))
        /\ Stay /\ Report /\ Then(<<>>)
     \/ /\ ahead \in {"!", "-"}
        /\ Consume /\ Silent /\ KeepNodes
        /\ Then(<<Parse("unary"), CloseWithLast("unary", CurrentStart, Len(nodes))>>)
     \/ /\ ahead \notin {"!", "-", "end"}
        /\ Then(<<Parse("callMember")>>) /\ Stay /\ Silent /\ KeepNodes

DoSuffixes ==
  /\ Now("suffixes")
  /\ Silent /\ KeepNodes
  /\ \/ /\ ahead = "."
        /\ Consume
        /\ Then(<<Take({"identifier"}), Close("member", -1, Item.height), Item>>)
     \/ /\ ahead = "("
        /\ Consume
        /\ Then(<<List(")", Expression), Expect(")"), Close("call", -1, Item.height), Item>>)
     \/ ahead \notin {".", "("} /\ Stay /\ Then(<<>>)

\* parse_primary.  Parentheses leave no node of their own.
DoPrimary ==
  LET height == Len(nodes)
      end == 2 * Cursor + 1
      leaf(what) == Push(Node(what, CurrentStart, end, Atomic, <<>>)) /\ Then(<<>>)
  IN  /\ Now("primary")
      /\ \/ ahead \in Literals /\ leaf("atom") /\ Consume /\ Silent
         \/ /\ ahead = "("
            /\ Then(Expression \o <<Expect(")"), Group>>)
            /\ Consume /\ Silent /\ KeepNodes
         \/ /\ ahead = "{"
            /\ Then(<<List("}", <<Parse("property")>>), Expect("}"),
                      Close("object", CurrentStart, height)>>)
            /\ Consume /\ Silent /\ KeepNodes
         \/ /\ ahead = "["
            /\ Then(<<List("]", Expression), Expect("]"), Close("array", CurrentStart, height)>>)
            /\ Consume /\ Silent /\ KeepNodes
         \/ ahead \notin Literals \union {"(", "{", "["} /\ leaf("error") /\ Skip

DoGroup ==
  /\ Now("group")
  /\ nodes' = [nodes EXCEPT ![Len(nodes)].level = Atomic]
  /\ Then(<<>>) /\ Stay /\ Silent

\* parse_type: an error leaves a type without extent where it was met.
DoType ==
  LET start == CurrentStart
      height == Len(nodes)
      suffix == <<ArraySuffix(start, height)>>
      leaf(what, end) == Push(Node(what, start, end, Atomic, <<>>))
  IN  /\ Now("typeNode")
      /\ \/ /\ AtEnd
            /\ leaf("errorType", start) /\ Stay /\ Report /\ Then(<<>>)
         \/ /\ ahead \in TypeNames
            /\ leaf("typeName", start + 1) /\ Consume /\ Silent /\ Then(suffix)
         \/ /\ ahead = "{"
            /\ Consume /\ Silent /\ KeepNodes
            /\ Then(<<Until("}", <<Parse("typeMember")>>), Expect("}"),
                      Close("objectType", start, height)>> \o suffix)
         \/ /\ ahead \notin TypeNames \union {"{", "end"}
            /\ leaf("errorType", start) /\ Skip /\ Then(suffix)

DoArraySuffix ==
  /\ Now("arraySuffix")
  /\ Silent /\ KeepNodes
  /\ \/ /\ ahead = "["
        /\ Consume
        /\ Then(<<Expect("]"), Close("arrayType", Item.start, Item.height), Item>>)
     \/ ahead # "[" /\ Stay /\ Then(<<>>)

Step ==
  /\ \/ DoProgram \/ DoProgress \/ Call \/ DoAdvance \/ DoExpect \/ DoTake \/ DoMatch \/ DoCheck
     \/ DoList \/ DoUntil \/ DoClassMember \/ DoSynchronize \/ DoClose
     \/ DoAssignmentRest \/ DoOperators \/ DoUnary \/ DoSuffixes \/ DoPrimary
     \/ DoGroup \/ DoType \/ DoArraySuffix
  /\ UNCHANGED profile

Spec == Init /\ [][Step]_vars

\* One call on one thread: it goes on while it can.
FairSpec == Spec /\ WF_vars(Step)
-----------------------------------------------------------------------------
Done == todo = <<>>
Accepted == Done /\ failedAt = -1

\* The headings of a for: with a first part, and without one as the code takes
\* it and as it should.
ForWithFirst == <<"ForFirst", ";", "OptionalExpression", ";", "OptionalExpression">>
ForTakingTwo == <<";", ";", "OptionalExpression", ";", "OptionalExpression">>
\* Spans describe the text, on malformed input too: no node ends before it
\* starts or after what has been read, nodes follow each other, and the parts
\* of a node lie inside it one after the other.
SpansNest ==
  /\ \A k \in DOMAIN nodes :
       /\ nodes[k].start <= nodes[k].end
       /\ nodes[k].end <= PreviousEnd
       /\ k > 1 => nodes[k - 1].end <= nodes[k].start
  /\ nodes # <<>> =>
       LET parts == Last(nodes).parts
       IN  \A k \in DOMAIN parts :
             /\ Last(nodes).start <= parts[k].start
             /\ parts[k].end <= Last(nodes).end
             /\ k > 1 => parts[k - 1].end <= parts[k].start

\* The tree of an expression is the one its operators ask for: a left operand
\* binds at least as tightly as its operator, a right one more tightly, what is
\* called, negated or looked into is atomic, and an assignment takes all of its
\* right side.
PrecedenceRespected ==
  nodes # <<>> =>
    LET node == Last(nodes)
        level(k) == node.parts[k].level
    IN  /\ node.what = "binary" /\ node.level # Atomic =>
             level(1) >= node.level /\ level(2) > node.level
        /\ node.what \in {"call", "member", "unary"} => level(1) = Atomic
        /\ node.what = "assignment" => level(1) > 0

\* A source is accepted exactly if it is a program.  A for without a first part
\* is taken with two semicolons where one belongs (ForTakingTwo): the code rejects
\* "for (; a; b) c".
AcceptsTheLanguage ==
  Done => (Accepted = IsProgram(tokens, {ForWithFirst, ForTakingTwo}))

\* Every source is parsed to its end.
ParseEnds == <>Done
=============================================================================
