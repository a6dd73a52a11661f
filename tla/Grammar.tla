------------------------------ MODULE Grammar ------------------------------
(***************************************************************************)
(* The language of runtime/ast, as a grammar over token kinds: what each   *)
(* statement, expression and type node is made of.  It says which sources  *)
(* are programs, without saying how a parser finds out.                    *)
(***************************************************************************)
EXTENDS Naturals, Sequences, FiniteSets

AnyOf(kinds) == {<<kind>> : kind \in kinds}

\* A symbol in front of which "&" or "!" is put is looked at and not used up.
\* A heading of a for is a parameter: see Parser.
Productions(symbol, forHeads) ==
  CASE symbol = "Program" -> {<<>>, <<"Statement", "Program">>}
    [] symbol = "Statement" ->
         {<<"import", "{", "Names", "}", "from", "string", "Semi">>,
          <<"import", "identifier", "from", "string", "Semi">>,
          <<"export", "Statement">>,
          <<"interface", "identifier", "{", "TypeMembers", "}">>,
          <<"type", "identifier", "=", "Type", "Semi">>,
          <<"class", "identifier", "{", "Members", "}">>,
          <<"function", "identifier", "(", "Parameters", ")", "OptionalType", "Block">>,
          <<"Variable", "Semi">>,
          <<"return", ";">>, <<"return", "&}">>, <<"return", "Expression", "Semi">>,
          <<"throw", "Expression", "Semi">>,
          <<"if", "(", "Expression", ")", "Statement">>,
          <<"if", "(", "Expression", ")", "Statement", "else", "Statement">>,
          <<"while", "(", "Expression", ")", "Statement">>,
          <<"for", "(", "ForHead", ")", "Statement">>,
          <<"Block">>, <<";">>, <<"!{", "Expression", "Semi">>}
    [] symbol = "Block" -> {<<"{", "Statements", "}">>}
    [] symbol = "Statements" -> {<<>>, <<"Statement", "Statements">>}
    [] symbol = "Names" -> {<<>>, <<"identifier">>, <<"identifier", ",", "Names">>}
    [] symbol = "Variable" -> {<<"let", "identifier", "OptionalType", "OptionalInitializer">>}
    [] symbol = "OptionalType" -> {<<>>, <<":", "Type">>}
    [] symbol = "OptionalInitializer" -> {<<>>, <<"=", "Expression">>}
    [] symbol = "Semi" -> {<<>>, <<";">>}
    [] symbol = "Members" -> {<<>>, <<"Member", "Members">>}
    [] symbol = "Member" -> {<<"identifier", "OptionalType", "OptionalInitializer", "Semi">>}
    [] symbol = "Parameters" -> {<<>>, <<"Parameter">>, <<"Parameter", ",", "Parameters">>}
    [] symbol = "Parameter" -> {<<"identifier", "OptionalType">>}
    [] symbol = "TypeMembers" -> {<<>>, <<"TypeMember", "TypeMembers">>}
    [] symbol = "TypeMember" ->
         {<<"PropertyName", ":", "Type">>, <<"PropertyName", ":", "Type", ";">>,
          <<"PropertyName", ":", "Type", ",">>}
    [] symbol = "PropertyName" -> AnyOf({"identifier", "string", "number"})
    [] symbol = "Type" -> {<<"TypeHead", "Arrays">>}
    [] symbol = "TypeHead" ->
         AnyOf({"numberType", "null", "undefined", "identifier"})
           \union {<<"{", "TypeMembers", "}">>}
    [] symbol = "Arrays" -> {<<"![">>, <<"[", "]", "Arrays">>}
    [] symbol = "ForHead" -> forHeads
    [] symbol = "ForFirst" -> {<<"Variable">>, <<"!let", "Expression">>}
    [] symbol = "OptionalExpression" -> {<<>>, <<"Expression">>}
    [] symbol = "Expression" ->
         {<<"Operand">>, <<"Operand", "Operator", "Expression">>}
    [] symbol = "Operator" ->
         AnyOf({"=", "+=", "||", "&&", "==", "<", "+", "-", "*"})
    [] symbol = "Operand" -> {<<"!", "Operand">>, <<"-", "Operand">>, <<"Primary", "Suffixes">>}
    [] symbol = "Suffixes" ->
         {<<>>, <<".", "identifier", "Suffixes">>, <<"(", "Expressions", ")", "Suffixes">>}
    [] symbol = "Expressions" -> {<<>>, <<"Expression">>, <<"Expression", ",", "Expressions">>}
    [] symbol = "Properties" -> {<<>>, <<"Property">>, <<"Property", ",", "Properties">>}
    [] symbol = "Property" -> {<<"PropertyName", ":", "Expression">>}
    [] symbol = "Primary" ->
         AnyOf({"identifier", "string", "number", "true", "null", "undefined"})
           \union {<<"(", "Expression", ")">>, <<"{", "Properties", "}">>,
                   <<"[", "Expressions", "]">>}
    [] OTHER -> {}

\* The places up to which symbols can be derived from source[i] on.
RECURSIVE EndsOf(_, _, _, _)
EndsOf(source, symbols, i, forHeads) ==
  IF symbols = <<>> THEN {i}
  ELSE LET symbol == Head(symbols)
           here == IF i \in DOMAIN source THEN source[i] ELSE "end"
           ends == CASE symbol = "&}"   -> IF here = "}" THEN {i} ELSE {}
                     [] symbol = "!{"   -> IF here # "{" THEN {i} ELSE {}
                     [] symbol = "![" -> IF here # "[" THEN {i} ELSE {}
                     [] symbol = "!let" -> IF here # "let" THEN {i} ELSE {}
                     [] OTHER ->
                          (IF here = symbol THEN {i + 1} ELSE {})
                            \union UNION {EndsOf(source, production, i, forHeads) :
                                            production \in Productions(symbol, forHeads)}
       IN  UNION {EndsOf(source, Tail(symbols), j, forHeads) : j \in ends}

IsProgram(source, forHeads) ==
  Len(source) + 1 \in EndsOf(source, <<"Program">>, 1, forHeads)
=============================================================================
