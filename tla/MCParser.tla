------------------------------ MODULE MCParser ------------------------------
(* Sources of several kinds, each over the tokens that one part of the language *)
(* is made of: every sequence of them that has no error yet, and what may     *)
(* follow the first error.                                                   *)
EXTENDS Parser

Profile(first, kinds, length, after) ==
  [first |-> first, kinds |-> kinds, tokens |-> length, after |-> after]
Anything(kinds, length, after) == Profile(kinds, kinds, length, after)

WellFormed ==
  {Anything({"identifier", "(", ")", "+", "*", "="}, 6, 1),
   Anything({"||", "&&", "==", "<", "-", "!", "identifier"}, 4, 1),
   Profile({"[", "(", "identifier"},
           {"identifier", "{", "}", "[", "]", ",", ":", "."}, 6, 1),
   Profile({"if", "while"}, {"if", "else", "while", "(", ")", "true", ";"}, 8, 1),
   Profile({"for"}, {"(", ")", ";", "let", "identifier"}, 9, 1),
   Profile({"function"}, {"{", "}", "(", ")", "identifier", ",", "return"}, 9, 1),
   Profile({"class"}, {"{", "}", "identifier", ":", "=", ";"}, 9, 1),
   Profile({"interface", "type"}, {"{", "}", "identifier", ":", "[", "]", "="}, 9, 1),
   Profile({"import", "export"},
           {"export", "from", "string", "identifier", "{", "}", ","}, 6, 0),
   Profile({"let", "throw"}, {":", "numberType", "identifier", "let", ";", "="}, 6, 1)}

\* Malformed sources: any sequence at all of a few kinds.
Malformed ==
  {Anything({"class", "{", "}", ";", ","}, 5, 5),
   Anything({"if", "(", "else", "identifier"}, 5, 5),
   Anything({"interface", "{", ":", "}"}, 5, 5),
   Anything({"for", ";", ")", "function"}, 5, 5),
   Anything({"import", "export", "from", "let"}, 5, 5)}

MCProfiles == WellFormed \union Malformed
=============================================================================
