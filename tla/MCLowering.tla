----------------------------- MODULE MCLowering -----------------------------
(***************************************************************************)
(* Five mixes of syntax, each small enough to try every function of a few  *)
(* instructions: names and scopes, arguments, members, literals and calls, *)
(* and control, with an if inside an if.                                   *)
(***************************************************************************)
EXTENDS Lowering

Scopes == [syntax |-> {"identifier", "assign", "variable", "return", "block"}, instructions |-> 5]

Arguments == [syntax |-> {"identifier", "assign", "binary", "call", "variable", "expression", "return",
                          "block"},
              instructions |-> 4]

Members == [syntax |-> {"literal", "member", "binary", "member assign", "expression", "return"},
            instructions |-> 6]

Literals == [syntax |-> {"literal", "object", "array", "call", "return"}, instructions |-> 5]

Control == [syntax |-> {"literal", "variable", "return", "if"}, instructions |-> 10]

MCProfiles == {Scopes, Arguments, Members, Literals, Control}

ControlProfiles == {Control}
=============================================================================
