--------------------------- MODULE MCInterpreter ---------------------------
(***************************************************************************)
(* Modules for the interpreter: every entry function of two blocks that    *)
(* the verifier accepts, of at most three and two instructions from a      *)
(* pool, for the verifier's promise; and a few longer ones, for objects,   *)
(* the host and the errors of a program.                                   *)
(***************************************************************************)
EXTENDS Loading

MCTexts == {"console.log", "__entry", "f", "host", "x", "0", "1", "bad", "true", ""}

Const(kind, text) == [kind |-> kind, text |-> text]

MCConstants ==
  <<Const("number", "1"), Const("symbol", "f"), Const("symbol", "console.log"),
    Const("symbol", "x"), Const("symbol", "host"), Const("number", "bad"),
    Const("string", "x"), Const("boolean", "true"), Const("null", "")>>

\* Texts of several lengths, as bytes.
MCSpelling ==
  [t \in MCTexts |->
     CASE t = "console.log" -> <<99, 46, 108>> [] t = "__entry" -> <<95, 95>> [] t = "f" -> <<102>>
       [] t = "host" -> <<104, 111>> [] t = "x" -> <<195, 169>> [] t = "0" -> <<48>> [] t = "1" -> <<49>>
       [] t = "bad" -> <<98>> [] t = "true" -> <<116>> [] t = "" -> <<>>]

I(op, args) == [op |-> op, args |-> args, typed |-> TRUE, source |-> 0]

Function(name, params, codes) ==
  [name |-> name, params |-> params, exceptions |-> <<>>,
   blocks |-> [b \in DOMAIN codes |-> [id |-> b - 1, code |-> codes[b]]]]

\* One parameter, returned.
Identity == Function("f", 1, <<<<I("LoadLocal", <<0>>), I("Return", <<0>>)>>>>)

ModuleOf(functions) ==
  [header |-> TRUE, constants |-> MCConstants, functions |-> functions, sources |-> 1]

Pool ==
  {I("LoadConst", <<0>>), I("LoadConst", <<9>>), I("LoadLocal", <<0>>),
   I("StoreLocal", <<0, 0>>), I("StoreLocal", <<1, 0>>), I("Binary", <<5, 0, 0>>),
   I("Binary", <<5, 0>>), I("Branch", <<0, 0, 1>>), I("Jump", <<1>>), I("Jump", <<2>>),
   I("Return", <<>>), I("Return", <<0>>), I("Return", <<1>>), I("Call", <<1, 1, 0>>)}

\* The blocks of at most n instructions that the verifier accepts in a function
\* with blocks 0 and 1.
Blocks(n) ==
  LET f == Function("__entry", 0, <<<<>>, <<>>>>)
  IN  {c \in BoundedSeq(Pool, n) :
         \A k \in DOMAIN c : VerifyInstruction(ModuleOf(<<f>>), f, c, k)}

PooledModules ==
  {ModuleOf(<<Identity, Function("__entry", 0, <<c, d>>)>>) : c \in Blocks(3), d \in Blocks(2)}

Straight(code) == ModuleOf(<<Identity, Function("__entry", 0, <<code>>)>>)

\* An object that holds itself, shown on the console.
Cyclic == Straight(<<I("LoadConst", <<0>>), I("BuildObject", <<1, 3, 0>>),
                     I("StoreMember", <<1, 3, 1>>), I("Call", <<2, 1, 1>>), I("Return", <<>>)>>)

\* Objects through the console, the host and a function; the last is returned.
Boundary == Straight(<<I("LoadConst", <<0>>), I("BuildObject", <<1, 3, 0>>),
                       I("BuildArray", <<2, 0, 1>>), I("Call", <<2, 1, 2>>),
                       I("Call", <<4, 1, 1>>), I("Call", <<1, 1, 4>>),
                       I("Return", <<5>>)>>)

\* A member of what the host returned, which may not be an object.
HostMember == Straight(<<I("Call", <<4, 0>>), I("LoadMember", <<0, 3>>), I("LoadMember", <<0, 3>>),
                         I("Binary", <<0, 1, 2>>), I("Binary", <<15, 0, 3>>),
                         I("StoreMember", <<0, 3, 1>>), I("Return", <<4>>)>>)

\* The errors of a program: an unknown function, a name that is none, a number
\* that does not parse, an array read as an object.
Erring == {Straight(<<I("Call", <<3, 0>>), I("Return", <<0>>)>>),
           Straight(<<I("Call", <<0, 0>>), I("Return", <<0>>)>>),
           Straight(<<I("LoadConst", <<5>>), I("Return", <<0>>)>>),
           Straight(<<I("BuildArray", <<0>>), I("LoadMember", <<0, 3>>), I("Return", <<>>)>>),
           Straight(<<I("BuildArray", <<0>>), I("StoreMember", <<0, 3, 0>>), I("Return", <<>>)>>)}

\* Two functions that call each other for ever, one with an entry in its exception
\* table, and a function without block 0.
Mutual == ModuleOf(<<[Function("f", 1, <<<<I("Call", <<3, 0>>), I("Return", <<0>>)>>>>)
                        EXCEPT !.exceptions = <<[start |-> 0, end |-> 0, handler |-> 0]>>],
                     Function("x", 0, <<<<I("Call", <<1, 0>>), I("Return", <<0>>)>>>>),
                     Function("__entry", 0, <<<<I("Call", <<1, 0>>), I("Return", <<0>>)>>>>)>>)

Headless ==
  ModuleOf(<<[Identity EXCEPT !.blocks[1].id = 7],
             Function("__entry", 0, <<<<I("Call", <<1, 0>>), I("Return", <<0>>)>>>>)>>)

Written == Erring \union {Cyclic, Boundary, HostMember, Mutual, Headless}

MCModules == PooledModules \union Written
=============================================================================
