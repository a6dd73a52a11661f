--------------------------- MODULE MCModuleGraph ---------------------------
(* Three modules in two directories, with every body of up to two           *)
(* statements for the first two and of up to one for the third.             *)
EXTENDS ModuleGraph, TLC

main == <<"main.ts">>
a == <<"lib", "a.ts">>
b == <<"lib", "b.ts">>

MCTypeScriptNames == {"main.ts", "a.ts", "b.ts"}

Specifiers ==
  {<<".", "lib", "a.ts">>,           \* a, from main only
   <<".", "b.ts">>,                  \* b from lib, missing from main
   <<"..", "lib", "x", "..", "b.ts">>, \* b from everywhere, past the root
   <<"..", "", "main.ts">>,          \* main from everywhere
   <<"lib", "a.ts">>,                \* not relative
   <<".", "lib", "a">>}              \* not a .ts file

Statements ==
  {ImportStatement(s) : s \in Specifiers} \union {ExportStatement("f")}

Bodies(n, S) == UNION {[1 .. k -> S] : k \in 0 .. n}
LibStatements == Statements \ {ImportStatement(<<".", "lib", "a.ts">>)}

MCPrograms ==
  {(main :> [broken |-> FALSE, body |-> body1])
     @@ (a :> [broken |-> FALSE, body |-> body2])
     @@ (b :> [broken |-> wrong, body |-> body3]) :
   body1 \in Bodies(2, Statements), body2 \in Bodies(2, LibStatements),
   body3 \in Bodies(1, LibStatements) \union {<<OtherStatement>>, <<ExportStatement(Anonymous)>>},
   wrong \in BOOLEAN}
    \union {a :> [broken |-> FALSE, body |-> <<>>]}   \* the entry is missing
=============================================================================
