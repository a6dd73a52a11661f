--------------------------- MODULE MCPageScripts ---------------------------
(* One document with one node, nine sources, and pages with scripts that    *)
(* read and write the node, fail at every stage, share a bundle, or are cut  *)
(* out of the page text in a surprising way.                                 *)
EXTENDS PageScripts, TLC

CONSTANT none

call(name, arguments) == [call |-> name, arguments |-> arguments]

MCPreparation ==
  [s \in {"read", "write", "half", "fetch", "elsewhere", "nowhere", "nothing",
          "mistyped", "unverifiable", "garbled"} |->
     CASE s \in {"mistyped", "garbled"} -> "compile_error"
       [] s = "unverifiable"           -> "verify_error"
       [] OTHER                        -> "ok"]

MCSources == DOMAIN MCPreparation

MCProgram ==
  [s \in MCSources |->
     CASE s = "read" ->
            <<call("domText", <<"#a">>), call("domText", <<"#new">>)>>
       [] s = "write" ->
            <<call("console.log", <<"before">>), call("domSetText", <<"#a", "written">>),
              call("domSetText", <<"#new", "written">>)>>
       [] s = "half" ->
            <<call("domSetText", <<"#a", "half">>), call("domSetText", <<"#new", "number">>),
              call("domSetText", <<"#a", "never">>)>>
       [] s = "fetch" ->
            <<call("fetchText", <<"/", "x">>), call("fetchText", <<"https://", "h", "/", "x">>),
              call("domText", <<"number">>)>>
       [] s = "elsewhere" -> <<call("fetchText", <<"https://", "h", "x", "/", "x">>)>>
       [] s = "nowhere" -> <<call("fetchText", <<>>)>>
       [] OTHER -> <<>>]

MCOrigin == <<"https://", "h">>
MCFetchable == (<<"/", "x">> :> "answer") @@ (<<"x", "/", "x">> :> "other")

MCNodes == "#a" :> "first"
MCDocumentPath == <<"site", "index.html">>
MCBundles ==
  (<<"site", "a.ts">> :> "write") @@ (<<"b.ts">> :> "write") @@ (<<"site", "cyclic.ts">> :> none)

typescript == Attribute("type", FALSE, TRUE, "text/typescript")
src(prefixed, quoted, rooted, segments) ==
  Attribute("src", prefixed, quoted, [rooted |-> rooted, segments |-> segments])

inline(source) == <<Open(<<typescript>>), Text(source), Close>>
external(rooted, segments) ==
  <<Open(<<typescript, src(FALSE, TRUE, rooted, segments)>>), Close>>
foreign == <<Open(<<>>), Text("read"), Close>>

MCPages ==
  {inline("write") \o inline("read"),
   external(FALSE, <<"a.ts">>) \o inline("read") \o external(TRUE, <<"b.ts">>),
   foreign \o inline("half") \o inline("read"),
   inline("write") \o external(FALSE, <<"..", "missing.ts">>),
   inline("read") \o external(FALSE, <<".", "cyclic.ts">>),
   inline("fetch") \o inline("unverifiable"),
   foreign \o <<Text("read")>>,
   \* markup inside a body, and a tag that is closed by another's end
   <<Open(<<typescript>>), Text("read"), Open(<<>>), Text("write"), Close, Close>>,
   <<Unended(<<typescript>>), Text("read"), Close, Text("write"), Close,
     Open(<<typescript>>), Text("read")>>,
   \* a prefixed attribute, and one without quotes
   <<Open(<<typescript, src(TRUE, TRUE, TRUE, <<"b.ts">>)>>), Text("read"), Close,
     Open(<<src(FALSE, FALSE, TRUE, <<"b.ts">>), typescript>>), Text("nothing"), Close>>}

MCInlines == {"read", "half", "elsewhere", "nowhere", "mistyped"}
=============================================================================
