---------------------------- MODULE PageScripts ----------------------------
(***************************************************************************)
(* A page session: browser/script-loader finds the scripts of a page,      *)
(* takes each through policy, resources, module graph and the session's    *)
(* cache, and runs it against the document and fetch bindings of           *)
(* web-bindings/dom-fetch.  One action per script decision and per host    *)
(* call, so that a failure can come between any two of them.               *)
(*                                                                         *)
(* A page is a sequence of pieces of text: script tags, their ends and     *)
(* what is between.  A source stands for its text, a program for the host  *)
(* calls the source makes, Bundles for the module graph bundler.           *)
(***************************************************************************)
EXTENDS ModuleCacheOps, Paths

CONSTANTS
  Pages,        \* the page texts a session may be given
  Inlines,      \* the sources it may be asked to run by themselves
  DocumentPath, \* the path of the document
  Bundles,      \* resource path |-> bundled source or NoBundle
  NoBundle,
  Garbled,      \* the source that a body with markup in it amounts to
  Program,      \* source |-> the host calls it makes when it runs
  Origin,       \* the origin of the fetch service, as a sequence of symbols; the
                \* slashes of the scheme belong to its symbol
  Fetchable,    \* path |-> text: the resources of the fetch service
  Nodes,        \* the text nodes of the document at first
  Capacity,
  MaxPages      \* bound: pages and inline calls of one session

\* Host calls by name, those of the bindings and the interpreter's own.
HostCalls == {"console.log", "domText", "domSetText", "fetchText"}

\* Texts are sequences of pieces, programs of host calls and URLs of symbols.
\* No resource has the empty path, and an origin ends before the slash of a path.
ASSUME PageScriptsAssumption ==
  /\ Garbled \in Sources /\ Inlines \subseteq Sources
  /\ \A path \in DOMAIN Bundles : Bundles[path] \in Sources \union {NoBundle}
  /\ \A html \in Pages :
       /\ html \in Seq(Range(html))
       /\ \A k \in DOMAIN html : html[k].piece = "text" => html[k].source \in Sources
  /\ \A source \in Sources :
       /\ Program[source] \in Seq(Range(Program[source]))
       /\ \A k \in DOMAIN Program[source] :
            LET made == Program[source][k]
            IN  /\ made.call \in HostCalls
                /\ made.call = "fetchText" => made.arguments \in Seq(Range(made.arguments))
  /\ <<>> \notin DOMAIN Fetchable
  /\ Origin \in Seq(Range(Origin)) /\ "/" \notin Range(Origin)

\* The pieces of a page.  An open tag carries its attributes; an unended one
\* has lost its ">".
Open(attributes) == [piece |-> "open", attributes |-> attributes]
Unended(attributes) == [piece |-> "unended", attributes |-> attributes]
Close == [piece |-> "close", attributes |-> <<>>]
Text(source) == [piece |-> "text", attributes |-> <<>>, source |-> source]

\* An attribute: data- or any other prefix changes nothing for the search.
Attribute(name, prefixed, quoted, value) ==
  [name |-> name, prefixed |-> prefixed, quoted |-> quoted, value |-> value]

\* attribute: the first name= in the tag decides, and only quoted values count.
Named(attributes, name) == SelectSeq(attributes, LAMBDA at : at.name = name)
HasAttribute(attributes, name) ==
  Named(attributes, name) # <<>> /\ Named(attributes, name)[1].quoted
AttributeValue(attributes, name) == Named(attributes, name)[1].value

PiecesOf(html, from, kinds) == {k \in from .. Len(html) : html[k].piece \in kinds}

\* Ends a body at the last closing tag of the page.
BodyEndGreedy(closes) == Max(closes)

\* A body ends at the next closing tag, whatever is in between.
BodyEnd(closes) == Min(closes)

\* Where a search may find a tag, that tag's end, and the end of its body: a
\* tag runs to the next ">", a body to the next closing tag.
TagStarts(html, from) == PiecesOf(html, from, {"open", "unended"})
TagEnds(html, start) ==
  IF html[start].piece = "open" THEN {start} ELSE PiecesOf(html, start + 1, {"open", "close"})
TagStart(html, from) == Min(TagStarts(html, from))
TagEnd(html, from) == Min(TagEnds(html, TagStart(html, from)))
BodyCloses(html, from) == PiecesOf(html, TagEnd(html, from) + 1, {"close"})
BodyClose(html, from) == BodyEnd(BodyCloses(html, from))

\* A tag or a body that does not end is no script.
HasScript(html, from) ==
  /\ TagStarts(html, from) # {}
  /\ TagEnds(html, TagStart(html, from)) # {}
  /\ BodyCloses(html, from) # {}

ScriptSlice(html, from) ==
  LET start == TagStart(html, from)
      end == TagEnd(html, from)
  IN  [tag |-> FlattenSeq([k \in 1 .. end - start + 1 |-> html[start + k - 1].attributes]),
       body |-> SubSeq(html, end + 1, BodyClose(html, from) - 1)]

\* find_scripts: one search after the other, each from where the last ended,
\* until one finds no script.
FindScripts(html) ==
  LET found[from \in 1 .. Len(html) + 1] ==
        IF HasScript(html, from)
          THEN <<ScriptSlice(html, from)>> \o found[BodyClose(html, from) + 1]
          ELSE <<>>
  IN  found[1]

IsTypeScript(script) ==
  HasAttribute(script.tag, "type") /\ AttributeValue(script.tag, "type") = "text/typescript"
IsExternal(script) == HasAttribute(script.tag, "src")

\* The source a body is, taken as text.
InlineSource(body) ==
  IF Len(body) = 1 /\ body[1].piece = "text" THEN body[1].source ELSE Garbled

\* resolve_url: a path from the root is taken as it is written.
ResolvedUrl(src) ==
  IF src.rooted THEN src.segments ELSE ResolveFrom(DocumentPath, src.segments)

Specifier(script) == ResolvedUrl(AttributeValue(script.tag, "src"))
-----------------------------------------------------------------------------
VARIABLES
  cache,     \* PageScriptSession.cache
  document,  \* selector |-> text, shared by all scripts of the session
  page,      \* the call in progress, or the last one
  run,       \* the script being run: source, next host call, its console
  phase,     \* "idle", "page", "run"
  pages,     \* history: calls made
  began      \* history: document and cache when the call began

vars == <<cache, document, page, run, phase, pages, began>>

NoRun == [source |-> Garbled, next |-> 1, console |-> <<>>]

\* A call: what it was given, how far it is and what it has to show.
NewPage(scripts, allowed) ==
  [scripts |-> scripts, allowed |-> allowed, next |-> 1,
   console |-> <<>>, ran |-> <<>>, outcome |-> "open"]

Init ==
  /\ cache = EmptyCache(Capacity)
  /\ document = Nodes
  /\ page = [NewPage(<<>>, TRUE) EXCEPT !.outcome = "ok"]
  /\ run = NoRun
  /\ phase = "idle"
  /\ pages = 0
  /\ began = [document |-> Nodes, cache |-> EmptyCache(Capacity)]

Begin(scripts, allowed) ==
  /\ phase = "idle"
  /\ pages < MaxPages
  /\ pages' = pages + 1
  /\ page' = NewPage(scripts, allowed)
  /\ phase' = "page"
  /\ began' = [document |-> document, cache |-> cache]
  /\ UNCHANGED <<cache, document, run>>

\* execute_typescript_scripts_with_policy.
BeginPage(html, allowed) == Begin(FindScripts(html), allowed)

\* execute_inline_typescript: the policy and one source, as for a script of
\* a page that has nothing else.
BeginInline(source, allowed) ==
  Begin(<<[tag |-> <<Attribute("type", FALSE, TRUE, "text/typescript")>>,
           body |-> <<Text(source)>>]>>, allowed)

AtScript == phase = "page" /\ page.next \in DOMAIN page.scripts
Script == page.scripts[page.next]

\* An Err returned through the ?: what the page has logged so far is lost.
Fail(code) ==
  /\ page' = [page EXCEPT !.console = <<>>, !.ran = <<>>, !.outcome = code]
  /\ phase' = "idle"
  /\ run' = NoRun

SkipScript ==
  /\ AtScript
  /\ ~IsTypeScript(Script)
  /\ page' = [page EXCEPT !.next = @ + 1]
  /\ UNCHANGED <<cache, document, run, phase, pages, began>>

BlockedByPolicy ==
  /\ AtScript
  /\ IsTypeScript(Script)
  /\ ~page.allowed
  /\ Fail("blocked")
  /\ UNCHANGED <<cache, document, pages, began>>

\* Looks a script up before asking whether it may run.
ConsideredUnchecked == AtScript /\ IsTypeScript(Script)

Considered == AtScript /\ IsTypeScript(Script) /\ page.allowed

MissingResource ==
  /\ Considered
  /\ IsExternal(Script)
  /\ Specifier(Script) \notin DOMAIN Bundles
  /\ Fail("missing_resource")
  /\ UNCHANGED <<cache, document, pages, began>>

BundleFails ==
  /\ Considered
  /\ IsExternal(Script)
  /\ Specifier(Script) \in DOMAIN Bundles
  /\ Bundles[Specifier(Script)] = NoBundle
  /\ Fail("module_error")
  /\ UNCHANGED <<cache, document, pages, began>>

\* The source a script comes down to, when it comes to that.
HasSource(script) ==
  IsExternal(script) => /\ Specifier(script) \in DOMAIN Bundles
                        /\ Bundles[Specifier(script)] # NoBundle

SourceOf(script) ==
  IF IsExternal(script) THEN Bundles[Specifier(script)] ELSE InlineSource(script.body)

\* A hit is not prepared again.
Runnable(source) == source \in cache.modules \/ Preparation[source] = "ok"

\* execute_cached_source, up to the prepared module.
LookupFails ==
  /\ Considered
  /\ HasSource(Script)
  /\ ~Runnable(SourceOf(Script))
  /\ cache' = GetOrPrepare(cache, SourceOf(Script))
  /\ Fail("not_prepared")
  /\ UNCHANGED <<document, pages, began>>

Lookup ==
  /\ Considered
  /\ HasSource(Script)
  /\ Runnable(SourceOf(Script))
  /\ cache' = GetOrPrepare(cache, SourceOf(Script))
  /\ run' = [source |-> SourceOf(Script), next |-> 1, console |-> <<>>]
  /\ phase' = "run"
  /\ UNCHANGED <<document, page, pages, began>>
-----------------------------------------------------------------------------
\* Host calls of a running script.  Their arguments are symbols; "number"
\* stands for any value that is not a string.
Calls == Program[run.source]
AtCall(name) ==
  phase = "run" /\ run.next \in DOMAIN Calls /\ Calls[run.next].call = name
Arguments == Calls[run.next].arguments

\* expect_string for every argument in turn, before anything is done.
AllStrings(arguments) == \A k \in DOMAIN arguments : arguments[k] # "number"

Returned(value) ==
  run' = [run EXCEPT !.next = @ + 1, !.console = Append(@, value)]

\* unwrap_or_default: a missing node reads as the empty text.
TextOf(nodes, selector) ==
  IF selector \in DOMAIN nodes THEN nodes[selector] ELSE "empty"

\* set_text: inserts or replaces.
WithText(nodes, selector, text) ==
  [s \in DOMAIN nodes \union {selector} |-> IF s = selector THEN text ELSE nodes[s]]

Rooted(url) == url # <<>> /\ Head(url) = "/"

\* Only a missing prefix is refused.
SameOriginPathUnended(url) ==
  IF Rooted(url) THEN url
  ELSE IF IsPrefix(Origin, url) THEN SubSeq(url, Len(Origin) + 1, Len(url)) ELSE <<>>

\* same_origin_path: a path as it is, the origin stripped if a path follows;
\* <<>> is the error.
SameOriginPath(url) ==
  LET path == SubSeq(url, Len(Origin) + 1, Len(url))
  IN  CASE Rooted(url) -> url
        [] ~Rooted(url) /\ IsPrefix(Origin, url) /\ Rooted(path) -> path
        [] OTHER -> <<>>

Fetched(url) == SameOriginPath(url) \in DOMAIN Fetchable

Log ==
  /\ AtCall("console.log")
  /\ Returned(Arguments[1])
  /\ UNCHANGED <<cache, document, page, phase, pages, began>>

\* domText, its result logged.
DomText ==
  /\ AtCall("domText")
  /\ AllStrings(Arguments)
  /\ Returned(TextOf(document, Arguments[1]))
  /\ UNCHANGED <<cache, document, page, phase, pages, began>>

DomSetText ==
  /\ AtCall("domSetText")
  /\ AllStrings(Arguments)
  /\ document' = WithText(document, Arguments[1], Arguments[2])
  /\ run' = [run EXCEPT !.next = @ + 1]
  /\ UNCHANGED <<cache, page, phase, pages, began>>

\* fetchText, its result logged.
FetchText ==
  /\ AtCall("fetchText")
  /\ Fetched(Arguments)
  /\ Returned(Fetchable[SameOriginPath(Arguments)])
  /\ UNCHANGED <<cache, document, page, phase, pages, began>>

\* An InteropError of a binding, which ends the script and the page.
HostCallFails ==
  /\ \/ AtCall("domText") /\ ~AllStrings(Arguments)
     \/ AtCall("domSetText") /\ ~AllStrings(Arguments)
     \/ AtCall("fetchText") /\ ~Fetched(Arguments)
  /\ Fail("failed")
  /\ UNCHANGED <<cache, document, pages, began>>

\* append_execution.
Appended(console, more) == console \o more

ScriptEnds ==
  /\ phase = "run"
  /\ run.next \notin DOMAIN Calls
  /\ page' = [page EXCEPT !.next = @ + 1,
                          !.console = Appended(@, run.console),
                          !.ran = Append(@, IF IsExternal(Script) THEN Specifier(Script)
                                            ELSE <<"<inline>">>)]
  /\ phase' = "page"
  /\ run' = NoRun
  /\ UNCHANGED <<cache, document, pages, began>>

PageEnds ==
  /\ phase = "page"
  /\ page.next \notin DOMAIN page.scripts
  /\ page' = [page EXCEPT !.outcome = "ok"]
  /\ phase' = "idle"
  /\ UNCHANGED <<cache, document, run, pages, began>>

Next ==
  \/ \E html \in Pages, allowed \in BOOLEAN : BeginPage(html, allowed)
  \/ \E source \in Inlines, allowed \in BOOLEAN : BeginInline(source, allowed)
  \/ SkipScript \/ BlockedByPolicy \/ MissingResource \/ BundleFails
  \/ LookupFails \/ Lookup
  \/ Log \/ DomText \/ DomSetText \/ FetchText \/ HostCallFails
  \/ ScriptEnds \/ PageEnds

Spec == Init /\ [][Next]_vars
-----------------------------------------------------------------------------
\* What a page should do, script after script, in a world with no cache.
\* A world is the document, the console and the outcome so far.
AfterCall(world, call) ==
  LET says(value) == [world EXCEPT !.console = Append(@, value)]
      fails == [world EXCEPT !.outcome = "failed"]
      a == call.arguments
  IN  CASE world.outcome # "ok" -> world
        [] world.outcome = "ok" /\ call.call = "console.log" -> says(a[1])
        [] world.outcome = "ok" /\ call.call = "fetchText" ->
             IF Fetched(a) THEN says(Fetchable[SameOriginPath(a)]) ELSE fails
        [] world.outcome = "ok" /\ call.call = "domText" ->
             IF AllStrings(a) THEN says(TextOf(world.document, a[1])) ELSE fails
        [] world.outcome = "ok" /\ call.call = "domSetText" ->
             IF AllStrings(a) THEN [world EXCEPT !.document = WithText(@, a[1], a[2])] ELSE fails

\* The worlds after none, one, two, ... of the calls of a program.
CallWorlds(world, calls) ==
  LET after[n \in 0 .. Len(calls)] ==
        IF n = 0 THEN world ELSE AfterCall(after[n - 1], calls[n])
  IN  after

AfterScript(world, script, allowed) ==
  IF world.outcome # "ok" \/ ~IsTypeScript(script) THEN world
  ELSE IF ~allowed THEN [world EXCEPT !.outcome = "blocked"]
  ELSE IF IsExternal(script) /\ Specifier(script) \notin DOMAIN Bundles
         THEN [world EXCEPT !.outcome = "missing_resource"]
  ELSE IF ~HasSource(script) THEN [world EXCEPT !.outcome = "module_error"]
  ELSE IF Preparation[SourceOf(script)] # "ok" THEN [world EXCEPT !.outcome = "not_prepared"]
  ELSE LET calls == Program[SourceOf(script)] IN CallWorlds(world, calls)[Len(calls)]

\* The worlds after none, one, two, ... of the scripts of a page.
ScriptWorlds(world, scripts, allowed) ==
  LET after[n \in 0 .. Len(scripts)] ==
        IF n = 0 THEN world ELSE AfterScript(after[n - 1], scripts[n], allowed)
  IN  after

NewWorld == [document |-> began.document, console |-> <<>>, outcome |-> "ok"]

Expected == ScriptWorlds(NewWorld, page.scripts, page.allowed)[Len(page.scripts)]

\* A page does what it would do with no cache at all, whatever the session ran
\* before: outcome, console and document are those of its scripts run one
\* after the other, up to the first that fails.
PageAsIfAlone ==
  phase = "idle" /\ pages > 0 =>
    /\ page.outcome = Expected.outcome
    /\ document = Expected.document
    /\ page.outcome = "ok" => page.console = Expected.console

\* A page whose TypeScript is blocked leaves no trace: neither the document,
\* nor the cache and its counters, nor a script in the list of those that ran.
BlockedLeavesNoTrace ==
  ~page.allowed => /\ document = began.document
                   /\ cache = began.cache
                   /\ page.ran = <<>>

\* A closing tag belongs to the nearest open script before it, so the scripts
\* of a page are disjoint, in document order, and no body holds a closing tag.
BodiesEndAtClose ==
  \A k \in DOMAIN page.scripts :
    \A j \in DOMAIN page.scripts[k].body : page.scripts[k].body[j].piece # "close"

\* What a script fetches comes from the page's origin: all that is before the
\* path is the origin or nothing.
FetchesOwnOrigin ==
  (phase = "run" /\ run.next > 1 /\ Calls[run.next - 1].call = "fetchText") =>
    LET url == Calls[run.next - 1].arguments
        pathStart == CHOOSE k \in DOMAIN url : url[k] = "/" /\ \A j \in 1 .. k - 1 : url[j] # "/"
    IN  SubSeq(url, 1, pathStart - 1) \in {Origin, <<>>}
=============================================================================
