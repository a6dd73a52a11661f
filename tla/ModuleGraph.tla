---------------------------- MODULE ModuleGraph ----------------------------
(***************************************************************************)
(* The module graph of runtime/modules: bundle_module_graph visits an      *)
(* entry and what it imports depth first, records cycles, missing modules, *)
(* unsupported specifiers and syntax errors, and joins the statements of   *)
(* the modules in the order their visits ended.                            *)
(*                                                                         *)
(* The recursion of visit is the variable frames: one record per call that *)
(* has not returned, with the statement it has reached.  Source text is    *)
(* its parsed form: whether parsing it reports an error, and its top-level *)
(* statements.                                                             *)
(***************************************************************************)
EXTENDS Paths

CONSTANTS
  Entry,            \* the entry path, after normalize_entry
  Programs,         \* possible sources: functions from paths to parsed texts
  TypeScriptNames   \* segments that end in .ts

\* Sources are functions, bodies sequences.
ASSUME ProgramsAssumption ==
  \A p \in Programs :
    /\ p = [m \in DOMAIN p |-> p[m]]
    /\ \A m \in DOMAIN p : p[m].body \in Seq({p[m].body[k] : k \in DOMAIN p[m].body})

\* Paths and specifiers are sequences of segments.
ASSUME PathsAssumption ==
  \A p \in Programs : \A m \in DOMAIN p :
    /\ m \in Seq({m[k] : k \in DOMAIN m})
    /\ \A s \in ToSet(p[m].body) : s.kind = "import" =>
         s.from \in Seq({s.from[k] : k \in DOMAIN s.from})

ImportStatement(segments) == [kind |-> "import", from |-> segments]
ExportStatement(name) == [kind |-> "export", name |-> name]
OtherStatement == [kind |-> "other"]

\* export of something without a name of its own, as export_name gives it
Anonymous == ""

VARIABLES
  program,      \* the sources, parsed
  states,       \* module |-> "visiting" or "visited"
  frames,       \* calls of visit in progress, outermost first
  records,      \* module |-> its imports and exports
  order,        \* modules in the order their visits ended
  diagnostics,
  phase         \* "start", "visit", "failed", "bundled"

vars == <<program, states, frames, records, order, diagnostics, phase>>

\* The paths that have a source.
Provided == DOMAIN program

NoMap == [m \in {} |-> m]

\* builder.stack: the modules of the calls in progress.
Stack == [k \in DOMAIN frames |-> frames[k].module]

NewFrame(m) == [module |-> m, next |-> 1, imports |-> <<>>, exports |-> <<>>]

Diagnostic(code, modules) == [code |-> code, modules |-> modules]

\* A specifier begins with "./" or "../" and ends in .ts.
Supported(segments) ==
  /\ Len(segments) >= 2
  /\ segments[1] \in {".", ".."}
  /\ segments[Len(segments)] \in TypeScriptNames

Resolved(m, segments) == ResolveFrom(m, segments)

Init ==
  /\ program \in Programs
  /\ states = NoMap
  /\ frames = <<>>
  /\ records = NoMap
  /\ order = <<>>
  /\ diagnostics = <<>>
  /\ phase = "start"

\* Looks at the syntax errors of the entry alone.
ParseReportsOfEntry(m) ==
  IF m = Entry /\ program[m].broken THEN <<Diagnostic("parse", <<m>>)>> ELSE <<>>

\* Reports of the parser, one for each syntax error of the source.
ParseReports(m) ==
  IF program[m].broken THEN <<Diagnostic("parse", <<m>>)>> ELSE <<>>

Visiting(m) == m \in DOMAIN states /\ states[m] = "visiting"
Visited(m) == m \in DOMAIN states /\ states[m] = "visited"

\* visit of a module seen for the first time, up to its first statement.
Enter(m, below) ==
  /\ m \notin DOMAIN states
  /\ m \in Provided
  /\ states' = [n \in DOMAIN states \union {m} |->
                  IF n = m THEN "visiting" ELSE states[n]]
  /\ frames' = Append(below, NewFrame(m))
  /\ diagnostics' = diagnostics \o ParseReports(m)

\* report_cycle: the stack from the module on, and the module again.
Cycle(m) ==
  LET start == CHOOSE k \in DOMAIN Stack : Stack[k] = m
  IN  Append(SubSeq(Stack, start, Len(Stack)), m)

\* visit of a module that needs no frame: visited, visiting or not provided.
Dismiss(m) ==
  /\ \/ /\ Visited(m)
        /\ diagnostics' = diagnostics
     \/ /\ Visiting(m)
        /\ diagnostics' = Append(diagnostics, Diagnostic("cycle", Cycle(m)))
     \/ /\ m \notin DOMAIN states
        /\ m \notin Provided
        /\ diagnostics' = Append(diagnostics, Diagnostic("missing", <<m>>))
  /\ states' = states

Start ==
  /\ phase = "start"
  /\ phase' = "visit"
  /\ Enter(Entry, <<>>) \/ (Dismiss(Entry) /\ UNCHANGED frames)
  /\ UNCHANGED <<program, records, order>>

Top == frames[Len(frames)]
Body == program[Top.module].body

\* The innermost call is at a statement of this kind.
AtStatement(kind) ==
  /\ phase = "visit"
  /\ frames # <<>>
  /\ Top.next \in DOMAIN Body
  /\ Body[Top.next].kind = kind

Here == Body[Top.next]

\* The innermost call goes on to its next statement.  The resolved import is
\* noted when the visit of it returns; nothing reads it before.
Advanced(imports, exports) ==
  [frames EXCEPT ![Len(frames)] =
     [module |-> Top.module, next |-> Top.next + 1,
      imports |-> Top.imports \o imports, exports |-> Top.exports \o exports]]

ImportUnsupported ==
  /\ AtStatement("import")
  /\ ~Supported(Here.from)
  /\ diagnostics' = Append(diagnostics, Diagnostic("unsupported", <<Top.module>>))
  /\ frames' = Advanced(<<>>, <<>>)
  /\ UNCHANGED <<program, states, records, order, phase>>

\* An import whose visit returns at once.
ImportDismissed ==
  /\ AtStatement("import")
  /\ Supported(Here.from)
  /\ LET target == Resolved(Top.module, Here.from)
     IN  Dismiss(target) /\ frames' = Advanced(<<target>>, <<>>)
  /\ UNCHANGED <<program, records, order, phase>>

\* An import whose module is visited now.
ImportNew ==
  /\ AtStatement("import")
  /\ Supported(Here.from)
  /\ LET target == Resolved(Top.module, Here.from)
     IN  Enter(target, Advanced(<<target>>, <<>>))
  /\ UNCHANGED <<program, records, order, phase>>

Export ==
  /\ AtStatement("export")
  /\ frames' = Advanced(<<>>, IF Here.name = Anonymous THEN <<>> ELSE <<Here.name>>)
  /\ UNCHANGED <<program, states, records, order, diagnostics, phase>>

Other ==
  /\ AtStatement("other")
  /\ frames' = Advanced(<<>>, <<>>)
  /\ UNCHANGED <<program, states, records, order, diagnostics, phase>>

Ended(m) == [states EXCEPT ![m] = "visited"]

\* Puts a finished module in front of what was finished before it.
OrderedFirst(m) == <<m>> \o order

Ordered(m) == Append(order, m)

\* The end of visit: the module is visited, recorded and ordered.
Leave ==
  /\ phase = "visit"
  /\ frames # <<>>
  /\ Top.next \notin DOMAIN Body
  /\ frames' = Front(frames)
  /\ states' = Ended(Top.module)
  /\ records' = [m \in DOMAIN records \union {Top.module} |->
                   IF m = Top.module
                     THEN [imports |-> Top.imports, exports |-> Top.exports]
                     ELSE records[m]]
  /\ order' = Ordered(Top.module)
  /\ UNCHANGED <<program, diagnostics, phase>>

\* The outermost visit has returned: diagnostics or a bundle.
Finish ==
  /\ phase = "visit"
  /\ frames = <<>>
  /\ phase' = IF diagnostics = <<>> THEN "bundled" ELSE "failed"
  /\ UNCHANGED <<program, states, frames, records, order, diagnostics>>

Next ==
  \/ Start \/ ImportUnsupported \/ ImportDismissed \/ ImportNew
  \/ Export \/ Other \/ Leave \/ Finish

Spec == Init /\ [][Next]_vars

-----------------------------------------------------------------------------
\* Keeps what other modules can see and drops what they do not import.
BundledOfExports(m) ==
  LET body == program[m].body
  IN  FlattenSeq([k \in DOMAIN body |-> IF body[k].kind = "export" THEN <<<<m, k>>>> ELSE <<>>])

\* bundle: the statements of the ordered modules, without their imports.  A
\* bundled statement is its module and its place there.
BundledOf(m) ==
  LET body == program[m].body
  IN  FlattenSeq([k \in DOMAIN body |-> IF body[k].kind = "import" THEN <<>> ELSE <<<<m, k>>>>])

Bundle == FlattenSeq([k \in DOMAIN order |-> BundledOf(order[k])])
-----------------------------------------------------------------------------
Imports(m) == {s \in ToSet(program[m].body) : s.kind = "import"}

\* The modules a module depends on.
Targets(m) == {Resolved(m, s.from) : s \in {i \in Imports(m) : Supported(i.from)}}

\* The provided modules reachable from S, without a path or an order.
Closed(C) == \A m \in C : Targets(m) \intersect Provided \subseteq C
ReachableFrom(S) ==
  {m \in Provided : \A C \in SUBSET Provided :
                      S \intersect Provided \subseteq C /\ Closed(C) => m \in C}
Reachable == ReachableFrom({Entry})

Before(sequence, a, b) ==
  \E i, j \in DOMAIN sequence : i < j /\ sequence[i] = a /\ sequence[j] = b

\* A module whose visit has ended comes after everything it imports, and is
\* ordered once, at every moment at which nothing has been reported.
DependenciesFirst ==
  /\ \A i, j \in DOMAIN order : order[i] = order[j] => i = j
  /\ diagnostics = <<>> =>
       \A m \in ToSet(order) : \A t \in Targets(m) : Before(order, t, m)

\* The statements of a module that belong in a bundle.
Bundled(m) ==
  {k \in DOMAIN program[m].body : program[m].body[k].kind # "import"}

\* The bundle is complete and ordered: every statement but the imports of
\* every reachable module, each once, those of a module in their order and
\* after those of the modules it imports.
BundleCorrect ==
  phase = "bundled" =>
    /\ ToSet(order) = Reachable
    /\ ToSet(Bundle) = UNION {{m} \X Bundled(m) : m \in Reachable}
    /\ IsInjective(Bundle)
    /\ \A i, j \in DOMAIN Bundle :
         (Bundle[i][1] = Bundle[j][1] /\ Bundle[i][2] < Bundle[j][2]) => i < j
    /\ \A i, j \in DOMAIN Bundle :
         Bundle[i][1] \in Targets(Bundle[j][1]) => i < j

\* What must stop a bundle: an entry or import without a source, a specifier
\* that is not local, a syntax error, or a module that depends on itself.
Defective ==
  \/ Entry \notin Provided
  \/ \E m \in Reachable :
       \/ program[m].broken
       \/ \E s \in Imports(m) : ~Supported(s.from)
       \/ ~(Targets(m) \subseteq Provided)
       \/ m \in ReachableFrom(Targets(m))

\* A graph is bundled exactly if nothing reachable is wrong with it: no
\* defect is missed however late it is met, and a diamond is no cycle.  A cycle
\* that is reported is one: each module imports the next, the last is the first
\* again, and no other module occurs twice.
FailsExactlyWhenItMust ==
  /\ phase = "failed" => Defective
  /\ phase = "bundled" => ~Defective
  /\ \A k \in DOMAIN diagnostics : diagnostics[k].code = "cycle" =>
       LET cycle == diagnostics[k].modules
       IN  /\ Len(cycle) >= 2
           /\ cycle[1] = cycle[Len(cycle)]
           /\ IsInjective(Front(cycle))
           /\ \A i \in 1 .. Len(cycle) - 1 : cycle[i + 1] \in Targets(cycle[i])

\* Resolution means what it should: an import of a module with a normal path
\* is the path that remains of the directory and the specifier written one
\* after the other, so that one module never has two keys.
ResolutionCanonical ==
  \A m \in DOMAIN records : Normal(m) =>
    LET body == program[m].body
        imports == Picked(body, {k \in DOMAIN body : body[k].kind = "import" /\ Supported(body[k].from)})
    IN  /\ records[m].imports =
             [k \in DOMAIN imports |-> Remaining(Front(m) \o imports[k].from)]
        /\ \A k \in DOMAIN records[m].imports : Normal(records[m].imports[k])
=============================================================================
