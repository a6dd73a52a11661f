------------------------------- MODULE Paths -------------------------------
(***************************************************************************)
(* Module and resource paths.  A path is the sequence of its segments; the *)
(* leading slash of an absolute path is left out, because every path the   *)
(* code keeps has it.  Resolution is the same loop in runtime/modules and  *)
(* in browser/script-loader.                                               *)
(***************************************************************************)
EXTENDS Naturals, Sequences, FiniteSets, SequencesExt

\* The elements of a sequence at the places in K, in their order.
Picked(s, K) ==
  LET upTo[n \in 0 .. Len(s)] ==
        IF n = 0 THEN <<>> ELSE IF n \in K THEN Append(upTo[n - 1], s[n]) ELSE upTo[n - 1]
  IN  upTo[Len(s)]

Dots == {".", "", ".."}

\* Climbs with a push, as a resolver that forgets ".." would.
StepSegmentNeverUp(path, segment) ==
  IF segment \in {".", ""} THEN path ELSE Append(path, segment)

\* One segment of a specifier: "." and the empty one stay, ".." pops (at the
\* root there is nothing to pop), a name descends.
StepSegment(path, segment) ==
  CASE segment \in {".", ""} -> path
    [] segment = ".."        -> IF path = <<>> THEN <<>> ELSE Front(path)
    [] segment \notin Dots   -> Append(path, segment)

Walk(path, segments) ==
  LET after[n \in 0 .. Len(segments)] ==
        IF n = 0 THEN path ELSE StepSegment(after[n - 1], segments[n])
  IN  after[Len(segments)]

NonEmptySegments(path) == Picked(path, {k \in DOMAIN path : path[k] # ""})

\* The directory a document or a module lies in.
DirectoryOf(path) ==
  LET parts == NonEmptySegments(path)
  IN  IF parts = <<>> THEN <<>> ELSE Front(parts)

ResolveFrom(path, segments) == Walk(DirectoryOf(path), segments)
-----------------------------------------------------------------------------
Normal(path) == \A k \in DOMAIN path : path[k] \notin Dots

\* What resolution should mean, without walking: of the segments written one
\* after the other those names remain that no later ".." takes back, and one
\* takes a name back when from there to it the ".."s outnumber the names.
Remaining(segments) ==
  LET names == {k \in DOMAIN segments : segments[k] \notin Dots}
      ups == {k \in DOMAIN segments : segments[k] = ".."}
      Count(K, i, j) == Cardinality(K \intersect i..j)
  IN  Picked(segments,
        {i \in names : \A j \in i + 1 .. Len(segments) : Count(ups, i + 1, j) <= Count(names, i + 1, j)})
=============================================================================
