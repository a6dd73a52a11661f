------------------------- MODULE PageScriptsProofs -------------------------
(***************************************************************************)
(* Proofs about page sessions, for any pages, programs and bundles and any *)
(* number of calls: a blocked page leaves no trace, scripts are cut at     *)
(* their own closing tags, what is fetched is of the page's origin, and a  *)
(* page does what it would do alone and with no cache.                     *)
(***************************************************************************)
EXTENDS PageScripts, SequenceFacts

(***************************************************************************)
(* Part 1: worlds.  The functions that give the worlds after each call and *)
(* each script exist, and a world that has failed stays as it is.          *)
(***************************************************************************)

\* The worlds after the first m calls.
CallSteps(world, calls, m, f) ==
  f = [n \in 0..m |-> IF n = 0 THEN world ELSE AfterCall(f[n - 1], calls[n])]

\* There are such worlds, for any number of calls.
LEMMA CallStepsExist ==
  ASSUME NEW world, NEW calls
  PROVE  \A m \in Nat : \E f : CallSteps(world, calls, m, f)
<1> DEFINE Bad == {m \in Nat : ~ \E f : CallSteps(world, calls, m, f)}
<1> SUFFICES ASSUME Bad # {} PROVE FALSE
  OBVIOUS
<1>1. PICK m \in Bad : \A k \in Bad : ~(k < m)
  BY LeastOf
<1>2. CASE m = 0
  <2> DEFINE f == [n \in 0..0 |-> world]
  <2>1. CallSteps(world, calls, 0, f)
    BY DEF CallSteps
  <2> QED BY <1>2, <2>1
<1>3. CASE m # 0
  <2>1. m \in Nat /\ m - 1 \in Nat /\ m - 1 < m
    BY <1>3
  <2>2. PICK g : CallSteps(world, calls, m - 1, g)
    BY <1>1, <2>1
  <2>3. \A n \in 0..(m - 1) : g[n] = IF n = 0 THEN world ELSE AfterCall(g[n - 1], calls[n])
    BY <2>2 DEF CallSteps
  <2> DEFINE f == [n \in 0..m |-> IF n < m THEN g[n] ELSE AfterCall(g[m - 1], calls[m])]
  <2>4. \A n \in 0..m : f[n] = IF n = 0 THEN world ELSE AfterCall(f[n - 1], calls[n])
    <3> TAKE n \in 0..m
    <3>1. CASE n = 0
      BY <3>1, <2>1, <2>3
    <3>2. CASE n # 0 /\ n < m
      <4>1. n - 1 \in 0..m /\ n - 1 < m /\ n \in 0..(m - 1)
        BY <3>2, <2>1
      <4> QED BY <3>2, <4>1, <2>3
    <3>3. CASE n = m
      <4>1. m - 1 \in 0..m /\ m - 1 < m /\ ~(m < m)
        BY <2>1
      <4>2. f[m - 1] = g[m - 1] /\ f[m] = AfterCall(g[m - 1], calls[m])
        BY <4>1, <2>1
      <4> HIDE DEF f
      <4> QED BY <3>3, <4>2, <1>3
    <3> QED BY <3>1, <3>2, <3>3
  <2>5. f = [n \in 0..m |-> f[n]]
    OBVIOUS
  <2> HIDE DEF f
  <2>6. CallSteps(world, calls, m, f)
    BY <2>4, <2>5, Zenon DEF CallSteps
  <2> QED BY <1>1, <2>6
<1> QED BY <1>2, <1>3

\* The world of a program: at first the given one, then call after call.
LEMMA CallWorldsFacts ==
  ASSUME NEW world, NEW calls, Len(calls) \in Nat
  PROVE  LET after == CallWorlds(world, calls)
         IN  /\ after[0] = world
             /\ \A n \in 1..Len(calls) : after[n] = AfterCall(after[n - 1], calls[n])
<1> DEFINE after == CallWorlds(world, calls)
<1>1. CallSteps(world, calls, Len(calls), after)
  <2>1. \E f : CallSteps(world, calls, Len(calls), f)
    BY CallStepsExist
  <2> QED BY <2>1 DEF CallSteps, CallWorlds
<1> HIDE DEF after
<1>2. \A n \in 0..Len(calls) : after[n] = IF n = 0 THEN world ELSE AfterCall(after[n - 1], calls[n])
  BY <1>1 DEF CallSteps
<1>3. 0 \in 0..Len(calls) /\ \A n \in 1..Len(calls) : n \in 0..Len(calls) /\ n # 0
  OBVIOUS
<1> QED BY <1>2, <1>3 DEF after

\* After a call that fails nothing else happens.
LEMMA FailedCallsStay ==
  ASSUME NEW world, NEW calls, Len(calls) \in Nat, NEW j \in 0..Len(calls),
         CallWorlds(world, calls)[j].outcome # "ok"
  PROVE  CallWorlds(world, calls)[Len(calls)] = CallWorlds(world, calls)[j]
<1> DEFINE after == CallWorlds(world, calls)
           Bad == {m \in Nat : m >= j /\ m <= Len(calls) /\ after[m] # after[j]}
<1>1. \A n \in 1..Len(calls) : after[n] = AfterCall(after[n - 1], calls[n])
  BY CallWorldsFacts
<1>2. after[j].outcome # "ok"
  OBVIOUS
<1> HIDE DEF after
<1>3. Bad = {}
  <2> SUFFICES ASSUME Bad # {} PROVE FALSE
    OBVIOUS
  <2>1. PICK m \in Bad : \A k \in Bad : ~(k < m)
    BY LeastOf
  <2>2. m # j
    BY <2>1
  <2>3. m - 1 \in Nat /\ m - 1 >= j /\ m - 1 <= Len(calls) /\ m \in 1..Len(calls) /\ m - 1 < m
    BY <2>1, <2>2
  <2>4. after[m - 1] = after[j]
    BY <2>1, <2>3
  <2>5. after[m] = after[j]
    BY <1>1, <1>2, <2>3, <2>4 DEF AfterCall
  <2> QED BY <2>1, <2>5
<1>4. Len(calls) \in Nat /\ Len(calls) >= j /\ Len(calls) <= Len(calls)
  OBVIOUS
<1> QED BY <1>3, <1>4 DEF after

\* The worlds after the first m scripts.
ScriptSteps(world, scripts, allowed, m, f) ==
  f = [n \in 0..m |-> IF n = 0 THEN world ELSE AfterScript(f[n - 1], scripts[n], allowed)]

\* There are such worlds, for any number of scripts.
LEMMA ScriptStepsExist ==
  ASSUME NEW world, NEW scripts, NEW allowed
  PROVE  \A m \in Nat : \E f : ScriptSteps(world, scripts, allowed, m, f)
<1> DEFINE Bad == {m \in Nat : ~ \E f : ScriptSteps(world, scripts, allowed, m, f)}
<1> SUFFICES ASSUME Bad # {} PROVE FALSE
  OBVIOUS
<1>1. PICK m \in Bad : \A k \in Bad : ~(k < m)
  BY LeastOf
<1>2. CASE m = 0
  <2> DEFINE f == [n \in 0..0 |-> world]
  <2>1. ScriptSteps(world, scripts, allowed, 0, f)
    BY DEF ScriptSteps
  <2> QED BY <1>2, <2>1
<1>3. CASE m # 0
  <2>1. m \in Nat /\ m - 1 \in Nat /\ m - 1 < m
    BY <1>3
  <2>2. PICK g : ScriptSteps(world, scripts, allowed, m - 1, g)
    BY <1>1, <2>1
  <2>3. \A n \in 0..(m - 1) : g[n] = IF n = 0 THEN world ELSE AfterScript(g[n - 1], scripts[n], allowed)
    BY <2>2 DEF ScriptSteps
  <2> DEFINE f == [n \in 0..m |-> IF n < m THEN g[n] ELSE AfterScript(g[m - 1], scripts[m], allowed)]
  <2>4. \A n \in 0..m : f[n] = IF n = 0 THEN world ELSE AfterScript(f[n - 1], scripts[n], allowed)
    <3> TAKE n \in 0..m
    <3>1. CASE n = 0
      BY <3>1, <2>1, <2>3
    <3>2. CASE n # 0 /\ n < m
      <4>1. n - 1 \in 0..m /\ n - 1 < m /\ n \in 0..(m - 1)
        BY <3>2, <2>1
      <4> QED BY <3>2, <4>1, <2>3
    <3>3. CASE n = m
      <4>1. m - 1 \in 0..m /\ m - 1 < m /\ ~(m < m)
        BY <2>1
      <4>2. f[m - 1] = g[m - 1] /\ f[m] = AfterScript(g[m - 1], scripts[m], allowed)
        BY <4>1, <2>1
      <4> HIDE DEF f
      <4> QED BY <3>3, <4>2, <1>3
    <3> QED BY <3>1, <3>2, <3>3
  <2>5. f = [n \in 0..m |-> f[n]]
    OBVIOUS
  <2> HIDE DEF f
  <2>6. ScriptSteps(world, scripts, allowed, m, f)
    BY <2>4, <2>5, Zenon DEF ScriptSteps
  <2> QED BY <1>1, <2>6
<1> QED BY <1>2, <1>3

\* The world of a page: at first the given one, then script after script.
LEMMA ScriptWorldsFacts ==
  ASSUME NEW world, NEW scripts, NEW allowed, Len(scripts) \in Nat
  PROVE  LET after == ScriptWorlds(world, scripts, allowed)
         IN  /\ after[0] = world
             /\ \A n \in 1..Len(scripts) : after[n] = AfterScript(after[n - 1], scripts[n], allowed)
<1> DEFINE after == ScriptWorlds(world, scripts, allowed)
<1>1. ScriptSteps(world, scripts, allowed, Len(scripts), after)
  <2>1. \E f : ScriptSteps(world, scripts, allowed, Len(scripts), f)
    BY ScriptStepsExist
  <2> QED BY <2>1 DEF ScriptSteps, ScriptWorlds
<1> HIDE DEF after
<1>2. \A n \in 0..Len(scripts) :
       after[n] = IF n = 0 THEN world ELSE AfterScript(after[n - 1], scripts[n], allowed)
  BY <1>1 DEF ScriptSteps
<1>3. 0 \in 0..Len(scripts) /\ \A n \in 1..Len(scripts) : n \in 0..Len(scripts) /\ n # 0
  OBVIOUS
<1> QED BY <1>2, <1>3 DEF after

\* After a script that fails nothing else happens.
LEMMA FailedScriptsStay ==
  ASSUME NEW world, NEW scripts, NEW allowed, Len(scripts) \in Nat, NEW j \in 0..Len(scripts),
         ScriptWorlds(world, scripts, allowed)[j].outcome # "ok"
  PROVE  ScriptWorlds(world, scripts, allowed)[Len(scripts)] = ScriptWorlds(world, scripts, allowed)[j]
<1> DEFINE after == ScriptWorlds(world, scripts, allowed)
           Bad == {m \in Nat : m >= j /\ m <= Len(scripts) /\ after[m] # after[j]}
<1>1. \A n \in 1..Len(scripts) : after[n] = AfterScript(after[n - 1], scripts[n], allowed)
  BY ScriptWorldsFacts
<1>2. after[j].outcome # "ok"
  OBVIOUS
<1> HIDE DEF after
<1>3. Bad = {}
  <2> SUFFICES ASSUME Bad # {} PROVE FALSE
    OBVIOUS
  <2>1. PICK m \in Bad : \A k \in Bad : ~(k < m)
    BY LeastOf
  <2>2. m # j
    BY <2>1
  <2>3. m - 1 \in Nat /\ m - 1 >= j /\ m - 1 <= Len(scripts) /\ m \in 1..Len(scripts) /\ m - 1 < m
    BY <2>1, <2>2
  <2>4. after[m - 1] = after[j]
    BY <2>1, <2>3
  <2>5. after[m] = after[j]
    BY <1>1, <1>2, <2>3, <2>4 DEF AfterScript
  <2> QED BY <2>1, <2>5
<1>4. Len(scripts) \in Nat /\ Len(scripts) >= j /\ Len(scripts) <= Len(scripts)
  OBVIOUS
<1> QED BY <1>3, <1>4 DEF after
-----------------------------------------------------------------------------
(***************************************************************************)
(* Part 2: the search for scripts.  Each search goes forward, so the       *)
(* function that collects them exists, and a body is cut before the first  *)
(* closing tag there is.                                                   *)
(***************************************************************************)

\* A script cut out as it should be: its body is text of the page with no
\* closing tag in it.
Cut(script) ==
  /\ IsSeq(script.body)
  /\ \A j \in DOMAIN script.body :
       /\ script.body[j].piece # "close"
       /\ script.body[j].piece = "text" => script.body[j].source \in Sources

\* The text of a page: pieces, of which those that are text have a source.
PageText(html) ==
  IsSeq(html) /\ \A k \in DOMAIN html : html[k].piece = "text" => html[k].source \in Sources

\* The empty sequence and one with a single element.
LEMMA ShortSeqs ==
  /\ IsSeq(<<>>) /\ DOMAIN <<>> = {}
  /\ \A x : IsSeq(<<x>>) /\ DOMAIN <<x>> = {1} /\ <<x>>[1] = x
<1>1. <<>> \in Seq({}) /\ Len(<<>>) = 0
  BY EmptySeq
<1>2. IsSeq(<<>>)
  BY <1>1, SeqIsSeq
<1>3. DOMAIN <<>> = 1..0
  BY <1>1, LenProperties
<1>4. ASSUME NEW x PROVE IsSeq(<<x>>) /\ DOMAIN <<x>> = {1} /\ <<x>>[1] = x
  <2>1. <<x>> \in Seq({x})
    OBVIOUS
  <2>2. IsSeq(<<x>>)
    BY <2>1, SeqIsSeq
  <2> QED BY <2>2
<1> QED BY <1>2, <1>3, <1>4

\* The least of some numbers.
LEMMA MinFacts ==
  ASSUME NEW S \in SUBSET Nat, S # {}
  PROVE  Min(S) \in S /\ \A x \in S : Min(S) <= x
<1>1. PICK x \in S : \A y \in S : ~(y < x)
  BY LeastOf
<1>2. \A y \in S : x <= y
  BY <1>1
<1> QED BY <1>2 DEF Min

\* Where a search that begins at a place of the text finds its script.
LEMMA SearchPlaces ==
  ASSUME NEW html, IsSeq(html), NEW from \in 1..(Len(html) + 1), HasScript(html, from)
  PROVE  /\ TagEnd(html, from) \in from..Len(html)
         /\ BodyClose(html, from) \in (TagEnd(html, from) + 1)..Len(html)
         /\ \A k \in (TagEnd(html, from) + 1)..(BodyClose(html, from) - 1) : html[k].piece # "close"
<1> DEFINE N == Len(html)
           start == TagStart(html, from)
           end == TagEnd(html, from)
           close == BodyClose(html, from)
<1>0. N \in Nat
  BY SeqFacts
<1>1. start \in from..N
  <2>1. TagStarts(html, from) \in SUBSET Nat /\ TagStarts(html, from) \subseteq from..N
    BY <1>0 DEF TagStarts, PiecesOf
  <2> QED BY <2>1, MinFacts DEF HasScript, TagStart
<1>2. end \in start..N
  <2>1. TagEnds(html, start) \in SUBSET Nat /\ TagEnds(html, start) \subseteq start..N
    BY <1>0, <1>1 DEF TagEnds, PiecesOf
  <2> QED BY <2>1, MinFacts DEF HasScript, TagEnd
<1>3. close \in BodyCloses(html, from) /\ \A k \in BodyCloses(html, from) : close <= k
  <2>1. BodyCloses(html, from) \in SUBSET Nat
    BY <1>0, <1>1, <1>2 DEF BodyCloses, PiecesOf
  <2> QED BY <2>1, MinFacts DEF HasScript, BodyClose, BodyEnd
<1>4. BodyCloses(html, from) = {k \in (end + 1)..N : html[k].piece \in {"close"}}
  BY DEF BodyCloses, PiecesOf
<1> HIDE DEF start, end, close, N
<1>5. \A k \in (end + 1)..(close - 1) : html[k].piece # "close"
  BY <1>0, <1>1, <1>2, <1>3, <1>4
<1>6. end \in from..N /\ close \in (end + 1)..N
  BY <1>0, <1>1, <1>2, <1>3, <1>4
<1> QED BY <1>5, <1>6 DEF end, close, N

\* What it cuts out is as it should be.
LEMMA SliceCut ==
  ASSUME NEW html, PageText(html), NEW from \in 1..(Len(html) + 1), HasScript(html, from)
  PROVE  Cut(ScriptSlice(html, from))
<1> DEFINE end == TagEnd(html, from)
           close == BodyClose(html, from)
           body == SubSeq(html, end + 1, close - 1)
           V == {html[k] : k \in DOMAIN html}
<1>1. /\ end \in from..Len(html) /\ close \in (end + 1)..Len(html)
      /\ \A k \in (end + 1)..(close - 1) : html[k].piece # "close"
  BY SearchPlaces DEF PageText
<1>2. DOMAIN html = 1..Len(html) /\ Len(html) \in Nat
  BY SeqFacts DEF PageText
<1> HIDE DEF end, close
<1>3. end + 1 \in Int /\ close - 1 \in Int /\ \A k \in (end + 1)..(close - 1) : k \in DOMAIN html /\ html[k] \in V
  BY <1>1, <1>2
<1> HIDE DEF V
<1>4. /\ body \in Seq(V)
      /\ \A k \in 1..((close - 1) - (end + 1) + 1) : body[k] = html[(end + 1) + k - 1]
      /\ Len(body) = IF end + 1 <= close - 1 THEN (close - 1) - (end + 1) + 1 ELSE 0
  BY <1>3, SubSeqProperties
<1>5. IsSeq(body) /\ DOMAIN body = 1..Len(body)
  BY <1>4, SeqIsSeq, LenProperties
<1> HIDE DEF body
<1>6. ASSUME NEW j \in DOMAIN body
      PROVE  \E k \in (end + 1)..(close - 1) : body[j] = html[k]
  <2>1. j \in 1..((close - 1) - (end + 1) + 1)
    BY <1>1, <1>2, <1>4, <1>5
  <2>2. (end + 1) + j - 1 \in (end + 1)..(close - 1)
    BY <1>1, <1>2, <2>1
  <2> QED BY <1>4, <2>1, <2>2
<1>7. \A j \in DOMAIN body : /\ body[j].piece # "close"
                             /\ body[j].piece = "text" => body[j].source \in Sources
  BY <1>1, <1>3, <1>6 DEF PageText
<1>8. ScriptSlice(html, from).body = body
  BY DEF ScriptSlice, body, end, close
<1> QED BY <1>5, <1>7, <1>8 DEF Cut

\* What a search finds, and all that those after it find.
NextFound(html, f, from) ==
  IF HasScript(html, from)
    THEN <<ScriptSlice(html, from)>> \o f[BodyClose(html, from) + 1]
    ELSE <<>>

\* The scripts from each of the last m places on.
FoundFrom(html, m, f) ==
  /\ f = [from \in 1..(Len(html) + 1) |-> f[from]]
  /\ \A from \in 1..(Len(html) + 1) : from > Len(html) + 1 - m => f[from] = NextFound(html, f, from)

\* There are such, since a search begins after where the last ended.
LEMMA FoundExists ==
  ASSUME NEW html, IsSeq(html)
  PROVE  \A m \in Nat : m <= Len(html) + 1 => \E f : FoundFrom(html, m, f)
<1> DEFINE N == Len(html)
           Bad == {m \in Nat : m <= N + 1 /\ ~ \E f : FoundFrom(html, m, f)}
<1> SUFFICES ASSUME Bad # {} PROVE FALSE
  OBVIOUS
<1>0. N \in Nat
  BY SeqFacts
<1>1. PICK m \in Bad : \A k \in Bad : ~(k < m)
  BY LeastOf
<1>2. CASE m = 0
  <2> DEFINE f == [from \in 1..(N + 1) |-> <<>>]
  <2>1. f = [from \in 1..(N + 1) |-> f[from]] /\ \A from \in 1..(N + 1) : ~(from > N + 1 - 0)
    BY <1>0
  <2> HIDE DEF f
  <2>2. FoundFrom(html, 0, f)
    BY <2>1 DEF FoundFrom
  <2> QED BY <1>2, <2>2
<1>3. CASE m # 0
  <2>1. m \in Nat /\ m - 1 \in Nat /\ m - 1 < m /\ m - 1 <= N + 1
    BY <1>0, <1>3
  <2>2. PICK g : FoundFrom(html, m - 1, g)
    BY <1>1, <2>1
  <2> DEFINE at == N + 2 - m
             f == [from \in 1..(N + 1) |-> IF from = at THEN NextFound(html, g, at) ELSE g[from]]
  <2>3. at \in 1..(N + 1)
    BY <1>0, <1>1, <1>3
  <2>4. \A from \in 1..(N + 1) : HasScript(html, from) =>
          BodyClose(html, from) + 1 \in 1..(N + 1) /\ BodyClose(html, from) + 1 > from
    BY <1>0, SearchPlaces
  <2>5. ASSUME NEW from \in 1..(N + 1), from > N + 1 - m
        PROVE  f[from] = NextFound(html, f, from)
    <3>1. from >= at
      BY <1>0, <2>1, <2>5
    <3>2. HasScript(html, from) => f[BodyClose(html, from) + 1] = g[BodyClose(html, from) + 1]
      BY <2>3, <2>4, <3>1
    <3>3. NextFound(html, f, from) = NextFound(html, g, from)
      <4> HIDE DEF f
      <4> QED BY <3>2 DEF NextFound
    <3>4. CASE from = at
      BY <3>3, <3>4
    <3>5. CASE from # at
      <4>1. from > N + 1 - (m - 1)
        BY <1>0, <2>1, <3>1, <3>5
      <4>2. g[from] = NextFound(html, g, from)
        BY <2>2, <4>1 DEF FoundFrom
      <4> QED BY <3>3, <3>5, <4>2
    <3> QED BY <3>4, <3>5
  <2>6. f = [from \in 1..(N + 1) |-> f[from]]
    OBVIOUS
  <2> HIDE DEF f
  <2>7. FoundFrom(html, m, f)
    BY <2>5, <2>6 DEF FoundFrom
  <2> QED BY <1>1, <2>7
<1> QED BY <1>2, <1>3

\* All scripts of a page are cut as they should be.
LEMMA FoundCut ==
  ASSUME NEW html, PageText(html)
  PROVE  IsSeq(FindScripts(html)) /\ \A k \in DOMAIN FindScripts(html) : Cut(FindScripts(html)[k])
<1> DEFINE N == Len(html)
           Whole(f) == f = [from \in 1..(N + 1) |-> NextFound(html, f, from)]
           found == CHOOSE f : Whole(f)
           Good(s) == IsSeq(s) /\ \A k \in DOMAIN s : Cut(s[k])
           Bad == {from \in 1..(N + 1) : ~Good(found[from])}
<1>0. N \in Nat /\ N + 1 \in Nat /\ N + 1 <= N + 1 /\ 1 \in 1..(N + 1)
  BY SeqFacts DEF PageText
<1>1. \E f : Whole(f)
  <2>1. PICK f : FoundFrom(html, N + 1, f)
    BY <1>0, FoundExists DEF PageText
  <2>2. \A from \in 1..(N + 1) : from > N + 1 - (N + 1)
    BY <1>0
  <2>3. Whole(f)
    BY <2>1, <2>2 DEF FoundFrom
  <2> QED BY <2>3
<1>2. \A from \in 1..(N + 1) : found[from] = NextFound(html, found, from)
  <2>1. Whole(found)
    BY <1>1
  <2> HIDE DEF found
  <2> QED BY <2>1
<1>3. FindScripts(html) = found[1]
  BY DEF FindScripts, NextFound
<1> HIDE DEF found
<1>4. Bad = {}
  <2> SUFFICES ASSUME Bad # {} PROVE FALSE
    OBVIOUS
  <2>1. PICK from \in Bad : \A y \in Bad : y <= from
    BY <1>0, GreatestOf
  <2>2. CASE ~HasScript(html, from)
    <3>1. found[from] = <<>>
      BY <1>2, <2>2 DEF NextFound
    <3> QED BY <2>1, <3>1, ShortSeqs
  <2>3. CASE HasScript(html, from)
    <3> DEFINE script == ScriptSlice(html, from)
               rest == found[BodyClose(html, from) + 1]
    <3>1. BodyClose(html, from) + 1 \in 1..(N + 1) /\ BodyClose(html, from) + 1 > from
      BY <1>0, <2>3, SearchPlaces DEF PageText
    <3>2. Good(rest)
      BY <1>0, <2>1, <3>1
    <3>3. Cut(script)
      BY <2>3, SliceCut
    <3>4. found[from] = <<script>> \o rest
      BY <1>2, <2>3 DEF NextFound
    <3> HIDE DEF script, rest
    <3> DEFINE one == <<script>>
    <3>5. Good(one)
      BY <3>3, ShortSeqs
    <3> HIDE DEF one
    <3>6. Good(one \o rest)
      <4>1. IsSeq(one) /\ IsSeq(rest)
        BY <3>2, <3>5
      <4>2. \A k \in DOMAIN (one \o rest) : \/ \E j \in DOMAIN one : (one \o rest)[k] = one[j]
                                            \/ \E j \in DOMAIN rest : (one \o rest)[k] = rest[j]
        BY <4>1, ConcatHolds
      <4>3. IsSeq(one \o rest)
        BY <4>1, ConcatFacts
      <4> QED BY <3>2, <3>5, <4>2, <4>3
    <3> QED BY <2>1, <3>4, <3>6 DEF one
  <2> QED BY <2>2, <2>3
<1> QED BY <1>0, <1>3, <1>4
-----------------------------------------------------------------------------
(***************************************************************************)
(* Part 3: the invariant.                                                  *)
(***************************************************************************)

\* A world in which all went well.
World(nodes, console) == [document |-> nodes, console |-> console, outcome |-> "ok"]

\* The worlds of the call in progress, and the one before the script it is at.
Worlds == ScriptWorlds(NewWorld, page.scripts, page.allowed)
Here == Worlds[page.next - 1]

Typed ==
  /\ phase \in {"idle", "page", "run"}
  /\ {"scripts", "allowed", "next", "console", "ran", "outcome"} \subseteq DOMAIN page
  /\ {"source", "next", "console"} \subseteq DOMAIN run
  /\ page.allowed \in BOOLEAN
  /\ page.next \in 1 .. (Len(page.scripts) + 1)
  /\ IsSeq(page.scripts) /\ \A k \in DOMAIN page.scripts : Cut(page.scripts[k])
  /\ IsSeq(page.console) /\ IsSeq(run.console)

\* Only what prepares is resident.
GoodCache(c) ==
  /\ {"capacity", "modules", "order", "hits", "misses", "evictions"} \subseteq DOMAIN c
  /\ \A s \in c.modules : Preparation[s] = "ok"

\* As long as nothing may run nothing has changed.
Untouched == document = began.document /\ cache = began.cache /\ page.ran = <<>> /\ phase # "run"

\* The script that runs is the one the page is at, and what it fetched so far
\* was there for it to fetch.
RunInv ==
  phase = "run" =>
    /\ page.next \in DOMAIN page.scripts /\ page.allowed
    /\ IsTypeScript(Script) /\ HasSource(Script)
    /\ run.source = SourceOf(Script) /\ run.source \in Sources /\ Preparation[run.source] = "ok"
    /\ run.next \in 1 .. (Len(Calls) + 1)
    /\ \A k \in 1 .. (run.next - 1) : Calls[k].call = "fetchText" => Fetched(Calls[k].arguments)

\* The session is in the world the page would be in alone.
WorldInv ==
  /\ phase = "page" => Here = World(document, page.console)
  /\ phase = "run" =>
       /\ Here.outcome = "ok" /\ Here.console = page.console
       /\ CallWorlds(Here, Calls)[run.next - 1] = World(document, page.console \o run.console)
  /\ PageAsIfAlone

Inv ==
  /\ Typed /\ GoodCache(cache) /\ (page.allowed \/ Untouched)
  /\ RunInv /\ WorldInv
-----------------------------------------------------------------------------
\* What a script comes down to is a source.
LEMMA SourcesTyped ==
  ASSUME NEW script, Cut(script), HasSource(script)
  PROVE  SourceOf(script) \in Sources
<1>1. CASE IsExternal(script)
  BY <1>1, PageScriptsAssumption DEF HasSource, SourceOf
<1>2. CASE ~IsExternal(script)
  <2>1. CASE Len(script.body) = 1 /\ script.body[1].piece = "text"
    <3>1. 1 \in DOMAIN script.body
      BY <2>1, SeqFacts DEF Cut
    <3>2. script.body[1].source \in Sources
      BY <2>1, <3>1 DEF Cut
    <3> QED BY <1>2, <2>1, <3>2 DEF SourceOf, InlineSource
  <2>2. CASE ~(Len(script.body) = 1 /\ script.body[1].piece = "text")
    BY <1>2, <2>2, PageScriptsAssumption DEF SourceOf, InlineSource
  <2> QED BY <2>1, <2>2
<1> QED BY <1>1, <1>2

\* A program is a sequence of host calls.
LEMMA ProgramFacts ==
  ASSUME NEW source \in Sources
  PROVE  /\ IsSeq(Program[source])
         /\ DOMAIN Program[source] = 1 .. Len(Program[source]) /\ Len(Program[source]) \in Nat
         /\ \A k \in DOMAIN Program[source] : Program[source][k].call \in HostCalls
<1>1. IsSeq(Program[source])
  BY PageScriptsAssumption, SeqIsSeq
<1> QED BY <1>1, SeqFacts, PageScriptsAssumption

\* A lookup leaves what prepares.
LEMMA LookupKeeps ==
  ASSUME NEW c, GoodCache(c), NEW s
  PROVE  GoodCache(GetOrPrepare(c, s))
<1> DEFINE Fields == {"capacity", "modules", "order", "hits", "misses", "evictions"}
           missed == [c EXCEPT !.misses = @ + 1]
<1>1. Fields \subseteq DOMAIN missed /\ missed.modules = c.modules
  BY DEF GoodCache
<1>2. CASE s \in c.modules
  <2>1. GetOrPrepare(c, s) = [c EXCEPT !.hits = @ + 1]
    BY <1>2 DEF GetOrPrepare, Hit
  <2> QED BY <2>1 DEF GoodCache
<1>3. CASE s \notin c.modules /\ Preparation[s] # "ok"
  <2>1. GetOrPrepare(c, s) = missed
    BY <1>3 DEF GetOrPrepare
  <2> QED BY <1>1, <2>1 DEF GoodCache
<1>4. CASE s \notin c.modules /\ Preparation[s] = "ok"
  <2> DEFINE room == EvictWhenFull(missed)
             d == [room EXCEPT !.modules = @ \union {s}, !.order = Append(@, s)]
  <2>1. GetOrPrepare(c, s) = d
    BY <1>4 DEF GetOrPrepare, Insert
  <2>2. Fields \subseteq DOMAIN room /\ room.modules \subseteq c.modules
    <3> HIDE DEF missed
    <3> QED BY <1>1 DEF EvictWhenFull
  <2> HIDE DEF room
  <2>3. Fields \subseteq DOMAIN d /\ d.modules = room.modules \union {s}
    BY <2>2
  <2> HIDE DEF d
  <2> QED BY <1>4, <2>1, <2>2, <2>3 DEF GoodCache
<1> QED BY <1>2, <1>3, <1>4

\* The worlds go on from where the page is.
LEMMA HereNext ==
  ASSUME Typed, page.next \in DOMAIN page.scripts
  PROVE  /\ Worlds[page.next] = AfterScript(Here, Script, page.allowed)
         /\ page.next \in 1 .. Len(page.scripts) /\ Len(page.scripts) \in Nat
<1>1. DOMAIN page.scripts = 1 .. Len(page.scripts) /\ Len(page.scripts) \in Nat
  BY SeqFacts DEF Typed
<1> QED BY <1>1, ScriptWorldsFacts DEF Worlds, Here, Script

\* One more value on the console.
LEMMA AppendConcat ==
  ASSUME NEW s, NEW t, IsSeq(s), IsSeq(t), NEW v
  PROVE  Append(s \o t, v) = s \o Append(t, v)
<1> DEFINE W == {s[k] : k \in DOMAIN s} \union {t[k] : k \in DOMAIN t} \union {v}
<1>1. s \in Seq(W) /\ t \in Seq(W) /\ v \in W
  BY SeqMonotonic DEF IsSeq
<1> HIDE DEF W
<1>2. s \o t \in Seq(W) /\ <<v>> \in Seq(W)
  BY <1>1, ConcatProperties
<1>3. Append(s \o t, v) = (s \o t) \o <<v>> /\ Append(t, v) = t \o <<v>>
  BY <1>1, <1>2, AppendIsConcat
<1>4. (s \o t) \o <<v>> = s \o (t \o <<v>>)
  BY <1>1, <1>2, ConcatAssociative
<1> QED BY <1>3, <1>4
-----------------------------------------------------------------------------
(***************************************************************************)
(* Part 4: every step keeps the invariant.                                 *)
(***************************************************************************)

\* A session that has run nothing.
LEMMA InitInv == Init => Inv
<1> SUFFICES ASSUME Init PROVE Inv
  OBVIOUS
<1>1. /\ page.scripts = <<>> /\ page.allowed = TRUE /\ page.next = 1 /\ page.console = <<>>
      /\ {"scripts", "allowed", "next", "console", "ran", "outcome"} \subseteq DOMAIN page
  BY DEF Init, NewPage
<1>2. run.console = <<>> /\ {"source", "next", "console"} \subseteq DOMAIN run
  BY DEF Init, NoRun
<1>3. phase = "idle" /\ pages = 0 /\ cache = EmptyCache(Capacity)
  BY DEF Init
<1>4. Len(page.scripts) = 0
  BY <1>1, EmptySeq
<1>5. Typed
  <2>1. page.next \in 1 .. (Len(page.scripts) + 1)
    BY <1>1, <1>4
  <2>2. IsSeq(page.scripts) /\ \A k \in DOMAIN page.scripts : Cut(page.scripts[k])
    BY <1>1, ShortSeqs
  <2>3. IsSeq(page.console) /\ IsSeq(run.console)
    BY <1>1, <1>2, ShortSeqs
  <2> QED BY <1>1, <1>2, <1>3, <2>1, <2>2, <2>3 DEF Typed
<1>6. GoodCache(cache)
  BY <1>3 DEF GoodCache, EmptyCache
<1>7. RunInv /\ WorldInv
  BY <1>3 DEF RunInv, WorldInv, PageAsIfAlone
<1> QED BY <1>1, <1>5, <1>6, <1>7 DEF Inv

\* A call begins in a world of its own.
LEMMA BeginKeeps ==
  ASSUME Inv, NEW scripts, IsSeq(scripts), \A k \in DOMAIN scripts : Cut(scripts[k]),
         NEW allowed \in BOOLEAN, Begin(scripts, allowed)
  PROVE  Inv'
<1>1. /\ page' = NewPage(scripts, allowed) /\ phase' = "page"
      /\ began' = [document |-> document, cache |-> cache]
      /\ cache' = cache /\ document' = document /\ run' = run
  BY DEF Begin
<1>2. /\ page'.scripts = scripts /\ page'.allowed = allowed /\ page'.next = 1
      /\ page'.console = <<>> /\ page'.ran = <<>>
      /\ {"scripts", "allowed", "next", "console", "ran", "outcome"} \subseteq DOMAIN page'
  BY <1>1 DEF NewPage
<1>3. Len(scripts) \in Nat
  BY SeqFacts
<1>4. Typed'
  BY <1>1, <1>2, <1>3, ShortSeqs DEF Inv, Typed
<1>5. GoodCache(cache)' /\ Untouched'
  BY <1>1, <1>2 DEF Inv, GoodCache, Untouched
<1>6. RunInv'
  BY <1>1 DEF RunInv
<1>7. WorldInv'
  <2>1. Here' = NewWorld'
    <3>1. Here' = ScriptWorlds(NewWorld', scripts, allowed)[0]
      BY <1>2 DEF Here, Worlds
    <3> QED BY <3>1, <1>3, ScriptWorldsFacts
  <2>2. NewWorld' = World(document', page'.console)
    BY <1>1, <1>2 DEF NewWorld, World
  <2> QED BY <1>1, <2>1, <2>2 DEF WorldInv, PageAsIfAlone
<1> QED BY <1>4, <1>5, <1>6, <1>7 DEF Inv

\* A page of the session's, and a source by itself.
LEMMA BeginsKeep ==
  ASSUME Inv, NEW allowed \in BOOLEAN,
         \/ \E html \in Pages : BeginPage(html, allowed)
         \/ \E source \in Inlines : BeginInline(source, allowed)
  PROVE  Inv'
<1>1. ASSUME NEW html \in Pages, BeginPage(html, allowed)
      PROVE  Inv'
  <2>1. PageText(html)
    BY PageScriptsAssumption, SeqIsSeq DEF PageText
  <2> QED BY <1>1, <2>1, FoundCut, BeginKeeps DEF BeginPage
<1>2. ASSUME NEW source \in Inlines, BeginInline(source, allowed)
      PROVE  Inv'
  <2> DEFINE text == Text(source)
             script == [tag |-> <<Attribute("type", FALSE, TRUE, "text/typescript")>>,
                        body |-> <<text>>]
  <2>1. text.piece = "text" /\ text.source \in Sources
    BY PageScriptsAssumption DEF Text
  <2> HIDE DEF text
  <2>2. Cut(script)
    BY <2>1, ShortSeqs DEF Cut
  <2> HIDE DEF script
  <2>3. IsSeq(<<script>>) /\ \A k \in DOMAIN <<script>> : Cut(<<script>>[k])
    BY <2>2, ShortSeqs
  <2>4. Begin(<<script>>, allowed)
    BY <1>2 DEF BeginInline, script, text
  <2> QED BY <2>3, <2>4, BeginKeeps
<1> QED BY <1>1, <1>2

\* A call that fails ends, in the world in which it failed.
LEMMA FailKeeps ==
  ASSUME Inv, NEW code, Fail(code), page.next \in DOMAIN page.scripts, code # "ok",
         UNCHANGED <<document, pages, began>>, GoodCache(cache'),
         page.allowed \/ cache' = cache,
         Worlds[page.next].outcome = code, Worlds[page.next].document = document
  PROVE  Inv'
<1>1. /\ phase' = "idle" /\ run' = NoRun
      /\ page' = [page EXCEPT !.console = <<>>, !.ran = <<>>, !.outcome = code]
      /\ document' = document /\ pages' = pages /\ began' = began
  BY DEF Fail
<1>2. /\ page'.scripts = page.scripts /\ page'.allowed = page.allowed /\ page'.next = page.next
      /\ page'.console = <<>> /\ page'.ran = <<>> /\ page'.outcome = code
      /\ {"scripts", "allowed", "next", "console", "ran", "outcome"} \subseteq DOMAIN page'
  BY <1>1 DEF Inv, Typed
<1>3. run'.console = <<>> /\ {"source", "next", "console"} \subseteq DOMAIN run'
  BY <1>1 DEF NoRun
<1>4. Typed'
  BY <1>1, <1>2, <1>3, ShortSeqs DEF Inv, Typed
<1>5. page'.allowed \/ Untouched'
  BY <1>1, <1>2 DEF Inv, Untouched
<1>6. RunInv'
  BY <1>1 DEF RunInv
<1>7. WorldInv'
  <2>1. page.next \in 1 .. Len(page.scripts) /\ Len(page.scripts) \in Nat
    BY HereNext DEF Inv
  <2>2. page.next \in 0 .. Len(page.scripts)
    BY <2>1
  <2>3. Worlds[Len(page.scripts)] = Worlds[page.next]
    BY <2>1, <2>2, FailedScriptsStay DEF Worlds
  <2>4. Expected' = Worlds[Len(page.scripts)]
    BY <1>1, <1>2 DEF Expected, Worlds, NewWorld
  <2> QED BY <1>1, <1>2, <2>3, <2>4 DEF WorldInv, PageAsIfAlone
<1> QED BY <1>4, <1>5, <1>6, <1>7 DEF Inv

\* A script that is none: the page goes on to the next.
LEMMA SkipKeeps == ASSUME Inv, SkipScript PROVE Inv'
<1>1. /\ phase = "page" /\ page.next \in DOMAIN page.scripts /\ ~IsTypeScript(Script)
      /\ page' = [page EXCEPT !.next = @ + 1]
      /\ UNCHANGED <<cache, document, run, phase, pages, began>>
  BY DEF SkipScript, AtScript
<1>2. /\ page'.scripts = page.scripts /\ page'.allowed = page.allowed /\ page'.next = page.next + 1
      /\ page'.console = page.console /\ page'.ran = page.ran
      /\ {"scripts", "allowed", "next", "console", "ran", "outcome"} \subseteq DOMAIN page'
  BY <1>1 DEF Inv, Typed
<1>3. /\ Worlds[page.next] = AfterScript(Here, Script, page.allowed)
      /\ page.next \in 1 .. Len(page.scripts) /\ Len(page.scripts) \in Nat
  BY <1>1, HereNext DEF Inv
<1>4. Typed'
  BY <1>1, <1>2, <1>3 DEF Inv, Typed
<1>5. GoodCache(cache)' /\ (page'.allowed \/ Untouched')
  BY <1>1, <1>2 DEF Inv, GoodCache, Untouched
<1>6. RunInv'
  BY <1>1 DEF RunInv
<1>7. WorldInv'
  <2>1. Worlds[page.next] = Here
    BY <1>1, <1>3 DEF AfterScript
  <2>2. Here' = Worlds[page.next + 1 - 1]
    BY <1>1, <1>2 DEF Here, Worlds, NewWorld
  <2>3. page.next + 1 - 1 = page.next
    BY <1>3
  <2>4. Here = World(document, page.console)
    BY <1>1 DEF Inv, WorldInv
  <2> QED BY <1>1, <1>2, <2>1, <2>2, <2>3, <2>4 DEF WorldInv, PageAsIfAlone
<1> QED BY <1>4, <1>5, <1>6, <1>7 DEF Inv

\* The page is at a script, and the world is as it says.
LEMMA AtScriptFacts ==
  ASSUME Inv, AtScript
  PROVE  /\ page.next \in DOMAIN page.scripts
         /\ Here = World(document, page.console)
         /\ Worlds[page.next] = AfterScript(Here, Script, page.allowed)
         /\ Cut(Script) /\ GoodCache(cache)
BY HereNext DEF AtScript, Inv, WorldInv, Typed, Script

\* What a world is made of.
LEMMA WorldFields ==
  ASSUME NEW nodes, NEW console, NEW code
  PROVE  LET world == World(nodes, console)
             failed == [world EXCEPT !.outcome = code]
         IN  /\ world.document = nodes /\ world.console = console /\ world.outcome = "ok"
             /\ failed.document = nodes /\ failed.outcome = code
BY DEF World

\* A script that fails before it runs.
LEMMA RefusalsKeep ==
  ASSUME Inv, BlockedByPolicy \/ MissingResource \/ BundleFails \/ LookupFails
  PROVE  Inv'
<1>1. CASE BlockedByPolicy
  <2>1. AtScript /\ IsTypeScript(Script) /\ ~page.allowed /\ Fail("blocked")
        /\ UNCHANGED <<cache, document, pages, began>>
    BY <1>1 DEF BlockedByPolicy
  <2>2. Worlds[page.next] = [Here EXCEPT !.outcome = "blocked"]
    BY <2>1, AtScriptFacts, WorldFields DEF AfterScript
  <2>3. Worlds[page.next].outcome = "blocked" /\ Worlds[page.next].document = document
    BY <2>1, <2>2, AtScriptFacts, WorldFields
  <2> QED BY <2>1, <2>3, AtScriptFacts, FailKeeps
<1>2. CASE MissingResource
  <2>1. AtScript /\ IsTypeScript(Script) /\ page.allowed /\ Fail("missing_resource")
        /\ UNCHANGED <<cache, document, pages, began>>
        /\ IsExternal(Script) /\ Specifier(Script) \notin DOMAIN Bundles
    BY <1>2 DEF MissingResource, Considered
  <2>2. Worlds[page.next] = [Here EXCEPT !.outcome = "missing_resource"]
    BY <2>1, AtScriptFacts, WorldFields DEF AfterScript
  <2>3. Worlds[page.next].outcome = "missing_resource" /\ Worlds[page.next].document = document
    BY <2>1, <2>2, AtScriptFacts, WorldFields
  <2> QED BY <2>1, <2>3, AtScriptFacts, FailKeeps
<1>3. CASE BundleFails
  <2>1. AtScript /\ IsTypeScript(Script) /\ page.allowed /\ Fail("module_error")
        /\ UNCHANGED <<cache, document, pages, began>>
        /\ IsExternal(Script) /\ Specifier(Script) \in DOMAIN Bundles /\ ~HasSource(Script)
    BY <1>3 DEF BundleFails, Considered, HasSource
  <2>2. Worlds[page.next] = [Here EXCEPT !.outcome = "module_error"]
    BY <2>1, AtScriptFacts, WorldFields DEF AfterScript
  <2>3. Worlds[page.next].outcome = "module_error" /\ Worlds[page.next].document = document
    BY <2>1, <2>2, AtScriptFacts, WorldFields
  <2> QED BY <2>1, <2>3, AtScriptFacts, FailKeeps
<1>4. CASE LookupFails
  <2>1. AtScript /\ IsTypeScript(Script) /\ page.allowed /\ Fail("not_prepared")
        /\ UNCHANGED <<document, pages, began>> /\ cache' = GetOrPrepare(cache, SourceOf(Script))
        /\ HasSource(Script) /\ Preparation[SourceOf(Script)] # "ok"
    BY <1>4 DEF LookupFails, Considered, Runnable
  <2>2. Worlds[page.next] = [Here EXCEPT !.outcome = "not_prepared"]
    BY <2>1, AtScriptFacts, WorldFields DEF AfterScript, HasSource
  <2>3. Worlds[page.next].outcome = "not_prepared" /\ Worlds[page.next].document = document
    BY <2>1, <2>2, AtScriptFacts, WorldFields
  <2> QED BY <2>1, <2>3, AtScriptFacts, LookupKeeps, FailKeeps
<1> QED BY <1>1, <1>2, <1>3, <1>4

\* A script begins to run in the world the page has come to.
LEMMA LookupStarts == ASSUME Inv, Lookup PROVE Inv'
<1>1. /\ AtScript /\ IsTypeScript(Script) /\ page.allowed /\ HasSource(Script)
      /\ Runnable(SourceOf(Script)) /\ cache' = GetOrPrepare(cache, SourceOf(Script))
      /\ run' = [source |-> SourceOf(Script), next |-> 1, console |-> <<>>]
      /\ phase' = "run"
      /\ UNCHANGED <<document, page, pages, began>>
  BY DEF Lookup, Considered
<1>2. /\ page' = page /\ document' = document /\ Script' = Script /\ Here' = Here
  BY <1>1 DEF Script, Here, Worlds, NewWorld
<1>3. /\ run'.source = SourceOf(Script) /\ run'.next = 1 /\ run'.console = <<>>
      /\ {"source", "next", "console"} \subseteq DOMAIN run'
  BY <1>1
<1>4. SourceOf(Script) \in Sources /\ Preparation[SourceOf(Script)] = "ok"
  BY <1>1, AtScriptFacts, SourcesTyped DEF Runnable, GoodCache
<1>5. Typed'
  BY <1>1, <1>2, <1>3, ShortSeqs DEF Inv, Typed
<1>6. GoodCache(cache)' /\ page'.allowed
  BY <1>1, <1>2, AtScriptFacts, LookupKeeps
<1>7. Calls' = Program[SourceOf(Script)] /\ Len(Program[SourceOf(Script)]) \in Nat
  BY <1>3, <1>4, ProgramFacts DEF Calls
<1>8. RunInv'
  <2>1. page.next \in DOMAIN page.scripts
    BY <1>1 DEF AtScript
  <2>2. run'.next \in 1 .. (Len(Calls') + 1) /\ 1 .. (run'.next - 1) = {}
    BY <1>3, <1>7
  <2> QED BY <1>1, <1>2, <1>3, <1>4, <2>1, <2>2 DEF RunInv
<1>9. WorldInv'
  <2>1. Here = World(document, page.console) /\ IsSeq(page.console)
    BY <1>1, AtScriptFacts DEF Inv, Typed
  <2>2. page.console \o <<>> = page.console
    BY <2>1, ConcatEmptySeq DEF IsSeq
  <2>3. CallWorlds(Here, Calls')[0] = Here
    BY <1>7, CallWorldsFacts
  <2>4. run'.next - 1 = 0
    BY <1>3
  <2>5. CallWorlds(Here', Calls')[run'.next - 1] = World(document', page'.console \o run'.console)
    BY <1>2, <1>3, <2>1, <2>2, <2>3, <2>4
  <2>6. Here'.outcome = "ok" /\ Here'.console = page'.console
    BY <1>2, <2>1, WorldFields
  <2> QED BY <1>1, <2>5, <2>6 DEF WorldInv, PageAsIfAlone
<1> QED BY <1>5, <1>6, <1>8, <1>9 DEF Inv
-----------------------------------------------------------------------------
(***************************************************************************)
(* Part 5: host calls.                                                     *)
(***************************************************************************)

\* The worlds of the program that runs, and the one it is in.
Lived == CallWorlds(Here, Calls)
Now == World(document, page.console \o run.console)

\* Where a running script is.
LEMMA RunFacts ==
  ASSUME Inv, phase = "run"
  PROVE  /\ page.next \in DOMAIN page.scripts /\ page.allowed
         /\ IsTypeScript(Script) /\ HasSource(Script)
         /\ run.source = SourceOf(Script) /\ Preparation[run.source] = "ok"
         /\ IsSeq(Calls) /\ DOMAIN Calls = 1 .. Len(Calls) /\ Len(Calls) \in Nat
         /\ run.next \in 1 .. (Len(Calls) + 1)
         /\ Here.outcome = "ok" /\ Here.console = page.console
         /\ Lived[run.next - 1] = Now
         /\ \A n \in DOMAIN Calls : Lived[n] = AfterCall(Lived[n - 1], Calls[n])
<1>1. run.source \in Sources
  BY DEF Inv, RunInv
<1>2. IsSeq(Calls) /\ DOMAIN Calls = 1 .. Len(Calls) /\ Len(Calls) \in Nat
  BY <1>1, ProgramFacts DEF Calls
<1>3. \A n \in DOMAIN Calls : Lived[n] = AfterCall(Lived[n - 1], Calls[n])
  BY <1>2, CallWorldsFacts DEF Lived
<1> QED BY <1>2, <1>3 DEF Inv, RunInv, WorldInv, Lived, Now

\* What the script comes to, the page comes to.
LEMMA ScriptComesTo ==
  ASSUME Inv, phase = "run"
  PROVE  Worlds[page.next] = Lived[Len(Calls)]
<1>1. Worlds[page.next] = AfterScript(Here, Script, page.allowed)
  BY RunFacts, HereNext DEF Inv
<1>2. AfterScript(Here, Script, page.allowed)
        = CallWorlds(Here, Program[SourceOf(Script)])[Len(Program[SourceOf(Script)])]
  BY RunFacts DEF AfterScript, HasSource
<1> QED BY <1>1, <1>2, RunFacts DEF Lived, Calls

\* A call that goes well: its world is the next one, and the script goes on.
LEMMA CallKeeps ==
  ASSUME Inv, phase = "run", run.next \in DOMAIN Calls, NEW console, IsSeq(console),
         run' = [run EXCEPT !.next = @ + 1, !.console = console],
         UNCHANGED <<cache, page, phase, pages, began>>,
         AfterCall(Now, Calls[run.next]) = World(document', page.console \o console),
         Calls[run.next].call = "fetchText" => Fetched(Calls[run.next].arguments)
  PROVE  Inv'
<1>1. /\ run'.source = run.source /\ run'.next = run.next + 1 /\ run'.console = console
      /\ {"source", "next", "console"} \subseteq DOMAIN run'
  BY DEF Inv, Typed
<1>2. /\ page' = page /\ phase' = "run" /\ cache' = cache /\ Script' = Script
      /\ Here' = Here /\ Calls' = Calls
  BY <1>1 DEF Script, Here, Worlds, NewWorld, Calls
<1>3. Typed'
  BY <1>1, <1>2 DEF Inv, Typed
<1>4. GoodCache(cache)' /\ page'.allowed
  BY <1>2, RunFacts DEF Inv
<1>5. run.next \in 1 .. Len(Calls) /\ Len(Calls) \in Nat
  BY RunFacts
<1>6. RunInv'
  <2>1. run'.next \in 1 .. (Len(Calls) + 1)
    BY <1>1, <1>5
  <2>2. ASSUME NEW k \in 1 .. (run'.next - 1), Calls[k].call = "fetchText"
        PROVE  Fetched(Calls[k].arguments)
    <3>1. k \in 1 .. (run.next - 1) \/ k = run.next
      BY <1>1, <1>5
    <3> QED BY <2>2, <3>1 DEF Inv, RunInv
  <2>3. /\ page.next \in DOMAIN page.scripts /\ IsTypeScript(Script) /\ HasSource(Script)
        /\ run.source = SourceOf(Script) /\ run.source \in Sources /\ Preparation[run.source] = "ok"
    BY DEF Inv, RunInv
  <2> QED BY <1>1, <1>2, <1>4, <2>1, <2>2, <2>3 DEF RunInv
<1>7. WorldInv'
  <2>1. Lived[run.next] = World(document', page.console \o console)
    BY RunFacts
  <2>2. run'.next - 1 = run.next
    BY <1>1, <1>5
  <2>3. CallWorlds(Here', Calls')[run'.next - 1] = World(document', page'.console \o run'.console)
    BY <1>1, <1>2, <2>1, <2>2 DEF Lived
  <2>4. Here'.outcome = "ok" /\ Here'.console = page'.console
    BY <1>2, RunFacts
  <2> QED BY <1>2, <2>3, <2>4 DEF WorldInv, PageAsIfAlone
<1> QED BY <1>3, <1>4, <1>6, <1>7 DEF Inv

\* A call that says something: it is the last on the console of the next world.
LEMMA SaysKeeps ==
  ASSUME Inv, phase = "run", run.next \in DOMAIN Calls, NEW value, Returned(value),
         UNCHANGED <<cache, document, page, phase, pages, began>>,
         AfterCall(Now, Calls[run.next]) = [Now EXCEPT !.console = Append(@, value)],
         Calls[run.next].call = "fetchText" => Fetched(Calls[run.next].arguments)
  PROVE  Inv'
<1> DEFINE more == Append(run.console, value)
<1>1. IsSeq(page.console) /\ IsSeq(run.console)
  BY DEF Inv, Typed
<1>2. IsSeq(more) /\ Append(page.console \o run.console, value) = page.console \o more
  <2>1. IsSeq(more)
    BY <1>1, AppendFacts
  <2>2. Append(page.console \o run.console, value) = page.console \o more
    <3> DEFINE said == page.console
               saying == run.console
    <3>1. IsSeq(said) /\ IsSeq(saying)
      BY <1>1
    <3> HIDE DEF said, saying
    <3>2. Append(said \o saying, value) = said \o Append(saying, value)
      BY <3>1, AppendConcat
    <3> QED BY <3>2 DEF said, saying
  <2> QED BY <2>1, <2>2
<1>3. run' = [run EXCEPT !.next = @ + 1, !.console = more]
  BY DEF Returned
<1>4. [Now EXCEPT !.console = Append(@, value)] = World(document, Append(page.console \o run.console, value))
  BY DEF Now, World
<1> HIDE DEF more
<1> QED BY <1>2, <1>3, <1>4, CallKeeps

\* The calls of the script that runs, one kind after the other.
LEMMA CallsKeep ==
  ASSUME Inv, Log \/ DomText \/ DomSetText \/ FetchText
  PROVE  Inv'
<1> DEFINE call == Calls[run.next]
           a == call.arguments
<1>0. Now.outcome = "ok" /\ Now.document = document /\ Arguments = a
  BY DEF Now, World, Arguments
<1>1. CASE Log
  <2>1. /\ phase = "run" /\ run.next \in DOMAIN Calls /\ call.call = "console.log"
        /\ Returned(a[1]) /\ UNCHANGED <<cache, document, page, phase, pages, began>>
    BY <1>0, <1>1 DEF Log, AtCall
  <2>2. AfterCall(Now, call) = [Now EXCEPT !.console = Append(@, a[1])]
    BY <1>0, <2>1 DEF AfterCall
  <2> QED BY <2>1, <2>2, SaysKeeps
<1>2. CASE DomText
  <2>1. /\ phase = "run" /\ run.next \in DOMAIN Calls /\ call.call = "domText" /\ AllStrings(a)
        /\ Returned(TextOf(document, a[1]))
        /\ UNCHANGED <<cache, document, page, phase, pages, began>>
    BY <1>0, <1>2 DEF DomText, AtCall
  <2>2. AfterCall(Now, call) = [Now EXCEPT !.console = Append(@, TextOf(document, a[1]))]
    BY <1>0, <2>1 DEF AfterCall
  <2> QED BY <2>1, <2>2, SaysKeeps
<1>3. CASE DomSetText
  <2>1. /\ phase = "run" /\ run.next \in DOMAIN Calls /\ call.call = "domSetText" /\ AllStrings(a)
        /\ document' = WithText(document, a[1], a[2])
        /\ run' = [run EXCEPT !.next = @ + 1]
        /\ UNCHANGED <<cache, page, phase, pages, began>>
    BY <1>0, <1>3 DEF DomSetText, AtCall
  <2>2. AfterCall(Now, call) = [Now EXCEPT !.document = WithText(@, a[1], a[2])]
    BY <1>0, <2>1 DEF AfterCall
  <2>3. AfterCall(Now, call) = World(document', page.console \o run.console)
    BY <2>1, <2>2 DEF Now, World
  <2>4. run' = [run EXCEPT !.next = @ + 1, !.console = run.console]
    BY <2>1 DEF Inv, Typed
  <2>5. IsSeq(run.console)
    BY DEF Inv, Typed
  <2> QED BY <2>1, <2>3, <2>4, <2>5, CallKeeps
<1>4. CASE FetchText
  <2>1. /\ phase = "run" /\ run.next \in DOMAIN Calls /\ call.call = "fetchText" /\ Fetched(a)
        /\ Returned(Fetchable[SameOriginPath(a)])
        /\ UNCHANGED <<cache, document, page, phase, pages, began>>
    BY <1>0, <1>4 DEF FetchText, AtCall
  <2>2. AfterCall(Now, call) = [Now EXCEPT !.console = Append(@, Fetchable[SameOriginPath(a)])]
    BY <1>0, <2>1 DEF AfterCall
  <2> QED BY <2>1, <2>2, SaysKeeps
<1> QED BY <1>1, <1>2, <1>3, <1>4

\* A call that fails: the program and the page fail in the same world.
LEMMA CallFailsKeeps == ASSUME Inv, HostCallFails PROVE Inv'
<1> DEFINE call == Calls[run.next]
           a == call.arguments
<1>1. /\ phase = "run" /\ run.next \in DOMAIN Calls /\ Fail("failed")
      /\ UNCHANGED <<cache, document, pages, began>>
      /\ \/ call.call \in {"domText", "domSetText"} /\ ~AllStrings(a)
         \/ call.call = "fetchText" /\ ~Fetched(a)
  BY DEF HostCallFails, AtCall, Arguments
<1>2. Now.outcome = "ok"
  BY DEF Now, World
<1>3. AfterCall(Now, call) = [Now EXCEPT !.outcome = "failed"]
  BY <1>1, <1>2 DEF AfterCall
<1>4. Lived[run.next] = [Now EXCEPT !.outcome = "failed"]
  BY <1>1, <1>3, RunFacts
<1>5. Lived[run.next].outcome = "failed" /\ Lived[run.next].document = document
  BY <1>4, WorldFields DEF Now
<1>6. run.next \in 0 .. Len(Calls) /\ Len(Calls) \in Nat
  BY <1>1, RunFacts
<1>7. Lived[Len(Calls)] = Lived[run.next]
  BY <1>5, <1>6, FailedCallsStay DEF Lived
<1>8. Worlds[page.next].outcome = "failed" /\ Worlds[page.next].document = document
  BY <1>1, <1>5, <1>7, ScriptComesTo
<1>9. page.next \in DOMAIN page.scripts /\ page.allowed /\ GoodCache(cache')
  BY <1>1, RunFacts DEF Inv
<1> QED BY <1>1, <1>8, <1>9, FailKeeps
-----------------------------------------------------------------------------
(***************************************************************************)
(* Part 6: the end of a script and of a page.                              *)
(***************************************************************************)

\* A script that ends leaves the page in the world it has come to.
LEMMA ScriptEndKeeps == ASSUME Inv, ScriptEnds PROVE Inv'
<1>1. /\ phase = "run" /\ run.next \notin DOMAIN Calls /\ phase' = "page" /\ run' = NoRun
      /\ UNCHANGED <<cache, document, pages, began>>
      /\ page' = [page EXCEPT !.next = @ + 1,
                              !.console = @ \o run.console,
                              !.ran = Append(@, IF IsExternal(Script) THEN Specifier(Script)
                                                ELSE <<"<inline>">>)]
  BY DEF ScriptEnds, Appended
<1>2. page'.console = page.console \o run.console
  BY <1>1 DEF Inv, Typed
<1>a. /\ page'.scripts = page.scripts /\ page'.allowed = page.allowed /\ page'.next = page.next + 1
      /\ {"scripts", "allowed", "next", "console", "ran", "outcome"} \subseteq DOMAIN page'
  BY <1>1 DEF Inv, Typed
<1>3. run'.console = <<>> /\ {"source", "next", "console"} \subseteq DOMAIN run'
  BY <1>1 DEF NoRun
<1>4. page.next \in 1 .. Len(page.scripts) /\ Len(page.scripts) \in Nat
  BY <1>1, RunFacts, HereNext DEF Inv
<1>5. IsSeq(page'.console)
  BY <1>2, ConcatFacts DEF Inv, Typed
<1>6. Typed'
  BY <1>1, <1>a, <1>3, <1>4, <1>5, ShortSeqs DEF Inv, Typed
<1>7. GoodCache(cache)' /\ page'.allowed
  BY <1>1, <1>a, RunFacts DEF Inv
<1>8. RunInv'
  BY <1>1 DEF RunInv
<1>9. WorldInv'
  <2>1. run.next - 1 = Len(Calls)
    BY <1>1, RunFacts
  <2>2. Worlds[page.next] = Now
    BY <1>1, <2>1, RunFacts, ScriptComesTo
  <2>3. Here' = Worlds[page.next]
    <3>1. began' = began
      BY <1>1
    <3>2. /\ page'.scripts = page.scripts /\ page'.allowed = page.allowed
          /\ page'.next - 1 = page.next
      BY <1>a, <1>4
    <3>3. Worlds' = Worlds
      BY <3>1, <3>2 DEF Worlds, NewWorld
    <3>4. Here' = Worlds'[page.next]
      BY <3>2 DEF Here
    <3> QED BY <3>3, <3>4
  <2>4. Now = World(document', page'.console)
    BY <1>1, <1>2 DEF Now
  <2> QED BY <1>1, <2>2, <2>3, <2>4 DEF WorldInv, PageAsIfAlone
<1> QED BY <1>6, <1>7, <1>8, <1>9 DEF Inv

\* A page that ends has come to the last of its worlds.
LEMMA PageEndKeeps == ASSUME Inv, PageEnds PROVE Inv'
<1>1. /\ phase = "page" /\ page.next \notin DOMAIN page.scripts /\ phase' = "idle"
      /\ page' = [page EXCEPT !.outcome = "ok"]
      /\ UNCHANGED <<cache, document, run, pages, began>>
  BY DEF PageEnds
<1>2. /\ page'.scripts = page.scripts /\ page'.allowed = page.allowed /\ page'.next = page.next
      /\ page'.console = page.console /\ page'.ran = page.ran /\ page'.outcome = "ok"
      /\ {"scripts", "allowed", "next", "console", "ran", "outcome"} \subseteq DOMAIN page'
  BY <1>1 DEF Inv, Typed
<1>3. Typed'
  BY <1>1, <1>2 DEF Inv, Typed
<1>4. GoodCache(cache)' /\ (page'.allowed \/ Untouched')
  BY <1>1, <1>2 DEF Inv, GoodCache, Untouched
<1>5. RunInv'
  BY <1>1 DEF RunInv
<1>6. WorldInv'
  <2>1. DOMAIN page.scripts = 1 .. Len(page.scripts) /\ Len(page.scripts) \in Nat
    BY SeqFacts DEF Inv, Typed
  <2>2. page.next - 1 = Len(page.scripts)
    BY <1>1, <2>1 DEF Inv, Typed
  <2>3. Expected' = Here
    BY <1>1, <1>2, <2>2 DEF Expected, Here, Worlds, NewWorld
  <2>4. Here = World(document, page.console)
    BY <1>1 DEF Inv, WorldInv
  <2>5. /\ Expected'.outcome = "ok" /\ Expected'.document = document'
        /\ Expected'.console = page'.console
    BY <1>1, <1>2, <2>3, <2>4, WorldFields
  <2> QED BY <1>1, <1>2, <2>5 DEF WorldInv, PageAsIfAlone
<1> QED BY <1>3, <1>4, <1>5, <1>6 DEF Inv

\* Every step of a session.
LEMMA NextKeeps == Inv /\ [Next]_vars => Inv'
<1> SUFFICES ASSUME Inv, [Next]_vars PROVE Inv'
  OBVIOUS
<1>1. ASSUME NEW html \in Pages, NEW allowed \in BOOLEAN, BeginPage(html, allowed) PROVE Inv'
  BY <1>1, BeginsKeep
<1>2. ASSUME NEW source \in Inlines, NEW allowed \in BOOLEAN, BeginInline(source, allowed) PROVE Inv'
  BY <1>2, BeginsKeep
<1>3. CASE SkipScript
  BY <1>3, SkipKeeps
<1>4. CASE BlockedByPolicy \/ MissingResource \/ BundleFails \/ LookupFails
  BY <1>4, RefusalsKeep
<1>5. CASE Lookup
  BY <1>5, LookupStarts
<1>6. CASE Log \/ DomText \/ DomSetText \/ FetchText
  BY <1>6, CallsKeep
<1>7. CASE HostCallFails
  BY <1>7, CallFailsKeeps
<1>8. CASE ScriptEnds
  BY <1>8, ScriptEndKeeps
<1>9. CASE PageEnds
  BY <1>9, PageEndKeeps
<1>10. CASE UNCHANGED vars
  BY <1>10 DEF vars, Inv, Typed, GoodCache, Untouched, RunInv, WorldInv, PageAsIfAlone, Script,
     Here, Worlds, NewWorld, Calls, Expected
<1> QED BY <1>1, <1>2, <1>3, <1>4, <1>5, <1>6, <1>7, <1>8, <1>9, <1>10 DEF Next

\* The invariant holds always.
LEMMA InvHolds == Spec => []Inv
BY InitInv, NextKeeps, PTL DEF Spec
-----------------------------------------------------------------------------
(***************************************************************************)
(* Part 7: the theorems.                                                   *)
(***************************************************************************)

\* A page does what its scripts would do one after the other with no cache,
\* whatever the session ran before (execute_typescript_scripts_with_policy and
\* the session's PreparedModuleCache).
THEOREM PagesAlone == Spec => []PageAsIfAlone
<1>1. Inv => PageAsIfAlone
  BY DEF Inv, WorldInv
<1> QED BY <1>1, InvHolds, PTL

\* A page whose TypeScript is blocked changes neither the document nor the
\* cache and runs nothing (ensure_typescript_allowed).
THEOREM BlockedTraceless == Spec => []BlockedLeavesNoTrace
<1>1. Inv => BlockedLeavesNoTrace
  BY DEF Inv, Untouched, BlockedLeavesNoTrace
<1> QED BY <1>1, InvHolds, PTL

\* No body that find_scripts cuts out holds a closing tag.
THEOREM BodiesEnd == Spec => []BodiesEndAtClose
<1>1. Inv => BodiesEndAtClose
  BY DEF Inv, Typed, Cut, BodiesEndAtClose
<1> QED BY <1>1, InvHolds, PTL

\* The first slash of a sequence of symbols.
FirstSlash(url, k) == k \in DOMAIN url /\ url[k] = "/" /\ \A j \in 1 .. k - 1 : url[j] # "/"

\* What can be fetched is a path, or the origin and a path.
LEMMA FetchedFrom ==
  ASSUME NEW url, IsSeq(url), Fetched(url)
  PROVE  \E k \in DOMAIN url : FirstSlash(url, k) /\ SubSeq(url, 1, k - 1) \in {Origin, <<>>}
<1> DEFINE n == Len(Origin)
           path == SubSeq(url, n + 1, Len(url))
<1>1. DOMAIN url = 1 .. Len(url) /\ Len(url) \in Nat /\ (url = <<>> <=> Len(url) = 0)
  BY SeqFacts
<1>2. IsSeq(Origin) /\ n \in Nat /\ DOMAIN Origin = 1 .. n /\ \A j \in 1 .. n : Origin[j] # "/"
  <2>1. IsSeq(Origin)
    BY PageScriptsAssumption, SeqIsSeq
  <2>2. DOMAIN Origin = 1 .. n /\ n \in Nat
    BY <2>1, SeqFacts
  <2>3. \A j \in DOMAIN Origin : Origin[j] # "/"
    BY PageScriptsAssumption DEF Range
  <2> QED BY <2>1, <2>2, <2>3
<1>3. SameOriginPath(url) # <<>>
  BY PageScriptsAssumption DEF Fetched
<1>4. CASE Rooted(url)
  <2>1. 1 \in DOMAIN url /\ url[1] = "/"
    BY <1>1, <1>4 DEF Rooted
  <2>2. FirstSlash(url, 1)
    BY <2>1 DEF FirstSlash
  <2>3. SubSeq(url, 1, 1 - 1) = <<>>
    BY SubSeqEmpty
  <2> QED BY <2>1, <2>2, <2>3
<1>5. CASE ~Rooted(url)
  <2>1. IsPrefix(Origin, url) /\ Rooted(path)
    BY <1>3, <1>5 DEF SameOriginPath
  <2>2. n <= Len(url) /\ SubSeq(Origin, 1, n) = SubSeq(url, 1, n)
    BY <2>1 DEF IsPrefix
  <2>3. SubSeq(Origin, 1, n) = Origin
    BY <1>2, SubSeqFull DEF IsSeq
  <2>4. \A j \in 1 .. n : url[j] = Origin[j]
    BY <1>1, <1>2, <2>2, <2>3, PrefixFacts
  <2>5. n # Len(url)
    <3>1. n = Len(url) => path = <<>>
      BY <1>1, <1>2, SubSeqEmpty
    <3> QED BY <2>1, <3>1 DEF Rooted
  <2>6. n + 1 \in DOMAIN url
    <3> DEFINE m == Len(url)
    <3>1. m \in Nat /\ n \in Nat /\ n <= m /\ n # m /\ DOMAIN url = 1 .. m
      BY <1>1, <1>2, <2>2, <2>5
    <3> HIDE DEF m, n
    <3> QED BY <3>1
  <2>7. url[n + 1] = "/"
    <3> DEFINE V == {url[k] : k \in DOMAIN url}
    <3>1. \A k \in (n + 1) .. Len(url) : url[k] \in V
      BY <1>1, <1>2
    <3>2. n + 1 \in Int /\ Len(url) \in Int
      BY <1>1, <1>2
    <3> HIDE DEF V
    <3>3. \A k \in 1 .. Len(url) - (n + 1) + 1 : path[k] = url[(n + 1) + k - 1]
      BY <3>1, <3>2, SubSeqProperties
    <3>4. 1 \in 1 .. Len(url) - (n + 1) + 1 /\ (n + 1) + 1 - 1 = n + 1
      <4>1. n + 1 \in 1 .. Len(url) /\ n \in Nat /\ Len(url) \in Nat
        BY <1>1, <1>2, <2>6
      <4> HIDE DEF n
      <4> QED BY <4>1
    <3>5. path[1] = "/"
      BY <2>1 DEF Rooted
    <3> HIDE DEF path
    <3> QED BY <3>3, <3>4, <3>5
  <2>8. FirstSlash(url, n + 1) /\ SubSeq(url, 1, n + 1 - 1) = Origin
    <3>1. n + 1 - 1 = n
      BY <1>2
    <3> HIDE DEF n
    <3> QED BY <1>2, <2>2, <2>3, <2>4, <2>6, <2>7, <3>1 DEF FirstSlash
  <2> QED BY <2>6, <2>8
<1> QED BY <1>4, <1>5

\* There is but one first slash.
LEMMA OneFirst ==
  ASSUME NEW url, IsSeq(url), NEW k, NEW l, FirstSlash(url, k), FirstSlash(url, l)
  PROVE  k = l
<1>1. DOMAIN url = 1 .. Len(url) /\ Len(url) \in Nat
  BY SeqFacts
<1>2. k \in Nat /\ l \in Nat /\ k >= 1 /\ l >= 1
  BY <1>1 DEF FirstSlash
<1>3. ~(k < l) /\ ~(l < k)
  BY <1>2 DEF FirstSlash
<1> QED BY <1>2, <1>3

\* A script fetches from the page's own origin only (same_origin_path).
THEOREM FetchesOwn == Spec => []FetchesOwnOrigin
<1>1. Inv => FetchesOwnOrigin
  <2> SUFFICES ASSUME Inv, phase = "run", run.next > 1, Calls[run.next - 1].call = "fetchText"
               PROVE  LET url == Calls[run.next - 1].arguments
                          start == CHOOSE k \in DOMAIN url :
                                     url[k] = "/" /\ \A j \in 1 .. k - 1 : url[j] # "/"
                      IN  SubSeq(url, 1, start - 1) \in {Origin, <<>>}
    BY DEF FetchesOwnOrigin
  <2> DEFINE url == Calls[run.next - 1].arguments
             First(k) == url[k] = "/" /\ \A j \in 1 .. k - 1 : url[j] # "/"
             start == CHOOSE k \in DOMAIN url : First(k)
  <2>1. /\ run.next \in 1 .. (Len(Calls) + 1) /\ DOMAIN Calls = 1 .. Len(Calls) /\ Len(Calls) \in Nat
        /\ run.source \in Sources
    BY RunFacts DEF Inv, RunInv
  <2>2. run.next - 1 \in 1 .. (run.next - 1) /\ run.next - 1 \in DOMAIN Calls
    BY <2>1
  <2>3. Fetched(url)
    BY <2>2 DEF Inv, RunInv
  <2>4. IsSeq(url)
    BY <2>1, <2>2, PageScriptsAssumption, SeqIsSeq DEF Calls
  <2> HIDE DEF url
  <2>5. PICK k \in DOMAIN url : FirstSlash(url, k) /\ SubSeq(url, 1, k - 1) \in {Origin, <<>>}
    BY <2>3, <2>4, FetchedFrom
  <2>6. start \in DOMAIN url /\ First(start)
    BY <2>5 DEF FirstSlash
  <2>7. FirstSlash(url, start)
    BY <2>6 DEF FirstSlash
  <2> HIDE DEF start
  <2>8. start = k
    BY <2>4, <2>5, <2>7, OneFirst
  <2> QED BY <2>5, <2>8 DEF start, url
<1> QED BY <1>1, InvHolds, PTL
=============================================================================
