------------------------ MODULE RendererBridgeProofs ------------------------
(***************************************************************************)
(* Proofs about the renderer bridge, for any number of objects, addresses  *)
(* and sources: every block has one owner, replies and counters are the    *)
(* caller's own, and the cache cannot be told from no cache.               *)
(***************************************************************************)
EXTENDS RendererBridge, FiniteSetTheorems, TLAPS

Statuses ==
  {"ok", "runtime_error", "internal_error", "compile_error", "verify_error",
   "invalid_utf8", "invalid_argument"}

Jsons == [status : Statuses \union {"none"}, source : Buffers \union {Null}]

CallType ==
  [pc : {"copy", "free"}, kind : {"inline", "invalid", "one_shot"}, status : Statuses,
   source : Buffers, policy : Policies, result : Addresses \union {Null}, json : Jsons]

\* Only what prepares is resident, and the counters count.
GoodCache(c) ==
  /\ {"capacity", "modules", "order", "hits", "misses", "evictions"} \subseteq DOMAIN c
  /\ c.modules \subseteq Preparable
  /\ c.hits \in Nat /\ c.misses \in Nat

Typed ==
  /\ DOMAIN heap = Addresses
  /\ \A a \in Addresses : heap[a] = Unallocated \/ heap[a].kind \in {"session", "result"}
  /\ session \in [Objects -> Addresses \union {Null, Absent}]
  /\ call \in [Objects -> {Idle} \union CallType]
  /\ accepted \in [Objects -> Nat]

\* Sessions are owned by one object each, and count its requests.
SessionInv ==
  /\ \A o \in Objects : session[o] \in Addresses =>
       /\ heap[session[o]].kind = "session"
       /\ GoodCache(heap[session[o]].cache)
       /\ heap[session[o]].cache.hits + heap[session[o]].cache.misses = accepted[o]
  /\ \A o, p \in Objects : session[o] \in Addresses /\ session[o] = session[p] => o = p
  /\ \A a \in Addresses : heap[a].kind = "session" => \E o \in Objects : session[o] = a

\* Results are owned by one call each, and hold its reply.
ResultInv ==
  /\ \A o \in Objects : call[o] # Idle /\ call[o].result \in Addresses =>
       /\ heap[call[o].result].kind = "result"
       /\ heap[call[o].result].json = Envelope(call[o].status, call[o].source)
  /\ \A o, p \in Objects :
       (call[o] # Idle /\ call[p] # Idle /\ call[o].result \in Addresses
          /\ call[o].result = call[p].result) => o = p
  /\ \A a \in Addresses :
       heap[a].kind = "result" => \E o \in Objects : call[o] # Idle /\ call[o].result = a

\* What a call in progress knows.
CallInv ==
  \A o \in Objects : call[o] # Idle =>
    /\ call[o].result = Null <=> call[o].status = "invalid_argument"
    /\ call[o].pc = "free" =>
         call[o].json = IF call[o].status = "invalid_argument"
                          THEN NoJson ELSE Envelope(call[o].status, call[o].source)
    /\ call[o].kind = "inline" /\ call[o].policy = "allow" =>
         call[o].status = OneShotStatus(call[o].source)

Inv == Typed /\ SessionInv /\ ResultInv /\ CallInv
-----------------------------------------------------------------------------
(* Statuses and caches.                                                    *)

\* What a block of each kind says of itself.
LEMMA BlockKinds ==
  /\ Unallocated.kind = "free"
  /\ \A c : SessionBlock(c).kind = "session" /\ SessionBlock(c).cache = c
  /\ \A j : ResultBlock(j).kind = "result" /\ ResultBlock(j).json = j
BY DEF Unallocated, SessionBlock, ResultBlock

\* A one-shot execution ends in a status, and never for its arguments.
LEMMA StatusesTyped ==
  /\ \A s \in Sources : PreparedStatus(s) \in Statuses \ {"invalid_argument"}
  /\ \A s \in Sources : FreshStatus(s) \in Statuses \ {"invalid_argument"}
  /\ \A b \in Buffers : OneShotStatus(b) \in Statuses \ {"invalid_argument"}
<1>1. \A s \in Sources : PreparedStatus(s) \in Statuses \ {"invalid_argument"}
  BY BridgeAssumption DEF PreparedStatus, Statuses
<1>2. \A s \in Sources : FreshStatus(s) \in Statuses \ {"invalid_argument"}
  BY <1>1, SourcesAssumption DEF FreshStatus, Statuses, PreparationEnds
<1>3. \A b \in Buffers : OneShotStatus(b) \in Statuses \ {"invalid_argument"}
  BY <1>2 DEF OneShotStatus, Buffers, Statuses
<1> QED BY <1>1, <1>2, <1>3

\* A miss or a hit is counted once; what is made resident was prepared.
LEMMA LookupCounts ==
  ASSUME NEW c, GoodCache(c), NEW s \in Sources
  PROVE  LET d == GetOrPrepare(c, s)
         IN  GoodCache(d) /\ d.hits + d.misses = c.hits + c.misses + 1
<1> DEFINE Fields == {"capacity", "modules", "order", "hits", "misses", "evictions"}
           missed == [c EXCEPT !.misses = @ + 1]
<1>1. /\ Fields \subseteq DOMAIN missed /\ missed.modules = c.modules
      /\ missed.hits = c.hits /\ missed.misses = c.misses + 1
  BY DEF GoodCache
<1>2. CASE s \in c.modules
  <2>1. GetOrPrepare(c, s) = [c EXCEPT !.hits = @ + 1]
    BY <1>2 DEF GetOrPrepare, Hit
  <2> QED BY <2>1 DEF GoodCache
<1>3. CASE s \notin c.modules /\ Preparation[s] # "ok"
  <2>1. GetOrPrepare(c, s) = missed
    BY <1>3 DEF GetOrPrepare
  <2> QED BY <1>1, <2>1 DEF GoodCache
<1>4. CASE s \notin c.modules /\ Preparation[s] = "ok"
  <2> DEFINE room == EvictWhenFull(missed)
             d == [room EXCEPT !.modules = @ \union {s}, !.order = Append(@, s)]
  <2>1. GetOrPrepare(c, s) = d
    BY <1>4 DEF GetOrPrepare, Insert
  <2>2. /\ Fields \subseteq DOMAIN room /\ room.modules \subseteq c.modules
        /\ room.hits = c.hits /\ room.misses = c.misses + 1
    <3> HIDE DEF missed
    <3> QED BY <1>1 DEF EvictWhenFull
  <2> HIDE DEF room
  <2>3. /\ Fields \subseteq DOMAIN d /\ d.modules = room.modules \union {s}
        /\ d.hits = room.hits /\ d.misses = room.misses
    BY <2>2
  <2>4. s \in Preparable
    BY <1>4 DEF Preparable
  <2> HIDE DEF d
  <2> QED BY <2>1, <2>2, <2>3, <2>4 DEF GoodCache
<1> QED BY <1>2, <1>3, <1>4

\* What an execution through a session says and what it does to the cache.
LEMMA ExecuteFacts ==
  ASSUME NEW c, GoodCache(c), NEW b \in Buffers, NEW policy \in Policies
  PROVE  LET run == SessionExecute(c, b, policy)
         IN  /\ run.status \in Statuses
             /\ run.status = "invalid_argument" <=> policy = "unknown"
             /\ policy = "allow" => run.status = OneShotStatus(b)
             /\ GoodCache(run.cache)
             /\ run.cache.hits + run.cache.misses =
                  c.hits + c.misses + (IF policy = "allow" /\ b # NotUtf8 THEN 1 ELSE 0)
<1>1. CASE policy = "unknown"
  <2>1. SessionExecute(c, b, policy) = [status |-> "invalid_argument", cache |-> c]
    BY <1>1 DEF SessionExecute
  <2> QED BY <1>1, <2>1 DEF Statuses, GoodCache
<1>2. CASE policy # "unknown" /\ b = NotUtf8
  <2>1. SessionExecute(c, b, policy) = [status |-> "invalid_utf8", cache |-> c]
    BY <1>2 DEF SessionExecute
  <2> QED BY <1>2, <2>1 DEF Statuses, GoodCache, OneShotStatus
<1>3. CASE policy = "block" /\ b # NotUtf8
  <2>1. SessionExecute(c, b, policy) = [status |-> "runtime_error", cache |-> c]
    BY <1>3 DEF SessionExecute
  <2> QED BY <1>3, <2>1 DEF Statuses, GoodCache
<1>4. CASE policy = "allow" /\ b # NotUtf8
  <2>1. SessionExecute(c, b, policy) = [status |-> CachedStatus(c, b), cache |-> GetOrPrepare(c, b)]
    BY <1>4 DEF SessionExecute
  <2>2. b \in Sources
    BY <1>4 DEF Buffers
  <2>3. CachedStatus(c, b) = OneShotStatus(b)
    <3>1. b \in c.modules => Preparation[b] = "ok"
      BY DEF GoodCache, Preparable
    <3> QED BY <1>4, <3>1 DEF CachedStatus, OneShotStatus, FreshStatus
  <2>4. OneShotStatus(b) \in Statuses \ {"invalid_argument"}
    BY StatusesTyped
  <2>5. /\ GoodCache(GetOrPrepare(c, b))
        /\ GetOrPrepare(c, b).hits + GetOrPrepare(c, b).misses = c.hits + c.misses + 1
    BY <2>2, LookupCounts
  <2> QED BY <1>4, <2>1, <2>3, <2>4, <2>5
<1> QED BY <1>1, <1>2, <1>3, <1>4 DEF Policies
-----------------------------------------------------------------------------
(* The objects: creation, moves and destruction.                           *)

\* Nothing is allocated, owned or called at first.
LEMMA InitInv == Init => Inv
<1> SUFFICES ASSUME Init PROVE Inv
  OBVIOUS
<1>1. Absent \notin Addresses
  BY BridgeAssumption
<1> QED BY <1>1, BlockKinds DEF Init, Inv, Typed, SessionInv, ResultInv, CallInv

\* Calls and results do not depend on sessions: a step that changes session
\* blocks only keeps what is known of them.
LEMMA ResultsKept ==
  ASSUME Inv, call' = call, DOMAIN heap' = Addresses,
         \A a \in Addresses : heap[a].kind = "result" => heap'[a] = heap[a],
         \A a \in Addresses : heap[a].kind # "result" => heap'[a].kind # "result"
  PROVE  ResultInv' /\ CallInv'
<1>1. ResultInv'
  BY DEF Inv, ResultInv
<1>2. CallInv'
  BY DEF Inv, CallInv
<1> QED BY <1>1, <1>2

\* Create: the new block is the object's alone and has counted nothing.
LEMMA CreateKeeps ==
  ASSUME Inv, NEW o \in Objects, NEW capacity \in Capacities, Create(o, capacity)
  PROVE  Inv'
<1>1. /\ Quiet(o) /\ session[o] = Absent /\ call' = call
      /\ accepted' = [accepted EXCEPT ![o] = 0]
      /\ Null \notin Addresses /\ Absent \notin Addresses /\ Null # Absent
  BY BridgeAssumption DEF Create, Present
<1>2. CASE capacity = 0
  <2>1. session' = [session EXCEPT ![o] = Null] /\ heap' = heap
    BY <1>2 DEF Create
  <2>2. Typed'
    BY <1>1, <2>1 DEF Inv, Typed
  <2>3. SessionInv'
    BY <1>1, <2>1 DEF Inv, Typed, SessionInv
  <2> QED BY <1>1, <2>1, <2>2, <2>3, ResultsKept DEF Inv, Typed
<1>3. CASE capacity # 0
  <2>1. PICK a \in FreeAddresses :
          /\ session' = [session EXCEPT ![o] = a]
          /\ heap' = [heap EXCEPT ![a] = SessionBlock(EmptyCache(capacity))]
    BY <1>3 DEF Create
  <2>2. a \in Addresses /\ heap[a] = Unallocated /\ heap[a].kind = "free"
    BY BlockKinds DEF FreeAddresses
  <2>3. /\ heap'[a].kind = "session" /\ heap'[a].cache = EmptyCache(capacity)
        /\ DOMAIN heap' = Addresses
        /\ \A b \in Addresses : b # a => heap'[b] = heap[b]
    BY <2>1, <2>2, BlockKinds DEF Inv, Typed
  <2>4. /\ GoodCache(EmptyCache(capacity))
        /\ EmptyCache(capacity).hits + EmptyCache(capacity).misses = 0
    BY DEF EmptyCache, GoodCache
  <2>5. Typed'
    BY <1>1, <2>1, <2>2, <2>3 DEF Inv, Typed
  <2>6. \A p \in Objects : session[p] \in Addresses => session[p] # a
    BY <2>2 DEF Inv, SessionInv
  <2>7. SessionInv'
    BY <1>1, <2>1, <2>2, <2>3, <2>4, <2>6 DEF Inv, Typed, SessionInv
  <2> QED BY <1>1, <2>2, <2>3, <2>5, <2>7, ResultsKept DEF Inv
<1> QED BY <1>2, <1>3

\* Move construction: the pointer changes hands, with its count.
LEMMA MoveConstructKeeps ==
  ASSUME Inv, NEW o \in Objects, NEW from \in Objects, MoveConstruct(o, from)
  PROVE  Inv'
<1>1. /\ session[o] = Absent /\ session[from] # Absent /\ o # from
      /\ session' = [session EXCEPT ![o] = session[from], ![from] = Null]
      /\ accepted' = [accepted EXCEPT ![o] = accepted[from], ![from] = 0]
      /\ heap' = heap /\ call' = call
      /\ Null \notin Addresses /\ Absent \notin Addresses
  BY BridgeAssumption DEF MoveConstruct, Present
<1>2. /\ \A p \in Objects : session'[p] = IF p = from THEN Null ELSE IF p = o THEN session[from] ELSE session[p]
      /\ \A p \in Objects : accepted'[p] = IF p = from THEN 0 ELSE IF p = o THEN accepted[from] ELSE accepted[p]
  BY <1>1 DEF Inv, Typed
<1>3. Typed'
  BY <1>1 DEF Inv, Typed
<1>4. SessionInv'
  <2>1. \A p \in Objects : session'[p] \in Addresses =>
          \E q \in Objects : /\ session'[p] = session[q] /\ accepted'[p] = accepted[q]
                             /\ q = IF p = o THEN from ELSE p
    BY <1>1, <1>2
  <2>2. \A p \in Objects : session'[p] \in Addresses =>
          /\ heap'[session'[p]].kind = "session"
          /\ GoodCache(heap'[session'[p]].cache)
          /\ heap'[session'[p]].cache.hits + heap'[session'[p]].cache.misses = accepted'[p]
    <3> TAKE p \in Objects
    <3> HAVE session'[p] \in Addresses
    <3>1. PICK q \in Objects : session'[p] = session[q] /\ accepted'[p] = accepted[q]
      BY <2>1
    <3> QED BY <1>1, <3>1 DEF Inv, SessionInv
  <2>3. \A p, q \in Objects : session'[p] \in Addresses /\ session'[p] = session'[q] => p = q
    BY <1>1, <1>2, <2>1 DEF Inv, SessionInv
  <2>4. \A a \in Addresses : heap'[a].kind = "session" => \E p \in Objects : session'[p] = a
    <3> SUFFICES ASSUME NEW a \in Addresses, heap[a].kind = "session"
                 PROVE  \E p \in Objects : session'[p] = a
      BY <1>1
    <3>1. PICK q \in Objects : session[q] = a
      BY DEF Inv, SessionInv
    <3>2. CASE q = from
      BY <1>1, <1>2, <3>1, <3>2
    <3>3. CASE q # from
      BY <1>1, <1>2, <3>1, <3>3
    <3> QED BY <3>2, <3>3
  <2> QED BY <2>2, <2>3, <2>4 DEF SessionInv
<1> QED BY <1>1, <1>3, <1>4, ResultsKept DEF Inv, Typed

\* Freeing the block of an object that keeps no pointer to it.
LEMMA ReleaseSession ==
  ASSUME Inv, NEW o \in Objects, session[o] # Absent, heap' = Released(heap, session[o])
  PROVE  /\ DOMAIN heap' = Addresses
         /\ \A a \in Addresses : a # session[o] => heap'[a] = heap[a]
         /\ session[o] \in Addresses =>
              heap'[session[o]] = Unallocated /\ heap'[session[o]].kind = "free"
         /\ \A a \in Addresses : heap[a].kind = "result" => heap'[a] = heap[a]
         /\ \A a \in Addresses : heap[a].kind # "result" => heap'[a].kind # "result"
<1>1. session[o] \in Addresses \/ session[o] = Null
  BY DEF Inv, Typed
<1>2. Null \notin Addresses
  BY BridgeAssumption
<1>3. session[o] \in Addresses => heap[session[o]].kind = "session"
  BY DEF Inv, SessionInv
<1> QED BY <1>1, <1>2, <1>3, BlockKinds DEF Released, Inv, Typed

\* Move assignment: the old block goes, the pointer changes hands; onto itself, nothing.
LEMMA MoveAssignKeeps ==
  ASSUME Inv, NEW o \in Objects, NEW from \in Objects, MoveAssign(o, from)
  PROVE  Inv'
<1>1. CASE o = from
  <2>1. heap' = heap /\ session' = session /\ accepted' = accepted /\ call' = call
    BY <1>1 DEF MoveAssign
  <2>2. Typed' /\ SessionInv'
    BY <2>1 DEF Inv, Typed, SessionInv
  <2> QED BY <2>1, <2>2, ResultsKept DEF Inv, Typed
<1>2. CASE o # from
  <2>1. /\ session[o] # Absent /\ session[from] # Absent
        /\ heap' = Released(heap, session[o])
        /\ session' = [session EXCEPT ![o] = session[from], ![from] = Null]
        /\ accepted' = [accepted EXCEPT ![o] = accepted[from], ![from] = 0]
        /\ call' = call
        /\ Null \notin Addresses /\ Absent \notin Addresses
    BY <1>2, BridgeAssumption DEF MoveAssign, Present
  <2>2. /\ \A p \in Objects : session'[p] =
             IF p = from THEN Null ELSE IF p = o THEN session[from] ELSE session[p]
        /\ \A p \in Objects : accepted'[p] =
             IF p = from THEN 0 ELSE IF p = o THEN accepted[from] ELSE accepted[p]
    BY <1>2, <2>1 DEF Inv, Typed
  <2>3. /\ DOMAIN heap' = Addresses
        /\ \A a \in Addresses : a # session[o] => heap'[a] = heap[a]
        /\ session[o] \in Addresses =>
             heap'[session[o]] = Unallocated /\ heap'[session[o]].kind = "free"
        /\ \A a \in Addresses : heap[a].kind = "result" => heap'[a] = heap[a]
        /\ \A a \in Addresses : heap[a].kind # "result" => heap'[a].kind # "result"
    BY <2>1, ReleaseSession
  <2>4. Typed'
    BY <2>1, <2>3 DEF Inv, Typed
  <2>5. SessionInv'
    <3>1. \A p \in Objects : session'[p] \in Addresses =>
            \E q \in Objects \ {o} : /\ session'[p] = session[q] /\ accepted'[p] = accepted[q]
                                     /\ q = IF p = o THEN from ELSE p
      BY <1>2, <2>1, <2>2
    <3>2. \A q \in Objects \ {o} : session[q] \in Addresses => session[q] # session[o]
      BY DEF Inv, SessionInv
    <3>3. \A p \in Objects : session'[p] \in Addresses =>
            /\ heap'[session'[p]].kind = "session"
            /\ GoodCache(heap'[session'[p]].cache)
            /\ heap'[session'[p]].cache.hits + heap'[session'[p]].cache.misses = accepted'[p]
      BY <2>3, <3>1, <3>2 DEF Inv, SessionInv
    <3>4. \A p, q \in Objects : session'[p] \in Addresses /\ session'[p] = session'[q] => p = q
      BY <1>2, <2>1, <2>2, <3>1 DEF Inv, SessionInv
    <3>5. \A a \in Addresses : heap'[a].kind = "session" => \E p \in Objects : session'[p] = a
      <4> SUFFICES ASSUME NEW a \in Addresses, heap'[a].kind = "session"
                   PROVE  \E p \in Objects : session'[p] = a
        OBVIOUS
      <4>1. a # session[o] /\ heap[a].kind = "session"
        BY <2>3
      <4>2. PICK q \in Objects : session[q] = a
        BY <4>1 DEF Inv, SessionInv
      <4>3. CASE q = from
        BY <1>2, <2>2, <4>2, <4>3
      <4>4. CASE q # from
        BY <2>2, <4>1, <4>2, <4>4
      <4> QED BY <4>3, <4>4
    <3> QED BY <3>3, <3>4, <3>5 DEF SessionInv
  <2> QED BY <2>1, <2>3, <2>4, <2>5, ResultsKept DEF Inv
<1> QED BY <1>1, <1>2

\* Destruction frees the block no other object points to.
LEMMA DestroyKeeps ==
  ASSUME Inv, NEW o \in Objects, Destroy(o)
  PROVE  Inv'
<1>1. /\ session[o] # Absent
      /\ heap' = Released(heap, session[o])
      /\ session' = [session EXCEPT ![o] = Absent]
      /\ accepted' = [accepted EXCEPT ![o] = 0]
      /\ call' = call /\ Absent \notin Addresses
  BY BridgeAssumption DEF Destroy, Present
<1>2. /\ DOMAIN heap' = Addresses
      /\ \A a \in Addresses : a # session[o] => heap'[a] = heap[a]
      /\ session[o] \in Addresses =>
           heap'[session[o]] = Unallocated /\ heap'[session[o]].kind = "free"
      /\ \A a \in Addresses : heap[a].kind = "result" => heap'[a] = heap[a]
      /\ \A a \in Addresses : heap[a].kind # "result" => heap'[a].kind # "result"
  BY <1>1, ReleaseSession
<1>3. Typed'
  BY <1>1, <1>2 DEF Inv, Typed
<1>4. \A p \in Objects : session'[p] = IF p = o THEN Absent ELSE session[p]
  BY <1>1 DEF Inv, Typed
<1>5. \A p \in Objects : p # o => accepted'[p] = accepted[p]
  BY <1>1 DEF Inv, Typed
<1>6. \A p \in Objects : p # o /\ session[p] \in Addresses => session[p] # session[o]
  BY DEF Inv, SessionInv
<1>7. SessionInv'
  BY <1>1, <1>2, <1>4, <1>5, <1>6 DEF Inv, SessionInv
<1> QED BY <1>1, <1>2, <1>3, <1>7, ResultsKept DEF Inv
-----------------------------------------------------------------------------
(* Executions.                                                             *)

\* A call in progress is one.
LEMMA CallsTyped ==
  ASSUME Inv, NEW o \in Objects, call[o] # Idle
  PROVE  call[o] \in CallType
BY DEF Inv, Typed

\* write_result: h is the heap the call leaves, which differs from the heap in
\* session blocks only.
LEMMA ReturnedKeeps ==
  ASSUME Inv, NEW o \in Objects, Quiet(o), NEW h,
         DOMAIN h = Addresses,
         \A a \in Addresses : heap[a].kind # "session" => h[a] = heap[a],
         \A a \in Addresses : heap[a].kind = "session" => h[a].kind = "session",
         NEW kind \in {"inline", "one_shot"}, NEW status \in Statuses,
         NEW b \in Buffers, NEW policy \in Policies,
         kind = "inline" /\ policy = "allow" => status = OneShotStatus(b),
         Returned(o, h, kind, status, b, policy)
  PROVE  /\ ResultInv' /\ CallInv'
         /\ call' \in [Objects -> {Idle} \union CallType]
         /\ DOMAIN heap' = Addresses
         /\ \A a \in Addresses : heap'[a] = Unallocated \/ heap'[a].kind \in {"session", "result"}
         /\ \A a \in Addresses : heap[a].kind = "session" => heap'[a] = h[a]
         /\ \A a \in Addresses : heap[a].kind # "session" => heap'[a].kind # "session"
<1>1. /\ call[o] = Idle /\ Null \notin Addresses
      /\ \A a \in Addresses : heap[a] = Unallocated \/ heap[a].kind \in {"session", "result"}
      /\ \A a \in Addresses : heap[a] = Unallocated => heap[a].kind = "free"
  BY BridgeAssumption, BlockKinds DEF Quiet, Inv, Typed
<1>2. NoJson \in Jsons
  BY DEF NoJson, Jsons
<1>3. ASSUME NEW p \in Addresses \union {Null}
      PROVE  LET c == Calling(kind, status, b, policy, p)
             IN  /\ c \in CallType /\ c # Idle /\ c.result = p /\ c.status = status
                 /\ c.source = b /\ c.pc = "copy" /\ c.kind = kind /\ c.policy = policy
  BY <1>2 DEF Calling, CallType, Idle
<1>4. CASE status = "invalid_argument"
  <2> DEFINE c == Calling(kind, status, b, policy, Null)
  <2>1. heap' = h /\ call' = [call EXCEPT ![o] = c]
    BY <1>4 DEF Returned
  <2>2. /\ c \in CallType /\ c # Idle /\ c.result = Null /\ c.status = status
        /\ c.source = b /\ c.pc = "copy" /\ c.kind = kind /\ c.policy = policy
    BY <1>3
  <2> HIDE DEF c
  <2>3. call' \in [Objects -> {Idle} \union CallType]
    BY <2>1, <2>2 DEF Inv, Typed
  <2>4. /\ call'[o] = c
        /\ \A p \in Objects : p # o => call'[p] = call[p]
    BY <2>1 DEF Inv, Typed
  <2>5. CallInv'
    BY <1>4, <2>2, <2>4 DEF Inv, CallInv
  <2>6. \A p \in Objects : call'[p] # Idle /\ call'[p].result \in Addresses =>
          p # o /\ call'[p] = call[p]
    BY <1>1, <2>2, <2>4
  <2>7. \A p \in Objects : call[p] # Idle => p # o /\ call'[p] = call[p]
    BY <1>1, <2>4
  <2>8. \A a \in Addresses : heap'[a].kind = "result" <=> heap[a].kind = "result"
    BY <1>1, <2>1
  <2>9. \A a \in Addresses : heap[a].kind = "result" => heap'[a] = heap[a]
    BY <2>1
  <2>10. ResultInv'
    BY <2>6, <2>7, <2>8, <2>9 DEF Inv, ResultInv
  <2> QED BY <1>1, <2>1, <2>3, <2>5, <2>10
<1>5. CASE status # "invalid_argument"
  <2>1. PICK x \in FreeAddresses :
          /\ heap' = [h EXCEPT ![x] = ResultBlock(Envelope(status, b))]
          /\ call' = [call EXCEPT ![o] = Calling(kind, status, b, policy, x)]
    BY <1>5 DEF Returned
  <2>2. x \in Addresses /\ heap[x] = Unallocated /\ heap[x].kind = "free"
    BY <1>1 DEF FreeAddresses
  <2> DEFINE c == Calling(kind, status, b, policy, x)
  <2>3. /\ c \in CallType /\ c # Idle /\ c.result = x /\ c.status = status
        /\ c.source = b /\ c.pc = "copy" /\ c.kind = kind /\ c.policy = policy
    BY <1>3, <2>2
  <2>4. call' = [call EXCEPT ![o] = c]
    BY <2>1
  <2> HIDE DEF c
  <2>5. call' \in [Objects -> {Idle} \union CallType]
    BY <2>3, <2>4 DEF Inv, Typed
  <2>6. /\ call'[o] = c
        /\ \A p \in Objects : p # o => call'[p] = call[p]
    BY <2>4 DEF Inv, Typed
  <2>7. /\ DOMAIN heap' = Addresses
        /\ heap'[x].kind = "result" /\ heap'[x].json = Envelope(status, b)
        /\ \A a \in Addresses : a # x => heap'[a] = h[a]
    BY <2>1, <2>2, BlockKinds
  <2>8. CallInv'
    BY <1>1, <1>5, <2>2, <2>3, <2>6 DEF Inv, CallInv
  <2>9. \A p \in Objects : call[p] # Idle /\ call[p].result \in Addresses => call[p].result # x
    BY <2>2 DEF Inv, ResultInv
  <2>10. \A a \in Addresses : a # x => /\ heap'[a].kind = "result" <=> heap[a].kind = "result"
                                       /\ heap[a].kind = "result" => heap'[a] = heap[a]
    BY <1>1, <2>7
  <2>11. ResultInv'
    <3>1. \A p \in Objects : call'[p] # Idle /\ call'[p].result \in Addresses =>
            \/ p = o /\ call'[p] = c
            \/ p # o /\ call'[p] = call[p] /\ call[p].result # x
      BY <2>6, <2>9
    <3>2. \A p \in Objects : call[p] # Idle => p # o /\ call'[p] = call[p]
      BY <1>1, <2>6
    <3>3. \A p \in Objects : call'[p] # Idle /\ call'[p].result \in Addresses =>
            /\ heap'[call'[p].result].kind = "result"
            /\ heap'[call'[p].result].json = Envelope(call'[p].status, call'[p].source)
      BY <2>3, <2>7, <2>10, <3>1 DEF Inv, ResultInv
    <3>4. \A p, q \in Objects :
            (call'[p] # Idle /\ call'[q] # Idle /\ call'[p].result \in Addresses
               /\ call'[p].result = call'[q].result) => p = q
      BY <2>3, <3>1 DEF Inv, ResultInv
    <3>5. \A a \in Addresses :
            heap'[a].kind = "result" => \E p \in Objects : call'[p] # Idle /\ call'[p].result = a
      <4> SUFFICES ASSUME NEW a \in Addresses, heap'[a].kind = "result"
                   PROVE  \E p \in Objects : call'[p] # Idle /\ call'[p].result = a
        OBVIOUS
      <4>1. CASE a = x
        BY <2>3, <2>6, <4>1
      <4>2. CASE a # x
        BY <2>10, <3>2, <4>2 DEF Inv, ResultInv
      <4> QED BY <4>1, <4>2
    <3> QED BY <3>3, <3>4, <3>5 DEF ResultInv
  <2>12. /\ \A a \in Addresses : heap[a].kind = "session" => heap'[a] = h[a]
         /\ \A a \in Addresses : heap[a].kind # "session" => heap'[a].kind # "session"
         /\ \A a \in Addresses : heap'[a] = Unallocated \/ heap'[a].kind \in {"session", "result"}
    BY <1>1, <2>2, <2>7
  <2> QED BY <2>5, <2>7, <2>8, <2>11, <2>12
<1> QED BY <1>4, <1>5

\* A one-shot execution touches no session.
LEMMA ExecuteSourceKeeps ==
  ASSUME Inv, NEW o \in Objects, NEW b \in Buffers, ExecuteSource(o, b)
  PROVE  Inv'
<1>1. /\ Quiet(o) /\ Returned(o, heap, "one_shot", OneShotStatus(b), b, "allow")
      /\ session' = session /\ accepted' = accepted
  BY DEF ExecuteSource
<1>2. OneShotStatus(b) \in Statuses /\ DOMAIN heap = Addresses /\ "allow" \in Policies
  BY StatusesTyped DEF Inv, Typed, Policies
<1>3. /\ ResultInv' /\ CallInv'
      /\ call' \in [Objects -> {Idle} \union CallType]
      /\ DOMAIN heap' = Addresses
      /\ \A a \in Addresses : heap'[a] = Unallocated \/ heap'[a].kind \in {"session", "result"}
      /\ \A a \in Addresses : heap[a].kind = "session" => heap'[a] = heap[a]
      /\ \A a \in Addresses : heap[a].kind # "session" => heap'[a].kind # "session"
  BY <1>1, <1>2, ReturnedKeeps
<1>4. Typed'
  BY <1>1, <1>3 DEF Inv, Typed
<1>5. SessionInv'
  BY <1>1, <1>3 DEF Inv, SessionInv
<1> QED BY <1>3, <1>4, <1>5 DEF Inv

\* An execution through a session changes that session's cache only, and counts in it.
LEMMA ExecuteInlineKeeps ==
  ASSUME Inv, NEW o \in Objects, NEW b \in Buffers, NEW policy \in Policies,
         ExecuteInline(o, b, policy)
  PROVE  Inv'
<1> DEFINE x == session[o]
           c == heap[x].cache
           run == SessionExecute(c, b, policy)
           looked == policy = "allow" /\ b # NotUtf8
           h == [heap EXCEPT ![x] = SessionBlock(run.cache)]
<1>1. /\ Quiet(o) /\ x \in Addresses
      /\ Returned(o, h, "inline", run.status, b, policy)
      /\ accepted' = [accepted EXCEPT ![o] = IF looked THEN accepted[o] + 1 ELSE accepted[o]]
      /\ session' = session
  BY DEF ExecuteInline
<1>2. /\ heap[x].kind = "session" /\ GoodCache(c) /\ c.hits + c.misses = accepted[o]
  BY <1>1 DEF Inv, SessionInv
<1>3. /\ run.status \in Statuses
      /\ policy = "allow" => run.status = OneShotStatus(b)
      /\ GoodCache(run.cache)
      /\ run.cache.hits + run.cache.misses = c.hits + c.misses + (IF looked THEN 1 ELSE 0)
  BY <1>2, ExecuteFacts
<1>4. /\ DOMAIN h = Addresses /\ h[x].kind = "session" /\ h[x].cache = run.cache
      /\ \A a \in Addresses : a # x => h[a] = heap[a]
  BY <1>1, BlockKinds DEF Inv, Typed
<1>5. accepted[o] \in Nat /\ accepted'[o] = IF looked THEN accepted[o] + 1 ELSE accepted[o]
  BY <1>1 DEF Inv, Typed
<1> HIDE DEF run, h
<1>6. /\ ResultInv' /\ CallInv'
      /\ call' \in [Objects -> {Idle} \union CallType]
      /\ DOMAIN heap' = Addresses
      /\ \A a \in Addresses : heap'[a] = Unallocated \/ heap'[a].kind \in {"session", "result"}
      /\ \A a \in Addresses : heap[a].kind = "session" => heap'[a] = h[a]
      /\ \A a \in Addresses : heap[a].kind # "session" => heap'[a].kind # "session"
  <2>1. \A a \in Addresses : heap[a].kind # "session" => h[a] = heap[a]
    BY <1>2, <1>4
  <2>2. \A a \in Addresses : heap[a].kind = "session" => h[a].kind = "session"
    BY <1>4
  <2> QED BY <1>1, <1>3, <1>4, <2>1, <2>2, ReturnedKeeps
<1>7. Typed'
  <2> DEFINE v == IF looked THEN accepted[o] + 1 ELSE accepted[o]
  <2>1. v \in Nat
    BY <1>5
  <2>2. accepted' = [accepted EXCEPT ![o] = v]
    BY <1>1
  <2> HIDE DEF v
  <2>3. accepted' \in [Objects -> Nat]
    BY <2>1, <2>2 DEF Inv, Typed
  <2>4. session' \in [Objects -> Addresses \union {Null, Absent}]
    BY <1>1 DEF Inv, Typed
  <2> QED BY <1>6, <2>3, <2>4 DEF Typed
<1>8. SessionInv'
  <2>1. \A a \in Addresses : heap'[a].kind = "session" <=> heap[a].kind = "session"
    BY <1>4, <1>6
  <2>2. /\ heap'[x].kind = "session" /\ GoodCache(heap'[x].cache)
        /\ heap'[x].cache.hits + heap'[x].cache.misses = accepted'[o]
    BY <1>1, <1>2, <1>3, <1>4, <1>5, <1>6 DEF GoodCache
  <2>3. \A p \in Objects : p # o /\ session[p] \in Addresses =>
          heap'[session[p]] = heap[session[p]] /\ accepted'[p] = accepted[p]
    BY <1>1, <1>4, <1>6 DEF Inv, SessionInv, Typed
  <2> QED BY <1>1, <2>1, <2>2, <2>3 DEF Inv, SessionInv
<1> QED BY <1>6, <1>7, <1>8 DEF Inv

\* An object without a session allocates nothing.
LEMMA ExecuteInlineInvalidKeeps ==
  ASSUME Inv, NEW o \in Objects, NEW b \in Buffers, NEW policy \in Policies,
         ExecuteInlineInvalid(o, b, policy)
  PROVE  Inv'
<1> DEFINE c == [Calling("invalid", "invalid_argument", b, policy, Null) EXCEPT !.pc = "free"]
<1>1. /\ call[o] = Idle /\ call' = [call EXCEPT ![o] = c]
      /\ heap' = heap /\ session' = session /\ accepted' = accepted
      /\ Null \notin Addresses
  BY BridgeAssumption DEF ExecuteInlineInvalid, Quiet
<1>2. /\ c \in CallType /\ c # Idle /\ c.result = Null /\ c.status = "invalid_argument"
      /\ c.pc = "free" /\ c.kind = "invalid" /\ c.json = NoJson
  BY DEF Calling, CallType, Idle, Statuses, NoJson, Jsons
<1> HIDE DEF c
<1>3. /\ call'[o] = c
      /\ \A p \in Objects : p # o => call'[p] = call[p]
  BY <1>1 DEF Inv, Typed
<1>4. Typed'
  BY <1>1, <1>2 DEF Inv, Typed
<1>5. SessionInv'
  BY <1>1 DEF Inv, SessionInv
<1>6. CallInv'
  BY <1>2, <1>3 DEF Inv, CallInv
<1>7. \A p \in Objects : call'[p] # Idle /\ call'[p].result \in Addresses =>
        p # o /\ call'[p] = call[p]
  BY <1>1, <1>2, <1>3
<1>8. \A p \in Objects : call[p] # Idle => p # o /\ call'[p] = call[p]
  BY <1>1, <1>3
<1>9. ResultInv'
  BY <1>1, <1>7, <1>8 DEF Inv, ResultInv
<1> QED BY <1>4, <1>5, <1>6, <1>9 DEF Inv

\* The bytes are copied while the call still owns its result.
LEMMA CopyJsonKeeps ==
  ASSUME Inv, NEW o \in Objects, CopyJson(o)
  PROVE  Inv'
<1> DEFINE c == [call[o] EXCEPT !.pc = "free", !.json = Borrowed(call[o].result)]
           reply == IF call[o].status = "invalid_argument"
                      THEN NoJson ELSE Envelope(call[o].status, call[o].source)
<1>1. /\ call[o] # Idle /\ call[o] \in CallType
      /\ heap' = heap /\ session' = session /\ accepted' = accepted
      /\ Null \notin Addresses
  BY CallsTyped, BridgeAssumption DEF CopyJson, Idle
<1>2. call' = [call EXCEPT ![o] = c]
  BY <1>1 DEF CopyJson, Inv, Typed
<1>3. Borrowed(call[o].result) = reply
  <2>1. CASE call[o].result = Null
    BY <1>1, <2>1 DEF Inv, CallInv, Borrowed
  <2>2. CASE call[o].result # Null
    <3>1. call[o].result \in Addresses
      BY <1>1, <2>2 DEF CallType
    <3> QED BY <1>1, <2>2, <3>1 DEF Inv, CallInv, ResultInv, Borrowed
  <2> QED BY <2>1, <2>2
<1>4. reply \in Jsons
  BY <1>1 DEF CallType, Jsons, NoJson, Envelope
<1>5. /\ c \in CallType /\ c # Idle /\ c.result = call[o].result /\ c.status = call[o].status
      /\ c.pc = "free" /\ c.kind = call[o].kind /\ c.json = reply
      /\ c.source = call[o].source /\ c.policy = call[o].policy
  <2> HIDE DEF reply
  <2> QED BY <1>1, <1>3, <1>4 DEF CallType, Idle
<1> HIDE DEF c
<1>6. /\ call'[o] = c
      /\ \A p \in Objects : p # o => call'[p] = call[p]
  BY <1>2 DEF Inv, Typed
<1>7. Typed'
  BY <1>1, <1>2, <1>5 DEF Inv, Typed
<1>8. SessionInv'
  BY <1>1 DEF Inv, SessionInv
<1>9. CallInv'
  BY <1>1, <1>5, <1>6 DEF Inv, CallInv
<1>10. \A p \in Objects : /\ call'[p] # Idle <=> call[p] # Idle
                          /\ call[p] # Idle => /\ call'[p].result = call[p].result
                                               /\ call'[p].status = call[p].status
                                               /\ call'[p].source = call[p].source
  BY <1>1, <1>5, <1>6
<1>11. ResultInv'
  BY <1>1, <1>10 DEF Inv, ResultInv
<1> QED BY <1>7, <1>8, <1>9, <1>11 DEF Inv

\* No other call and no session loses the block a call lets go.
LEMMA FreeResultKeeps ==
  ASSUME Inv, NEW o \in Objects, FreeResult(o)
  PROVE  Inv'
<1>1. /\ call[o] # Idle /\ call[o] \in CallType
      /\ heap' = Released(heap, call[o].result)
      /\ call' = [call EXCEPT ![o] = Idle]
      /\ session' = session /\ accepted' = accepted
      /\ Null \notin Addresses
  BY CallsTyped, BridgeAssumption DEF FreeResult, Idle
<1> DEFINE r == call[o].result
<1>2. r \in Addresses \/ r = Null
  BY <1>1 DEF CallType
<1>3. r \in Addresses => heap[r].kind = "result"
  BY <1>1 DEF Inv, ResultInv
<1>4. /\ DOMAIN heap' = Addresses
      /\ \A a \in Addresses : a # r => heap'[a] = heap[a]
      /\ r \in Addresses => heap'[r] = Unallocated /\ heap'[r].kind = "free"
  BY <1>1, <1>2, BlockKinds DEF Released, Inv, Typed
<1>5. /\ call'[o] = Idle
      /\ \A p \in Objects : p # o => call'[p] = call[p]
  BY <1>1 DEF Inv, Typed
<1>6. Typed'
  BY <1>1, <1>4 DEF Inv, Typed
<1>7. \A p \in Objects : session[p] \in Addresses => session[p] # r
  BY <1>2, <1>3 DEF Inv, SessionInv
<1>8. SessionInv'
  BY <1>1, <1>4, <1>7 DEF Inv, SessionInv
<1>9. CallInv'
  BY <1>5 DEF Inv, CallInv
<1>10. \A p \in Objects : call'[p] # Idle => p # o /\ call'[p] = call[p]
  BY <1>5
<1>11. \A p \in Objects : p # o /\ call[p] # Idle /\ call[p].result \in Addresses =>
         call[p].result # r
  BY <1>1 DEF Inv, ResultInv
<1>12. ResultInv'
  <2>1. \A p \in Objects : call'[p] # Idle /\ call'[p].result \in Addresses =>
          /\ heap'[call'[p].result].kind = "result"
          /\ heap'[call'[p].result].json = Envelope(call'[p].status, call'[p].source)
    BY <1>4, <1>10, <1>11 DEF Inv, ResultInv
  <2>2. \A p, q \in Objects :
          (call'[p] # Idle /\ call'[q] # Idle /\ call'[p].result \in Addresses
             /\ call'[p].result = call'[q].result) => p = q
    BY <1>10 DEF Inv, ResultInv
  <2>3. \A a \in Addresses :
          heap'[a].kind = "result" => \E p \in Objects : call'[p] # Idle /\ call'[p].result = a
    <3> SUFFICES ASSUME NEW a \in Addresses, heap'[a].kind = "result"
                 PROVE  \E p \in Objects : call'[p] # Idle /\ call'[p].result = a
      OBVIOUS
    <3>1. a # r /\ heap[a].kind = "result"
      BY <1>4
    <3>2. PICK p \in Objects : call[p] # Idle /\ call[p].result = a
      BY <3>1 DEF Inv, ResultInv
    <3> QED BY <1>5, <3>1, <3>2
  <2> QED BY <2>1, <2>2, <2>3 DEF ResultInv
<1> QED BY <1>6, <1>8, <1>9, <1>12 DEF Inv
-----------------------------------------------------------------------------
(* The invariant, and what it says.                                        *)

\* Every step keeps the invariant.
LEMMA NextKeeps == Inv /\ [Next]_vars => Inv'
<1> SUFFICES ASSUME Inv, [Next]_vars PROVE Inv'
  OBVIOUS
<1>1. CASE Next
  BY <1>1, CreateKeeps, MoveConstructKeeps, MoveAssignKeeps, DestroyKeeps,
     ExecuteInlineKeeps, ExecuteInlineInvalidKeeps, ExecuteSourceKeeps, CopyJsonKeeps,
     FreeResultKeeps DEF Next
<1>2. CASE UNCHANGED vars
  <2>1. heap' = heap /\ session' = session /\ call' = call /\ accepted' = accepted
    BY <1>2 DEF vars
  <2>2. Typed' /\ SessionInv'
    BY <2>1 DEF Inv, Typed, SessionInv
  <2> QED BY <2>1, <2>2, ResultsKept DEF Inv, Typed
<1> QED BY <1>1, <1>2

\* The invariant holds always.
LEMMA InvHolds == Spec => []Inv
BY InitInv, NextKeeps, PTL DEF Spec

\* One owner each, counted.
LEMMA InvOwned == Inv => BlocksOwnedOnce
<1> SUFFICES ASSUME Inv, NEW a \in Addresses
             PROVE  /\ Cardinality(SessionOwners(a)) = (IF heap[a].kind = "session" THEN 1 ELSE 0)
                    /\ Cardinality(ResultOwners(a)) = (IF heap[a].kind = "result" THEN 1 ELSE 0)
  BY DEF BlocksOwnedOnce
<1>1. Cardinality(SessionOwners(a)) = (IF heap[a].kind = "session" THEN 1 ELSE 0)
  <2>1. CASE heap[a].kind = "session"
    <3>1. PICK o \in Objects : session[o] = a
      BY <2>1 DEF Inv, SessionInv
    <3>2. SessionOwners(a) = {o}
      BY <3>1 DEF Inv, SessionInv, SessionOwners
    <3> QED BY <2>1, <3>2, FS_Singleton
  <2>2. CASE heap[a].kind # "session"
    <3>1. SessionOwners(a) = {}
      BY <2>2 DEF Inv, SessionInv, SessionOwners
    <3> QED BY <2>2, <3>1, FS_EmptySet
  <2> QED BY <2>1, <2>2
<1>2. Cardinality(ResultOwners(a)) = (IF heap[a].kind = "result" THEN 1 ELSE 0)
  <2>1. CASE heap[a].kind = "result"
    <3>1. PICK o \in Objects : call[o] # Idle /\ call[o].result = a
      BY <2>1 DEF Inv, ResultInv
    <3>2. ResultOwners(a) = {o}
      BY <3>1 DEF Inv, ResultInv, ResultOwners
    <3> QED BY <2>1, <3>2, FS_Singleton
  <2>2. CASE heap[a].kind # "result"
    <3>1. ResultOwners(a) = {}
      BY <2>2 DEF Inv, ResultInv, ResultOwners
    <3> QED BY <2>2, <3>1, FS_EmptySet
  <2> QED BY <2>1, <2>2
<1> QED BY <1>1, <1>2

\* A reply that was copied is the caller's own.
LEMMA InvReplies == Inv => RepliesAreOwn
<1> SUFFICES ASSUME Inv, NEW o \in Objects, call[o].pc = "free"
             PROVE  call[o].json = IF call[o].status = "invalid_argument"
                                     THEN NoJson ELSE Envelope(call[o].status, call[o].source)
  BY DEF RepliesAreOwn
<1>1. call[o] # Idle
  BY DEF Idle
<1> QED BY <1>1 DEF Inv, CallInv

\* What CacheStats reports is what was asked for.
LEMMA InvCounters == Inv => CountersAreOwn
<1> SUFFICES ASSUME Inv, NEW o \in Objects, session[o] # Absent, CacheStats(o).status = "ok"
             PROVE  CacheStats(o).stats.hits + CacheStats(o).stats.misses = accepted[o]
  BY DEF CountersAreOwn
<1>1. session[o] # Null
  BY DEF CacheStats
<1>2. session[o] \in Addresses
  BY <1>1 DEF Inv, Typed
<1>3. CacheStats(o).stats = Stats(heap[session[o]].cache)
  BY <1>1 DEF CacheStats
<1>4. /\ Stats(heap[session[o]].cache).hits = heap[session[o]].cache.hits
      /\ Stats(heap[session[o]].cache).misses = heap[session[o]].cache.misses
  BY DEF Stats
<1> QED BY <1>2, <1>3, <1>4 DEF Inv, SessionInv

\* However objects are created, moved (onto themselves too), called and
\* destroyed, every session block has exactly one PageSession and every result
\* block exactly one unfinished call: the C ABI leaks nothing, frees nothing
\* twice and reads nothing it has freed.
THEOREM OwnedOnce == Spec => []BlocksOwnedOnce
BY InvHolds, InvOwned, PTL

\* A call returns the JSON of its own status and source, for any number of
\* sequences that share the allocator.
THEOREM RepliesOwn == Spec => []RepliesAreOwn
BY InvHolds, InvReplies, PTL

\* An allowed execution through a session ends with the status of the one-shot
\* call, for every capacity, every eviction and every source.
THEOREM CacheInvisible == Spec => []CacheTransparent
<1>1. Inv => CacheTransparent
  BY DEF Inv, CallInv, CacheTransparent
<1> QED BY <1>1, InvHolds, PTL

\* Hits and misses of a handle add up to the allowed requests made through it,
\* wherever it was moved.
THEOREM CountersOwn == Spec => []CountersAreOwn
BY InvHolds, InvCounters, PTL
=============================================================================
