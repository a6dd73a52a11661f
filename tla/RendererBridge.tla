--------------------------- MODULE RendererBridge ---------------------------
(***************************************************************************)
(* The C ABI of runtime/c-api and the C++ PageSession that owns its        *)
(* handles.  Blocks live at addresses the allocator hands out again once   *)
(* they are freed, so a stale pointer finds another block, not a fault.    *)
(* Each PageSession object is used on one sequence; different objects are  *)
(* used concurrently, and a call returns only after it has copied the JSON *)
(* of its result and released the result.                                  *)
(***************************************************************************)
EXTENDS ModuleCacheOps

CONSTANTS
  Objects,      \* storage for C++ PageSession objects, one sequence each
  Addresses,    \* addresses of the Rust allocator
  Null, Absent, \* a null pointer; no object constructed
  NotUtf8,      \* a byte buffer that is not UTF-8
  Garbage,      \* what a read of a released block may return
  Capacities,   \* the cache capacities asked for
  Execution,    \* source |-> how executing its prepared module ends
  MaxLookups    \* bound: cache lookups through one session handle

ASSUME BridgeAssumption ==
  /\ Capacities \subseteq Nat
  /\ Execution \in [Sources -> {"ok", "runtime_error", "panic"}]
  /\ {Null, Absent} \cap Addresses = {} /\ Null # Absent
  /\ NotUtf8 \notin Sources
  /\ MaxLookups \in Nat

VARIABLES
  heap,      \* address |-> the block allocated there
  session,   \* object |-> session_, the pointer it owns
  call,      \* object |-> the execution its sequence is in
  accepted   \* history: object |-> lookups its handle has been asked for

vars == <<heap, session, call, accepted>>

Buffers == Sources \union {NotUtf8}
Policies == {"allow", "block", "unknown"}
Unallocated == [kind |-> "free"]
SessionBlock(c) == [kind |-> "session", cache |-> c]
ResultBlock(json) == [kind |-> "result", json |-> json]

\* The JSON of a result: what it says depends on the status and the source.
Envelope(status, b) == [status |-> status, source |-> b]
NoJson == [status |-> "none", source |-> Null]

Idle == [pc |-> "idle"]

Init ==
  /\ heap = [a \in Addresses |-> Unallocated]
  /\ session = [o \in Objects |-> Absent]
  /\ call = [o \in Objects |-> Idle]
  /\ accepted = [o \in Objects |-> 0]
-----------------------------------------------------------------------------
\* Status of preparing and running a source from nothing; a panic is caught at
\* the boundary.
PreparedStatus(s) ==
  CASE Execution[s] = "ok" -> "ok"
    [] Execution[s] = "runtime_error" -> "runtime_error"
    [] Execution[s] = "panic" -> "internal_error"

FreshStatus(s) ==
  CASE Preparation[s] = "ok" -> PreparedStatus(s)
    [] Preparation[s] = "panic" -> "internal_error"
    [] OTHER -> Preparation[s]

\* A resident module is run as it is; any other source is prepared first.
CachedStatus(c, s) ==
  IF s \in c.modules THEN PreparedStatus(s) ELSE FreshStatus(s)

\* execute_utf8.
OneShotStatus(b) == IF b = NotUtf8 THEN "invalid_utf8" ELSE FreshStatus(b)

\* Looks the source up before it asks the policy.
SessionExecuteUncheckedPolicy(c, b, policy) ==
  CASE policy = "unknown" -> [status |-> "invalid_argument", cache |-> c]
    [] policy # "unknown" /\ b = NotUtf8 -> [status |-> "invalid_utf8", cache |-> c]
    [] policy = "block" /\ b # NotUtf8 ->
         [status |-> "runtime_error", cache |-> GetOrPrepare(c, b)]
    [] policy = "allow" /\ b # NotUtf8 ->
         [status |-> CachedStatus(c, b), cache |-> GetOrPrepare(c, b)]

\* tsvm_page_session_execute_utf8 past its null checks: the policy is decoded,
\* then the buffer, then the policy is enforced, and only then the cache used.
SessionExecute(c, b, policy) ==
  CASE policy = "unknown" -> [status |-> "invalid_argument", cache |-> c]
    [] policy # "unknown" /\ b = NotUtf8 -> [status |-> "invalid_utf8", cache |-> c]
    [] policy = "block" /\ b # NotUtf8 -> [status |-> "runtime_error", cache |-> c]
    [] policy = "allow" /\ b # NotUtf8 ->
         [status |-> CachedStatus(c, b), cache |-> GetOrPrepare(c, b)]

Released(h, p) == IF p = Null THEN h ELSE [h EXCEPT ![p] = Unallocated]

FreeAddresses == {a \in Addresses : heap[a] = Unallocated}

\* The sequence of o is between two uses of the object.
Quiet(o) == call[o] = Idle

Present(o) == session[o] # Absent
-----------------------------------------------------------------------------
\* PageSession::Create and tsvm_page_session_create.
Create(o, capacity) ==
  /\ Quiet(o) /\ ~Present(o)
  /\ IF capacity = 0
       THEN session' = [session EXCEPT ![o] = Null] /\ UNCHANGED heap
       ELSE \E a \in FreeAddresses :
              /\ session' = [session EXCEPT ![o] = a]
              /\ heap' = [heap EXCEPT ![a] = SessionBlock(EmptyCache(capacity))]
  /\ accepted' = [accepted EXCEPT ![o] = 0]
  /\ UNCHANGED call

\* PageSession(PageSession&&).
MoveConstruct(o, from) ==
  /\ Quiet(o) /\ Quiet(from) /\ ~Present(o) /\ Present(from)
  /\ session' = [session EXCEPT ![o] = session[from], ![from] = Null]
  /\ accepted' = [accepted EXCEPT ![o] = accepted[from], ![from] = 0]
  /\ UNCHANGED <<heap, call>>

\* Assigns without asking whether the two objects are one: the pointer that was
\* released is taken back from itself.
MoveAssignUnguarded(o, from) ==
  /\ Quiet(o) /\ Quiet(from) /\ Present(o) /\ Present(from)
  /\ heap' = Released(heap, session[o])
  /\ session' = [p \in Objects |->
                   CASE p = o -> session[from]
                     [] p # o /\ p = from -> Null
                     [] OTHER -> session[p]]
  /\ accepted' = [accepted EXCEPT ![o] = accepted[from]]
  /\ UNCHANGED call

\* operator=(PageSession&&): the old handle is released, unless the two are one.
MoveAssign(o, from) ==
  /\ Quiet(o) /\ Quiet(from) /\ Present(o) /\ Present(from)
  /\ IF o = from
       THEN UNCHANGED <<heap, session, accepted>>
       ELSE /\ heap' = Released(heap, session[o])
            /\ session' = [session EXCEPT ![o] = session[from], ![from] = Null]
            /\ accepted' = [accepted EXCEPT ![o] = accepted[from], ![from] = 0]
  /\ UNCHANGED call

\* ~PageSession.
Destroy(o) ==
  /\ Quiet(o) /\ Present(o)
  /\ heap' = Released(heap, session[o])
  /\ session' = [session EXCEPT ![o] = Absent]
  /\ accepted' = [accepted EXCEPT ![o] = 0]
  /\ UNCHANGED call
-----------------------------------------------------------------------------
\* An execution on the sequence of o, past its ABI call: what it was asked, the
\* status it got and its out pointer.
Calling(kind, status, b, policy, p) ==
  [pc |-> "copy", kind |-> kind, status |-> status, source |-> b, policy |-> policy,
   result |-> p, json |-> NoJson]

\* write_result, and the early returns that leave the out pointer null.
Returned(o, h, kind, status, b, policy) ==
  IF status = "invalid_argument"
    THEN heap' = h /\ call' = [call EXCEPT ![o] = Calling(kind, status, b, policy, Null)]
    ELSE \E a \in FreeAddresses :
           /\ heap' = [h EXCEPT ![a] = ResultBlock(Envelope(status, b))]
           /\ call' = [call EXCEPT ![o] = Calling(kind, status, b, policy, a)]

\* ExecuteInline of an object that owns a session.
ExecuteInline(o, b, policy) ==
  /\ Quiet(o) /\ session[o] \in Addresses
  /\ LET block == heap[session[o]]
         run == SessionExecute(block.cache, b, policy)
         looked == policy = "allow" /\ b # NotUtf8
     IN  /\ block.kind = "session"
         /\ looked => accepted[o] < MaxLookups
         /\ Returned(o, [heap EXCEPT ![session[o]] = SessionBlock(run.cache)],
                     "inline", run.status, b, policy)
         /\ accepted' = [accepted EXCEPT ![o] = IF looked THEN @ + 1 ELSE @]
  /\ UNCHANGED session

\* ExecuteInline of an object that owns none: it returns before the ABI call.
ExecuteInlineInvalid(o, b, policy) ==
  /\ Quiet(o) /\ session[o] = Null
  /\ call' = [call EXCEPT ![o] =
       [Calling("invalid", "invalid_argument", b, policy, Null) EXCEPT !.pc = "free"]]
  /\ UNCHANGED <<heap, session, accepted>>

\* ExecuteSource, the one-shot call, on the sequence of o.
ExecuteSource(o, b) ==
  /\ Quiet(o)
  /\ Returned(o, heap, "one_shot", OneShotStatus(b), b, "allow")
  /\ UNCHANGED <<session, accepted>>

\* The bytes tsvm_result_json lends to CopyJson.
Borrowed(p) ==
  CASE p = Null -> NoJson
    [] p # Null /\ heap[p].kind = "result" -> heap[p].json
    [] OTHER -> Garbage

\* Lets the result go before its JSON is copied.
CopyJsonAfterFree(o) ==
  \/ /\ call[o].pc = "copy"
     /\ heap' = Released(heap, call[o].result)
     /\ call' = [call EXCEPT ![o].pc = "late"]
     /\ UNCHANGED <<session, accepted>>
  \/ /\ call[o].pc = "late"
     /\ call' = [call EXCEPT ![o].pc = "free", ![o].json = Borrowed(call[o].result),
                             ![o].result = Null]
     /\ UNCHANGED <<heap, session, accepted>>

\* CopyJson.
CopyJson(o) ==
  /\ call[o].pc = "copy"
  /\ call' = [call EXCEPT ![o].pc = "free", ![o].json = Borrowed(call[o].result)]
  /\ UNCHANGED <<heap, session, accepted>>

\* ~ResultHandle, as the call returns its status and its copy of the JSON.
FreeResult(o) ==
  /\ call[o].pc = "free"
  /\ heap' = Released(heap, call[o].result)
  /\ call' = [call EXCEPT ![o] = Idle]
  /\ UNCHANGED <<session, accepted>>

\* CacheStats reads the counters and changes nothing.
CacheStats(o) ==
  IF session[o] = Null
    THEN [status |-> "invalid_argument"]
    ELSE [status |-> "ok", stats |-> Stats(heap[session[o]].cache)]

Next ==
  \E o \in Objects :
    \/ \E capacity \in Capacities : Create(o, capacity)
    \/ \E from \in Objects : MoveConstruct(o, from)
    \/ \E from \in Objects : MoveAssign(o, from)
    \/ Destroy(o)
    \/ \E b \in Buffers, policy \in Policies : ExecuteInline(o, b, policy)
    \/ \E b \in Buffers, policy \in Policies : ExecuteInlineInvalid(o, b, policy)
    \/ \E b \in Buffers : ExecuteSource(o, b)
    \/ CopyJson(o)
    \/ FreeResult(o)

Spec == Init /\ [][Next]_vars

-----------------------------------------------------------------------------
SessionOwners(a) == {o \in Objects : session[o] = a}
ResultOwners(a) == {o \in Objects : call[o] # Idle /\ call[o].result = a}

\* Every session block has exactly one PageSession, every result block exactly
\* one call that has not returned, and no pointer leads anywhere else: whatever
\* is created, moved, moved onto itself, called and destroyed, nothing leaks,
\* nothing is freed twice and nothing is used after it is freed.
BlocksOwnedOnce ==
  \A a \in Addresses :
    /\ Cardinality(SessionOwners(a)) = (IF heap[a].kind = "session" THEN 1 ELSE 0)
    /\ Cardinality(ResultOwners(a)) = (IF heap[a].kind = "result" THEN 1 ELSE 0)

\* The JSON a call returns is that of its own status and source, though its
\* block may be another sequence's the moment it is released; a call without a
\* result returns none.
RepliesAreOwn ==
  \A o \in Objects :
    call[o].pc = "free" =>
      call[o].json = IF call[o].status = "invalid_argument"
                       THEN NoJson
                       ELSE Envelope(call[o].status, call[o].source)

\* The cache shows in the counters only: an allowed source gets from a session
\* the status the one-shot call gives it, hit or miss, after evictions,
\* failures and panics alike.
CacheTransparent ==
  \A o \in Objects :
    (call[o] # Idle /\ call[o].kind = "inline" /\ call[o].policy = "allow") =>
      call[o].status = OneShotStatus(call[o].source)

\* The counters CacheStats reports for an object are those of the allowed UTF-8
\* requests made through the handle it owns, wherever the handle was moved:
\* blocked, unknown-policy and malformed requests count for nothing, and no
\* other object's requests do.
CountersAreOwn ==
  \A o \in Objects :
    (session[o] # Absent /\ CacheStats(o).status = "ok") =>
      LET stats == CacheStats(o).stats
      IN  stats.hits + stats.misses = accepted[o]

=============================================================================
