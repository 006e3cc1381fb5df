---------------------------- MODULE MockBackend ----------------------------
(***************************************************************************)
(* src/scripts/mock_ai_backend.py: a ThreadingHTTPServer whose handler     *)
(* threads, one per request, share one BackendState.  Its counters         *)
(* _inflight, _total and _by_model are only touched under                  *)
(* BackendState._lock; the proxy reads _inflight back as queue_len from    *)
(* /ai/status.                                                             *)
(*                                                                         *)
(* A `+= 1` on an attribute is a load, an add and a store between which    *)
(* the interpreter may switch threads, so each locked read-modify-write is *)
(* an acquire step, a read step and a write step that releases the lock.   *)
(* What the handler sends back, the sleep of work_ms and the JSON bodies   *)
(* are left out: no state of the server depends on them.                   *)
(***************************************************************************)
EXTENDS Naturals, FiniteSets

CONSTANTS
  Req,        \* the requests, each served by a thread of its own
  Models,     \* X-Model header values
  NoThread,   \* the lock is free
  NoModel     \* no X-Model header

ASSUME MockAssumption ==
  /\ IsFiniteSet(Req)
  /\ NoThread \notin Req
  /\ NoModel \notin Models

VARIABLES
  lock,       \* holder of BackendState._lock
  inflight,   \* BackendState._inflight
  total,      \* BackendState._total
  byModel,    \* BackendState._by_model, a dict: a function on its keys
  phase,      \* where the thread of each request is
  kind,       \* what the request turned out to be
  model,      \* the X-Model header of each request
  seen,       \* (inflight, total) as the thread last read them
  cnt         \* the counter value read by a read-modify-write in progress

vars == <<lock, inflight, total, byModel, phase, kind, model, seen, cnt>>

Phases == {"new", "startAcq", "startRd", "startWr", "parse", "modelAcq",
           "modelRd", "modelWr", "body", "snapAcq", "snap", "endAcq",
           "endRd", "endWr", "done"}

\* "infer": POST /infer or /infer_stream; "get": a GET that snapshots the
\* counters; "none": a request answered without touching them.
Kinds == {"unknown", "infer", "get", "none"}

TypeOK ==
  /\ lock \in Req \cup {NoThread}
  /\ inflight \in Nat
  /\ total \in Nat
  /\ DOMAIN byModel \subseteq Models
  /\ \A m \in DOMAIN byModel : byModel[m] \in Nat
  /\ phase \in [Req -> Phases]
  /\ kind \in [Req -> Kinds]
  /\ model \in [Req -> Models \cup {NoModel}]
  /\ seen \in [Req -> [inflight : Nat, total : Nat]]
  /\ cnt \in [Req -> Nat]

Init ==
  /\ lock = NoThread
  /\ inflight = 0
  /\ total = 0
  /\ byModel = <<>>
  /\ phase = [r \in Req |-> "new"]
  /\ kind = [r \in Req |-> "unknown"]
  /\ model = [r \in Req |-> NoModel]
  /\ seen = [r \in Req |-> [inflight |-> 0, total |-> 0]]
  /\ cnt = [r \in Req |-> 0]

-----------------------------------------------------------------------------
(* Helpers. *)

Goto(r, to) == phase' = [phase EXCEPT ![r] = to]

\* `with self._lock:` entered by the thread of r.
Acquire(r, from, to) ==
  /\ phase[r] = from
  /\ lock = NoThread
  /\ lock' = r
  /\ Goto(r, to)

\* dict.get(m, 0)
DictGet(d, m) == IF m \in DOMAIN d THEN d[m] ELSE 0

\* d[k] = v on a dict.
DictSet(d, k, v) == [x \in DOMAIN d \cup {k} |-> IF x = k THEN v ELSE d[x]]

\* max(0, n)
ClampZero(n) == IF n < 0 THEN 0 ELSE n

-----------------------------------------------------------------------------
(* The steps of a handler thread. *)

\* do_POST, lines 114-121: a path other than /infer and /infer_stream is
\* answered 404 before on_start.
ReceivePost(r) ==
  /\ phase[r] = "new"
  /\ \/ kind' = [kind EXCEPT ![r] = "infer"] /\ Goto(r, "startAcq")
     \/ kind' = [kind EXCEPT ![r] = "none"] /\ Goto(r, "done")
  /\ UNCHANGED <<lock, inflight, total, byModel, model, seen, cnt>>

\* do_GET, lines 84-112: /hello, /ai/status and /backend/info snapshot the
\* counters; /health and unknown paths do not.
ReceiveGet(r) ==
  /\ phase[r] = "new"
  /\ \/ kind' = [kind EXCEPT ![r] = "get"] /\ Goto(r, "snapAcq")
     \/ kind' = [kind EXCEPT ![r] = "none"] /\ Goto(r, "done")
  /\ UNCHANGED <<lock, inflight, total, byModel, model, seen, cnt>>

\* A plausible bug: on_start without `with self._lock:`.
OnStartAcquireNoLock(r) ==
  /\ phase[r] = "startAcq"
  /\ Goto(r, "startRd")
  /\ UNCHANGED <<lock, inflight, total, byModel, kind, model, seen, cnt>>

\* on_start, lines 27-30.
OnStartAcquire(r) ==
  /\ Acquire(r, "startAcq", "startRd")
  /\ UNCHANGED <<inflight, total, byModel, kind, model, seen, cnt>>

OnStartRead(r) ==
  /\ phase[r] = "startRd"
  /\ seen' = [seen EXCEPT ![r] = [inflight |-> inflight, total |-> total]]
  /\ Goto(r, "startWr")
  /\ UNCHANGED <<lock, inflight, total, byModel, kind, model, cnt>>

OnStartWrite(r) ==
  /\ phase[r] = "startWr"
  /\ inflight' = seen[r].inflight + 1
  /\ total' = seen[r].total + 1
  /\ lock' = NoThread
  /\ Goto(r, "parse")
  /\ UNCHANGED <<byModel, kind, model, seen, cnt>>

\* A plausible bug: the X-Model check of line 127 (and the early return of
\* record_model) left out, so a request without the header is counted
\* under the empty model name.
ParseRecordsEmpty(r) ==
  /\ phase[r] = "parse"
  /\ \/ Goto(r, "endAcq") /\ UNCHANGED model
     \/ Goto(r, "body") /\ UNCHANGED model
     \/ \E m \in Models \cup {NoModel} :
          model' = [model EXCEPT ![r] = m] /\ Goto(r, "modelAcq")
  /\ UNCHANGED <<lock, inflight, total, byModel, kind, seen, cnt>>

\* A plausible bug: the error paths leave the handler without on_end.
ParseNoFinally(r) ==
  /\ phase[r] = "parse"
  /\ \/ Goto(r, "done") /\ UNCHANGED model
     \/ Goto(r, "body") /\ UNCHANGED model
     \/ \E m \in Models :
          model' = [model EXCEPT ![r] = m] /\ Goto(r, "modelAcq")
  /\ UNCHANGED <<lock, inflight, total, byModel, kind, seen, cnt>>

\* Lines 123-128: float() of the work_ms query raises ValueError, which the
\* finally of line 150 turns into on_end; otherwise the X-Model header, if
\* any, is recorded.
Parse(r) ==
  /\ phase[r] = "parse"
  /\ \/ Goto(r, "endAcq") /\ UNCHANGED model
     \/ Goto(r, "body") /\ UNCHANGED model
     \/ \E m \in Models :
          model' = [model EXCEPT ![r] = m] /\ Goto(r, "modelAcq")
  /\ UNCHANGED <<lock, inflight, total, byModel, kind, seen, cnt>>

\* record_model, lines 42-46.
RecordAcquire(r) ==
  /\ Acquire(r, "modelAcq", "modelRd")
  /\ UNCHANGED <<inflight, total, byModel, kind, model, seen, cnt>>

RecordRead(r) ==
  /\ phase[r] = "modelRd"
  /\ cnt' = [cnt EXCEPT ![r] = DictGet(byModel, model[r])]
  /\ Goto(r, "modelWr")
  /\ UNCHANGED <<lock, inflight, total, byModel, kind, model, seen>>

RecordWrite(r) ==
  /\ phase[r] = "modelWr"
  /\ byModel' = DictSet(byModel, model[r], cnt[r] + 1)
  /\ lock' = NoThread
  /\ Goto(r, "body")
  /\ UNCHANGED <<inflight, total, kind, model, seen, cnt>>

\* Lines 130-135: int() of Content-Length, or reading the body, raises
\* (into the finally); otherwise the sleep of work_ms.
ReadBody(r) ==
  /\ phase[r] = "body"
  /\ \/ Goto(r, "snapAcq")
     \/ Goto(r, "endAcq")
  /\ UNCHANGED <<lock, inflight, total, byModel, kind, model, seen, cnt>>

\* snapshot, lines 36-40, from do_POST (line 137) or do_GET.  A POST then
\* writes its reply (a BrokenPipeError is swallowed at line 78, any other
\* error goes to the finally) and runs on_end; a GET is done.
SnapAcquire(r) ==
  /\ Acquire(r, "snapAcq", "snap")
  /\ UNCHANGED <<inflight, total, byModel, kind, model, seen, cnt>>

Snapshot(r) ==
  /\ phase[r] = "snap"
  /\ seen' = [seen EXCEPT ![r] = [inflight |-> inflight, total |-> total]]
  /\ lock' = NoThread
  /\ Goto(r, IF kind[r] = "infer" THEN "endAcq" ELSE "done")
  /\ UNCHANGED <<inflight, total, byModel, kind, model, cnt>>

\* on_end, lines 32-34, in the finally of line 150.
OnEndAcquire(r) ==
  /\ Acquire(r, "endAcq", "endRd")
  /\ UNCHANGED <<inflight, total, byModel, kind, model, seen, cnt>>

OnEndRead(r) ==
  /\ phase[r] = "endRd"
  /\ cnt' = [cnt EXCEPT ![r] = inflight]
  /\ Goto(r, "endWr")
  /\ UNCHANGED <<lock, inflight, total, byModel, kind, model, seen>>

OnEndWrite(r) ==
  /\ phase[r] = "endWr"
  /\ inflight' = ClampZero(cnt[r] - 1)
  /\ lock' = NoThread
  /\ Goto(r, "done")
  /\ UNCHANGED <<total, byModel, kind, model, seen, cnt>>

\* serve_forever with every request of the instance answered.
Serving ==
  /\ \A r \in Req : phase[r] = "done"
  /\ UNCHANGED vars

-----------------------------------------------------------------------------

Receive(r) == ReceivePost(r) \/ ReceiveGet(r)

Thread(r) ==
  \/ OnStartAcquire(r) \/ OnStartRead(r) \/ OnStartWrite(r)
  \/ Parse(r) \/ RecordAcquire(r) \/ RecordRead(r) \/ RecordWrite(r)
  \/ ReadBody(r) \/ SnapAcquire(r) \/ Snapshot(r)
  \/ OnEndAcquire(r) \/ OnEndRead(r) \/ OnEndWrite(r)

Next == (\E r \in Req : Receive(r) \/ Thread(r)) \/ Serving

\* The OS runs every runnable thread; nothing makes clients send requests.
Spec == Init /\ [][Next]_vars /\ \A r \in Req : WF_vars(Thread(r))

-----------------------------------------------------------------------------
(* Properties. *)

\* Where a POST has passed on_start and not yet finished on_end.
Counted == {"parse", "modelAcq", "modelRd", "modelWr", "body", "snapAcq",
            "snap", "endAcq", "endRd", "endWr"}

InFlight == {r \in Req : kind[r] = "infer" /\ phase[r] \in Counted}

Started == {r \in Req : kind[r] = "infer" /\ phase[r] \in Counted \cup {"done"}}

Recorded(m) ==
  {r \in Req : model[r] = m /\ phase[r] \in {"body", "snapAcq", "snap", "endAcq",
                                              "endRd", "endWr", "done"}}

\* However the handler threads interleave, and whichever way a POST leaves
\* the handler (reply sent, ValueError from a bad query or Content-Length,
\* a connection reset), _inflight is the number of POSTs between on_start
\* and on_end, _total the number that passed on_start, and _by_model[m]
\* the number that recorded model m: no increment is lost, and the
\* max(0, ...) of on_end never has to clamp.
CountersExact ==
  /\ inflight = Cardinality(InFlight)
  /\ total = Cardinality(Started)
  /\ \A m \in Models : DictGet(byModel, m) = Cardinality(Recorded(m))

\* Once clients stop sending, the queue_len that /ai/status reports (the
\* in-flight count) falls back to 0 for good: no request leaks a count.
Quiesce == <>[](inflight = 0)

-----------------------------------------------------------------------------
(* Refinement of BackendState.  A POST is "in" from the write of on_start *)
(* to the write of on_end, and has recorded its model from the write of   *)
(* record_model on: the store that releases the lock is where each        *)
(* method takes effect.                                                   *)

AStage(r) ==
  IF kind[r] = "infer" /\ phase[r] \in Counted THEN "in"
  ELSE IF kind[r] = "infer" /\ phase[r] = "done" THEN "out"
  ELSE "idle"

AModel(r) ==
  IF phase[r] \in {"body", "snapAcq", "snap", "endAcq", "endRd", "endWr", "done"}
  THEN model[r] ELSE NoModel

Abs == INSTANCE BackendState
         WITH stage <- [r \in Req |-> AStage(r)], rmodel <- [r \in Req |-> AModel(r)]

\* The lock-protected read-modify-writes of the handler threads, however
\* they interleave, behave as if on_start, record_model and on_end were
\* each one atomic step, taken once per POST in do_POST's order, with
\* _inflight decremented (never clamped) by on_end.
ImplementsBackendState == Abs!Spec

=============================================================================
