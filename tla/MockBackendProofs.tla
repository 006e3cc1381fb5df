------------------------- MODULE MockBackendProofs -------------------------
(***************************************************************************)
(* Proofs about MockBackend for every finite set of requests.              *)
(*                                                                         *)
(* CountersExact is not inductive by itself: a thread that has read a      *)
(* counter and not yet written it back relies on nobody else changing it   *)
(* in between.  The strengthening says that exactly the thread in a locked *)
(* section holds the lock (Mutex), that the values such a thread has read *)
(* are still the counters' values (Pending), and which kinds of request    *)
(* and which model names can be in which phase (KindOK, ModelOK).         *)
(***************************************************************************)
EXTENDS MockBackend, FiniteSetTheorems, TLAPS

\* The phases between acquiring and releasing BackendState._lock.
LockedPhases == {"startRd", "startWr", "modelRd", "modelWr", "snap", "endRd", "endWr"}

\* The phases only a POST to /infer reaches.
InferPhases == {"startAcq", "startRd", "startWr", "parse", "modelAcq", "modelRd",
                "modelWr", "body", "endAcq", "endRd", "endWr"}

ModelPhases == {"modelAcq", "modelRd", "modelWr"}

AfterModel == {"body", "snapAcq", "snap", "endAcq", "endRd", "endWr", "done"}

Mutex == \A r \in Req : phase[r] \in LockedPhases <=> lock = r

KindOK ==
  \A r \in Req :
    /\ phase[r] = "new" <=> kind[r] = "unknown"
    /\ phase[r] \in InferPhases => kind[r] = "infer"
    /\ kind[r] = "get" => phase[r] \in {"snapAcq", "snap", "done"}
    /\ kind[r] = "none" => phase[r] = "done"

ModelOK ==
  \A r \in Req :
    /\ phase[r] \in ModelPhases => model[r] \in Models
    /\ phase[r] \in {"new", "startAcq", "startRd", "startWr", "parse"} => model[r] = NoModel
    /\ kind[r] # "infer" => model[r] = NoModel

Pending ==
  \A r \in Req :
    /\ phase[r] = "startWr" => seen[r] = [inflight |-> inflight, total |-> total]
    /\ phase[r] = "modelWr" => cnt[r] = DictGet(byModel, model[r])
    /\ phase[r] = "endWr" => cnt[r] = inflight

IInv == TypeOK /\ Mutex /\ KindOK /\ ModelOK /\ Pending /\ CountersExact

USE MockAssumption

-----------------------------------------------------------------------------
(* Lemmas about the sets the counters count. *)

\* Every set of requests is finite, since Req is.
LEMMA SubsetFinite ==
  ASSUME NEW S \in SUBSET Req
  PROVE  IsFiniteSet(S)
BY FS_Subset

\* Adding a request that is not yet counted adds one to the count.
LEMMA CardAdd ==
  ASSUME NEW S \in SUBSET Req, NEW x \in Req, x \notin S
  PROVE  Cardinality(S \cup {x}) = Cardinality(S) + 1
BY SubsetFinite, FS_AddElement

\* Removing a counted request takes one from a count that is positive.
LEMMA CardRemove ==
  ASSUME NEW S \in SUBSET Req, NEW x \in S
  PROVE  /\ Cardinality(S \ {x}) = Cardinality(S) - 1
         /\ Cardinality(S) - 1 \in Nat
<1>1. IsFiniteSet(S) /\ IsFiniteSet(S \ {x})
  BY SubsetFinite, FS_RemoveElement
<1>2. Cardinality(S \ {x}) = Cardinality(S) - 1
  BY <1>1, FS_RemoveElement
<1>3. Cardinality(S \ {x}) \in Nat
  BY <1>1, FS_CardinalityType
<1>4. QED
  BY <1>2, <1>3

-----------------------------------------------------------------------------
(* The initial state and the steps that change nothing. *)

LEMMA InitIInv == Init => IInv
<1> SUFFICES ASSUME Init PROVE IInv
  OBVIOUS
<1>1. DOMAIN byModel = {}
  BY DEF Init
<1>2. TypeOK
  BY <1>1 DEF Init, TypeOK, Phases, Kinds
<1>3. InFlight = {} /\ Started = {} /\ \A m \in Models : Recorded(m) = {}
  BY DEF Init, InFlight, Started, Recorded, Counted
<1>4. CountersExact
  BY <1>1, <1>3, FS_EmptySet DEF Init, CountersExact, DictGet
<1>5. QED
  BY <1>2, <1>4 DEF Init, IInv, Mutex, KindOK, ModelOK, Pending, LockedPhases,
     InferPhases, ModelPhases

LEMMA StutterInv ==
  ASSUME IInv, UNCHANGED vars
  PROVE  IInv'
BY DEF vars, IInv, TypeOK, Mutex, KindOK, ModelOK, Pending, CountersExact,
   InFlight, Started, Recorded, DictGet

-----------------------------------------------------------------------------
(* Steps that change no counter and move the request within or between    *)
(* the same counted sets.                                                 *)

\* The facts each such lemma proves, with the counters left alone.
LEMMA ReceivePostInv ==
  ASSUME IInv, NEW r \in Req, ReceivePost(r)
  PROVE  IInv'
<1> USE DEF IInv, ReceivePost, Goto
<1>1. TypeOK'
  BY DEF TypeOK, Kinds, Phases
<1>2. Mutex' /\ KindOK' /\ ModelOK' /\ Pending'
  BY DEF TypeOK, Mutex, KindOK, ModelOK, Pending, LockedPhases, InferPhases,
     ModelPhases
<1>3. InFlight' = InFlight /\ Started' = Started /\ \A m \in Models : Recorded(m)' = Recorded(m)
  BY DEF TypeOK, ModelOK, InFlight, Started, Recorded, Counted
<1>4. QED
  BY <1>1, <1>2, <1>3 DEF CountersExact

LEMMA ReceiveGetInv ==
  ASSUME IInv, NEW r \in Req, ReceiveGet(r)
  PROVE  IInv'
<1> USE DEF IInv, ReceiveGet, Goto
<1>1. TypeOK'
  BY DEF TypeOK, Kinds, Phases
<1>2. Mutex' /\ KindOK' /\ ModelOK' /\ Pending'
  BY DEF TypeOK, Mutex, KindOK, ModelOK, Pending, LockedPhases, InferPhases,
     ModelPhases
<1>3. InFlight' = InFlight /\ Started' = Started /\ \A m \in Models : Recorded(m)' = Recorded(m)
  BY DEF TypeOK, ModelOK, InFlight, Started, Recorded, Counted
<1>4. QED
  BY <1>1, <1>2, <1>3 DEF CountersExact

\* Taking the free lock: no other thread is in a locked section, so none
\* has a pending write.
LEMMA AcquireInv ==
  ASSUME IInv, NEW r \in Req,
         NEW from \in Phases \ LockedPhases, NEW to \in LockedPhases,
         to \notin {"startWr", "modelWr", "endWr"},
         from \in Counted <=> to \in Counted,
         from \in InferPhases <=> to \in InferPhases,
         from \in ModelPhases <=> to \in ModelPhases,
         from \in AfterModel <=> to \in AfterModel,
         from \in {"new", "startAcq", "startRd", "startWr", "parse"} <=>
           to \in {"new", "startAcq", "startRd", "startWr", "parse"},
         from \in {"snapAcq", "snap", "done"} <=> to \in {"snapAcq", "snap", "done"},
         from \notin {"new", "done"}, to \notin {"new", "done"},
         Acquire(r, from, to),
         UNCHANGED <<inflight, total, byModel, kind, model, seen, cnt>>
  PROVE  IInv'
<1> USE DEF IInv, Acquire, Goto
<1>1. TypeOK'
  BY DEF TypeOK, Phases, LockedPhases
<1>2. Mutex'
  BY DEF TypeOK, Mutex
<1>3. KindOK' /\ ModelOK'
  BY DEF TypeOK, KindOK, ModelOK
<1>4. Pending'
  BY DEF TypeOK, Pending, LockedPhases
<1>5. InFlight' = InFlight /\ Started' = Started /\ \A m \in Models : Recorded(m)' = Recorded(m)
  BY DEF TypeOK, InFlight, Started, Recorded, Counted, AfterModel
<1>6. QED
  BY <1>1, <1>2, <1>3, <1>4, <1>5 DEF CountersExact

\* The steps inside a locked section or between two of them.

LEMMA OnStartReadInv ==
  ASSUME IInv, NEW r \in Req, OnStartRead(r)
  PROVE  IInv'
<1> USE DEF IInv, OnStartRead, Goto
<1>1. TypeOK'
  BY DEF TypeOK, Phases
<1>2. Mutex'
  BY DEF TypeOK, Mutex, LockedPhases
<1>3. KindOK' /\ ModelOK'
  BY DEF TypeOK, KindOK, ModelOK, InferPhases, ModelPhases
<1>4. Pending'
  BY DEF TypeOK, Mutex, Pending, LockedPhases
<1>5. InFlight' = InFlight /\ Started' = Started /\ \A m \in Models : Recorded(m)' = Recorded(m)
  BY DEF TypeOK, KindOK, ModelOK, InFlight, Started, Recorded, Counted, InferPhases
<1>6. QED
  BY <1>1, <1>2, <1>3, <1>4, <1>5 DEF CountersExact

LEMMA ParseInv ==
  ASSUME IInv, NEW r \in Req, Parse(r)
  PROVE  IInv'
<1> USE DEF IInv, Parse, Goto
<1>1. TypeOK'
  BY DEF TypeOK, Phases
<1>2. Mutex'
  BY DEF TypeOK, Mutex, LockedPhases
<1>3. KindOK' /\ ModelOK'
  BY DEF TypeOK, KindOK, ModelOK, InferPhases, ModelPhases
<1>4. Pending'
  BY DEF TypeOK, Mutex, Pending, LockedPhases
<1>5. InFlight' = InFlight /\ Started' = Started /\ \A m \in Models : Recorded(m)' = Recorded(m)
  BY DEF TypeOK, KindOK, ModelOK, InFlight, Started, Recorded, Counted, InferPhases
<1>6. QED
  BY <1>1, <1>2, <1>3, <1>4, <1>5 DEF CountersExact

LEMMA RecordReadInv ==
  ASSUME IInv, NEW r \in Req, RecordRead(r)
  PROVE  IInv'
<1> USE DEF IInv, RecordRead, Goto
<1>1. TypeOK'
  BY DEF TypeOK, Phases, DictGet
<1>2. Mutex'
  BY DEF TypeOK, Mutex, LockedPhases
<1>3. KindOK' /\ ModelOK'
  BY DEF TypeOK, KindOK, ModelOK, InferPhases, ModelPhases
<1>4. Pending'
  BY DEF TypeOK, Mutex, Pending, LockedPhases
<1>5. InFlight' = InFlight /\ Started' = Started /\ \A m \in Models : Recorded(m)' = Recorded(m)
  BY DEF TypeOK, KindOK, ModelOK, InFlight, Started, Recorded, Counted, InferPhases
<1>6. QED
  BY <1>1, <1>2, <1>3, <1>4, <1>5 DEF CountersExact

LEMMA ReadBodyInv ==
  ASSUME IInv, NEW r \in Req, ReadBody(r)
  PROVE  IInv'
<1> USE DEF IInv, ReadBody, Goto
<1>1. TypeOK'
  BY DEF TypeOK, Phases
<1>2. Mutex'
  BY DEF TypeOK, Mutex, LockedPhases
<1>3. KindOK' /\ ModelOK'
  BY DEF TypeOK, KindOK, ModelOK, InferPhases, ModelPhases
<1>4. Pending'
  BY DEF TypeOK, Mutex, Pending, LockedPhases
<1>5. InFlight' = InFlight /\ Started' = Started /\ \A m \in Models : Recorded(m)' = Recorded(m)
  BY DEF TypeOK, KindOK, ModelOK, InFlight, Started, Recorded, Counted, InferPhases
<1>6. QED
  BY <1>1, <1>2, <1>3, <1>4, <1>5 DEF CountersExact

LEMMA SnapshotInv ==
  ASSUME IInv, NEW r \in Req, Snapshot(r)
  PROVE  IInv'
<1> USE DEF IInv, Snapshot, Goto
<1>1. TypeOK'
  BY DEF TypeOK, Phases
<1>2. Mutex'
  BY DEF TypeOK, Mutex, LockedPhases
<1>3. KindOK' /\ ModelOK'
  BY DEF TypeOK, KindOK, ModelOK, InferPhases, ModelPhases
<1>4. Pending'
  BY DEF TypeOK, Mutex, Pending, LockedPhases
<1>5. InFlight' = InFlight /\ Started' = Started /\ \A m \in Models : Recorded(m)' = Recorded(m)
  BY DEF TypeOK, KindOK, ModelOK, InFlight, Started, Recorded, Counted, InferPhases
<1>6. QED
  BY <1>1, <1>2, <1>3, <1>4, <1>5 DEF CountersExact

LEMMA OnEndReadInv ==
  ASSUME IInv, NEW r \in Req, OnEndRead(r)
  PROVE  IInv'
<1> USE DEF IInv, OnEndRead, Goto
<1>1. TypeOK'
  BY DEF TypeOK, Phases
<1>2. Mutex'
  BY DEF TypeOK, Mutex, LockedPhases
<1>3. KindOK' /\ ModelOK'
  BY DEF TypeOK, KindOK, ModelOK, InferPhases, ModelPhases
<1>4. Pending'
  BY DEF TypeOK, Mutex, Pending, LockedPhases
<1>5. InFlight' = InFlight /\ Started' = Started /\ \A m \in Models : Recorded(m)' = Recorded(m)
  BY DEF TypeOK, KindOK, ModelOK, InFlight, Started, Recorded, Counted, InferPhases
<1>6. QED
  BY <1>1, <1>2, <1>3, <1>4, <1>5 DEF CountersExact

-----------------------------------------------------------------------------
(* The writes that release the lock.  The writer holds the lock, so by    *)
(* Pending the value it read is still the counter's, and no other thread *)
(* is about to write.                                                    *)

\* on_start: the request joins InFlight and Started, each by one.
LEMMA OnStartWriteInv ==
  ASSUME IInv, NEW r \in Req, OnStartWrite(r)
  PROVE  IInv'
<1> USE DEF IInv, OnStartWrite, Goto
<1>1. kind[r] = "infer" /\ lock = r
      /\ seen[r] = [inflight |-> inflight, total |-> total]
  BY DEF TypeOK, KindOK, Mutex, Pending, InferPhases, LockedPhases
<1>2. inflight' = inflight + 1 /\ total' = total + 1
  BY <1>1
<1>3. TypeOK'
  BY <1>2 DEF TypeOK, Phases
<1>4. Mutex' /\ KindOK' /\ ModelOK'
  BY <1>1 DEF TypeOK, Mutex, KindOK, ModelOK, LockedPhases, InferPhases, ModelPhases
<1>5. Pending'
  BY <1>1 DEF TypeOK, Mutex, Pending, LockedPhases
<1>6. /\ InFlight' = InFlight \cup {r} /\ r \notin InFlight
      /\ Started' = Started \cup {r} /\ r \notin Started
      /\ \A m \in Models : Recorded(m)' = Recorded(m)
  BY <1>1 DEF TypeOK, InFlight, Started, Recorded, Counted
<1>7. InFlight \in SUBSET Req /\ Started \in SUBSET Req
  BY DEF InFlight, Started
<1>8. inflight' = Cardinality(InFlight') /\ total' = Cardinality(Started')
  BY <1>2, <1>6, <1>7, CardAdd DEF CountersExact
<1>9. QED
  BY <1>3, <1>4, <1>5, <1>6, <1>8 DEF CountersExact

\* on_end: the request leaves InFlight; the count it read is positive, so
\* max(0, ...) does not clamp.
LEMMA OnEndWriteInv ==
  ASSUME IInv, NEW r \in Req, OnEndWrite(r)
  PROVE  IInv'
<1> USE DEF IInv, OnEndWrite, Goto
<1>1. kind[r] = "infer" /\ lock = r /\ cnt[r] = inflight
  BY DEF TypeOK, KindOK, Mutex, Pending, InferPhases, LockedPhases
<1>2. /\ InFlight' = InFlight \ {r} /\ r \in InFlight
      /\ Started' = Started
      /\ \A m \in Models : Recorded(m)' = Recorded(m)
  BY <1>1 DEF TypeOK, InFlight, Started, Recorded, Counted
<1>3. InFlight \in SUBSET Req
  BY DEF InFlight
<1>4. inflight - 1 \in Nat /\ Cardinality(InFlight \ {r}) = inflight - 1
  BY <1>2, <1>3, CardRemove DEF CountersExact
<1>5. inflight' = inflight - 1
  BY <1>1, <1>4 DEF ClampZero
<1>6. TypeOK'
  BY <1>4, <1>5 DEF TypeOK, Phases
<1>7. Mutex' /\ KindOK' /\ ModelOK'
  BY <1>1 DEF TypeOK, Mutex, KindOK, ModelOK, LockedPhases, InferPhases, ModelPhases
<1>8. Pending'
  BY <1>1 DEF TypeOK, Mutex, Pending, LockedPhases
<1>9. QED
  BY <1>2, <1>4, <1>5, <1>6, <1>7, <1>8 DEF CountersExact

\* record_model: the request joins Recorded of its own model, and that
\* model's entry grows by one; every other entry is left alone.
LEMMA RecordWriteInv ==
  ASSUME IInv, NEW r \in Req, RecordWrite(r)
  PROVE  IInv'
<1> USE DEF IInv, RecordWrite, Goto
<1>1. lock = r /\ model[r] \in Models /\ cnt[r] = DictGet(byModel, model[r])
  BY DEF TypeOK, ModelOK, Mutex, Pending, ModelPhases, LockedPhases
<1>0. byModel' = DictSet(byModel, model[r], cnt[r] + 1)
  OBVIOUS
<1>2. \A x : DictGet(byModel', x) = IF x = model[r] THEN cnt[r] + 1 ELSE DictGet(byModel, x)
  BY <1>0 DEF DictSet, DictGet
<1>3. TypeOK'
  <2>1. DOMAIN byModel' = DOMAIN byModel \cup {model[r]}
    BY <1>0 DEF DictSet
  <2>4. \A x \in DOMAIN byModel' : x \in Models
    BY <1>1, <2>1 DEF TypeOK
  <2>2. \A m \in DOMAIN byModel' : byModel'[m] \in Nat
    BY DEF TypeOK, DictSet
  <2>3. QED
    BY <2>4, <2>2 DEF TypeOK, Phases
<1>4. Mutex' /\ KindOK' /\ ModelOK'
  BY <1>1 DEF TypeOK, Mutex, KindOK, ModelOK, LockedPhases, InferPhases, ModelPhases
<1>5. Pending'
  BY <1>1 DEF TypeOK, Mutex, Pending, LockedPhases
<1>6. InFlight' = InFlight /\ Started' = Started
  BY DEF TypeOK, InFlight, Started, Counted
<1>7. ASSUME NEW m \in Models
      PROVE  DictGet(byModel', m) = Cardinality(Recorded(m)')
  <2>1. CASE m = model[r]
    <3>1. Recorded(m)' = Recorded(m) \cup {r} /\ r \notin Recorded(m)
      BY <2>1 DEF TypeOK, Recorded
    <3>2. Recorded(m) \in SUBSET Req
      BY DEF Recorded
    <3>3. QED
      BY <1>1, <1>2, <2>1, <3>1, <3>2, CardAdd DEF CountersExact
  <2>2. CASE m # model[r]
    <3>1. Recorded(m)' = Recorded(m)
      BY <2>2 DEF TypeOK, Recorded
    <3>2. QED
      BY <1>2, <2>2, <3>1 DEF CountersExact
  <2>3. QED
    BY <2>1, <2>2
<1>8. QED
  BY <1>3, <1>4, <1>5, <1>6, <1>7 DEF CountersExact

-----------------------------------------------------------------------------
(* Every step preserves IInv; hence the counters are exact in every        *)
(* reachable state, for every finite set of requests and of models.       *)

LEMMA NextIInv ==
  ASSUME IInv, [Next]_vars
  PROVE  IInv'
<1>1. CASE \E r \in Req : Receive(r) \/ Thread(r)
  <2> PICK r \in Req : Receive(r) \/ Thread(r)
    BY <1>1
  <2>1. CASE ReceivePost(r)  BY <2>1, ReceivePostInv
  <2>2. CASE ReceiveGet(r)  BY <2>2, ReceiveGetInv
  <2>3. CASE OnStartAcquire(r)
    BY <2>3, AcquireInv DEF OnStartAcquire, Phases, LockedPhases, Counted,
       InferPhases, ModelPhases, AfterModel
  <2>4. CASE OnStartRead(r)  BY <2>4, OnStartReadInv
  <2>5. CASE OnStartWrite(r)  BY <2>5, OnStartWriteInv
  <2>6. CASE Parse(r)  BY <2>6, ParseInv
  <2>7. CASE RecordAcquire(r)
    BY <2>7, AcquireInv DEF RecordAcquire, Phases, LockedPhases, Counted,
       InferPhases, ModelPhases, AfterModel
  <2>8. CASE RecordRead(r)  BY <2>8, RecordReadInv
  <2>9. CASE RecordWrite(r)  BY <2>9, RecordWriteInv
  <2>10. CASE ReadBody(r)  BY <2>10, ReadBodyInv
  <2>11. CASE SnapAcquire(r)
    BY <2>11, AcquireInv DEF SnapAcquire, Phases, LockedPhases, Counted,
       InferPhases, ModelPhases, AfterModel
  <2>12. CASE Snapshot(r)  BY <2>12, SnapshotInv
  <2>13. CASE OnEndAcquire(r)
    BY <2>13, AcquireInv DEF OnEndAcquire, Phases, LockedPhases, Counted,
       InferPhases, ModelPhases, AfterModel
  <2>14. CASE OnEndRead(r)  BY <2>14, OnEndReadInv
  <2>15. CASE OnEndWrite(r)  BY <2>15, OnEndWriteInv
  <2>16. QED
    BY <2>1, <2>2, <2>3, <2>4, <2>5, <2>6, <2>7, <2>8, <2>9, <2>10, <2>11,
       <2>12, <2>13, <2>14, <2>15 DEF Receive, Thread
<1>2. CASE Serving \/ UNCHANGED vars
  BY <1>2, StutterInv DEF Serving
<1>3. QED
  BY <1>1, <1>2 DEF Next

\* However the handler threads of ThreadingHTTPServer interleave and
\* whichever way each POST leaves do_POST, BackendState's _inflight,
\* _total and _by_model count exactly the POSTs between on_start and
\* on_end, past on_start, and past record_model of each model.
THEOREM CountersCorrect == Spec => []CountersExact
<1>1. Init => IInv
  BY InitIInv
<1>2. IInv /\ [Next]_vars => IInv'
  BY NextIInv
<1>3. IInv => CountersExact
  BY DEF IInv
<1>4. QED
  BY <1>1, <1>2, <1>3, PTL DEF Spec

\* The state of the server keeps its types: in particular _inflight never
\* goes negative and _by_model only ever has model names as keys.
THEOREM MockTypeCorrect == Spec => []TypeOK
<1>1. IInv => TypeOK
  BY DEF IInv
<1>2. QED
  BY <1>1, InitIInv, NextIInv, PTL DEF Spec

-----------------------------------------------------------------------------
(* Refinement: MockBackend implements BackendState under the mapping      *)
(* AStage, AModel.  Steps outside the three writes that release the lock  *)
(* leave the mapped state alone; the writes are Start, Record and End.    *)

\* A step of r that keeps the counters and every other request's state,
\* and keeps r's mapped stage and model, is a stutter of BackendState.
LEMMA MapUnchanged ==
  ASSUME NEW r \in Req,
         UNCHANGED <<inflight, total, byModel>>,
         \A x \in Req \ {r} : phase'[x] = phase[x] /\ kind'[x] = kind[x] /\ model'[x] = model[x],
         AStage(r)' = AStage(r), AModel(r)' = AModel(r)
  PROVE  UNCHANGED Abs!avars
<1>1. \A x \in Req : AStage(x)' = AStage(x) /\ AModel(x)' = AModel(x)
  BY DEF AStage, AModel
<1>2. QED
  BY <1>1 DEF Abs!avars

LEMMA InitRefines == Init => Abs!Init
<1> SUFFICES ASSUME Init PROVE Abs!Init
  OBVIOUS
<1>1. \A r \in Req : AStage(r) = "idle" /\ AModel(r) = NoModel
  BY DEF Init, AStage, AModel, Counted
<1>2. QED
  BY <1>1 DEF Init, Abs!Init

\* The write of on_start is BackendState's Start: the request was idle,
\* and the value the thread read is still the counter's.
LEMMA StartRefines ==
  ASSUME IInv, NEW r \in Req, OnStartWrite(r)
  PROVE  Abs!Start(r)
<1> USE DEF OnStartWrite, Goto
<1>1. kind[r] = "infer" /\ seen[r] = [inflight |-> inflight, total |-> total]
  BY DEF IInv, TypeOK, KindOK, Pending, InferPhases
<1>2. AStage(r) = "idle" /\ AStage(r)' = "in"
  BY <1>1 DEF IInv, TypeOK, AStage, Counted
<1>3. \A x \in Req \ {r} : AStage(x)' = AStage(x)
  BY DEF IInv, TypeOK, AStage
<1>4. \A x \in Req : AModel(x)' = AModel(x)
  BY DEF IInv, TypeOK, AModel
<1>5. inflight' = inflight + 1 /\ total' = total + 1
  BY <1>1
<1>6. QED
  BY <1>2, <1>3, <1>4, <1>5 DEF Abs!Start

\* The write of record_model is BackendState's Record of the request's
\* model: the request is in flight and has recorded nothing yet.
LEMMA RecordRefines ==
  ASSUME IInv, NEW r \in Req, RecordWrite(r)
  PROVE  model[r] \in Models /\ Abs!Record(r, model[r])
<1> USE DEF RecordWrite, Goto
<1>1. kind[r] = "infer" /\ model[r] \in Models /\ cnt[r] = DictGet(byModel, model[r])
  BY DEF IInv, TypeOK, KindOK, ModelOK, Pending, InferPhases, ModelPhases
<1>2. AStage(r) = "in" /\ AModel(r) = NoModel /\ AModel(r)' = model[r]
  BY <1>1 DEF IInv, TypeOK, AStage, AModel, Counted
<1>3. \A x \in Req : AStage(x)' = AStage(x)
  BY DEF IInv, TypeOK, AStage, Counted
<1>4. \A x \in Req \ {r} : AModel(x)' = AModel(x)
  BY DEF IInv, TypeOK, AModel
<1>5. byModel' = Abs!Put(byModel, model[r], Abs!Get(byModel, model[r]) + 1)
  BY <1>1 DEF DictSet, DictGet, Abs!Put, Abs!Get
<1>6. QED
  BY <1>1, <1>2, <1>3, <1>4, <1>5 DEF Abs!Record

\* The write of on_end is BackendState's End: the count the thread read is
\* the number of requests in flight, r among them, so max(0, ...) takes
\* exactly one off.
LEMMA EndRefines ==
  ASSUME IInv, NEW r \in Req, OnEndWrite(r)
  PROVE  Abs!End(r)
<1> USE DEF OnEndWrite, Goto
<1>1. kind[r] = "infer" /\ cnt[r] = inflight
  BY DEF IInv, TypeOK, KindOK, Pending, InferPhases
<1>2. r \in InFlight /\ InFlight \in SUBSET Req
  BY <1>1 DEF InFlight, Counted
<1>3. inflight - 1 \in Nat
  BY <1>2, CardRemove DEF IInv, CountersExact
<1>4. inflight' = inflight - 1
  BY <1>1, <1>3 DEF ClampZero
<1>5. AStage(r) = "in" /\ AStage(r)' = "out"
  BY <1>1 DEF IInv, TypeOK, AStage, Counted
<1>6. \A x \in Req \ {r} : AStage(x)' = AStage(x)
  BY DEF IInv, TypeOK, AStage
<1>7. \A x \in Req : AModel(x)' = AModel(x)
  BY DEF IInv, TypeOK, AModel
<1>8. QED
  BY <1>4, <1>5, <1>6, <1>7 DEF Abs!End

\* Every other step of a handler thread moves it between phases that map
\* to the same stage and recorded model, and leaves the counters alone.
LEMMA StutterRefines ==
  ASSUME IInv, NEW r \in Req,
         \/ ReceivePost(r) \/ ReceiveGet(r) \/ OnStartAcquire(r) \/ OnStartRead(r) \/ Parse(r) \/ RecordAcquire(r)
         \/ RecordRead(r) \/ ReadBody(r) \/ SnapAcquire(r) \/ Snapshot(r) \/ OnEndAcquire(r) \/ OnEndRead(r)
  PROVE  UNCHANGED Abs!avars
<1>1. CASE ReceivePost(r)
  <2>1. AStage(r)' = AStage(r) /\ AModel(r)' = AModel(r)
    BY <1>1 DEF ReceivePost, Goto, KindOK, ModelOK, IInv, TypeOK, AStage, AModel, Counted
  <2>2. QED
    BY <1>1, <2>1, MapUnchanged DEF ReceivePost, Goto, KindOK, IInv, TypeOK
<1>2. CASE ReceiveGet(r)
  <2>1. AStage(r)' = AStage(r) /\ AModel(r)' = AModel(r)
    BY <1>2 DEF ReceiveGet, Goto, KindOK, ModelOK, IInv, TypeOK, AStage, AModel, Counted
  <2>2. QED
    BY <1>2, <2>1, MapUnchanged DEF ReceiveGet, Goto, KindOK, IInv, TypeOK
<1>3. CASE OnStartAcquire(r)
  <2>1. AStage(r)' = AStage(r) /\ AModel(r)' = AModel(r)
    BY <1>3 DEF OnStartAcquire, Acquire, Goto, KindOK, InferPhases, IInv, TypeOK, AStage, AModel, Counted
  <2>2. QED
    BY <1>3, <2>1, MapUnchanged DEF OnStartAcquire, Acquire, Goto, KindOK, InferPhases, IInv, TypeOK
<1>4. CASE OnStartRead(r)
  <2>1. AStage(r)' = AStage(r) /\ AModel(r)' = AModel(r)
    BY <1>4 DEF OnStartRead, Goto, IInv, TypeOK, AStage, AModel, Counted
  <2>2. QED
    BY <1>4, <2>1, MapUnchanged DEF OnStartRead, Goto, IInv, TypeOK
<1>5. CASE Parse(r)
  <2>1. AStage(r)' = AStage(r) /\ AModel(r)' = AModel(r)
    BY <1>5 DEF Parse, Goto, ModelOK, IInv, TypeOK, AStage, AModel, Counted
  <2>2. QED
    BY <1>5, <2>1, MapUnchanged DEF Parse, Goto, ModelOK, IInv, TypeOK
<1>6. CASE RecordAcquire(r)
  <2>1. AStage(r)' = AStage(r) /\ AModel(r)' = AModel(r)
    BY <1>6 DEF RecordAcquire, Acquire, Goto, IInv, TypeOK, AStage, AModel, Counted
  <2>2. QED
    BY <1>6, <2>1, MapUnchanged DEF RecordAcquire, Acquire, Goto, IInv, TypeOK
<1>7. CASE RecordRead(r)
  <2>1. AStage(r)' = AStage(r) /\ AModel(r)' = AModel(r)
    BY <1>7 DEF RecordRead, Goto, IInv, TypeOK, AStage, AModel, Counted
  <2>2. QED
    BY <1>7, <2>1, MapUnchanged DEF RecordRead, Goto, IInv, TypeOK
<1>8. CASE ReadBody(r)
  <2>1. AStage(r)' = AStage(r) /\ AModel(r)' = AModel(r)
    BY <1>8 DEF ReadBody, Goto, IInv, TypeOK, AStage, AModel, Counted
  <2>2. QED
    BY <1>8, <2>1, MapUnchanged DEF ReadBody, Goto, IInv, TypeOK
<1>9. CASE SnapAcquire(r)
  <2>1. AStage(r)' = AStage(r) /\ AModel(r)' = AModel(r)
    BY <1>9 DEF SnapAcquire, Acquire, Goto, IInv, TypeOK, AStage, AModel, Counted
  <2>2. QED
    BY <1>9, <2>1, MapUnchanged DEF SnapAcquire, Acquire, Goto, IInv, TypeOK
<1>10. CASE Snapshot(r)
  <2>1. AStage(r)' = AStage(r) /\ AModel(r)' = AModel(r)
    BY <1>10 DEF Snapshot, Goto, IInv, TypeOK, AStage, AModel, Counted
  <2>2. QED
    BY <1>10, <2>1, MapUnchanged DEF Snapshot, Goto, IInv, TypeOK
<1>11. CASE OnEndAcquire(r)
  <2>1. AStage(r)' = AStage(r) /\ AModel(r)' = AModel(r)
    BY <1>11 DEF OnEndAcquire, Acquire, Goto, IInv, TypeOK, AStage, AModel, Counted
  <2>2. QED
    BY <1>11, <2>1, MapUnchanged DEF OnEndAcquire, Acquire, Goto, IInv, TypeOK
<1>12. CASE OnEndRead(r)
  <2>1. AStage(r)' = AStage(r) /\ AModel(r)' = AModel(r)
    BY <1>12 DEF OnEndRead, Goto, IInv, TypeOK, AStage, AModel, Counted
  <2>2. QED
    BY <1>12, <2>1, MapUnchanged DEF OnEndRead, Goto, IInv, TypeOK
<1>13. QED
  BY <1>1, <1>2, <1>3, <1>4, <1>5, <1>6, <1>7, <1>8, <1>9, <1>10, <1>11, <1>12

\* Every step of MockBackend is a step of BackendState or leaves its
\* state unchanged.
LEMMA NextRefines ==
  ASSUME IInv, [Next]_vars
  PROVE  [Abs!Next]_Abs!avars
<1>1. CASE \E r \in Req : Receive(r) \/ Thread(r)
  <2> PICK r \in Req : Receive(r) \/ Thread(r)
    BY <1>1
  <2>1. CASE OnStartWrite(r)
    BY <2>1, StartRefines DEF Abs!Next
  <2>2. CASE RecordWrite(r)
    BY <2>2, RecordRefines DEF Abs!Next
  <2>3. CASE OnEndWrite(r)
    BY <2>3, EndRefines DEF Abs!Next
  <2>4. CASE ~OnStartWrite(r) /\ ~RecordWrite(r) /\ ~OnEndWrite(r)
    BY <2>4, StutterRefines DEF Receive, Thread
  <2>5. QED
    BY <2>1, <2>2, <2>3, <2>4
<1>2. CASE Serving \/ UNCHANGED vars
  BY <1>2 DEF Serving, vars, Abs!avars, AStage, AModel
<1>3. QED
  BY <1>1, <1>2 DEF Next

\* However the handler threads interleave their lock-protected
\* read-modify-writes, the counters of mock_ai_backend.py's BackendState
\* evolve as if on_start, record_model and on_end were atomic and each
\* request took them in do_POST's order; in particular on_end's max(0, ...)
\* never clamps.
THEOREM BackendStateRefinement == Spec => ImplementsBackendState
<1>1. Init => Abs!Init
  BY InitRefines
<1>2. IInv /\ [Next]_vars => [Abs!Next]_Abs!avars
  BY NextRefines
<1>3. QED
  BY <1>1, <1>2, InitIInv, NextIInv, PTL DEF Spec, ImplementsBackendState, Abs!Spec

=============================================================================
