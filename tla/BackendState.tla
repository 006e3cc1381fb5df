---------------------------- MODULE BackendState ----------------------------
(***************************************************************************)
(* What BackendState of src/scripts/mock_ai_backend.py promises the        *)
(* handlers: on_start, record_model and on_end are each one indivisible    *)
(* step on the counters, and each request passes through them in the       *)
(* order do_POST calls them.  A request's stage is "idle" before on_start, *)
(* "in" between on_start and on_end and "out" after on_end; rmodel is the  *)
(* model name it recorded.  snapshot changes nothing and is a stutter.     *)
(*                                                                         *)
(* Here _inflight is exactly the number of requests "in": on_end's         *)
(* max(0, ...) is left out, since it must never be what keeps the count    *)
(* non-negative.                                                           *)
(***************************************************************************)
EXTENDS Naturals

CONSTANTS Req, Models, NoModel

VARIABLES inflight, total, byModel, stage, rmodel

avars == <<inflight, total, byModel, stage, rmodel>>

\* dict.get(m, 0) and d[m] = v on the _by_model dict.
Get(d, m) == IF m \in DOMAIN d THEN d[m] ELSE 0
Put(d, m, v) == [x \in DOMAIN d \cup {m} |-> IF x = m THEN v ELSE d[x]]

Init ==
  /\ inflight = 0 /\ total = 0 /\ byModel = <<>>
  /\ stage = [r \in Req |-> "idle"]
  /\ rmodel = [r \in Req |-> NoModel]

\* on_start, lines 27-30.
Start(r) ==
  /\ stage[r] = "idle" /\ stage' = [stage EXCEPT ![r] = "in"]
  /\ inflight' = inflight + 1 /\ total' = total + 1
  /\ UNCHANGED <<byModel, rmodel>>

\* record_model, lines 42-46, once per request, between on_start and on_end.
Record(r, m) ==
  /\ stage[r] = "in" /\ rmodel[r] = NoModel
  /\ rmodel' = [rmodel EXCEPT ![r] = m]
  /\ byModel' = Put(byModel, m, Get(byModel, m) + 1)
  /\ UNCHANGED <<inflight, total, stage>>

\* on_end, lines 32-34.
End(r) ==
  /\ stage[r] = "in" /\ stage' = [stage EXCEPT ![r] = "out"]
  /\ inflight' = inflight - 1
  /\ UNCHANGED <<total, byModel, rmodel>>

Next == \E r \in Req : Start(r) \/ End(r) \/ \E m \in Models : Record(r, m)

Spec == Init /\ [][Next]_avars

=============================================================================
