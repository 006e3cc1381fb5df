----------------------------- MODULE LoadTest -----------------------------
(***************************************************************************)
(* src/scripts/load_test.py: main() keeps a window of at most             *)
(* --concurrency requests in a ThreadPoolExecutor until the deadline,     *)
(* collecting finished ones with as_completed(futures, timeout=0.2), then *)
(* drains the rest, sorts the latencies and reports p50/p90/p99.          *)
(*                                                                         *)
(* A request is a number 1..MaxReq (req_id).  What the worker `one`       *)
(* returns is its outcome: a backend name, an error caught by `one`       *)
(* (URLError, JSONDecodeError), or an exception `one` does not catch,     *)
(* which f.result() re-raises in main(): "timeout", a read timeout in     *)
(* getresponse/read (TimeoutError, which urlopen does not wrap), or       *)
(* "raise", any other (a connection reset).  On Python 3.11 and later     *)
(* FuturesTimeoutError is the builtin TimeoutError, so line 99 catches a  *)
(* re-raised read timeout as if as_completed had timed out.  Latencies    *)
(* are a small set of values; the printing is left out.                   *)
(***************************************************************************)
EXTENDS Naturals, Sequences, FiniteSets, Functions, TLC

CONSTANTS
  Concurrency,  \* --concurrency
  MaxReq,       \* requests submitted before the deadline, at most
  Backends,     \* values of the reply's "backend" field ("-" included)
  Models,       \* --models, after the fallback to ["mock"]
  Latencies,    \* measured latencies, in ms
  Affinity,     \* --mode model_affinity
  NoModel       \* model = "" (spread mode)

ASSUME LoadAssumption ==
  /\ Concurrency \in Nat /\ MaxReq \in Nat
  /\ Models # {} /\ NoModel \notin Models
  /\ Latencies \subseteq Nat /\ Affinity \in BOOLEAN

Ids == 1..MaxReq
Results == Backends \cup {"err", "timeout", "raise"}
PcValues == {"loop", "fill", "collect", "prune", "drain", "report", "crashed"}

VARIABLES
  pc,         \* where main() is
  ended,      \* time.time() >= end
  reqId,      \* req_id
  futures,    \* the window: the list `futures`, as a set (as_completed takes set(fs))
  status,     \* each request's future: "idle" (not submitted), "running", "finished"
  res,        \* what `one` returned: [r |-> outcome, ms |-> latency]
  reqModel,   \* the X-Model each request sent
  pending,    \* the futures as_completed has not yielded yet
  early,      \* those already finished when as_completed was called
  done,       \* the list `done` of this round
  total, errors, lats, byBackend, byModel,
  pcts,       \* <<p50, p90, p99>>
  counted     \* history: how many times each request was tallied

vars == <<pc, ended, reqId, futures, status, res, reqModel, pending, early,
          done, total, errors, lats, byBackend, byModel, pcts, counted>>

TypeOK ==
  /\ pc \in PcValues /\ ended \in BOOLEAN /\ reqId \in 0..MaxReq
  /\ futures \subseteq 1..reqId /\ pending \subseteq Ids
  /\ early \subseteq Ids /\ done \subseteq Ids
  /\ status \in [Ids -> {"idle", "running", "finished"}]
  /\ res \in [Ids -> [r : Results \cup {"none"}, ms : Latencies \cup {0}]]
  /\ reqModel \in [Ids -> Models \cup {NoModel}]
  /\ total \in Nat /\ errors \in Nat /\ lats \in Seq(Latencies)
  /\ byBackend \in [Backends -> Nat] /\ byModel \in [Models -> Nat]
  /\ pcts \in Seq(Latencies \cup {0})
  /\ counted \in [Ids -> Nat]

Init ==
  /\ pc = "loop" /\ ended = FALSE /\ reqId = 0 /\ futures = {}
  /\ status = [i \in Ids |-> "idle"]
  /\ res = [i \in Ids |-> [r |-> "none", ms |-> 0]]
  /\ reqModel = [i \in Ids |-> NoModel]
  /\ pending = {} /\ early = {} /\ done = {}
  /\ total = 0 /\ errors = 0 /\ lats = <<>>
  /\ byBackend = [b \in Backends |-> 0] /\ byModel = [m \in Models |-> 0]
  /\ pcts = <<>>
  /\ counted = [i \in Ids |-> 0]

-----------------------------------------------------------------------------
(* percentile(sorted_vals, p), lines 22-30, with p = num / 100.  For the  *)
(* three p main() uses, int(p * k) equals (num * k) \div 100 exactly.     *)
Percentile(s, num) ==
  IF Len(s) = 0 THEN 0
  ELSE IF num <= 0 THEN s[1]
  ELSE IF num >= 100 THEN s[Len(s)]
  ELSE s[(num * (Len(s) - 1)) \div 100 + 1]

-----------------------------------------------------------------------------
(* The environment: the clock and the worker threads. *)

\* time.time() passes `end`.
Tick == ~ended /\ ended' = TRUE /\ UNCHANGED <<pc, reqId, futures, status, res,
          reqModel, pending, early, done, total, errors, lats, byBackend,
          byModel, pcts, counted>>

\* one(req_id), lines 62-76, run by a pool thread: max_workers is
\* max(1, concurrency), so every future of the window has a thread.
Complete(i) ==
  /\ status[i] = "running"
  /\ status' = [status EXCEPT ![i] = "finished"]
  /\ \E r \in Results, l \in Latencies : res' = [res EXCEPT ![i] = [r |-> r, ms |-> l]]
  /\ UNCHANGED <<pc, ended, reqId, futures, reqModel, pending, early, done,
                 total, errors, lats, byBackend, byModel, pcts, counted>>

-----------------------------------------------------------------------------
(* main(). *)

Unchanged0 == UNCHANGED <<ended, status, res, reqModel, total, errors, lats,
                          byBackend, byModel, pcts, counted>>

\* A plausible bug: the outer loop does not look at the clock.
LoopTestForever ==
  /\ pc = "loop" /\ pc' = "fill"
  /\ UNCHANGED <<reqId, futures, pending, early, done>> /\ Unchanged0

\* `while time.time() < end:` (line 81); on exit, the drain's as_completed.
LoopTest ==
  /\ pc = "loop"
  /\ \/ ~ended /\ pc' = "fill" /\ UNCHANGED pending
     \/ ended /\ pc' = "drain" /\ pending' = futures
  /\ UNCHANGED <<reqId, futures, early, done>> /\ Unchanged0

\* A plausible bug: the future is submitted before req_id += 1.
SubmitBeforeIncrement ==
  /\ pc = "fill" /\ ~ended /\ Cardinality(futures) < Concurrency
  /\ reqId < MaxReq
  /\ reqId' = reqId + 1 /\ futures' = futures \cup {reqId}
  /\ status' = [status EXCEPT ![reqId] = "running"]
  /\ IF Affinity THEN \E m \in Models : reqModel' = [reqModel EXCEPT ![reqId] = m]
                 ELSE UNCHANGED reqModel
  /\ UNCHANGED <<pc, ended, res, pending, early, done, total, errors, lats,
                 byBackend, byModel, pcts, counted>>

\* Lines 82-84: one more request while the window has room.
Submit ==
  /\ pc = "fill" /\ ~ended /\ Cardinality(futures) < Concurrency
  /\ reqId < MaxReq
  /\ LET i == reqId + 1 IN
       /\ reqId' = i /\ futures' = futures \cup {i}
       /\ status' = [status EXCEPT ![i] = "running"]
       /\ IF Affinity THEN \E m \in Models : reqModel' = [reqModel EXCEPT ![i] = m]
                      ELSE UNCHANGED reqModel
  /\ UNCHANGED <<pc, ended, res, pending, early, done, total, errors, lats,
                 byBackend, byModel, pcts, counted>>

\* Lines 82-88: the window is full or the time is up; as_completed starts.
FillDone ==
  /\ pc = "fill" /\ (Cardinality(futures) >= Concurrency \/ ended)
  /\ pc' = "collect" /\ pending' = futures /\ done' = {}
  /\ early' = {f \in futures : status[f] = "finished"}
  /\ UNCHANGED <<reqId, futures>> /\ Unchanged0

\* f.result() re-raises a read timeout inside a round: the except of
\* line 99 ends the round, and f, already in done, is pruned untallied.
Swallowed(f) == res[f].r = "timeout" /\ pc = "collect"

\* f.result() re-raises out of main(): a reset, or a read timeout during
\* the drain, whose loop (line 107) has no try.
Raised(f) == res[f].r = "raise" \/ (res[f].r = "timeout" /\ pc = "drain")

\* The body of either for loop over as_completed (lines 88-100, 107-116).
Yield(f) ==
  /\ pc \in {"collect", "drain"} /\ f \in pending /\ status[f] = "finished"
  /\ pending' = pending \ {f}
  /\ done' = IF pc = "collect" THEN done \cup {f} ELSE done
  /\ \/ /\ Swallowed(f) /\ pc' = "prune"
        /\ UNCHANGED <<total, errors, lats, byBackend, byModel, counted>>
     \/ /\ Raised(f) /\ pc' = "crashed"
        /\ UNCHANGED <<total, errors, lats, byBackend, byModel, counted>>
     \/ /\ res[f].r \notin {"timeout", "raise"} /\ UNCHANGED pc
        /\ total' = total + 1 /\ lats' = Append(lats, res[f].ms)
        /\ counted' = [counted EXCEPT ![f] = @ + 1]
        /\ IF res[f].r = "err"
             THEN errors' = errors + 1 /\ UNCHANGED <<byBackend, byModel>>
             ELSE /\ byBackend' = [byBackend EXCEPT ![res[f].r] = @ + 1]
                  /\ byModel' = IF Affinity /\ reqModel[f] # NoModel
                                  THEN [byModel EXCEPT ![reqModel[f]] = @ + 1]
                                  ELSE byModel
                  /\ UNCHANGED errors
  /\ UNCHANGED <<ended, reqId, futures, status, res, reqModel, early, pcts>>

\* Lines 88 and 99-100: the for loop ends, or as_completed raises
\* TimeoutError once 0.2 s have passed; it yields every future already
\* finished when it was called before it can time out.
CollectStop ==
  /\ pc = "collect"
  /\ \/ pending = {}
     \/ pending # {} /\ pending \cap early = {}
  /\ pc' = "prune"
  /\ UNCHANGED <<reqId, futures, pending, early, done>> /\ Unchanged0

\* A plausible bug: the round's `done` list is lost when as_completed
\* times out, so its futures stay in the window.
PruneKeepsOnTimeout ==
  /\ pc = "prune" /\ pc' = "loop"
  /\ futures' = IF pending = {} THEN futures \ done ELSE futures
  /\ UNCHANGED <<reqId, pending, early, done>> /\ Unchanged0

\* Lines 102-104: the yielded futures leave the window.
Prune ==
  /\ pc = "prune" /\ futures' = futures \ done /\ pc' = "loop"
  /\ UNCHANGED <<reqId, pending, early, done>> /\ Unchanged0

\* A plausible bug: lats_ms.sort() left out.
DrainEndUnsorted ==
  /\ pc = "drain" /\ pending = {}
  /\ pc' = "report"
  /\ pcts' = <<Percentile(lats, 50), Percentile(lats, 90), Percentile(lats, 99)>>
  /\ UNCHANGED <<ended, reqId, futures, status, res, reqModel, pending, early,
                 done, total, errors, lats, byBackend, byModel, counted>>

\* Lines 107 and 118-121: the drain is over; sort and take percentiles.
DrainEnd ==
  /\ pc = "drain" /\ pending = {}
  /\ pc' = "report"
  /\ lats' = SortSeq(lats, <)
  /\ pcts' = <<Percentile(lats', 50), Percentile(lats', 90), Percentile(lats', 99)>>
  /\ UNCHANGED <<ended, reqId, futures, status, res, reqModel, pending, early,
                 done, total, errors, byBackend, byModel, counted>>

\* The process has exited (after the report, or with the traceback).
Exited == pc \in {"report", "crashed"} /\ UNCHANGED vars

Main == LoopTest \/ Submit \/ FillDone \/ (\E f \in Ids : Yield(f))
          \/ CollectStop \/ Prune \/ DrainEnd

Next == Tick \/ (\E i \in Ids : Complete(i)) \/ Main \/ Exited

\* The clock advances; every request ends (urlopen's timeout); main() runs.
Spec == Init /\ [][Next]_vars /\ WF_vars(Tick) /\ WF_vars(Main)
          /\ \A i \in Ids : WF_vars(Complete(i))

-----------------------------------------------------------------------------
(* Properties. *)

\* The requests whose read timed out.
TimedOut == {i \in Ids : res[i].r = "timeout"}

\* When main() reports, every request it submitted was tallied exactly
\* once, except those whose read timed out, which were not tallied at all
\* (swallowed by line 99 and pruned), whatever the order in which futures
\* finished, the as_completed timeouts that cut rounds short, and the
\* futures already tallied that sat in the window across a timeout; total
\* is the number of the others; errors and the backend distribution add
\* up to the total, and so does the model distribution in model_affinity
\* mode.
ReportExact ==
  pc = "report" =>
    /\ \A i \in 1..reqId : counted[i] = IF i \in TimedOut THEN 0 ELSE 1
    /\ total = reqId - Cardinality(TimedOut \cap 1..reqId)
    /\ errors + SumFunction(byBackend) = total
    /\ Affinity => SumFunction(byModel) = total - errors

\* Reference definition: v is the k-th smallest element of s (1-based),
\* counted on the multiset of its values, whatever their order.
IsKth(s, v, k) ==
  /\ Cardinality({j \in DOMAIN s : s[j] < v}) < k
  /\ Cardinality({j \in DOMAIN s : s[j] <= v}) >= k

\* The reported p50, p90 and p99 are the order statistics of rank
\* int(p * (n - 1)) + 1 of the latencies collected, as percentile() on a
\* sorted list is meant to return: in particular p50 <= p90 <= p99.
PercentilesExact ==
  pc = "report" /\ total > 0 =>
    \A q \in 1..3 :
      IsKth(lats, pcts[q], (<<50, 90, 99>>[q] * (total - 1)) \div 100 + 1)

\* Every run of the load test ends: with the report, or with the traceback
\* of an exception `one` let through.
Terminates == <>(pc \in {"report", "crashed"})

=============================================================================
