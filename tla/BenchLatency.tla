---------------------------- MODULE BenchLatency ----------------------------
(***************************************************************************)
(* The latency report of src/scripts/benchmark.py.  _run_once's jobs      *)
(* append their latencies to lat_ms in the order they complete (lines     *)
(* 153-160); after gather, main reports each mode through _fmt_latency    *)
(* (console) and _latency_summary (JSON), which sort lat_ms and index it  *)
(* at int(len * 0.50), int(len * 0.90) and int(len * 0.99).  For every    *)
(* length below 2,000,000 the float product truncates to (len*num) \div 100,*)
(* so the model indexes with integers.  The mean and the formatting are   *)
(* left out.                                                              *)
(***************************************************************************)
EXTENDS Naturals, Sequences, FiniteSets, TLC

CONSTANTS
  Latencies,    \* the latencies a job can measure (ms)
  MaxSamples    \* --total: at most one latency per job

ASSUME LatencyAssumption ==
  /\ Latencies \subseteq Nat /\ Latencies # {}
  /\ MaxSamples \in Nat

\* The three percentiles both reports print, in this order.
Nums == <<50, 90, 99>>

VARIABLES
  lat_ms,   \* _run_once's lat_ms list
  phase,    \* "run" while jobs complete, "reported" after main's report
  summary   \* the p50/p90/p99 of the report, <<>> for an empty lat_ms

vars == <<lat_ms, phase, summary>>

TypeOK ==
  /\ lat_ms \in Seq(Latencies) /\ Len(lat_ms) <= MaxSamples
  /\ phase \in {"run", "reported"}
  /\ summary \in Seq(Latencies) /\ Len(summary) \in {0, 3}

Init == lat_ms = <<>> /\ phase = "run" /\ summary = <<>>

Pct(sorted, num) == sorted[(Len(sorted) * num) \div 100 + 1]

\* _latency_summary, lines 186-198 (and _fmt_latency, 174-183): nothing
\* for an empty list, else the three percentiles of the sorted list.
LatencySummary(lat) ==
  IF lat = <<>> THEN <<>>
  ELSE LET sorted == SortSeq(lat, <=)
       IN  [q \in 1..3 |-> Pct(sorted, Nums[q])]

\* A plausible bug: a latency appended more than once per job (on a retry).
RecordLatencyUnbounded(v) ==
  /\ phase = "run"
  /\ lat_ms' = Append(lat_ms, v)
  /\ UNCHANGED <<phase, summary>>

\* job(), lines 153-160: a request completes and appends its latency.
RecordLatency(v) ==
  /\ phase = "run" /\ Len(lat_ms) < MaxSamples
  /\ lat_ms' = Append(lat_ms, v)
  /\ UNCHANGED <<phase, summary>>

\* main, lines 510-541: after gather, the report of the mode.
Report ==
  /\ phase = "run" /\ phase' = "reported"
  /\ summary' = LatencySummary(lat_ms)
  /\ UNCHANGED lat_ms

Next == Report \/ \E v \in Latencies : RecordLatency(v)

Spec == Init /\ [][Next]_vars

-----------------------------------------------------------------------------
(* Properties. *)

\* The number of measured latencies at most (resp. below) v.
AtMost(s, v) == Cardinality({i \in DOMAIN s : s[i] <= v})
Below(s, v) == Cardinality({i \in DOMAIN s : s[i] < v})

=============================================================================
