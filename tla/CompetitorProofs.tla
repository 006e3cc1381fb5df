-------------------------- MODULE CompetitorProofs --------------------------
(***************************************************************************)
(* Proofs about CompetitorDriver for every set of ports, every number of  *)
(* scenarios and jobs, every --concurrency and every set of slow servers. *)
(*                                                                         *)
(* WrappersReapedAtExit is not inductive by itself: it says nothing of    *)
(* the states before the end, where a wrapper that is still running must  *)
(* be on its way to the finally.  The strengthening follows main_async:   *)
(* no wrapper exists before Spawn (Fresh), the wait loop of the finally   *)
(* has reaped or killed every wrapper before its index (Walked), and from *)
(* Close on none runs (Reaped).  No step but Spawn makes a wrapper run:   *)
(* the servers' steps only let a wrapper follow its server out.           *)
(***************************************************************************)
EXTENDS CompetitorDriver, TLAPS

WrapStates == {"none", "running", "exited", "killed"}

PcOK == pc \in Pcs /\ fi \in 1..3 /\ wrap \in [Servers -> WrapStates]

Fresh ==
  pc \in {"prepare", "reserve", "backendStart", "spawn"} =>
    \A s \in Servers : wrap[s] = "none"

Walked ==
  pc = "finWait" =>
    /\ fi \in 1..Len(Order)
    /\ \A k \in 1..fi - 1 : wrap[Order[k]] # "running"

Reaped ==
  pc \in {"close", "closing", "exited"} => \A s \in Servers : wrap[s] # "running"

IInv == PcOK /\ Fresh /\ Walked /\ Reaped

-----------------------------------------------------------------------------

\* The servers' own steps never make a wrapper run: `timeout` only
\* follows its server out.
LEMMA FollowsOnly ==
  ASSUME IInv, NEW s \in Servers
  PROVE  /\ WrapperFollows(s) \in [Servers -> WrapStates]
         /\ \A t \in Servers : WrapperFollows(s)[t] = "running" => wrap[t] = "running"
         /\ \A t \in Servers : wrap[t] = "none" => WrapperFollows(s)[t] = "none"
BY DEF IInv, PcOK, WrapperFollows, Servers, WrapStates

\* A step of a server or of a wrapper keeps the invariant: pc and fi are
\* left alone and no wrapper starts running.
LEMMA EnvStep ==
  ASSUME IInv, NEW s \in Servers,
         ServerBind(s) \/ ServerExit(s) \/ WrapperExpire(s)
  PROVE  IInv'
<1>1. /\ pc' = pc /\ fi' = fi
      /\ \/ wrap' = wrap
         \/ wrap' = WrapperFollows(s)
  BY DEF ServerBind, ServerExit, WrapperExpire, UnchangedLoad
<1>2. /\ wrap' \in [Servers -> WrapStates]
      /\ \A t \in Servers : wrap'[t] = "running" => wrap[t] = "running"
      /\ \A t \in Servers : wrap[t] = "none" => wrap'[t] = "none"
  BY <1>1, FollowsOnly DEF IInv, PcOK
<1>3. PcOK'
  BY <1>1, <1>2 DEF IInv, PcOK
<1>4. Fresh'
  BY <1>1, <1>2 DEF IInv, Fresh
<1>5. Walked'
  <2>1. \A k \in 1..2 : Order[k] \in Servers
    BY DEF Order, Servers
  <2>. QED
    BY <1>1, <1>2, <2>1 DEF IInv, Walked, Order
<1>6. Reaped'
  BY <1>1, <1>2 DEF IInv, Reaped
<1>. QED
  BY <1>3, <1>4, <1>5, <1>6 DEF IInv

\* The finally's wait loop: the wrapper at the index is reaped or killed
\* before the index moves on, and after the last one comes Close.
LEMMA FinWaitStep ==
  ASSUME IInv, FinWait
  PROVE  IInv'
<1>1. pc = "finWait" /\ fi \in 1..2
  BY DEF FinWait, IInv, Walked, Order
<1>2. wrap'[Order[fi]] # "running"
  BY <1>1 DEF FinWait, IInv, PcOK, Order, Servers
<1>3. /\ wrap' \in [Servers -> WrapStates]
      /\ \A t \in Servers : t # Order[fi] => wrap'[t] = wrap[t]
  BY <1>1 DEF FinWait, IInv, PcOK, Order, Servers, WrapStates
<1>4. \A k \in 1..fi : wrap'[Order[k]] # "running"
  BY <1>1, <1>2, <1>3 DEF IInv, Walked, Order, Servers
<1>. QED
  BY <1>1, <1>3, <1>4 DEF FinWait, IInv, PcOK, Fresh, Walked, Reaped, Order,
     Servers, Pcs

\* Every step of main_async other than the wait loop keeps the invariant.
LEMMA DriverStep ==
  ASSUME IInv, Driver \/ Interrupt, ~FinWait
  PROVE  IInv'
<1>. USE DEF IInv, PcOK, Fresh, Walked, Reaped, Pcs, Order
<1>1. CASE Prepare
  BY <1>1 DEF Prepare, UnchangedProcs
<1>2. CASE Reserve
  BY <1>2 DEF Reserve
<1>3. CASE BackendStart
  BY <1>3 DEF BackendStart
<1>4. CASE Spawn
  BY <1>4 DEF Spawn, WrapStates
<1>5. CASE \E s \in Servers : WaitReady(s) \/ WaitTimeout(s)
  BY <1>5 DEF WaitReady, WaitTimeout, WaitPc, UnchangedProcs
<1>6. CASE \E j \in Jobs : JobAcquire(j) \/ JobFinish(j)
  BY <1>6 DEF JobAcquire, JobFinish, UnchangedProcs
<1>7. CASE LoadDone
  BY <1>7 DEF LoadDone, UnchangedProcs
<1>8. CASE Write
  BY <1>8 DEF Write, UnchangedProcs
<1>9. CASE FinTerm
  BY <1>9 DEF FinTerm
<1>10. CASE Close
  BY <1>10 DEF Close
<1>11. CASE Closed
  BY <1>11 DEF Closed, UnchangedProcs
<1>12. CASE Interrupt
  BY <1>12 DEF Interrupt, AwaitPcs, UnchangedProcs
<1>. QED
  BY <1>1, <1>2, <1>3, <1>4, <1>5, <1>6, <1>7, <1>8, <1>9, <1>10, <1>11, <1>12
  DEF Driver

LEMMA InitIInv == Init => IInv
BY DEF Init, IInv, PcOK, Fresh, Walked, Reaped, Pcs, WrapStates

LEMMA NextIInv == IInv /\ [Next]_vars => IInv'
<1>. SUFFICES ASSUME IInv, [Next]_vars PROVE IInv'
  OBVIOUS
<1>1. CASE FinWait
  BY <1>1, FinWaitStep
<1>2. CASE (Driver \/ Interrupt) /\ ~FinWait
  BY <1>2, DriverStep
<1>3. CASE \E s \in Servers : ServerBind(s) \/ ServerExit(s) \/ WrapperExpire(s)
  BY <1>3, EnvStep
<1>4. CASE UNCHANGED vars
  BY <1>4 DEF vars, IInv, PcOK, Fresh, Walked, Reaped
<1>. QED
  BY <1>1, <1>2, <1>3, <1>4 DEF Next

\* bench_competitor's finally blocks reap or kill both `timeout` wrappers
\* on every path out of main_async (success, a port that never opened,
\* Ctrl-C at any await), for every value of the constants.
THEOREM WrappersReaped == Spec => []WrappersReapedAtExit
<1>1. IInv => WrappersReapedAtExit
  BY DEF IInv, Reaped, WrappersReapedAtExit
<1>. QED
  BY <1>1, InitIInv, NextIInv, PTL DEF Spec

=============================================================================
