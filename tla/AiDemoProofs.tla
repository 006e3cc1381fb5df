----------------------------- MODULE AiDemoProofs -----------------------------
(***************************************************************************)
(* Proofs about AiDemo for every number of backends, every --concurrency  *)
(* and every bound on the burst.                                          *)
(*                                                                         *)
(* CleanedUpAtExit is not inductive by itself: it speaks only of the end. *)
(* The strengthening says that the cleanup is registered as soon as there *)
(* is something to clean (Armed, Registered), that the kill loop walks    *)
(* procs from the end and has killed everything above its index (Killing),*)
(* and that nothing is alive once it is done (Killed).                    *)
(***************************************************************************)
EXTENDS AiDemo, TLAPS

Early == {"check", "cfg"}

TypesOK ==
  /\ pc \in Pcs /\ atexitSet \in BOOLEAN
  /\ cfgFile \in {"none", "exists", "removed"}
  /\ spawned \in 0..Proxy /\ alive \subseteq 1..spawned /\ ci \in 0..Proxy

\* Nothing to clean before the cleanup is registered.
Armed == ~atexitSet => spawned = 0 /\ cfgFile = "none"

\* Past the input checks, main runs with the cleanup registered.
Registered == pc \notin Early \cup {"exited"} => atexitSet

Killing == pc = "kill" => alive \subseteq 1..ci

Killed == pc \in {"removeCfg", "exited"} => alive = {}

Removed == pc = "exited" => cfgFile # "exists"

IInv == TypesOK /\ Armed /\ Registered /\ Killing /\ Killed /\ Removed

USE AiDemoAssumption DEF AiDemoAssumption

-----------------------------------------------------------------------------
(* Lemmas about the numbered processes. *)

\* Starting the next process keeps the alive ones among those started.
LEMMA AppendProc ==
  ASSUME NEW S, NEW n \in Nat, S \subseteq 1..n
  PROVE  S \cup {n + 1} \subseteq 1..n + 1
OBVIOUS

\* Killing the process at the kill loop's index leaves the alive ones
\* below it.
LEMMA KillTop ==
  ASSUME NEW S, NEW c \in Nat, c > 0, S \subseteq 1..c
  PROVE  S \ {c} \subseteq 1..c - 1
OBVIOUS

\* The proxy is started after every backend, as number NB + 1.
LEMMA AppendProxy ==
  ASSUME NEW S, NEW n \in 0..Proxy, S \subseteq 1..n
  PROVE  S \cup {Proxy} \subseteq 1..Proxy
BY DEF Proxy

-----------------------------------------------------------------------------

\* The steps of the proxy, the workers and the clock keep the invariant:
\* they never start a process or touch the main thread's state.
LEMMA EnvStep ==
  ASSUME IInv, ProxyBoot \/ WorkerDone \/ TimeUp
  PROVE  IInv'
<1>1. /\ pc' = pc /\ atexitSet' = atexitSet /\ cfgFile' = cfgFile
      /\ spawned' = spawned /\ ci' = ci /\ alive' \subseteq alive
  BY DEF ProxyBoot, WorkerDone, TimeUp, Burst
<1>. QED
  BY <1>1 DEF IInv, TypesOK, Armed, Registered, Killing, Killed, Removed

\* Every step of the main thread keeps the invariant.
LEMMA MainStep ==
  ASSUME IInv, Main
  PROVE  IInv'
<1>. USE DEF IInv, TypesOK, Armed, Registered, Killing, Killed, Removed, Early,
             Pcs, Proxy, Raise, Burst
<1>1. CASE Check
  BY <1>1 DEF Check
<1>2. CASE WriteRunCfg
  BY <1>2 DEF WriteRunCfg
<1>3. CASE SpawnBackend
  <2>1. atexitSet /\ atexitSet' = atexitSet /\ cfgFile' = cfgFile /\ ci' = ci
    BY <1>3 DEF SpawnBackend
  <2>2. CASE spawned < NB /\ spawned' = spawned + 1 /\ alive' = alive \cup {spawned + 1}
             /\ pc' = pc
    <3>1. alive' \subseteq 1..spawned'
      BY <2>2, AppendProc
    <3>2. spawned' \in 0..Proxy
      BY <2>2
    <3>. QED
      BY <1>3, <2>1, <2>2, <3>1, <3>2 DEF SpawnBackend
  <2>3. CASE spawned = NB /\ pc' = "openLog" /\ spawned' = spawned /\ alive' = alive
    BY <1>3, <2>1, <2>3 DEF SpawnBackend
  <2>. QED
    BY <1>3, <2>2, <2>3 DEF SpawnBackend
<1>4. CASE OpenLog
  BY <1>4 DEF OpenLog
<1>5. CASE SpawnProxy
  <2>1. atexitSet /\ atexitSet' = atexitSet /\ cfgFile' = cfgFile /\ ci' = ci
    BY <1>5 DEF SpawnProxy
  <2>2. CASE pc' = "waitReady" /\ spawned' = Proxy /\ alive' = alive \cup {Proxy}
    <3>1. alive' \subseteq 1..spawned'
      BY <2>2, AppendProxy
    <3>. QED
      BY <2>1, <2>2, <3>1
  <2>3. CASE pc' = "atexit" /\ spawned' = spawned /\ alive' = alive
    BY <2>1, <2>3
  <2>. QED
    BY <1>5, <2>1, <2>2, <2>3 DEF SpawnProxy
<1>6. CASE WaitReady
  BY <1>6 DEF WaitReady
<1>7. CASE Register
  BY <1>7 DEF Register
<1>8. CASE Outer
  BY <1>8 DEF Outer
<1>9. CASE Submit
  BY <1>9 DEF Submit
<1>10. CASE InnerDone
  BY <1>10 DEF InnerDone
<1>11. CASE Yield
  BY <1>11 DEF Yield
<1>12. CASE CollectEnd
  BY <1>12 DEF CollectEnd
<1>13. CASE CollectTimeout
  BY <1>13 DEF CollectTimeout
<1>14. CASE PoolExit
  BY <1>14 DEF PoolExit
<1>15. CASE Report
  BY <1>15 DEF Report
<1>16. CASE AtexitStart
  BY <1>16 DEF AtexitStart
<1>17. CASE KillProc
  <2>1. /\ pc = "kill" /\ atexitSet' = atexitSet /\ cfgFile' = cfgFile
        /\ spawned' = spawned
    BY <1>17 DEF KillProc
  <2>2. CASE ci > 0 /\ alive' = alive \ {ci} /\ ci' = ci - 1 /\ pc' = pc
    <3>1. alive' \subseteq 1..ci'
      BY <2>1, <2>2, KillTop
    <3>2. alive' \subseteq 1..spawned'
      BY <2>1, <2>2
    <3>. QED
      BY <2>1, <2>2, <3>1, <3>2
  <2>3. CASE ci = 0 /\ pc' = "removeCfg" /\ alive' = alive /\ ci' = ci
    <3>1. alive = {}
      BY <2>1, <2>3
    <3>. QED
      BY <2>1, <2>3, <3>1
  <2>. QED
    BY <1>17, <2>2, <2>3 DEF KillProc
<1>18. CASE RemoveCfg
  BY <1>18 DEF RemoveCfg
<1>. QED
  BY <1>1, <1>2, <1>3, <1>4, <1>5, <1>6, <1>7, <1>8, <1>9, <1>10, <1>11,
     <1>12, <1>13, <1>14, <1>15, <1>16, <1>17, <1>18 DEF Main

LEMMA InitIInv == Init => IInv
<1>. SUFFICES ASSUME Init PROVE IInv
  OBVIOUS
<1>a. pc \in Pcs
  BY DEF Init, Pcs
<1>b. atexitSet \in BOOLEAN /\ cfgFile \in {"none", "exists", "removed"}
  BY DEF Init
<1>c. spawned \in 0..Proxy /\ ci \in 0..Proxy
  BY DEF Init, Proxy
<1>d. alive \subseteq 1..spawned
  BY DEF Init
<1>1. TypesOK
  BY <1>a, <1>b, <1>c, <1>d DEF TypesOK
<1>2. Armed /\ Registered /\ Killing /\ Killed /\ Removed
  BY DEF Init, Armed, Registered, Killing, Killed, Removed, Early
<1>. QED
  BY <1>1, <1>2 DEF IInv

LEMMA NextIInv == IInv /\ [Next]_vars => IInv'
<1>. SUFFICES ASSUME IInv, [Next]_vars PROVE IInv'
  OBVIOUS
<1>1. CASE Main
  BY <1>1, MainStep
<1>2. CASE ProxyBoot \/ WorkerDone \/ TimeUp
  BY <1>2, EnvStep
<1>3. CASE UNCHANGED vars
  BY <1>3 DEF vars, IInv, TypesOK, Armed, Registered, Killing, Killed, Removed
<1>. QED
  BY <1>1, <1>2, <1>3 DEF Next

\* ai_demo's atexit cleanup leaves no backend or proxy running and no
\* config copy behind, whichever way main ends, for any --backend-count.
THEOREM CleanedUp == Spec => []CleanedUpAtExit
<1>1. IInv => CleanedUpAtExit
  BY DEF IInv, Killed, Removed, CleanedUpAtExit
<1>. QED
  BY <1>1, InitIInv, NextIInv, PTL DEF Spec

=============================================================================
