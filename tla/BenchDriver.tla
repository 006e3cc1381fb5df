---------------------------- MODULE BenchDriver ----------------------------
(***************************************************************************)
(* src/scripts/benchmark.py with --spawn-server: for each I/O mode,       *)
(* runner_one spawns proxy_server, waits for its port, starts the /proc  *)
(* sampler, warms up, runs _run_once (total jobs under a Semaphore of     *)
(* --concurrency), and in its finally stops the sampler, stops the server,*)
(* closes the download backend and unlinks the temporary config.  runner  *)
(* wraps each mode in wait_for(per_mode_timeout) and main wraps runner in *)
(* wait_for(global_timeout).                                              *)
(*                                                                         *)
(* One asyncio thread runs all of it, so code between two awaits is one   *)
(* step; a timer's cancellation lands on the await the task is suspended  *)
(* at (AwaitPcs).  Python >= 3.11: asyncio.TimeoutError is TimeoutError,  *)
(* so runner's handler also catches _wait_port's TimeoutError, and        *)
(* CancelledError is not an Exception.  The sampler's readings, the job's *)
(* bytes and the printed report are left out.                             *)
(***************************************************************************)
EXTENDS Integers, Sequences

CONSTANTS
  NModes,        \* modes of the run (--mode all: epoll, poll, select)
  Total,         \* --total
  Concurrency,   \* --concurrency
  SpawnBackend   \* --bench http_download --spawn-backend

ASSUME BenchAssumption ==
  /\ NModes \in Nat \ {0} /\ Total \in Nat /\ Concurrency \in Nat
  /\ SpawnBackend \in BOOLEAN

Modes == 1..NModes
Jobs == 1..Total
Pcs == {"modeStart", "backend", "spawn", "waitport", "warmup", "run", "fin1",
        "finSampler", "finServer", "finBackend", "finCfg", "exited"}
\* The awaits of runner_one at which a timer's cancellation can land.
AwaitPcs == {"waitport", "warmup", "run", "finSampler", "finBackend"}
\* What leaves runner_one: its result, _wait_port's TimeoutError, or the
\* CancelledError of the per-mode or of the global wait_for.
Excs == {"none", "portTimeout", "modeCancel", "globalCancel"}

VARIABLES
  pc, mi, exc,
  srv,        \* each mode's proxy_server process
  sampler,    \* the _sample_proc task of the current mode
  stop,       \* runner_one's asyncio.Event telling the sampler to stop
  backend,    \* each mode's download backend server
  cfg,        \* each mode's temporary proxy config file
  job, sem, ok, failed,
  results,    \* runner's results list
  modeFired, globalFired,
  exitCode

vars == <<pc, mi, exc, srv, sampler, stop, backend, cfg, job, sem, ok, failed,
          results, modeFired, globalFired, exitCode>>

Result == [mode : Modes, ok : Nat, failed : Nat, timedOut : BOOLEAN]

TypeOK ==
  /\ pc \in Pcs /\ mi \in 1..NModes + 1 /\ exc \in Excs
  /\ srv \in [Modes -> {"none", "starting", "listening", "exited"}]
  /\ sampler \in {"none", "running", "returned", "cancelled"} /\ stop \in BOOLEAN
  /\ backend \in [Modes -> {"none", "open", "closed"}]
  /\ cfg \in [Modes -> {"none", "exists", "removed"}]
  /\ job \in [Jobs -> {"wait", "hold", "ok", "failed"}]
  /\ sem \in Nat /\ ok \in Nat /\ failed \in Nat
  /\ results \in Seq(Result)
  /\ modeFired \in BOOLEAN /\ globalFired \in BOOLEAN
  /\ exitCode \in {-1, 0, 2}

Init ==
  /\ pc = "modeStart" /\ mi = 1 /\ exc = "none"
  /\ srv = [m \in Modes |-> "none"] /\ sampler = "none" /\ stop = FALSE
  /\ backend = [m \in Modes |-> "none"] /\ cfg = [m \in Modes |-> "none"]
  /\ job = [j \in Jobs |-> "wait"] /\ sem = 0 /\ ok = 0 /\ failed = 0
  /\ results = <<>> /\ modeFired = FALSE /\ globalFired = FALSE
  /\ exitCode = -1

Listening == {m \in Modes : srv[m] = "listening"}

-----------------------------------------------------------------------------
(* runner (lines 476-485) and runner_one (418-474). *)

\* The next mode of runner's loop, or runner returns and main exits 0.
ModeStart ==
  /\ pc = "modeStart"
  /\ \/ mi > NModes /\ pc' = "exited" /\ exitCode' = 0
        /\ UNCHANGED <<exc, sampler, stop, job, modeFired>>
     \/ mi <= NModes /\ pc' = "backend" /\ exc' = "none" /\ sampler' = "none"
        /\ stop' = FALSE /\ job' = [j \in Jobs |-> "wait"] /\ modeFired' = FALSE
        /\ UNCHANGED exitCode
  /\ UNCHANGED <<mi, srv, backend, cfg, sem, ok, failed, results, globalFired>>

\* Lines 427-429: the download backend and its temporary config.
StartBackend ==
  /\ pc = "backend" /\ pc' = "spawn"
  /\ IF SpawnBackend
       THEN backend' = [backend EXCEPT ![mi] = "open"] /\ cfg' = [cfg EXCEPT ![mi] = "exists"]
       ELSE UNCHANGED <<backend, cfg>>
  /\ UNCHANGED <<mi, exc, srv, sampler, stop, job, sem, ok, failed, results,
                 modeFired, globalFired, exitCode>>

\* Lines 430-433: _start_server (Popen).
Spawn ==
  /\ pc = "spawn" /\ pc' = "waitport"
  /\ srv' = [srv EXCEPT ![mi] = "starting"]
  /\ UNCHANGED <<mi, exc, sampler, stop, backend, cfg, job, sem, ok, failed,
                 results, modeFired, globalFired, exitCode>>

UnchangedWait == UNCHANGED <<mi, stop, srv, backend, cfg, job, sem, ok, failed,
                             results, modeFired, globalFired, exitCode>>

\* _wait_port, lines 307-318: a connect to the port succeeds (whichever
\* server listens on it); the sampler task starts (line 434).
PortReady ==
  /\ pc = "waitport" /\ Listening # {}
  /\ pc' = "warmup" /\ sampler' = "running"
  /\ UNCHANGED exc /\ UnchangedWait

\* A plausible bug: a wait loop without a deadline.
PortTimeoutNever == FALSE

\* Lines 317-320: the connects failed (each retry after 0.05 s is a
\* stutter step) until the deadline passed with nothing listening.
PortTimeout ==
  /\ pc = "waitport" /\ Listening = {}
  /\ pc' = "fin1" /\ exc' = "portTimeout"
  /\ UNCHANGED sampler /\ UnchangedWait

\* Line 435: warmup_http (best effort), then _run_once creates its
\* Semaphore (line 142).
Warmup ==
  /\ pc = "warmup" /\ pc' = "run" /\ sem' = Concurrency
  /\ ok' = 0 /\ failed' = 0
  /\ UNCHANGED <<mi, exc, srv, sampler, stop, backend, cfg, job, results,
                 modeFired, globalFired, exitCode>>

\* A plausible bug: a job that does not take the semaphore.
JobAcquireNoSem(j) ==
  /\ pc = "run" /\ job[j] = "wait"
  /\ sem' = sem - 1 /\ job' = [job EXCEPT ![j] = "hold"]
  /\ UNCHANGED <<ok, failed>> /\ UNCHANGED exc /\ UNCHANGED sampler
  /\ UNCHANGED <<pc, mi, stop, srv, backend, cfg, results, modeFired, globalFired, exitCode>>

\* job(), lines 149-151: `async with sem`.
JobAcquire(j) ==
  /\ pc = "run" /\ job[j] = "wait" /\ sem > 0
  /\ sem' = sem - 1 /\ job' = [job EXCEPT ![j] = "hold"]
  /\ UNCHANGED <<pc, mi, exc, srv, sampler, stop, backend, cfg, ok, failed, results,
                 modeFired, globalFired, exitCode>>

\* Lines 152-166: the operation succeeds only against a listening server;
\* any Exception counts as failed; the semaphore is released.
JobFinish(j) ==
  /\ pc = "run" /\ job[j] = "hold" /\ sem' = sem + 1
  /\ \/ Listening # {} /\ job' = [job EXCEPT ![j] = "ok"] /\ ok' = ok + 1
        /\ UNCHANGED failed
     \/ job' = [job EXCEPT ![j] = "failed"] /\ failed' = failed + 1
        /\ UNCHANGED ok
  /\ UNCHANGED <<pc, mi, exc, srv, sampler, stop, backend, cfg, results,
                 modeFired, globalFired, exitCode>>

\* Line 169: gather returns when every job has.
RunDone ==
  /\ pc = "run" /\ \A j \in Jobs : job[j] \in {"ok", "failed"}
  /\ pc' = "fin1"
  /\ UNCHANGED exc /\ UNCHANGED sampler /\ UnchangedWait

\* Lines 449-452: stop.set(), then await the sampler if there is one.
Fin1 ==
  /\ pc = "fin1" /\ stop' = TRUE
  /\ pc' = IF sampler = "none" THEN "finServer" ELSE "finSampler"
  /\ UNCHANGED <<exc, sampler, mi, srv, backend, cfg, job, sem, ok, failed,
                 results, modeFired, globalFired, exitCode>>

\* _sample_proc, lines 231-248: the sampling loop (its /proc reads are
\* synchronous and best effort) wakes from wait_for(stop.wait()) and
\* returns once stop is set.
SamplerReturn ==
  /\ sampler = "running" /\ stop /\ sampler' = "returned"
  /\ UNCHANGED <<pc, exc>> /\ UnchangedWait

\* Lines 453-455: wait_for(sampler_task, 0.5) returns, or its timeout
\* cancels the sampler.
SamplerExit ==
  /\ pc = "finSampler" /\ pc' = "finServer"
  /\ sampler' = IF sampler = "running" THEN "cancelled" ELSE sampler
  /\ UNCHANGED exc /\ UnchangedWait

\* _stop_server, lines 286-303: a process still running gets SIGTERM,
\* 0.5 s of grace and SIGKILL; it returns only once the process is gone.
StopServer(st) == IF st \in {"starting", "listening"} THEN "exited" ELSE st

\* Lines 456-459: _stop_server(proc) if a server was spawned, and
\* backend_server.close().
FinServer ==
  /\ pc = "finServer"
  /\ srv' = [srv EXCEPT ![mi] = StopServer(@)]
  /\ IF backend[mi] = "open"
       THEN backend' = [backend EXCEPT ![mi] = "closed"] /\ pc' = "finBackend"
       ELSE UNCHANGED backend /\ pc' = "finCfg"
  /\ UNCHANGED <<mi, exc, sampler, stop, cfg, job, sem, ok, failed, results,
                 modeFired, globalFired, exitCode>>

\* Lines 460-463: await backend_server.wait_closed().
BackendClosed ==
  /\ pc = "finBackend" /\ pc' = "finCfg"
  /\ UNCHANGED exc /\ UNCHANGED sampler /\ UnchangedWait

\* How runner_one is left, and what runner and main make of it: a result
\* is appended (line 482); a TimeoutError, from _wait_port or from the
\* per-mode wait_for, appends a timed-out result (483-484); the global
\* wait_for's cancellation ends main with 2 (488-491).
LeaveDropsTimeout(e) ==
  \/ e = "globalCancel" /\ pc' = "exited" /\ exitCode' = 2 /\ UNCHANGED <<results, mi>>
  \/ e = "none" /\ pc' = "modeStart" /\ mi' = mi + 1 /\ UNCHANGED exitCode
     /\ results' = Append(results, [mode |-> mi, ok |-> ok, failed |-> failed, timedOut |-> FALSE])
  \/ e \in {"portTimeout", "modeCancel"} /\ pc' = "modeStart" /\ mi' = mi + 1
     /\ UNCHANGED <<exitCode, results>>

Leave(e) ==
  \/ e = "globalCancel" /\ pc' = "exited" /\ exitCode' = 2 /\ UNCHANGED <<results, mi>>
  \/ e # "globalCancel" /\ pc' = "modeStart" /\ mi' = mi + 1 /\ UNCHANGED exitCode
     /\ results' = Append(results,
          IF e = "none" THEN [mode |-> mi, ok |-> ok, failed |-> failed, timedOut |-> FALSE]
                        ELSE [mode |-> mi, ok |-> 0, failed |-> Total, timedOut |-> TRUE])

\* Lines 464-468: os.unlink(tmp_cfg); runner_one returns or re-raises.
FinCfg ==
  /\ pc = "finCfg"
  /\ cfg' = IF cfg[mi] = "exists" THEN [cfg EXCEPT ![mi] = "removed"] ELSE cfg
  /\ Leave(exc)
  /\ UNCHANGED <<exc, srv, sampler, stop, backend, job, sem, ok, failed, modeFired, globalFired>>

-----------------------------------------------------------------------------
(* The timers of the two wait_for calls.  Their cancellation lands on the *)
(* await runner_one is suspended at: in the try body it runs the finally; *)
(* in the finally it abandons the rest of it.  Once the global one has    *)
(* fired, it is what main sees.                                           *)

Effective(kind) == IF exc = "globalCancel" THEN "globalCancel" ELSE kind

Cancel(kind) ==
  /\ pc \in AwaitPcs
  /\ \/ kind = "modeCancel" /\ ~modeFired /\ modeFired' = TRUE /\ UNCHANGED globalFired
     \/ kind = "globalCancel" /\ ~globalFired /\ globalFired' = TRUE /\ UNCHANGED modeFired
  /\ \/ pc \in {"waitport", "warmup", "run"} /\ pc' = "fin1" /\ exc' = Effective(kind)
        /\ UNCHANGED <<mi, results, exitCode>>
        /\ UNCHANGED sampler
     \/ pc \in {"finSampler", "finBackend"} /\ Leave(Effective(kind)) /\ UNCHANGED exc
        /\ sampler' = IF sampler = "running" THEN "cancelled" ELSE sampler
  /\ UNCHANGED <<stop, srv, backend, cfg, job, sem, ok, failed>>

\* proxy_server comes up, or exits (the port is taken, a bad config).
ServerStart(m) ==
  /\ srv[m] = "starting"
  /\ \/ Listening = {} /\ srv' = [srv EXCEPT ![m] = "listening"]
     \/ srv' = [srv EXCEPT ![m] = "exited"]
  /\ UNCHANGED <<pc, mi, exc, sampler, stop, backend, cfg, job, sem, ok, failed,
                 results, modeFired, globalFired, exitCode>>

Runner ==
  \/ ModeStart \/ StartBackend \/ Spawn \/ PortReady \/ PortTimeout
  \/ Warmup \/ (\E j \in Jobs : JobAcquire(j) \/ JobFinish(j)) \/ RunDone
  \/ Fin1 \/ SamplerExit \/ FinServer \/ BackendClosed \/ FinCfg

Next ==
  \/ Runner \/ Cancel("modeCancel") \/ Cancel("globalCancel")
  \/ SamplerReturn \/ \E m \in Modes : ServerStart(m)

\* The event loop runs the runner and the sampler, and each spawned server
\* gets going; the timers are not assumed to fire: the code's own
\* deadlines must suffice.
Spec == Init /\ [][Next]_vars /\ WF_vars(Runner) /\ WF_vars(SamplerReturn)
          /\ \A m \in Modes : WF_vars(ServerStart(m))

-----------------------------------------------------------------------------
(* Properties. *)

\* When main exits 0, runner has one result per mode, in order, and each
\* accounts for all --total operations, whether the mode ran, its port
\* never opened, or its per-mode timeout cancelled it.
ResultsAccount ==
  pc = "exited" /\ exitCode = 0 =>
    /\ Len(results) = NModes
    /\ \A k \in 1..Len(results) : results[k].mode = k /\ results[k].ok + results[k].failed = Total

\* Every benchmark run ends, by the code's own deadlines.
Terminates == <>(pc = "exited")

\* --spawn-server promises "spawn proxy_server and kill it after run": once
\* main has returned, no proxy_server it spawned is still running.
ServerKilledAtExit ==
  pc = "exited" => \A m \in Modes : srv[m] \in {"none", "exited"}

=============================================================================
