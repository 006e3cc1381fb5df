-------------------------------- MODULE AiDemo --------------------------------
(***************************************************************************)
(* main() of src/scripts/ai_demo.py.  It checks its inputs, writes a      *)
(* per-run copy of the proxy config, registers an atexit cleanup that     *)
(* kills every process it started (newest first) and removes the copy,    *)
(* starts --backend-count mock backends and the proxy, waits for the      *)
(* proxy's /stats, registers each backend through the admin API, fires a  *)
(* burst of requests from a ThreadPoolExecutor for --duration seconds,    *)
(* and prints a report.                                                   *)
(*                                                                         *)
(* The main thread is one process; the pool's workers, the spawned        *)
(* processes and the clock act between its steps.  A worker's request     *)
(* ends (an answer, or an exception within its 10 s timeout) in one step. *)
(* as_completed(futures, timeout=0.2) raises TimeoutError while a future *)
(* of its list is still running 0.2 s after the call: the model lets it   *)
(* raise whenever one is running.  Processes are numbered in the order    *)
(* of `procs`: the backends 1..NB, then the proxy.  The request payloads, *)
(* the model names, the latencies and the printed text are left out.      *)
(***************************************************************************)
EXTENDS Naturals

CONSTANTS
  NB,             \* --backend-count
  Conc,           \* --concurrency
  MaxReqs         \* bound on the requests of a burst (the clock bounds it)

ASSUME AiDemoAssumption ==
  /\ NB \in Nat /\ Conc \in Nat /\ MaxReqs \in Nat

Proxy == NB + 1
Procs == 1..Proxy
Pcs == {"check", "cfg", "spawnBackends", "openLog", "spawnProxy", "waitReady",
        "register", "outer", "inner", "collect", "poolExit", "report", "atexit",
        "kill", "removeCfg", "exited"}

VARIABLES
  pc,
  logsDir,     \* whether <root>/logs exists
  crashed,     \* an exception is propagating out of main
  atexitSet,   \* atexit.register(cleanup) has run
  cfgFile,     \* the file ai_demo.run.<pid>.conf
  spawned,     \* len(procs)
  alive,       \* the processes of procs still running
  proxyState,  \* the proxy's progress towards serving /stats
  regd,        \* backends registered through the admin API
  reqId, running, finished,  \* the burst's futures: submitted, running, done
  timeUp,      \* time.time() >= end
  ok,          \* total: results returned without an exception
  ci,          \* the cleanup loop's position in reversed(procs)
  reported

vars == <<pc, logsDir, crashed, atexitSet, cfgFile, spawned, alive, proxyState, regd,
          reqId, running, finished, timeUp, ok, ci, reported>>

TypeOK ==
  /\ pc \in Pcs /\ logsDir \in BOOLEAN /\ crashed \in BOOLEAN /\ atexitSet \in BOOLEAN
  /\ cfgFile \in {"none", "exists", "removed"}
  /\ spawned \in 0..Proxy /\ alive \subseteq 1..spawned
  /\ proxyState \in {"none", "starting", "up", "failed"}
  /\ regd \in 0..NB /\ reqId \in 0..MaxReqs
  /\ running \in Nat /\ finished \in Nat /\ running + finished <= Conc
  /\ timeUp \in BOOLEAN /\ ok \in 0..MaxReqs
  /\ ci \in 0..Proxy /\ reported \in BOOLEAN

Init ==
  /\ pc = "check" /\ logsDir \in BOOLEAN /\ crashed = FALSE /\ atexitSet = FALSE /\ cfgFile = "none"
  /\ spawned = 0 /\ alive = {} /\ proxyState = "none" /\ regd = 0
  /\ reqId = 0 /\ running = 0 /\ finished = 0 /\ timeUp = FALSE /\ ok = 0
  /\ ci = 0 /\ reported = FALSE

\* An exception leaves main: the interpreter runs the atexit handlers, if
\* one is registered, and exits.
Raise == crashed' = TRUE /\ pc' = IF atexitSet THEN "atexit" ELSE "exited"

Burst == <<reqId, running, finished, timeUp, ok>>

-----------------------------------------------------------------------------
(* The main thread. *)

\* Lines 74-85: SystemExit when the proxy binary, the backend script or
\* the config is missing.
Check ==
  /\ pc = "check"
  /\ \/ pc' = "cfg" /\ UNCHANGED crashed
     \/ Raise
  /\ UNCHANGED <<atexitSet, cfgFile, spawned, alive, proxyState, regd, ci, reported>>
  /\ UNCHANGED <<logsDir, Burst>>

\* A plausible bug: the cleanup registered only once everything is up.
WriteRunCfgNoAtexit ==
  /\ pc = "cfg" /\ pc' = "spawnBackends" /\ cfgFile' = "exists"
  /\ UNCHANGED <<crashed, atexitSet, spawned, alive, proxyState, regd, ci, reported>>
  /\ UNCHANGED <<logsDir, Burst>>

\* Lines 86-114: the patched copy of the config is written, then the
\* cleanup is registered with atexit.
WriteRunCfg ==
  /\ pc = "cfg" /\ pc' = "spawnBackends" /\ cfgFile' = "exists"
  /\ atexitSet' = TRUE
  /\ UNCHANGED <<crashed, spawned, alive, proxyState, regd, ci, reported>>
  /\ UNCHANGED <<logsDir, Burst>>

\* Lines 117-130: one Popen per backend, appended to procs.
SpawnBackend ==
  /\ pc = "spawnBackends"
  /\ \/ spawned < NB /\ spawned' = spawned + 1 /\ alive' = alive \cup {spawned + 1}
        /\ UNCHANGED pc
     \/ spawned = NB /\ pc' = "openLog" /\ UNCHANGED <<spawned, alive>>
  /\ UNCHANGED <<crashed, atexitSet, cfgFile, proxyState, regd, ci, reported>>
  /\ UNCHANGED <<logsDir, Burst>>

\* Lines 133-134: the proxy's log file is opened in <root>/logs, and only
\* then is the directory created: open raises when it does not exist.
OpenLog ==
  /\ pc = "openLog"
  /\ \/ logsDir /\ pc' = "spawnProxy" /\ UNCHANGED crashed
     \/ ~logsDir /\ Raise
  /\ UNCHANGED <<atexitSet, cfgFile, spawned, alive, proxyState, regd, ci, reported>>
  /\ UNCHANGED <<logsDir, Burst>>

\* Lines 135-136: Popen of the proxy at <root>/--proxy-bin, which is not
\* the path line 74 checked (that one is relative to the working
\* directory), so it can raise FileNotFoundError.
SpawnProxy ==
  /\ pc = "spawnProxy"
  /\ \/ pc' = "waitReady" /\ spawned' = Proxy /\ alive' = alive \cup {Proxy}
        /\ proxyState' = "starting" /\ UNCHANGED crashed
     \/ Raise /\ UNCHANGED <<spawned, alive, proxyState>>
  /\ UNCHANGED <<atexitSet, cfgFile, regd, ci, reported>> /\ UNCHANGED <<logsDir, Burst>>

\* wait_http_ok, lines 31-41 and 139: /stats answers, or after 15 s of
\* retries every 0.2 s RuntimeError is raised.
WaitReady ==
  /\ pc = "waitReady"
  /\ \/ proxyState = "up" /\ pc' = "register" /\ UNCHANGED crashed
     \/ proxyState # "up" /\ Raise
  /\ UNCHANGED <<atexitSet, cfgFile, spawned, alive, proxyState, regd, ci, reported>>
  /\ UNCHANGED <<logsDir, Burst>>

\* Lines 142-145: POST /admin/backend_register per backend; http_json
\* raises on a refused connection or an error status.
Register ==
  /\ pc = "register"
  /\ \/ regd < NB /\ proxyState = "up" /\ regd' = regd + 1 /\ UNCHANGED <<pc, crashed>>
     \/ regd < NB /\ Raise /\ UNCHANGED regd
     \/ regd = NB /\ pc' = "outer" /\ UNCHANGED <<regd, crashed>>
  /\ UNCHANGED <<atexitSet, cfgFile, spawned, alive, proxyState, ci, reported>>
  /\ UNCHANGED <<logsDir, Burst>>

\* A plausible bug: a burst loop that never looks at the clock.
OuterIgnoresClock ==
  /\ pc = "outer" /\ pc' = "inner"
  /\ UNCHANGED <<crashed, atexitSet, cfgFile, spawned, alive, proxyState, regd,
                 ci, reported>>
  /\ UNCHANGED <<logsDir, Burst>>

\* Line 177: the burst goes on while time remains; otherwise the with
\* block is left and the executor's shutdown waits for its workers.
Outer ==
  /\ pc = "outer"
  /\ pc' = IF timeUp THEN "poolExit" ELSE "inner"
  /\ UNCHANGED <<crashed, atexitSet, cfgFile, spawned, alive, proxyState, regd,
                 ci, reported>>
  /\ UNCHANGED <<logsDir, Burst>>

\* A plausible bug: the pipeline refilled without the length check.
SubmitNoLimit ==
  /\ pc = "inner" /\ ~timeUp /\ reqId < MaxReqs
  /\ reqId' = reqId + 1 /\ running' = running + 1
  /\ UNCHANGED <<pc, logsDir, crashed, atexitSet, cfgFile, spawned, alive,
                 proxyState, regd, ci, reported, finished, timeUp, ok>>

\* Lines 179-181: submit while fewer than --concurrency futures are listed
\* and time remains (and the model's bound allows).
Submit ==
  /\ pc = "inner" /\ running + finished < Conc /\ ~timeUp /\ reqId < MaxReqs
  /\ reqId' = reqId + 1 /\ running' = running + 1
  /\ UNCHANGED <<pc, logsDir, crashed, atexitSet, cfgFile, spawned, alive,
                 proxyState, regd, ci, reported, finished, timeUp, ok>>

\* The inner loop's condition fails: as_completed is called on the list.
InnerDone ==
  /\ pc = "inner"
  /\ running + finished = Conc \/ timeUp \/ reqId = MaxReqs
  /\ pc' = "collect"
  /\ UNCHANGED <<crashed, atexitSet, cfgFile, spawned, alive, proxyState, regd,
                 ci, reported>>
  /\ UNCHANGED <<logsDir, Burst>>

\* Lines 183-192: as_completed yields the futures that are done, and
\* f.result() either returns (total += 1) or raises (swallowed).
Yield ==
  /\ pc = "collect" /\ finished > 0 /\ finished' = finished - 1
  /\ \/ ok < MaxReqs /\ ok' = ok + 1
     \/ UNCHANGED ok
  /\ UNCHANGED <<pc, logsDir, crashed, atexitSet, cfgFile, spawned, alive,
                 proxyState, regd, ci, reported, reqId, running, timeUp>>

\* Lines 193-196: every listed future was yielded; they leave the list.
CollectEnd ==
  /\ pc = "collect" /\ running = 0 /\ finished = 0 /\ pc' = "outer"
  /\ UNCHANGED <<crashed, atexitSet, cfgFile, spawned, alive, proxyState, regd,
                 ci, reported>>
  /\ UNCHANGED <<logsDir, Burst>>

\* Line 183: no listed future completes within 0.2 s of the call, and
\* as_completed raises TimeoutError, which nothing catches; the with
\* block's exit still waits for the workers.
CollectTimeout ==
  /\ pc = "collect" /\ running > 0 /\ finished = 0
  /\ pc' = "poolExit" /\ crashed' = TRUE
  /\ UNCHANGED <<atexitSet, cfgFile, spawned, alive, proxyState, regd, ci, reported>>
  /\ UNCHANGED <<logsDir, Burst>>

\* Line 174: ThreadPoolExecutor.__exit__ is shutdown(wait=True): once no
\* worker runs, the report follows, or the exception goes on.
PoolExit ==
  /\ pc = "poolExit" /\ running = 0
  /\ IF crashed THEN Raise ELSE pc' = "report" /\ UNCHANGED crashed
  /\ UNCHANGED <<atexitSet, cfgFile, spawned, alive, proxyState, regd, ci, reported>>
  /\ UNCHANGED <<logsDir, Burst>>

\* Lines 198-218: the percentiles and the printed report; main returns and
\* the interpreter runs the atexit handlers.
Report ==
  /\ pc = "report" /\ reported' = TRUE
  /\ pc' = IF atexitSet THEN "atexit" ELSE "exited"
  /\ UNCHANGED <<crashed, atexitSet, cfgFile, spawned, alive, proxyState, regd, ci>>
  /\ UNCHANGED <<logsDir, Burst>>

\* cleanup, lines 106-108: reversed(procs), as procs is at exit.
AtexitStart ==
  /\ pc = "atexit" /\ pc' = "kill" /\ ci' = spawned
  /\ UNCHANGED <<crashed, atexitSet, cfgFile, spawned, alive, proxyState, regd, reported>>
  /\ UNCHANGED <<logsDir, Burst>>

\* kill_proc, lines 44-58: nothing to do for a process that has exited;
\* otherwise SIGTERM, up to 20 polls 0.1 s apart, then SIGKILL: the
\* process is gone when it returns.
KillProc ==
  /\ pc = "kill"
  /\ \/ ci > 0 /\ alive' = alive \ {ci} /\ ci' = ci - 1 /\ UNCHANGED pc
     \/ ci = 0 /\ pc' = "removeCfg" /\ UNCHANGED <<alive, ci>>
  /\ UNCHANGED <<crashed, atexitSet, cfgFile, spawned, proxyState, regd, reported>>
  /\ UNCHANGED <<logsDir, Burst>>

\* Lines 109-112: os.remove of the config copy, OSError ignored.
RemoveCfg ==
  /\ pc = "removeCfg" /\ pc' = "exited"
  /\ cfgFile' = IF cfgFile = "exists" THEN "removed" ELSE cfgFile
  /\ UNCHANGED <<crashed, atexitSet, spawned, alive, proxyState, regd, ci, reported>>
  /\ UNCHANGED <<logsDir, Burst>>

Main ==
  \/ Check \/ WriteRunCfg \/ SpawnBackend \/ OpenLog \/ SpawnProxy \/ WaitReady
  \/ Register \/ Outer \/ Submit \/ InnerDone \/ Yield \/ CollectEnd
  \/ CollectTimeout \/ PoolExit \/ Report \/ AtexitStart \/ KillProc \/ RemoveCfg

-----------------------------------------------------------------------------
(* The proxy, the pool's workers and the clock. *)

\* The proxy comes up, or exits (a bad config, the port taken).
ProxyBoot ==
  /\ proxyState = "starting"
  /\ \/ proxyState' = "up" /\ UNCHANGED alive
     \/ proxyState' = "failed" /\ alive' = alive \ {Proxy}
  /\ UNCHANGED <<pc, logsDir, crashed, atexitSet, cfgFile, spawned, regd, ci,
                 reported>>
  /\ UNCHANGED Burst

\* worker_one, lines 157-165: the request ends, with an answer or an
\* exception (http_json's 10 s timeout at the latest).
WorkerDone ==
  /\ running > 0 /\ running' = running - 1 /\ finished' = finished + 1
  /\ UNCHANGED <<pc, logsDir, crashed, atexitSet, cfgFile, spawned, alive,
                 proxyState, regd, ci, reported, reqId, timeUp, ok>>

\* The clock reaches end = start + --duration during the burst.
TimeUp ==
  /\ pc \in {"outer", "inner", "collect"} /\ ~timeUp /\ timeUp' = TRUE
  /\ UNCHANGED <<pc, logsDir, crashed, atexitSet, cfgFile, spawned, alive,
                 proxyState, regd, ci, reported, reqId, running, finished, ok>>

Next == Main \/ ProxyBoot \/ WorkerDone \/ TimeUp

\* The main thread runs whenever it is not blocked, the proxy starts or
\* fails, every request ends by its timeout, and time passes.
Spec == Init /\ [][Next]_vars /\ WF_vars(Main) /\ WF_vars(ProxyBoot)
          /\ WF_vars(WorkerDone) /\ WF_vars(TimeUp)

-----------------------------------------------------------------------------
(* Properties. *)

\* The atexit cleanup runs on every way out of main (the report, and each
\* exception after the config copy exists): when the demo has ended, no
\* backend or proxy it started is running and the copy is gone.
CleanedUpAtExit ==
  pc = "exited" => alive = {} /\ cfgFile # "exists"

\* Every demo run ends.
Terminates == <>(pc = "exited")

\* The burst's own comment and load_test.py's identical loop (which
\* catches the TimeoutError of as_completed): a run whose proxy came up and
\* accepted every backend goes through the burst and prints its report.
ReportPrinted ==
  pc = "exited" /\ proxyState = "up" /\ regd = NB => reported

=============================================================================
