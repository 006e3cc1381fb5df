--------------------------- MODULE CompetitorDriver ---------------------------
(***************************************************************************)
(* main_async of src/scripts/bench_competitor.py.  It makes sure haproxy  *)
(* is built, reserves three ports with _reserve_free_port (bind to port 0 *)
(* and close), starts the download backend on the first, spawns          *)
(* proxy_server and haproxy, each under `timeout --global-timeout`, waits *)
(* for their ports with _wait_tcp, runs _run_load against the proxy and   *)
(* then against haproxy for each scenario, writes the JSON, and in two    *)
(* finally blocks sends SIGTERM to both wrappers, waits 2 s for each and  *)
(* kills it, then closes the backend.                                     *)
(*                                                                         *)
(* One asyncio thread runs main_async: code between two awaits is one     *)
(* step.  The OS, the two servers and their `timeout` wrappers act        *)
(* between the steps.  A reserved port is a model value; nothing stops    *)
(* two reservations from returning the same one, since the socket is      *)
(* closed before the port is used.  A server binds its port if nobody     *)
(* listens there and exits otherwise.  `timeout` forwards SIGTERM to its  *)
(* child and exits when the child does; SIGKILL ends the wrapper alone.   *)
(* SlowServers are the servers that take longer than the 2 s grace of     *)
(* p.wait to exit on SIGTERM.  One Ctrl-C is modelled: asyncio.run        *)
(* cancels main_async at the await it is suspended at.  Requests, bytes,  *)
(* latencies and the printed progress are left out.                       *)
(***************************************************************************)
EXTENDS Integers, Sequences

CONSTANTS
  Ports,        \* the ports _reserve_free_port can return
  NScen,        \* scenarios of the run (small_2b, download_4k, download_1m)
  Total,        \* --total
  Concurrency,  \* --concurrency
  SlowServers   \* servers that outlast the 2 s grace after SIGTERM

Servers == {"proxy", "haproxy"}
\* The tuple (proxy_p, hap_p) the two finally loops walk.
Order == <<"proxy", "haproxy">>

ASSUME CompetitorAssumption ==
  /\ Ports # {} /\ NScen \in Nat \ {0}
  /\ Total \in Nat /\ Concurrency \in Nat \ {0}
  /\ SlowServers \subseteq Servers

Roles == {"backend"} \cup Servers
Jobs == 1..Total
Pcs == {"prepare", "reserve", "backendStart", "spawn", "waitProxy", "waitHap",
        "load", "write", "finTerm", "finWait", "close", "closing", "exited"}
\* The awaits at which asyncio.run's cancellation (Ctrl-C) can land.
AwaitPcs == {"waitProxy", "waitHap", "load", "closing"}

VARIABLES
  pc, exc, exitCode,
  port,       \* backend_port, proxy_port, haproxy_port
  owner,      \* who listens on each port
  child,      \* each server process
  wrap,       \* each server's `timeout` wrapper, the Popen object
  backend,    \* the asyncio server of _backend_handler
  fi,         \* the index of the finally's wait loop
  sc, tgt,    \* the scenario and the target of the current _run_load
  job, sem, ok, failed,
  results,    \* out["results"], one record per _run_load
  written,    \* the output file
  interrupted

vars == <<pc, exc, exitCode, port, owner, child, wrap, backend, fi, sc, tgt,
          job, sem, ok, failed, results, written, interrupted>>

Result == [scen : 1..NScen, target : Servers, ok : Nat, failed : Nat]

TypeOK ==
  /\ pc \in Pcs /\ exc \in {"none", "timeout", "interrupt"}
  /\ exitCode \in {-1, 0, 1, 130}
  /\ port \in [Roles -> Ports] \/ port = <<>>
  /\ owner \in [Ports -> Roles \cup {"none"}]
  /\ child \in [Servers -> {"none", "starting", "listening", "stopping", "exited"}]
  /\ wrap \in [Servers -> {"none", "running", "exited", "killed"}]
  /\ backend \in {"none", "open", "closed"}
  /\ fi \in 1..3 /\ sc \in 1..NScen + 1 /\ tgt \in Servers
  /\ job \in [Jobs -> {"wait", "hold", "ok", "failed"}]
  /\ sem \in 0..Concurrency /\ ok \in 0..Total /\ failed \in 0..Total
  /\ results \in Seq(Result)
  /\ written \in BOOLEAN /\ interrupted \in BOOLEAN

Init ==
  /\ pc = "prepare" /\ exc = "none" /\ exitCode = -1
  /\ port = <<>> /\ owner = [q \in Ports |-> "none"]
  /\ child = [s \in Servers |-> "none"] /\ wrap = [s \in Servers |-> "none"]
  /\ backend = "none" /\ fi = 1 /\ sc = 1 /\ tgt = "proxy"
  /\ job = [j \in Jobs |-> "wait"] /\ sem = Concurrency /\ ok = 0 /\ failed = 0
  /\ results = <<>> /\ written = FALSE /\ interrupted = FALSE

\* The port of a role, and whoever answers a connect to it.
Answerer(r) == owner[port[r]]

NewLoad == job' = [j \in Jobs |-> "wait"] /\ sem' = Concurrency /\ ok' = 0
           /\ failed' = 0
UnchangedLoad == UNCHANGED <<sc, tgt, job, sem, ok, failed, results, written>>
UnchangedProcs == UNCHANGED <<port, owner, child, wrap, backend>>

-----------------------------------------------------------------------------
(* main_async, lines 295-410. *)

\* Lines 310-317: the proxy binary must exist (SystemExit otherwise) and
\* ensure_haproxy (220-253) returns the cached binary or downloads,
\* extracts and builds it; any of its subprocesses failing, or timing out,
\* raises out of main: nothing has been started yet.
Prepare ==
  /\ pc = "prepare"
  /\ \/ pc' = "reserve" /\ UNCHANGED exitCode
     \/ pc' = "exited" /\ exitCode' = 1
  /\ UNCHANGED <<exc, fi, interrupted>> /\ UnchangedProcs /\ UnchangedLoad

\* Lines 319-321 and _reserve_free_port (30-36): each call binds port 0,
\* reads the port and closes the socket, so the three calls may return
\* the same port.
Reserve ==
  /\ pc = "reserve" /\ pc' = "backendStart"
  /\ \E p \in [Roles -> Ports] : port' = p
  /\ UNCHANGED <<exc, exitCode, fi, interrupted, owner, child, wrap, backend>>
  /\ UnchangedLoad

\* Line 323: asyncio.start_server binds backend_port (the reserved port is
\* free: nothing of ours listens yet).
BackendStart ==
  /\ pc = "backendStart" /\ pc' = "spawn" /\ backend' = "open"
  /\ owner' = [owner EXCEPT ![port["backend"]] = "backend"]
  /\ UNCHANGED <<exc, exitCode, fi, interrupted, port, child, wrap>>
  /\ UnchangedLoad

\* Lines 325-341: the two configs, then Popen of `timeout ... proxy_server`
\* and `timeout ... haproxy -db`.
Spawn ==
  /\ pc = "spawn" /\ pc' = "waitProxy"
  /\ child' = [s \in Servers |-> "starting"] /\ wrap' = [s \in Servers |-> "running"]
  /\ UNCHANGED <<exc, exitCode, fi, interrupted, port, owner, backend>>
  /\ UnchangedLoad

\* The await of _wait_tcp for server s, and what follows it.
WaitPc(s) == IF s = "proxy" THEN "waitProxy" ELSE "waitHap"

\* _wait_tcp, lines 39-49: a connect succeeds, whoever listens on the port.
\* After the haproxy port, the scenario loop starts its first _run_load.
WaitReady(s) ==
  /\ pc = WaitPc(s) /\ Answerer(s) # "none"
  /\ IF s = "proxy"
       THEN pc' = "waitHap" /\ UnchangedLoad
       ELSE pc' = "load" /\ sc' = 1 /\ tgt' = "proxy" /\ NewLoad
            /\ UNCHANGED <<results, written>>
  /\ UNCHANGED <<exc, exitCode, fi, interrupted>> /\ UnchangedProcs

\* A plausible bug: a wait loop without a deadline.
WaitTimeoutNever(s) == FALSE

\* A plausible bug: a try/finally that encloses only the loads, so that a
\* TimeoutError of _wait_tcp goes straight to the outer finally.
WaitTimeoutSkipsFinally(s) ==
  /\ pc = WaitPc(s) /\ Answerer(s) = "none"
  /\ pc' = "close" /\ exc' = "timeout"
  /\ UNCHANGED <<exitCode, fi, interrupted>> /\ UnchangedProcs /\ UnchangedLoad

\* Lines 50-52: the 3 s deadline passes with nobody listening (each retry
\* after 0.05 s is a stutter step); TimeoutError enters the finally.
WaitTimeout(s) ==
  /\ pc = WaitPc(s) /\ Answerer(s) = "none"
  /\ pc' = "finTerm" /\ exc' = "timeout"
  /\ UNCHANGED <<exitCode, fi, interrupted>> /\ UnchangedProcs /\ UnchangedLoad

\* A plausible bug: a job that does not take the semaphore.
JobAcquireNoSem(j) ==
  /\ pc = "load" /\ job[j] = "wait"
  /\ sem' = sem - 1 /\ job' = [job EXCEPT ![j] = "hold"]
  /\ UNCHANGED <<pc, exc, exitCode, fi, interrupted, sc, tgt, ok, failed,
                 results, written>>
  /\ UnchangedProcs

\* _run_load's job(), line 163: `async with sem`.
JobAcquire(j) ==
  /\ pc = "load" /\ job[j] = "wait" /\ sem > 0
  /\ sem' = sem - 1 /\ job' = [job EXCEPT ![j] = "hold"]
  /\ UNCHANGED <<pc, exc, exitCode, fi, interrupted, sc, tgt, ok, failed,
                 results, written>>
  /\ UnchangedProcs

\* Lines 164-170: _one_http answers only if somebody listens on the port
\* (and it is whoever does); any Exception counts as failed; the
\* semaphore is released.
JobFinish(j) ==
  /\ pc = "load" /\ job[j] = "hold" /\ sem' = sem + 1
  /\ \/ Answerer(tgt) # "none" /\ job' = [job EXCEPT ![j] = "ok"] /\ ok' = ok + 1
        /\ UNCHANGED failed
     \/ job' = [job EXCEPT ![j] = "failed"] /\ failed' = failed + 1
        /\ UNCHANGED ok
  /\ UNCHANGED <<pc, exc, exitCode, fi, interrupted, sc, tgt, results, written>>
  /\ UnchangedProcs

\* _run_load, lines 172-191: the as_completed loop has awaited every job.
AllJobsDone == \A j \in Jobs : job[j] \in {"ok", "failed"}

\* Lines 362-390: the LatResult goes into out["results"]; the proxy's load
\* is followed by haproxy's, the last scenario by writing the output.
LoadDone ==
  /\ pc = "load" /\ AllJobsDone
  /\ results' = Append(results, [scen |-> sc, target |-> tgt, ok |-> ok,
                                 failed |-> failed])
  /\ \/ tgt = "proxy" /\ tgt' = "haproxy" /\ NewLoad /\ UNCHANGED <<pc, sc>>
     \/ tgt = "haproxy" /\ sc < NScen /\ sc' = sc + 1 /\ tgt' = "proxy" /\ NewLoad
        /\ UNCHANGED pc
     \/ tgt = "haproxy" /\ sc = NScen /\ pc' = "write"
        /\ UNCHANGED <<sc, tgt, job, sem, ok, failed>>
  /\ UNCHANGED <<exc, exitCode, fi, interrupted, written>> /\ UnchangedProcs

\* Line 392: the JSON file.
Write ==
  /\ pc = "write" /\ pc' = "finTerm" /\ written' = TRUE
  /\ UNCHANGED <<exc, exitCode, fi, interrupted, sc, tgt, job, sem, ok, failed,
                 results>>
  /\ UnchangedProcs

\* Lines 394-398: p.send_signal(SIGTERM) to both wrappers; a wrapper still
\* running forwards it to its server.
FinTerm ==
  /\ pc = "finTerm" /\ pc' = "finWait" /\ fi' = 1
  /\ child' = [s \in Servers |->
                 IF wrap[s] = "running" /\ child[s] \in {"starting", "listening"}
                   THEN "stopping" ELSE child[s]]
  /\ UNCHANGED <<exc, exitCode, interrupted, port, owner, wrap, backend>>
  /\ UnchangedLoad

\* Lines 399-406: p.wait(timeout=2.0) returns once the wrapper has exited,
\* and the wrapper exits with its server; a server that outlasts the
\* grace makes wait raise, and p.kill() kills the wrapper, not the server.
FinWait ==
  /\ pc = "finWait"
  /\ LET s == Order[fi] IN
       \/ wrap[s] # "running" /\ UNCHANGED wrap
       \/ wrap[s] = "running" /\ s \in SlowServers
          /\ wrap' = [wrap EXCEPT ![s] = "killed"]
  /\ fi' = fi + 1 /\ pc' = IF fi = Len(Order) THEN "close" ELSE "finWait"
  /\ UNCHANGED <<exc, exitCode, interrupted, port, owner, child, backend>>
  /\ UnchangedLoad

\* Line 408: backend.close() stops listening.
Close ==
  /\ pc = "close" /\ pc' = "closing" /\ backend' = "closed"
  /\ owner' = [q \in Ports |-> IF owner[q] = "backend" THEN "none" ELSE owner[q]]
  /\ UNCHANGED <<exc, exitCode, fi, interrupted, port, child, wrap>>
  /\ UnchangedLoad

\* Lines 409-417: await backend.wait_closed(); main_async returns 0, the
\* TimeoutError of _wait_tcp ends the program with a traceback (1), and
\* a cancellation by Ctrl-C becomes KeyboardInterrupt in asyncio.run (130).
ExitCodeOf == [none |-> 0, timeout |-> 1, interrupt |-> 130]

Closed ==
  /\ pc = "closing" /\ pc' = "exited"
  /\ exitCode' = ExitCodeOf[exc]
  /\ UNCHANGED <<exc, fi, interrupted>> /\ UnchangedProcs /\ UnchangedLoad

\* Ctrl-C, lines 413-417: asyncio.run cancels main_async at its current
\* await; the finally blocks run, and main returns 130.  At the last
\* await the backend is already closed.
Interrupt ==
  /\ pc \in AwaitPcs /\ ~interrupted /\ interrupted' = TRUE
  /\ exc' = "interrupt"
  /\ \/ pc = "closing" /\ pc' = "exited" /\ exitCode' = 130
     \/ pc # "closing" /\ pc' = "finTerm" /\ UNCHANGED exitCode
  /\ UNCHANGED fi /\ UnchangedProcs /\ UnchangedLoad

Driver ==
  \/ Prepare \/ Reserve \/ BackendStart \/ Spawn
  \/ \E s \in Servers : WaitReady(s) \/ WaitTimeout(s)
  \/ \E j \in Jobs : JobAcquire(j) \/ JobFinish(j)
  \/ LoadDone \/ Write \/ FinTerm \/ FinWait \/ Close \/ Closed

-----------------------------------------------------------------------------
(* The servers and their wrappers. *)

Vacate(s) == [q \in Ports |-> IF owner[q] = s THEN "none" ELSE owner[q]]
WrapperFollows(s) == [wrap EXCEPT ![s] = IF @ = "running" THEN "exited" ELSE @]

\* A server binds its port if nobody listens there; otherwise (or on a bad
\* config) it exits, and so does its wrapper.
ServerBind(s) ==
  /\ child[s] = "starting"
  /\ \/ owner[port[s]] = "none" /\ owner' = [owner EXCEPT ![port[s]] = s]
        /\ child' = [child EXCEPT ![s] = "listening"] /\ UNCHANGED wrap
     \/ child' = [child EXCEPT ![s] = "exited"] /\ wrap' = WrapperFollows(s)
        /\ UNCHANGED owner
  /\ UNCHANGED <<pc, exc, exitCode, fi, interrupted, port, backend>> /\ UnchangedLoad

\* A server that got SIGTERM exits and frees its port; `timeout` exits too.
ServerExit(s) ==
  /\ child[s] = "stopping" /\ child' = [child EXCEPT ![s] = "exited"]
  /\ owner' = Vacate(s) /\ wrap' = WrapperFollows(s)
  /\ UNCHANGED <<pc, exc, exitCode, fi, interrupted, port, backend>> /\ UnchangedLoad

\* `timeout --global-timeout` expires, whatever main_async is doing, and
\* sends SIGTERM to its server.
WrapperExpire(s) ==
  /\ wrap[s] = "running" /\ child[s] \in {"starting", "listening"}
  /\ child' = [child EXCEPT ![s] = "stopping"]
  /\ UNCHANGED <<pc, exc, exitCode, fi, interrupted, port, owner, wrap, backend>>
  /\ UnchangedLoad

Next ==
  \/ Driver \/ Interrupt
  \/ \E s \in Servers : ServerBind(s) \/ ServerExit(s) \/ WrapperExpire(s)

\* The event loop runs main_async whenever it is not blocked, and the OS
\* runs the servers; Ctrl-C and the wrappers' timers are not assumed.
Spec == Init /\ [][Next]_vars /\ WF_vars(Driver)
          /\ \A s \in Servers : WF_vars(ServerBind(s)) /\ WF_vars(ServerExit(s))

-----------------------------------------------------------------------------
(* Properties. *)

\* Whatever way main_async is left (success, a port that never opened,
\* Ctrl-C), its finally has reaped or killed both Popen objects, the
\* `timeout` wrappers, before the program ends.
WrappersReapedAtExit ==
  pc = "exited" => \A s \in Servers : wrap[s] # "running"

\* The finally blocks stop what main_async started: once the program has
\* ended, by success, a port that never opened or Ctrl-C, no proxy_server
\* or haproxy it spawned is still running.
ServersStoppedAtExit ==
  pc = "exited" => \A s \in Servers : child[s] \in {"none", "exited"}

\* Every benchmark run ends, by the 3 s deadline of _wait_tcp and the
\* 2 s grace of the finally if nothing else.
Terminates == <>(pc = "exited")

=============================================================================
