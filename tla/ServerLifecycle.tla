---------------------------- MODULE ServerLifecycle ----------------------------
(***************************************************************************)
(* The server lifecycle of the DroidProxy daemon: internal/daemon's        *)
(* startServer and stopServer, run by API goroutines that overlap freely,  *)
(* over internal/proxy's ThinkingProxy (a listener, its accept loop and    *)
(* its connection handlers, counted by one WaitGroup) and                  *)
(* internal/backend's Manager (one cli-proxy-api child, its reaper, and    *)
(* the orphan sweep that runs before each launch).                         *)
(*                                                                         *)
(* One start runs at a time (d.starting); any number of goroutines stop,   *)
(* restart, remove an account, quit or shut down beside it.  The daemon    *)
(* may be killed and started again, leaving its child behind.              *)
(***************************************************************************)
EXTENDS Naturals, FiniteSets

CONSTANTS
  Ops,        \* goroutines that stop the servers (and may start them again)
  Procs,      \* identities of cli-proxy-api server processes
  Listeners,  \* identities of listening sockets of the proxy
  Conns,      \* client connections the proxy may hold at once
  Nil         \* Go's nil

Starter == "starter"               \* the goroutine startServer spawns
Threads == Ops \cup {Starter}

ASSUME LifecycleAssumption ==
  /\ Starter \notin Ops
  /\ Nil \notin Procs \cup Listeners
  /\ Procs \cap {"none", "reading", "remote"} = {}
  /\ IsFiniteSet(Listeners) /\ IsFiniteSet(Conns)

VARIABLES
  up,            \* the daemon process runs
  starting,      \* d.starting
  lastError,     \* d.lastError: "" or what the last failed start could not do
  failure,       \* the error a failing start will report once the proxy is down
  proxyRunning,  \* p.running
  listener,      \* p.listener
  open,          \* sockets bound in the kernel
  loops,         \* accept loops that have not returned
  conn,          \* what each connection handler is doing
  cmd,           \* m.cmd
  running,       \* m.running
  proc,          \* each server process, seen from the operating system; "missed"
                 \* is an orphan that a sweep has left alive
  pc,            \* control point of each thread
  kind,          \* what each op goroutine was spawned for
  sock,          \* `ln` captured by a proxy.Stop
  target,        \* `cmd`, `done` captured by backend.Start or backend.Stop
  lastCall,      \* history: whether the last request was to stop or to start
  overlapped     \* history: this busy period had two threads active at once

daemonVars  == <<up, starting, lastError, failure>>
proxyVars   == <<proxyRunning, listener, open, loops, conn>>
backendVars == <<cmd, running, proc>>
threadVars  == <<pc, kind, sock, target>>
history     == <<lastCall, overlapped>>
vars == <<daemonVars, proxyVars, backendVars, threadVars, history>>

ProxyStopPCs == {"stopProxy", "unbind", "wait", "draining"}
StarterPCs   == {"idle", "bind", "poll", "check", "sweep", "launch", "await",
                 "fail", "return"} \cup ProxyStopPCs
OpPCs        == {"idle", "stopBackend", "termWait", "killWait", "sleep"}
                  \cup ProxyStopPCs
Kinds        == {"stop", "again", "quit", "shutdown"}
Errors       == {"", "proxy", "timeout", "backend"}

DaemonType ==
  /\ up \in BOOLEAN /\ starting \in BOOLEAN
  /\ lastError \in Errors /\ failure \in Errors
  /\ lastCall \in {"start", "stop"} /\ overlapped \in BOOLEAN

ProxyType ==
  /\ proxyRunning \in BOOLEAN
  /\ listener \in Listeners \cup {Nil}
  /\ open \subseteq Listeners /\ loops \subseteq Listeners
  /\ conn \in [Conns -> {"none", "reading", "remote"} \cup Procs]

BackendType ==
  /\ cmd \in Procs \cup {Nil}
  /\ running \in BOOLEAN
  /\ proc \in [Procs -> {"gone", "alive", "termed", "exited", "orphan", "missed"}]

ThreadType ==
  /\ pc \in [Threads -> StarterPCs \cup OpPCs]
  /\ pc[Starter] \in StarterPCs
  /\ \A o \in Ops : pc[o] \in OpPCs
  /\ kind \in [Ops -> Kinds]
  /\ sock \in [Threads -> Listeners \cup {Nil}]
  /\ target \in [Threads -> Procs \cup {Nil}]

TypeOK == DaemonType /\ ProxyType /\ BackendType /\ ThreadType

-----------------------------------------------------------------------------
Busy(ops)     == \E o \in ops : pc[o] # "idle"
Quiet         == ~starting /\ ~Busy(Ops)
ServerRunning == proxyRunning /\ running        \* d.serverRunning

Parentless == {"orphan", "missed"}

\* p.wg is at zero: no accept loop and no handler is left.
WgIdle(ls, cs) == ls = {} /\ \A c \in Conns : cs[c] = "none"

\* sync.WaitGroup releases every waiter the moment its counter reaches zero.
AfterProxyStop(t) == IF t = Starter THEN "fail" ELSE "stopBackend"
Released(ls, cs) ==
  IF WgIdle(ls, cs)
  THEN [t \in Threads |-> IF pc[t] = "draining" THEN AfterProxyStop(t) ELSE pc[t]]
  ELSE pc

Init ==
  /\ up = FALSE /\ starting = FALSE /\ lastError = "" /\ failure = ""
  /\ proxyRunning = FALSE /\ listener = Nil /\ open = {} /\ loops = {}
  /\ conn = [c \in Conns |-> "none"]
  /\ cmd = Nil /\ running = FALSE
  /\ proc = [p \in Procs |-> "gone"]
  /\ pc = [t \in Threads |-> "idle"]
  /\ kind = [o \in Ops |-> "stop"]
  /\ sock = [t \in Threads |-> Nil]
  /\ target = [t \in Threads |-> Nil]
  /\ lastCall = "start" /\ overlapped = FALSE

-----------------------------------------------------------------------------
(* Requests                                                                *)

\* startServer's check and set of d.starting under d.mu.  `pcs` is the control
\* state the caller leaves behind; `overlap` says whether a stop is under way.
StartServer(pcs, overlap) ==
  IF starting \/ ServerRunning
  THEN pc' = pcs /\ UNCHANGED <<starting, overlapped>>
  ELSE /\ starting' = TRUE
       /\ pc' = [pcs EXCEPT ![Starter] = "bind"]
       /\ overlapped' = overlap

\* The first goroutine spawned by run(): the automatic start at daemon boot.
Boot ==
  /\ ~up
  /\ up' = TRUE
  /\ StartServer(pc, FALSE)
  /\ lastCall' = "start"
  /\ UNCHANGED <<lastError, failure, proxyVars, backendVars, kind, sock, target>>

\* server.start, and server.toggle when the servers are not both up.  While a
\* start runs or both servers are up the request changes nothing.
CallStart ==
  /\ up
  /\ StartServer(pc, Busy(Ops))
  /\ lastCall' = "start"
  /\ UNCHANGED <<up, lastError, failure, proxyVars, backendVars, kind, sock, target>>

Spawn(o, k) ==
  /\ up
  /\ pc[o] = "idle"
  /\ pc' = [pc EXCEPT ![o] = "stopProxy"]
  /\ kind' = [kind EXCEPT ![o] = k]
  /\ overlapped' = (starting \/ Busy(Ops \ {o}))
  /\ UNCHANGED <<daemonVars, proxyVars, backendVars, sock, target>>

\* server.stop, and server.toggle when both servers are up.
CallStop(o) == Spawn(o, "stop") /\ lastCall' = "stop"

\* server.restart; accounts.remove of a running server has the same shape:
\* stop, delete the credential, sleep, start.
CallRestart(o) == Spawn(o, "again") /\ lastCall' = "start"

\* app.quit runs stopServer before it ends the daemon.
CallQuit(o) == Spawn(o, "quit") /\ lastCall' = "stop"

\* SIGTERM: run() sees its context done and calls shutdown, once.
Sigterm(o) ==
  /\ \A q \in Ops : pc[q] # "idle" => kind[q] # "shutdown"
  /\ Spawn(o, "shutdown") /\ lastCall' = "stop"

-----------------------------------------------------------------------------
(* The start goroutine                                                     *)

StarterStep(from) == pc[Starter] = from
StarterGoto(to)   == pc' = [pc EXCEPT ![Starter] = to]

\* proxy.Start: bind and spawn the accept loop.  The port is still taken while
\* an earlier listener is open; any other bind error is left to chance.
BindProxy ==
  /\ StarterStep("bind")
  /\ \/ /\ proxyRunning
        /\ StarterGoto("poll")
        /\ UNCHANGED <<lastError, proxyVars>>
     \/ /\ ~proxyRunning /\ open = {}
        /\ \E l \in Listeners \ loops :
             /\ listener' = l
             /\ open' = {l}
             /\ loops' = loops \cup {l}
        /\ proxyRunning' = TRUE
        /\ StarterGoto("poll")
        /\ UNCHANGED <<lastError, conn>>
     \/ /\ ~proxyRunning
        /\ lastError' = "proxy"
        /\ StarterGoto("return")
        /\ UNCHANGED proxyVars
  /\ UNCHANGED <<up, starting, failure, backendVars, kind, sock, target, history>>

\* The readiness poll: 60 looks at IsRunning, then proxy.Stop and an error.
PollProxy ==
  /\ StarterStep("poll")
  /\ IF proxyRunning
     THEN StarterGoto("check") /\ UNCHANGED failure
     ELSE StarterGoto("stopProxy") /\ failure' = "timeout"
  /\ UNCHANGED <<up, starting, lastError, proxyVars, backendVars, kind, sock,
                 target, history>>

\* backend.Start, first critical section: a running backend is left as it is.
CheckBackend ==
  /\ StarterStep("check")
  /\ IF running
     THEN StarterGoto("return") /\ lastError' = ""
     ELSE StarterGoto("sweep") /\ UNCHANGED lastError
  /\ UNCHANGED <<up, starting, failure, proxyVars, backendVars, kind, sock,
                 target, history>>

\* Mutant: the sweep finds nothing to kill.
SweepOrphans_Skipped ==
  /\ StarterStep("sweep")
  /\ StarterGoto("launch")
  /\ UNCHANGED <<daemonVars, proxyVars, backendVars, kind, sock, target, history>>

\* killOrphanedProcesses: pkill -9 -x takes every process of that name, whoever
\* its parent is.  When pgrep or pkill fails some of them stay, and the start
\* goes on without a word.
SweepOrphans ==
  /\ StarterStep("sweep")
  /\ \E stay \in SUBSET Procs :
       proc' = [p \in Procs |->
                  CASE proc[p] \in Parentless -> IF p \in stay THEN "missed" ELSE "gone"
                    [] proc[p] \in {"alive", "termed"} -> IF p \in stay THEN proc[p] ELSE "exited"
                    [] OTHER -> proc[p]]
  /\ StarterGoto("launch")
  /\ UNCHANGED <<daemonVars, proxyVars, cmd, running, kind, sock, target, history>>

\* Mutant: a backend that cannot be launched leaves the proxy up.
LaunchBackend_KeepsProxy ==
  /\ StarterStep("launch")
  /\ failure' = "backend"
  /\ StarterGoto("fail")
  /\ UNCHANGED <<up, starting, lastError, proxyVars, backendVars, kind, sock,
                 target, history>>

\* cmd.Start and the second critical section; a missing binary or config, or a
\* failed exec, ends the start instead.
LaunchBackend ==
  /\ StarterStep("launch")
  /\ \/ \E p \in Procs :
          /\ proc[p] = "gone"
          /\ \A t \in Threads : target[t] # p
          /\ \A c \in Conns : conn[c] # p
          /\ proc' = [proc EXCEPT ![p] = "alive"]
          /\ cmd' = p /\ running' = TRUE
          /\ target' = [target EXCEPT ![Starter] = p]
          /\ StarterGoto("await")
          /\ UNCHANGED failure
     \/ /\ failure' = "backend"
        /\ StarterGoto("stopProxy")
        /\ UNCHANGED <<proc, cmd, running, target>>
  /\ UNCHANGED <<up, starting, lastError, proxyVars, kind, sock, history>>

\* The select of backend.Start: the process was reaped, or a second went by.
\* When both are ready Go takes either.
AwaitBackend ==
  /\ StarterStep("await")
  /\ \/ /\ proc[target[Starter]] = "gone"
        /\ failure' = "backend"
        /\ StarterGoto("stopProxy")
        /\ UNCHANGED lastError
     \/ /\ lastError' = ""
        /\ StarterGoto("return")
        /\ UNCHANGED failure
  /\ target' = [target EXCEPT ![Starter] = Nil]
  /\ UNCHANGED <<up, starting, proxyVars, backendVars, kind, sock, history>>

\* setLastError once the failed start has taken the proxy down again.
ReportFailure ==
  /\ StarterStep("fail")
  /\ lastError' = failure
  /\ failure' = ""
  /\ StarterGoto("return")
  /\ UNCHANGED <<up, starting, proxyVars, backendVars, kind, sock, target, history>>

\* Mutant: an early return that forgets d.starting.
EndStart_Forgets ==
  /\ StarterStep("return")
  /\ StarterGoto("idle")
  /\ UNCHANGED <<daemonVars, proxyVars, backendVars, kind, sock, target, history>>

\* The deferred reset of d.starting.
EndStart ==
  /\ StarterStep("return")
  /\ starting' = FALSE
  /\ StarterGoto("idle")
  /\ UNCHANGED <<up, lastError, failure, proxyVars, backendVars, kind, sock,
                 target, history>>

-----------------------------------------------------------------------------
(* proxy.Stop, by the start goroutine or an op                             *)

\* The critical section: give up the listener, or return if not running.
StopProxy(t) ==
  /\ pc[t] = "stopProxy"
  /\ IF proxyRunning
     THEN /\ proxyRunning' = FALSE /\ listener' = Nil
          /\ sock' = [sock EXCEPT ![t] = listener]
          /\ pc' = [pc EXCEPT ![t] = "unbind"]
     ELSE /\ pc' = [pc EXCEPT ![t] = AfterProxyStop(t)]
          /\ UNCHANGED <<proxyRunning, listener, sock>>
  /\ UNCHANGED <<daemonVars, open, loops, conn, backendVars, kind, target, history>>

\* Mutant: closes p.listener, read again after the unlock, instead of `ln`.
CloseListener_Rereads(t) ==
  /\ pc[t] = "unbind"
  /\ open' = open \ {listener}
  /\ sock' = [sock EXCEPT ![t] = Nil]
  /\ pc' = [pc EXCEPT ![t] = "wait"]
  /\ UNCHANGED <<daemonVars, proxyRunning, listener, loops, conn, backendVars,
                 kind, target, history>>

CloseListener(t) ==
  /\ pc[t] = "unbind"
  /\ open' = open \ {sock[t]}
  /\ sock' = [sock EXCEPT ![t] = Nil]
  /\ pc' = [pc EXCEPT ![t] = "wait"]
  /\ UNCHANGED <<daemonVars, proxyRunning, listener, loops, conn, backendVars,
                 kind, target, history>>

\* wg.Wait: returns at once at zero, otherwise the thread is parked and the
\* step that brings the counter to zero releases it (Released).
WaitProxy(t) ==
  /\ pc[t] = "wait"
  /\ pc' = [pc EXCEPT ![t] = IF WgIdle(loops, conn) THEN AfterProxyStop(t)
                                                    ELSE "draining"]
  /\ UNCHANGED <<daemonVars, proxyVars, backendVars, kind, sock, target, history>>

-----------------------------------------------------------------------------
(* backend.Stop and what follows it in each op                             *)

ShuttingDown == \E o \in Ops : pc[o] # "idle" /\ kind[o] = "shutdown"

\* After stopServer: server.stop is done, a restart sleeps, a quit cancels the
\* daemon context and so becomes the shutdown, unless that has begun already.
AfterStop(o) ==
  \/ /\ kind[o] = "stop"
     /\ pc' = [pc EXCEPT ![o] = "idle"] /\ UNCHANGED kind
  \/ /\ kind[o] = "again"
     /\ pc' = [pc EXCEPT ![o] = "sleep"] /\ UNCHANGED kind
  \/ /\ kind[o] = "quit" /\ ShuttingDown
     /\ pc' = [pc EXCEPT ![o] = "idle"] /\ UNCHANGED kind
  \/ /\ kind[o] = "quit" /\ ~ShuttingDown
     /\ pc' = [pc EXCEPT ![o] = "stopProxy"]
     /\ kind' = [kind EXCEPT ![o] = "shutdown"]

\* The daemon process is gone: its goroutines and sockets with it.  A child
\* that is alive stays behind without a parent.
Vanish ==
  /\ up' = FALSE /\ starting' = FALSE /\ lastError' = "" /\ failure' = ""
  /\ proxyRunning' = FALSE /\ listener' = Nil /\ open' = {} /\ loops' = {}
  /\ conn' = [c \in Conns |-> "none"]
  /\ cmd' = Nil /\ running' = FALSE
  /\ proc' = [p \in Procs |-> CASE proc[p] \in {"alive", "termed"} -> "orphan"
                                [] proc[p] \in Parentless -> proc[p]
                                [] OTHER -> "gone"]
  /\ pc' = [t \in Threads |-> "idle"]
  /\ kind' = [o \in Ops |-> "stop"]
  /\ sock' = [t \in Threads |-> Nil]
  /\ target' = [t \in Threads |-> Nil]
  /\ lastCall' = "start" /\ overlapped' = FALSE

StopDone(o) ==
  IF kind[o] = "shutdown"
  THEN Vanish
  ELSE /\ AfterStop(o)
       /\ target' = [target EXCEPT ![o] = Nil]
       /\ UNCHANGED <<daemonVars, proxyVars, cmd, running, proc, sock, history>>

\* With no process to stop, only the flag is cleared; otherwise SIGTERM goes to
\* the process read under the lock.
StopBackend(o) ==
  /\ pc[o] = "stopBackend"
  /\ IF cmd = Nil
     THEN IF kind[o] = "shutdown"
          THEN Vanish
          ELSE /\ running' = FALSE
               /\ AfterStop(o)
               /\ UNCHANGED <<daemonVars, proxyVars, cmd, proc, sock,
                              target, history>>
     ELSE /\ target' = [target EXCEPT ![o] = cmd]
          /\ proc' = [proc EXCEPT ![cmd] = IF @ = "alive" THEN "termed" ELSE @]
          /\ pc' = [pc EXCEPT ![o] = "termWait"]
          /\ UNCHANGED <<daemonVars, proxyVars, cmd, running, kind, sock,
                         history>>

\* The process was reaped within the graceful window or after the kill.
SeeExit(o) ==
  /\ pc[o] \in {"termWait", "killWait"}
  /\ proc[target[o]] = "gone"
  /\ StopDone(o)

\* Mutant: kills m.cmd, read again when the graceful window ends.
KillBackend_Rereads(o) ==
  /\ pc[o] = "termWait" /\ cmd # Nil
  /\ proc' = [proc EXCEPT ![cmd] = IF @ = "gone" THEN @ ELSE "exited"]
  /\ pc' = [pc EXCEPT ![o] = "killWait"]
  /\ UNCHANGED <<daemonVars, proxyVars, cmd, running, kind, sock, target,
                 history>>

\* Mutant: the graceful window ends without a SIGKILL.
KillBackend_Skipped(o) ==
  /\ pc[o] = "termWait"
  /\ pc' = [pc EXCEPT ![o] = "killWait"]
  /\ UNCHANGED <<daemonVars, proxyVars, backendVars, kind, sock, target, history>>

\* gracefulTerminationTimeout: SIGKILL.
KillBackend(o) ==
  /\ pc[o] = "termWait"
  /\ proc' = [proc EXCEPT ![target[o]] = IF @ = "gone" THEN @ ELSE "exited"]
  /\ pc' = [pc EXCEPT ![o] = "killWait"]
  /\ UNCHANGED <<daemonVars, proxyVars, cmd, running, kind, sock, target,
                 history>>

\* Five seconds after the SIGKILL the op goes on regardless.
GiveUpKill(o) ==
  /\ pc[o] = "killWait"
  /\ StopDone(o)

\* serverRestartDelay has passed.
StartAgain(o) ==
  /\ pc[o] = "sleep"
  /\ StartServer([pc EXCEPT ![o] = "idle"], overlapped \/ Busy(Ops \ {o}))
  /\ UNCHANGED <<up, lastError, failure, proxyVars, backendVars, kind, sock,
                 target, lastCall>>

-----------------------------------------------------------------------------
(* The proxy's accept loops and handlers                                   *)

\* The connections a new handler of an open, looping listener may use.
Accept(c) ==
  /\ open \cap loops # {}
  /\ conn[c] = "none"
  /\ conn' = [conn EXCEPT ![c] = "reading"]
  /\ UNCHANGED <<daemonVars, proxyRunning, listener, open, loops, backendVars,
                 threadVars, history>>

\* Accept fails: the listener was closed, or (with the listener still open) the
\* process ran out of descriptors.  Either way the loop returns.
AcceptError(l) ==
  /\ l \in loops
  /\ loops' = loops \ {l}
  /\ pc' = Released(loops', conn)
  /\ UNCHANGED <<daemonVars, proxyRunning, listener, open, conn, backendVars,
                 kind, sock, target, history>>

EndConn(c) ==
  /\ conn' = [conn EXCEPT ![c] = "none"]
  /\ pc' = Released(loops, conn')
  /\ UNCHANGED <<daemonVars, proxyRunning, listener, open, loops, backendVars,
                 kind, sock, target, history>>

\* The request was read and routed: to a TLS upstream (Grok, Meta) or to the
\* process that serves the backend port.
Forward(c) ==
  /\ conn[c] = "reading"
  /\ \E to \in {"remote"} \cup {p \in Procs : proc[p] \in {"alive", "termed"} \cup Parentless} :
       conn' = [conn EXCEPT ![c] = to]
  /\ UNCHANGED <<daemonVars, proxyRunning, listener, open, loops, backendVars,
                 threadVars, history>>

\* An unreadable request, a refused dial, or the connection deadline.
EndReading(c) == conn[c] = "reading" /\ EndConn(c)

\* The upstream closes its side of the response.
UpstreamEnds(c) == conn[c] \in Procs \cup {"remote"} /\ EndConn(c)

\* The backend process died under the connection.
BackendGone(c) ==
  /\ conn[c] \in Procs
  /\ proc[conn[c]] \in {"exited", "gone"}
  /\ EndConn(c)

-----------------------------------------------------------------------------
(* Processes and the daemon's own end                                      *)

\* A child exits: on SIGTERM, or by itself; an orphan is reaped by init.
ProcessExit(p) ==
  /\ proc[p] \in {"alive", "termed"} \cup Parentless
  /\ proc' = [proc EXCEPT ![p] = IF @ \in Parentless THEN "gone" ELSE "exited"]
  /\ UNCHANGED <<daemonVars, proxyVars, cmd, running, threadVars, history>>

\* waitBackend: the critical section and close(done).
WaitBackend(p) ==
  /\ proc[p] = "exited"
  /\ proc' = [proc EXCEPT ![p] = "gone"]
  /\ cmd' = IF cmd = p THEN Nil ELSE cmd
  /\ running' = FALSE
  /\ UNCHANGED <<daemonVars, proxyVars, threadVars, history>>

\* The daemon is killed.
Crash == up /\ Vanish

-----------------------------------------------------------------------------
StarterNext ==
  \/ BindProxy \/ PollProxy \/ CheckBackend \/ SweepOrphans \/ LaunchBackend
  \/ AwaitBackend \/ ReportFailure \/ EndStart

ProxyStopNext(t) == StopProxy(t) \/ CloseListener(t) \/ WaitProxy(t)

OpNext(o) ==
  \/ StopBackend(o) \/ SeeExit(o) \/ KillBackend(o) \/ GiveUpKill(o)
  \/ StartAgain(o)

CallNext ==
  \/ Boot \/ CallStart
  \/ \E o \in Ops : CallStop(o) \/ CallRestart(o) \/ CallQuit(o) \/ Sigterm(o)

ConnNext(c) ==
  \/ Accept(c) \/ Forward(c) \/ EndReading(c) \/ UpstreamEnds(c) \/ BackendGone(c)

Next ==
  \/ CallNext
  \/ StarterNext
  \/ \E t \in Threads : ProxyStopNext(t)
  \/ \E o \in Ops : OpNext(o)
  \/ \E l \in Listeners : AcceptError(l)
  \/ \E c \in Conns : ConnNext(c)
  \/ \E p \in Procs : ProcessExit(p) \/ WaitBackend(p)
  \/ Crash

\* The Go scheduler runs every goroutine that can run, timers fire, the kernel
\* fails the Accept of a closed listener, and a handler that reads its client
\* has a deadline.  Nothing obliges an upstream to answer, a process to heed
\* SIGTERM or a user to call.
Fairness ==
  /\ WF_vars(StarterNext)
  /\ \A t \in Threads : WF_vars(ProxyStopNext(t))
  /\ \A o \in Ops : WF_vars(OpNext(o))
  /\ \A l \in Listeners : WF_vars(l \notin open /\ AcceptError(l))
  /\ \A c \in Conns : WF_vars(EndReading(c)) /\ WF_vars(BackendGone(c))
  /\ \A p \in Procs : WF_vars(WaitBackend(p))

Spec == Init /\ [][Next]_vars
FairSpec == Spec /\ Fairness

-----------------------------------------------------------------------------
(* Properties                                                              *)

Live(p) == proc[p] \in {"alive", "termed"} \cup Parentless

\* backend.Manager knows its child: `running` is set exactly while `cmd` is,
\* and `cmd` names the one child that has not been reaped (backend.go, Start,
\* waitBackend and Stop, which each take the lock separately).
OwnedBackend ==
  /\ running <=> cmd # Nil
  /\ \A p \in Procs : proc[p] \in {"alive", "termed", "exited"} <=> p = cmd

\* However starts, stops and daemon deaths interleave, two servers contend for
\* the backend port only while an orphan lives that a sweep tried to kill and
\* could not: each launch follows a sweep, and none adds a second child
\* (backend.go Start, killOrphanedProcesses).
OneBackendProcess ==
  \A p, q \in Procs : Live(p) /\ Live(q) /\ p # q => "missed" \in {proc[p], proc[q]}

\* proxy.Proxy never loses a socket: a bound socket is the current listener of
\* a running proxy, or one goroutine is about to close it (Start and Stop).
ListenerOwned ==
  /\ proxyRunning <=> listener # Nil
  /\ listener # Nil => listener \in open
  /\ \A l \in open : l # listener =>
        \E t \in Threads : pc[t] = "unbind" /\ sock[t] = l
  /\ \A l, m \in open : l = m

\* "Backend failed - stop the proxy to keep state consistent": once a start has
\* ended with an error the proxy is down, and after a backend error so is the
\* backend, whatever was stopped or restarted beside it (startServer).
FailedStartStopsProxy ==
  ~starting /\ lastError # "" =>
    ~proxyRunning /\ (lastError = "backend" => cmd = Nil)

\* A stop that no other request overlapped leaves neither a listening proxy nor
\* a child that was not at least sent SIGKILL (stopServer).
StopLeavesNothing ==
  up /\ Quiet /\ lastCall = "stop" /\ ~overlapped =>
    ~proxyRunning /\ \A p \in Procs : proc[p] \notin {"alive", "termed"}

\* No thread's step ends a child that was not first sent SIGTERM: a kill goes to
\* the process the stop signalled, never to one launched since, and the orphan
\* sweep never meets a child of this daemon (Stop, killOrphanedProcesses).
NoUnwarnedKill ==
  [][\A p \in Procs : proc[p] = "alive" /\ proc'[p] = "exited" => pc' = pc]_vars

UpstreamsAnswer == \A c \in Conns : WF_vars(UpstreamEnds(c))

\* If upstreams end their responses, d.starting is always released: no start can
\* be wedged by the stops and restarts that race with it (startServer).
StartSettles == UpstreamsAnswer => (starting ~> ~starting)

\* If upstreams end their responses, a stop, restart or quit comes to its end,
\* unless the proxy was started again while it waited (proxy.Stop, wg.Wait).
StopSettles ==
  UpstreamsAnswer =>
    \A o \in Ops : pc[o] # "idle" ~> (pc[o] = "idle" \/ proxyRunning)

\* Both: no call that starts or stops the servers is waited for in vain.
CallsSettle == StartSettles /\ StopSettles

\* docs/control-api.md on server.stop, "Stop both": when everything has settled
\* and the last request was a stop, both servers are down.
StopStopsBoth ==
  up /\ Quiet /\ lastCall = "stop" =>
    ~proxyRunning /\ \A p \in Procs : proc[p] \notin {"alive", "termed"}
=============================================================================
