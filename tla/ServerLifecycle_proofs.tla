------------------------- MODULE ServerLifecycle_proofs -------------------------
(***************************************************************************)
(* Proofs about ServerLifecycle, for any number of goroutines, processes,  *)
(* sockets and connections: its types, the ownership of the backend child  *)
(* and of the listening socket, what a failed start leaves behind, and     *)
(* that no step ends a child without warning.                              *)
(***************************************************************************)
EXTENDS ServerLifecycle, TLAPS

-----------------------------------------------------------------------------
(* The inductive invariant                                                 *)

\* d.starting is set exactly while the start goroutine runs.
StartFlag == starting <=> pc[Starter] # "idle"

\* From its look at m.running to the launch, backend.Start finds no child; once
\* the sweep is over nothing of that name lives but what it has missed.
LaunchReady ==
  /\ pc[Starter] \in {"sweep", "launch"} => cmd = Nil
  /\ pc[Starter] = "launch" => \A p \in Procs : Live(p) => proc[p] = "missed"

\* A captured process was a child of this daemon, and an op has signalled its.
TargetsKnown ==
  /\ pc[Starter] = "await" <=> target[Starter] # Nil
  /\ pc[Starter] = "await" => cmd \in {Nil, target[Starter]}
  /\ \A o \in Ops : pc[o] \in {"termWait", "killWait"} <=> target[o] # Nil
  /\ \A t \in Threads : target[t] # Nil => proc[target[t]] \notin Parentless
  /\ \A o \in Ops : target[o] # Nil => proc[target[o]] # "alive"

\* One goroutine at a time holds a socket it has to close, and no listener is
\* set meanwhile.
SocketsKnown ==
  /\ \A t \in Threads : pc[t] = "unbind" => sock[t] \in open /\ listener = Nil
  /\ \A t, u \in Threads : pc[t] = "unbind" /\ pc[u] = "unbind" => t = u

\* While a start fails and until it has ended the proxy stays down.
FailureKnown ==
  /\ pc[Starter] \in {"unbind", "wait", "draining", "fail"} => ~proxyRunning
  /\ pc[Starter] \in ProxyStopPCs \cup {"fail"} /\ failure = "backend" => cmd = Nil
  /\ pc[Starter] = "return" /\ lastError # "" =>
       ~proxyRunning /\ (lastError = "backend" => cmd = Nil)

BackendInv ==
  StartFlag /\ OwnedBackend /\ OneBackendProcess /\ LaunchReady /\ TargetsKnown
ProxyInv   == ListenerOwned /\ SocketsKnown
FailureInv == FailureKnown /\ FailedStartStopsProxy
Inv == BackendInv /\ ProxyInv /\ FailureInv

-----------------------------------------------------------------------------
(* Steps that several actions share                                        *)

PCs == StarterPCs \cup OpPCs

\* Only the op's own control point moves, to one of the three that follow a stop.
GoesOn(o) ==
  \E x \in {"idle", "sleep", "stopProxy"} : pc' = [pc EXCEPT ![o] = x]

\* An op that has stopped the servers ends, sleeps, or begins the shutdown.
LEMMA AfterStopShape ==
  ASSUME NEW o \in Ops, kind \in [Ops -> Kinds], kind[o] # "shutdown", AfterStop(o)
  PROVE  GoesOn(o) /\ kind' \in [Ops -> Kinds]
  BY DEF AfterStop, GoesOn, Kinds

\* The end of the daemon leaves a state of the right types (Vanish).
LEMMA VanishType ==
  ASSUME TypeOK, Vanish PROVE TypeOK'
<1>1. DaemonType'
  BY DEF TypeOK, Vanish, DaemonType, Errors
<1>2. ProxyType'
  BY DEF TypeOK, Vanish, ProxyType
<1>3. BackendType'
  BY DEF TypeOK, Vanish, BackendType
<1>4. ThreadType'
  BY DEF TypeOK, Vanish, ThreadType, Threads, StarterPCs, OpPCs, Kinds
<1> QED
  BY <1>1, <1>2, <1>3, <1>4 DEF TypeOK

\* The end of the daemon keeps the invariant: a living child becomes the orphan.
LEMMA VanishInv ==
  ASSUME TypeOK, BackendInv, Vanish PROVE Inv'
<1> USE LifecycleAssumption DEF Vanish, TypeOK, Threads, Parentless
<1>1. OwnedBackend'
  BY DEF BackendType, OwnedBackend
<1>2. OneBackendProcess'
  BY DEF BackendInv, BackendType, OneBackendProcess, Live
<1>3. StartFlag' /\ LaunchReady' /\ TargetsKnown'
  BY DEF StartFlag, LaunchReady, TargetsKnown
<1>4. ProxyInv' /\ FailureInv'
  BY DEF ProxyInv, ListenerOwned, SocketsKnown, FailureInv, FailureKnown,
      FailedStartStopsProxy, ProxyStopPCs
<1> QED
  BY <1>1, <1>2, <1>3, <1>4 DEF BackendInv, Inv
-----------------------------------------------------------------------------
(* Type correctness                                                        *)

\* Every action keeps the types of the daemon, proxy, backend and threads.
LEMMA TypeStep ==
  ASSUME TypeOK, Next PROVE TypeOK'
<1> USE LifecycleAssumption DEF TypeOK, StarterStep, StarterGoto, daemonVars,
      proxyVars, backendVars, threadVars, history
<1>1. ASSUME CallStart \/ Boot PROVE TypeOK'
  <2>daemon. DaemonType'
    BY <1>1 DEF CallStart, Boot, StartServer, Busy, DaemonType, Errors
  <2>proxy. ProxyType'
    BY <1>1 DEF CallStart, Boot, StartServer, Busy, ProxyType
  <2>backend. BackendType'
    BY <1>1 DEF CallStart, Boot, StartServer, Busy, BackendType, ThreadType
  <2>threads. ThreadType'
    BY <1>1 DEF CallStart, Boot, StartServer, ThreadType, Threads, StarterPCs,
        OpPCs, ProxyStopPCs, Kinds
  <2> QED
    BY <2>daemon, <2>proxy, <2>backend, <2>threads
<1>2. ASSUME NEW o \in Ops, NEW k \in Kinds, Spawn(o, k),
             lastCall' \in {"start", "stop"}
      PROVE  TypeOK'
  <2>daemon. DaemonType'
    BY <1>2 DEF Spawn, Busy, DaemonType, Errors
  <2>proxy. ProxyType'
    BY <1>2 DEF Spawn, Busy, ProxyType
  <2>backend. BackendType'
    BY <1>2 DEF Spawn, Busy, BackendType, ThreadType
  <2>threads. ThreadType'
    BY <1>2 DEF Spawn, ThreadType, Threads, StarterPCs, OpPCs, ProxyStopPCs, Kinds
  <2> QED
    BY <2>daemon, <2>proxy, <2>backend, <2>threads
<1>3. ASSUME BindProxy PROVE TypeOK'
  <2>daemon. DaemonType'
    BY <1>3 DEF BindProxy, DaemonType, Errors
  <2>proxy. ProxyType'
    BY <1>3 DEF BindProxy, ProxyType
  <2>backend. BackendType'
    BY <1>3 DEF BindProxy, BackendType, ThreadType
  <2>threads. ThreadType'
    BY <1>3 DEF BindProxy, ThreadType, Threads, StarterPCs, OpPCs,
        ProxyStopPCs, Kinds
  <2> QED
    BY <2>daemon, <2>proxy, <2>backend, <2>threads
<1>4. ASSUME PollProxy PROVE TypeOK'
  <2>daemon. DaemonType'
    BY <1>4 DEF PollProxy, DaemonType, Errors
  <2>proxy. ProxyType'
    BY <1>4 DEF PollProxy, ProxyType
  <2>backend. BackendType'
    BY <1>4 DEF PollProxy, BackendType, ThreadType
  <2>threads. ThreadType'
    BY <1>4 DEF PollProxy, ThreadType, Threads, StarterPCs, OpPCs,
        ProxyStopPCs, Kinds
  <2> QED
    BY <2>daemon, <2>proxy, <2>backend, <2>threads
<1>5. ASSUME CheckBackend PROVE TypeOK'
  <2>daemon. DaemonType'
    BY <1>5 DEF CheckBackend, DaemonType, Errors
  <2>proxy. ProxyType'
    BY <1>5 DEF CheckBackend, ProxyType
  <2>backend. BackendType'
    BY <1>5 DEF CheckBackend, BackendType, ThreadType
  <2>threads. ThreadType'
    BY <1>5 DEF CheckBackend, ThreadType, Threads, StarterPCs, OpPCs,
        ProxyStopPCs, Kinds
  <2> QED
    BY <2>daemon, <2>proxy, <2>backend, <2>threads
<1>6. ASSUME SweepOrphans PROVE TypeOK'
  <2>daemon. DaemonType'
    BY <1>6 DEF SweepOrphans, DaemonType, Errors
  <2>proxy. ProxyType'
    BY <1>6 DEF SweepOrphans, ProxyType
  <2>backend. BackendType'
    BY <1>6 DEF SweepOrphans, BackendType, ThreadType
  <2>threads. ThreadType'
    BY <1>6 DEF SweepOrphans, ThreadType, Threads, StarterPCs, OpPCs,
        ProxyStopPCs, Kinds
  <2> QED
    BY <2>daemon, <2>proxy, <2>backend, <2>threads
<1>7. ASSUME LaunchBackend PROVE TypeOK'
  <2>daemon. DaemonType'
    BY <1>7 DEF LaunchBackend, DaemonType, Errors
  <2>proxy. ProxyType'
    BY <1>7 DEF LaunchBackend, ProxyType
  <2>backend. BackendType'
    BY <1>7 DEF LaunchBackend, BackendType, ThreadType
  <2>threads. ThreadType'
    BY <1>7 DEF LaunchBackend, ThreadType, Threads, StarterPCs, OpPCs,
        ProxyStopPCs, Kinds
  <2> QED
    BY <2>daemon, <2>proxy, <2>backend, <2>threads
<1>8. ASSUME AwaitBackend PROVE TypeOK'
  <2>daemon. DaemonType'
    BY <1>8 DEF AwaitBackend, DaemonType, Errors
  <2>proxy. ProxyType'
    BY <1>8 DEF AwaitBackend, ProxyType
  <2>backend. BackendType'
    BY <1>8 DEF AwaitBackend, BackendType, ThreadType
  <2>threads. ThreadType'
    BY <1>8 DEF AwaitBackend, ThreadType, Threads, StarterPCs, OpPCs,
        ProxyStopPCs, Kinds
  <2> QED
    BY <2>daemon, <2>proxy, <2>backend, <2>threads
<1>9. ASSUME ReportFailure PROVE TypeOK'
  <2>daemon. DaemonType'
    BY <1>9 DEF ReportFailure, DaemonType, Errors
  <2>proxy. ProxyType'
    BY <1>9 DEF ReportFailure, ProxyType
  <2>backend. BackendType'
    BY <1>9 DEF ReportFailure, BackendType, ThreadType
  <2>threads. ThreadType'
    BY <1>9 DEF ReportFailure, ThreadType, Threads, StarterPCs, OpPCs,
        ProxyStopPCs, Kinds
  <2> QED
    BY <2>daemon, <2>proxy, <2>backend, <2>threads
<1>10. ASSUME EndStart PROVE TypeOK'
  <2>daemon. DaemonType'
    BY <1>10 DEF EndStart, DaemonType, Errors
  <2>proxy. ProxyType'
    BY <1>10 DEF EndStart, ProxyType
  <2>backend. BackendType'
    BY <1>10 DEF EndStart, BackendType, ThreadType
  <2>threads. ThreadType'
    BY <1>10 DEF EndStart, ThreadType, Threads, StarterPCs, OpPCs,
        ProxyStopPCs, Kinds
  <2> QED
    BY <2>daemon, <2>proxy, <2>backend, <2>threads
<1>11. ASSUME NEW t \in Threads, StopProxy(t) PROVE TypeOK'
  <2>daemon. DaemonType'
    BY <1>11 DEF StopProxy, DaemonType, Errors
  <2>proxy. ProxyType'
    BY <1>11 DEF StopProxy, ProxyType
  <2>backend. BackendType'
    BY <1>11 DEF StopProxy, BackendType, ThreadType
  <2>2. kind' = kind /\ target' = target
        /\ sock' \in [Threads -> Listeners \cup {Nil}]
    BY <1>11 DEF StopProxy, ProxyType, ThreadType
  <2>3. \E x \in {"unbind", AfterProxyStop(t)} : pc' = [pc EXCEPT ![t] = x]
    BY <1>11 DEF StopProxy
  <2>threads. ThreadType'
    BY <2>2, <2>3 DEF AfterProxyStop, ThreadType, Threads, StarterPCs, OpPCs,
        ProxyStopPCs, Kinds
  <2> QED
    BY <2>daemon, <2>proxy, <2>backend, <2>threads
<1>12. ASSUME NEW t \in Threads, CloseListener(t) PROVE TypeOK'
  <2>daemon. DaemonType'
    BY <1>12 DEF CloseListener, DaemonType, Errors
  <2>proxy. ProxyType'
    BY <1>12 DEF CloseListener, ProxyType
  <2>backend. BackendType'
    BY <1>12 DEF CloseListener, BackendType, ThreadType
  <2>threads. ThreadType'
    BY <1>12 DEF CloseListener, ThreadType, Threads, StarterPCs, OpPCs,
        ProxyStopPCs, Kinds
  <2> QED
    BY <2>daemon, <2>proxy, <2>backend, <2>threads
<1>13. ASSUME NEW t \in Threads, WaitProxy(t) PROVE TypeOK'
  <2>daemon. DaemonType'
    BY <1>13 DEF WaitProxy, AfterProxyStop, DaemonType, Errors
  <2>proxy. ProxyType'
    BY <1>13 DEF WaitProxy, AfterProxyStop, ProxyType
  <2>backend. BackendType'
    BY <1>13 DEF WaitProxy, AfterProxyStop, BackendType, ThreadType
  <2>threads. ThreadType'
    BY <1>13 DEF WaitProxy, AfterProxyStop, ThreadType, Threads, StarterPCs,
        OpPCs, ProxyStopPCs, Kinds
  <2> QED
    BY <2>daemon, <2>proxy, <2>backend, <2>threads
<1>14. ASSUME NEW o \in Ops, StopBackend(o) PROVE TypeOK'
  <2>1. CASE Vanish
    BY <2>1, VanishType
  <2>2. CASE cmd = Nil /\ ~Vanish
    <3>1. GoesOn(o) /\ kind' \in [Ops -> Kinds]
      BY <1>14, <2>2, AfterStopShape DEF StopBackend, ThreadType
    <3>daemon. DaemonType'
      BY <1>14, <2>2 DEF StopBackend, DaemonType, Errors
    <3>proxy. ProxyType'
      BY <1>14, <2>2 DEF StopBackend, ProxyType
    <3>backend. BackendType'
      BY <1>14, <2>2 DEF StopBackend, BackendType, ThreadType
    <3>3. sock' = sock /\ target' = target
      BY <1>14, <2>2 DEF StopBackend
    <3> QED
      BY <3>1, <3>daemon, <3>proxy, <3>backend, <3>3 DEF GoesOn, ThreadType, Threads, StarterPCs, OpPCs,
          ProxyStopPCs
  <2>3. CASE cmd # Nil
    <3>daemon. DaemonType'
      BY <1>14, <2>3 DEF StopBackend, DaemonType, Errors
    <3>proxy. ProxyType'
      BY <1>14, <2>3 DEF StopBackend, ProxyType
    <3>backend. BackendType'
      BY <1>14, <2>3 DEF StopBackend, BackendType, ThreadType
    <3>threads. ThreadType'
      BY <1>14, <2>3 DEF StopBackend, BackendType, ThreadType, Threads,
          StarterPCs, OpPCs, ProxyStopPCs, Kinds
    <3> QED
      BY <3>daemon, <3>proxy, <3>backend, <3>threads
  <2> QED
    BY <2>1, <2>2, <2>3
<1>15. ASSUME NEW o \in Ops, StopDone(o), pc[o] \in {"termWait", "killWait"}
      PROVE  TypeOK'
  <2>1. CASE Vanish
    BY <2>1, VanishType
  <2>2. CASE kind[o] # "shutdown"
    <3>1. GoesOn(o) /\ kind' \in [Ops -> Kinds]
      BY <1>15, <2>2, AfterStopShape DEF StopDone, ThreadType
    <3>daemon. DaemonType'
      BY <1>15, <2>2 DEF StopDone, DaemonType, Errors
    <3>proxy. ProxyType'
      BY <1>15, <2>2 DEF StopDone, ProxyType
    <3>backend. BackendType'
      BY <1>15, <2>2 DEF StopDone, BackendType, ThreadType
    <3>3. sock' = sock /\ target' \in [Threads -> Procs \cup {Nil}]
      BY <1>15, <2>2 DEF StopDone, ThreadType, Threads, BackendType
    <3> QED
      BY <3>1, <3>daemon, <3>proxy, <3>backend, <3>3 DEF GoesOn, ThreadType, Threads, StarterPCs, OpPCs,
          ProxyStopPCs
  <2> QED
    BY <1>15, <2>1, <2>2 DEF StopDone
<1>16. ASSUME NEW o \in Ops, KillBackend(o) PROVE TypeOK'
  <2>daemon. DaemonType'
    BY <1>16 DEF KillBackend, DaemonType, Errors
  <2>proxy. ProxyType'
    BY <1>16 DEF KillBackend, ProxyType
  <2>backend. BackendType'
    BY <1>16 DEF KillBackend, BackendType, ThreadType
  <2>threads. ThreadType'
    BY <1>16 DEF KillBackend, ThreadType, Threads, StarterPCs, OpPCs,
        ProxyStopPCs, Kinds
  <2> QED
    BY <2>daemon, <2>proxy, <2>backend, <2>threads
<1>17. ASSUME NEW o \in Ops, StartAgain(o) PROVE TypeOK'
  <2>daemon. DaemonType'
    BY <1>17 DEF StartAgain, StartServer, Busy, DaemonType, Errors
  <2>proxy. ProxyType'
    BY <1>17 DEF StartAgain, StartServer, Busy, ProxyType
  <2>backend. BackendType'
    BY <1>17 DEF StartAgain, StartServer, Busy, BackendType, ThreadType
  <2>threads. ThreadType'
    BY <1>17 DEF StartAgain, StartServer, ThreadType, Threads, StarterPCs,
        OpPCs, ProxyStopPCs, Kinds
  <2> QED
    BY <2>daemon, <2>proxy, <2>backend, <2>threads
<1>18. ASSUME NEW l \in Listeners, AcceptError(l) PROVE TypeOK'
  <2>daemon. DaemonType'
    BY <1>18 DEF AcceptError, Released, AfterProxyStop, DaemonType, Errors
  <2>proxy. ProxyType'
    BY <1>18 DEF AcceptError, Released, AfterProxyStop, ProxyType
  <2>backend. BackendType'
    BY <1>18 DEF AcceptError, Released, AfterProxyStop, BackendType,
        ThreadType
  <2>threads. ThreadType'
    BY <1>18 DEF AcceptError, Released, AfterProxyStop, ThreadType, Threads,
        StarterPCs, OpPCs, ProxyStopPCs, Kinds
  <2> QED
    BY <2>daemon, <2>proxy, <2>backend, <2>threads
<1>19. ASSUME NEW c \in Conns, Accept(c) PROVE TypeOK'
  <2>daemon. DaemonType'
    BY <1>19 DEF Accept, DaemonType, Errors
  <2>proxy. ProxyType'
    BY <1>19 DEF Accept, ProxyType
  <2>backend. BackendType'
    BY <1>19 DEF Accept, BackendType, ThreadType
  <2>threads. ThreadType'
    BY <1>19 DEF Accept, ThreadType, Threads, StarterPCs, OpPCs, ProxyStopPCs,
        Kinds
  <2> QED
    BY <2>daemon, <2>proxy, <2>backend, <2>threads
<1>20. ASSUME NEW c \in Conns, Forward(c) PROVE TypeOK'
  <2>daemon. DaemonType'
    BY <1>20 DEF Forward, DaemonType, Errors
  <2>proxy. ProxyType'
    BY <1>20 DEF Forward, ProxyType
  <2>backend. BackendType'
    BY <1>20 DEF Forward, BackendType, ThreadType
  <2>threads. ThreadType'
    BY <1>20 DEF Forward, ThreadType, Threads, StarterPCs, OpPCs,
        ProxyStopPCs, Kinds
  <2> QED
    BY <2>daemon, <2>proxy, <2>backend, <2>threads
<1>21. ASSUME NEW c \in Conns, EndConn(c) PROVE TypeOK'
  <2>daemon. DaemonType'
    BY <1>21 DEF EndConn, Released, AfterProxyStop, DaemonType, Errors
  <2>proxy. ProxyType'
    BY <1>21 DEF EndConn, Released, AfterProxyStop, ProxyType
  <2>backend. BackendType'
    BY <1>21 DEF EndConn, Released, AfterProxyStop, BackendType, ThreadType
  <2>threads. ThreadType'
    BY <1>21 DEF EndConn, Released, AfterProxyStop, ThreadType, Threads,
        StarterPCs, OpPCs, ProxyStopPCs, Kinds
  <2> QED
    BY <2>daemon, <2>proxy, <2>backend, <2>threads
<1>22. ASSUME NEW p \in Procs, ProcessExit(p) PROVE TypeOK'
  <2>daemon. DaemonType'
    BY <1>22 DEF ProcessExit, DaemonType, Errors
  <2>proxy. ProxyType'
    BY <1>22 DEF ProcessExit, ProxyType
  <2>backend. BackendType'
    BY <1>22 DEF ProcessExit, BackendType, ThreadType
  <2>threads. ThreadType'
    BY <1>22 DEF ProcessExit, ThreadType, Threads, StarterPCs, OpPCs,
        ProxyStopPCs, Kinds
  <2> QED
    BY <2>daemon, <2>proxy, <2>backend, <2>threads
<1>23. ASSUME NEW p \in Procs, WaitBackend(p) PROVE TypeOK'
  <2>daemon. DaemonType'
    BY <1>23 DEF WaitBackend, DaemonType, Errors
  <2>proxy. ProxyType'
    BY <1>23 DEF WaitBackend, ProxyType
  <2>backend. BackendType'
    BY <1>23 DEF WaitBackend, BackendType, ThreadType
  <2>threads. ThreadType'
    BY <1>23 DEF WaitBackend, ThreadType, Threads, StarterPCs, OpPCs,
        ProxyStopPCs, Kinds
  <2> QED
    BY <2>daemon, <2>proxy, <2>backend, <2>threads
<1>24. ASSUME Vanish PROVE TypeOK'
  BY <1>24, VanishType
<1> QED
  BY <1>1, <1>2, <1>3, <1>4, <1>5, <1>6, <1>7, <1>8, <1>9, <1>10, <1>11,
      <1>12, <1>13, <1>14, <1>15, <1>16, <1>17, <1>18, <1>19, <1>20, <1>21,
      <1>22, <1>23, <1>24
  DEF Next, CallNext, StarterNext, ProxyStopNext, OpNext, ConnNext,
      EndReading, UpstreamEnds, BackendGone, CallStop, CallRestart, CallQuit,
      Sigterm, SeeExit, GiveUpKill, Crash, Kinds

\* In every reachable state each variable has its type.
THEOREM TypeCorrect == Spec => []TypeOK
<1>1. Init => TypeOK
  <2> SUFFICES ASSUME Init PROVE TypeOK
    OBVIOUS
  <2> USE LifecycleAssumption DEF Init
  <2>1. DaemonType /\ ProxyType /\ BackendType
    BY DEF DaemonType, Errors, ProxyType, BackendType
  <2>2. ThreadType
    BY DEF ThreadType, Threads, StarterPCs, OpPCs, Kinds
  <2> QED
    BY <2>1, <2>2 DEF TypeOK
<1>2. TypeOK /\ UNCHANGED vars => TypeOK'
  BY DEF TypeOK, DaemonType, ProxyType, BackendType, ThreadType, vars, daemonVars,
      proxyVars, backendVars, threadVars, history
<1> QED
  BY <1>1, <1>2, TypeStep, PTL DEF Spec

-----------------------------------------------------------------------------
(* The safety invariants                                                   *)

\* Every action keeps the inductive invariant.
LEMMA InvStep ==
  ASSUME TypeOK, TypeOK', Inv, Next PROVE Inv'
<1> USE LifecycleAssumption DEF TypeOK, Inv, BackendInv, ProxyInv, FailureInv,
      StarterStep, StarterGoto, daemonVars, proxyVars, backendVars, threadVars,
      history, Threads
<1>1. ASSUME CallStart \/ Boot PROVE Inv'
  <2>1. \/ pc' = pc /\ starting' = starting
        \/ /\ ~starting /\ starting'
           /\ pc' = [pc EXCEPT ![Starter] = "bind"]
    BY <1>1 DEF CallStart, Boot, StartServer
  <2>2. UNCHANGED <<lastError, failure, proxyVars, backendVars, sock, target>>
    BY <1>1 DEF CallStart, Boot
  <2>3. pc'[Starter] = pc[Starter] \/ (pc[Starter] = "idle" /\ pc'[Starter] = "bind")
    BY <2>1 DEF StartFlag, ThreadType
  <2>4. ASSUME NEW t \in Ops
        PROVE  pc'[t] = pc[t] \/ (pc[t] = "sleep" /\ pc'[t] = "idle")
    BY <2>1 DEF ThreadType
  <2> USE <2>2, <2>3, <2>4
  <2>5. BackendInv'
    BY <2>1 DEF StartFlag, OwnedBackend, OneBackendProcess, LaunchReady,
        TargetsKnown, Live, Parentless, BackendType, ThreadType
  <2>6. ProxyInv'
    BY DEF ListenerOwned, SocketsKnown, ProxyType, ThreadType
  <2>7. FailureInv'
    BY <2>1 DEF FailureKnown, FailedStartStopsProxy, ProxyStopPCs, StartFlag,
        ThreadType
  <2> QED
    BY <2>5, <2>6, <2>7
<1>2. ASSUME NEW o \in Ops, NEW k \in Kinds, Spawn(o, k),
             lastCall' \in {"start", "stop"}
      PROVE  Inv'
  <2>1. BackendInv'
    BY <1>2 DEF Spawn, StartFlag, OwnedBackend, OneBackendProcess,
        LaunchReady, TargetsKnown, Live, Parentless, BackendType, ThreadType
  <2>2. ProxyInv'
    BY <1>2 DEF Spawn, ListenerOwned, SocketsKnown, ProxyType, ThreadType
  <2>3. FailureKnown'
    BY <1>2 DEF Spawn, FailureKnown, FailedStartStopsProxy, ProxyStopPCs,
        LaunchReady, TargetsKnown, OwnedBackend, StartFlag, BackendType,
        ThreadType
  <2>4. FailedStartStopsProxy'
    BY <1>2 DEF Spawn, FailureKnown, FailedStartStopsProxy, StartFlag
  <2> QED
    BY <2>1, <2>2, <2>3, <2>4
<1>3. ASSUME BindProxy PROVE Inv'
  <2>1. BackendInv'
    BY <1>3 DEF BindProxy, StartFlag, OwnedBackend, OneBackendProcess, LaunchReady,
        TargetsKnown, Live, Parentless, BackendType, ThreadType
  <2>2. ProxyInv'
    BY <1>3 DEF BindProxy, ListenerOwned, SocketsKnown, ProxyType, ThreadType
  <2>3. \/ pc' = [pc EXCEPT ![Starter] = "poll"]
        \/ /\ pc' = [pc EXCEPT ![Starter] = "return"]
           /\ ~proxyRunning' /\ lastError' = "proxy"
    BY <1>3 DEF BindProxy
  <2>4. FailureKnown'
    BY <2>3 DEF FailureKnown, ProxyStopPCs, ThreadType
  <2>5. FailedStartStopsProxy'
    BY <1>3 DEF BindProxy, FailedStartStopsProxy, StartFlag
  <2> QED
    BY <2>1, <2>2, <2>4, <2>5
<1>4. ASSUME PollProxy PROVE Inv'
  <2>1. BackendInv'
    BY <1>4 DEF PollProxy, StartFlag, OwnedBackend, OneBackendProcess,
        LaunchReady, TargetsKnown, Live, Parentless, BackendType, ThreadType
  <2>2. ProxyInv'
    BY <1>4 DEF PollProxy, ListenerOwned, SocketsKnown, ProxyType, ThreadType
  <2>3. FailureKnown'
    BY <1>4 DEF PollProxy, FailureKnown, ProxyStopPCs, ThreadType
  <2>4. FailedStartStopsProxy'
    BY <1>4 DEF PollProxy, FailureKnown, FailedStartStopsProxy, StartFlag
  <2> QED
    BY <2>1, <2>2, <2>3, <2>4
<1>5. ASSUME CheckBackend PROVE Inv'
  <2>1. StartFlag' /\ OwnedBackend' /\ OneBackendProcess'
    BY <1>5 DEF CheckBackend, StartFlag, OwnedBackend, OneBackendProcess, Live, Parentless,
        BackendType, ThreadType
  <2>2. LaunchReady'
    BY <1>5 DEF CheckBackend, LaunchReady, OwnedBackend, ThreadType
  <2>3. TargetsKnown'
    BY <1>5 DEF CheckBackend, TargetsKnown, ThreadType
  <2>4. \A t \in Threads : pc'[t] = "unbind" <=> pc[t] = "unbind"
    BY <1>5 DEF CheckBackend, ThreadType
  <2>5. ProxyInv'
    BY <1>5, <2>4 DEF CheckBackend, ListenerOwned, SocketsKnown
  <2>6. FailureInv'
    BY <1>5 DEF CheckBackend, FailureKnown, FailedStartStopsProxy, ProxyStopPCs,
        StartFlag, ThreadType
  <2> QED
    BY <2>1, <2>2, <2>3, <2>5, <2>6
<1>6. ASSUME SweepOrphans PROVE Inv'
  <2>1. BackendInv'
    BY <1>6 DEF SweepOrphans, StartFlag, OwnedBackend, OneBackendProcess,
        LaunchReady, TargetsKnown, Live, Parentless, BackendType, ThreadType
  <2>2. ProxyInv'
    BY <1>6 DEF SweepOrphans, ListenerOwned, SocketsKnown, ProxyType,
        ThreadType
  <2>3. FailureKnown'
    BY <1>6 DEF SweepOrphans, FailureKnown, FailedStartStopsProxy,
        ProxyStopPCs, LaunchReady, TargetsKnown, OwnedBackend, StartFlag,
        BackendType, ThreadType
  <2>4. FailedStartStopsProxy'
    BY <1>6 DEF SweepOrphans, FailureKnown, FailedStartStopsProxy, StartFlag
  <2> QED
    BY <2>1, <2>2, <2>3, <2>4
<1>7. ASSUME LaunchBackend PROVE Inv'
  <2>1. BackendInv'
    BY <1>7 DEF LaunchBackend, StartFlag, OwnedBackend, OneBackendProcess,
        LaunchReady, TargetsKnown, Live, Parentless, BackendType, ThreadType
  <2>2. ProxyInv'
    BY <1>7 DEF LaunchBackend, ListenerOwned, SocketsKnown, ProxyType,
        ThreadType
  <2>3. FailureKnown'
    BY <1>7 DEF LaunchBackend, FailureKnown, FailedStartStopsProxy,
        ProxyStopPCs, LaunchReady, TargetsKnown, OwnedBackend, StartFlag,
        BackendType, ThreadType
  <2>4. FailedStartStopsProxy'
    BY <1>7 DEF LaunchBackend, FailureKnown, FailedStartStopsProxy, StartFlag
  <2> QED
    BY <2>1, <2>2, <2>3, <2>4
<1>8. ASSUME AwaitBackend PROVE Inv'
  <2>1. StartFlag' /\ OwnedBackend' /\ OneBackendProcess' /\ LaunchReady'
    BY <1>8 DEF AwaitBackend, StartFlag, OwnedBackend, OneBackendProcess,
        LaunchReady, Live, BackendType, ThreadType
  <2>2. TargetsKnown'
    BY <1>8 DEF AwaitBackend, TargetsKnown, ThreadType
  <2>3. \A t \in Threads : pc'[t] = "unbind" <=> pc[t] = "unbind"
    BY <1>8 DEF AwaitBackend, ThreadType
  <2>4. ProxyInv'
    BY <1>8, <2>3 DEF AwaitBackend, ListenerOwned, SocketsKnown
  <2>5. proc[target[Starter]] = "gone" => cmd = Nil
    BY <1>8 DEF AwaitBackend, TargetsKnown, OwnedBackend, BackendType, ThreadType
  <2>6. FailureKnown'
    BY <1>8, <2>5 DEF AwaitBackend, FailureKnown, ProxyStopPCs, ThreadType
  <2>7. FailedStartStopsProxy'
    BY <1>8 DEF AwaitBackend, FailedStartStopsProxy, StartFlag
  <2> QED
    BY <2>1, <2>2, <2>4, <2>6, <2>7
<1>9. ASSUME ReportFailure PROVE Inv'
  <2>1. BackendInv'
    BY <1>9 DEF ReportFailure, StartFlag, OwnedBackend, OneBackendProcess,
        LaunchReady, TargetsKnown, Live, Parentless, BackendType, ThreadType
  <2>2. ProxyInv'
    BY <1>9 DEF ReportFailure, ListenerOwned, SocketsKnown, ProxyType,
        ThreadType
  <2>3. FailureKnown'
    BY <1>9 DEF ReportFailure, FailureKnown, FailedStartStopsProxy,
        ProxyStopPCs, LaunchReady, TargetsKnown, OwnedBackend, StartFlag,
        BackendType, ThreadType
  <2>4. FailedStartStopsProxy'
    BY <1>9 DEF ReportFailure, FailureKnown, FailedStartStopsProxy, StartFlag
  <2> QED
    BY <2>1, <2>2, <2>3, <2>4
<1>10. ASSUME EndStart PROVE Inv'
  <2>1. BackendInv'
    BY <1>10 DEF EndStart, StartFlag, OwnedBackend, OneBackendProcess,
        LaunchReady, TargetsKnown, Live, Parentless, BackendType, ThreadType
  <2>2. ProxyInv'
    BY <1>10 DEF EndStart, ListenerOwned, SocketsKnown, ProxyType, ThreadType
  <2>3. FailureKnown'
    BY <1>10 DEF EndStart, FailureKnown, FailedStartStopsProxy, ProxyStopPCs,
        LaunchReady, TargetsKnown, OwnedBackend, StartFlag, BackendType,
        ThreadType
  <2>4. FailedStartStopsProxy'
    BY <1>10 DEF EndStart, FailureKnown, FailedStartStopsProxy, StartFlag
  <2> QED
    BY <2>1, <2>2, <2>3, <2>4
<1>11. ASSUME NEW t \in Threads, StopProxy(t) PROVE Inv'
  <2>1. BackendInv'
    BY <1>11 DEF StopProxy, AfterProxyStop, StartFlag, OwnedBackend,
        OneBackendProcess, LaunchReady, TargetsKnown, Live, Parentless, BackendType,
        ThreadType
  <2>2. ProxyInv'
    BY <1>11 DEF StopProxy, AfterProxyStop, ListenerOwned, SocketsKnown,
        ProxyType, ThreadType
  <2>3. FailureKnown'
    <3>1. CASE t = Starter
      BY <1>11, <3>1 DEF StopProxy, AfterProxyStop, FailureKnown, ProxyStopPCs,
          ThreadType
    <3>2. CASE t # Starter
      BY <1>11, <3>2 DEF StopProxy, FailureKnown, ProxyStopPCs, ThreadType
    <3> QED
      BY <3>1, <3>2
  <2>4. FailedStartStopsProxy'
    BY <1>11 DEF StopProxy, FailedStartStopsProxy
  <2> QED
    BY <2>1, <2>2, <2>3, <2>4
<1>12. ASSUME NEW t \in Threads, CloseListener(t) PROVE Inv'
  <2>1. BackendInv'
    BY <1>12 DEF CloseListener, StartFlag, OwnedBackend, OneBackendProcess,
        LaunchReady, TargetsKnown, Live, Parentless, BackendType, ThreadType
  <2>2. ProxyInv'
    BY <1>12 DEF CloseListener, ListenerOwned, SocketsKnown, ProxyType,
        ThreadType
  <2>3. FailureKnown'
    BY <1>12 DEF CloseListener, FailureKnown, FailedStartStopsProxy,
        ProxyStopPCs, LaunchReady, TargetsKnown, OwnedBackend, StartFlag,
        BackendType, ThreadType
  <2>4. FailedStartStopsProxy'
    BY <1>12 DEF CloseListener, FailureKnown, FailedStartStopsProxy, StartFlag
  <2> QED
    BY <2>1, <2>2, <2>3, <2>4
<1>13. ASSUME NEW t \in Threads, WaitProxy(t) PROVE Inv'
  <2>1. BackendInv'
    BY <1>13 DEF WaitProxy, AfterProxyStop, StartFlag, OwnedBackend,
        OneBackendProcess, LaunchReady, TargetsKnown, Live, Parentless, BackendType,
        ThreadType
  <2>2. ProxyInv'
    BY <1>13 DEF WaitProxy, AfterProxyStop, ListenerOwned, SocketsKnown,
        ProxyType, ThreadType
  <2>3. FailureKnown'
    BY <1>13 DEF WaitProxy, AfterProxyStop, FailureKnown,
        FailedStartStopsProxy, ProxyStopPCs, LaunchReady, TargetsKnown,
        OwnedBackend, StartFlag, BackendType, ThreadType
  <2>4. FailedStartStopsProxy'
    BY <1>13 DEF WaitProxy, AfterProxyStop, FailureKnown,
        FailedStartStopsProxy, StartFlag
  <2> QED
    BY <2>1, <2>2, <2>3, <2>4
<1>14. ASSUME NEW o \in Ops, StopBackend(o) PROVE Inv'
  <2>1. CASE Vanish
    BY <2>1, VanishInv
  <2>2. CASE cmd = Nil /\ ~Vanish
    <3>1. GoesOn(o)
      BY <1>14, <2>2, AfterStopShape DEF StopBackend, ThreadType
    <3>2. running' = FALSE
          /\ UNCHANGED <<daemonVars, proxyVars, cmd, proc, sock, target>>
      BY <1>14, <2>2 DEF StopBackend
    <3>3. pc[o] = "stopBackend"
      BY <1>14 DEF StopBackend
    <3> USE <2>2, <3>1, <3>2, <3>3 DEF GoesOn
    <3>4. BackendInv'
      BY DEF StartFlag, OwnedBackend, OneBackendProcess, LaunchReady, TargetsKnown,
          Live, BackendType, ThreadType
    <3>5. ProxyInv'
      BY DEF ListenerOwned, SocketsKnown, ProxyType, ThreadType
    <3>6. FailureInv'
      BY DEF FailureKnown, FailedStartStopsProxy, ProxyStopPCs, ThreadType
    <3> QED
      BY <3>4, <3>5, <3>6
  <2>3. CASE cmd # Nil
    <3>1. BackendInv'
      BY <1>14, <2>3 DEF StopBackend, StartFlag, OwnedBackend, OneBackendProcess,
          LaunchReady, TargetsKnown, Live, Parentless, BackendType, ThreadType
    <3>2. ProxyInv'
      BY <1>14, <2>3 DEF StopBackend, ListenerOwned, SocketsKnown, ProxyType,
          ThreadType
    <3>3. FailureInv'
      BY <1>14, <2>3 DEF StopBackend, FailureKnown, FailedStartStopsProxy,
          ProxyStopPCs, ThreadType
    <3> QED
      BY <3>1, <3>2, <3>3
  <2> QED
    BY <2>1, <2>2, <2>3
<1>15. ASSUME NEW o \in Ops, StopDone(o), pc[o] \in {"termWait", "killWait"}
      PROVE  Inv'
  <2>1. CASE Vanish
    BY <2>1, VanishInv
  <2>2. CASE kind[o] # "shutdown"
    <3>1. GoesOn(o)
      BY <1>15, <2>2, AfterStopShape DEF StopDone, ThreadType
    <3>2. target' = [target EXCEPT ![o] = Nil]
          /\ UNCHANGED <<daemonVars, proxyVars, backendVars, sock>>
      BY <1>15, <2>2 DEF StopDone
    <3> USE <3>1, <3>2 DEF GoesOn
    <3>3. BackendInv'
      BY DEF StartFlag, OwnedBackend, OneBackendProcess, LaunchReady, TargetsKnown,
          Live, BackendType, ThreadType
    <3>4. ProxyInv'
      BY <1>15 DEF ListenerOwned, SocketsKnown, ProxyType, ThreadType
    <3>5. FailureInv'
      BY DEF FailureKnown, FailedStartStopsProxy, ProxyStopPCs, ThreadType
    <3> QED
      BY <3>3, <3>4, <3>5
  <2> QED
    BY <1>15, <2>1, <2>2 DEF StopDone
<1>16. ASSUME NEW o \in Ops, KillBackend(o) PROVE Inv'
  <2>1. BackendInv'
    BY <1>16 DEF KillBackend, StartFlag, OwnedBackend, OneBackendProcess,
        LaunchReady, TargetsKnown, Live, Parentless, BackendType, ThreadType
  <2>2. ProxyInv'
    BY <1>16 DEF KillBackend, ListenerOwned, SocketsKnown, ProxyType,
        ThreadType
  <2>3. FailureKnown'
    BY <1>16 DEF KillBackend, FailureKnown, FailedStartStopsProxy,
        ProxyStopPCs, LaunchReady, TargetsKnown, OwnedBackend, StartFlag,
        BackendType, ThreadType
  <2>4. FailedStartStopsProxy'
    BY <1>16 DEF KillBackend, FailureKnown, FailedStartStopsProxy, StartFlag
  <2> QED
    BY <2>1, <2>2, <2>3, <2>4
<1>17. ASSUME NEW o \in Ops, StartAgain(o) PROVE Inv'
  <2>1. \/ pc' = [pc EXCEPT ![o] = "idle"] /\ starting' = starting
        \/ /\ ~starting /\ starting'
           /\ pc' = [[pc EXCEPT ![o] = "idle"] EXCEPT ![Starter] = "bind"]
    BY <1>17 DEF StartAgain, StartServer
  <2>2. UNCHANGED <<lastError, failure, proxyVars, backendVars, sock, target>>
    BY <1>17 DEF StartAgain
  <2>3. pc'[Starter] = pc[Starter] \/ (pc[Starter] = "idle" /\ pc'[Starter] = "bind")
    BY <2>1, <1>17 DEF StartAgain, StartFlag, ThreadType
  <2>4. ASSUME NEW t \in Ops
        PROVE  pc'[t] = pc[t] \/ (pc[t] = "sleep" /\ pc'[t] = "idle")
    BY <2>1, <1>17 DEF StartAgain, ThreadType
  <2> USE <2>2, <2>3, <2>4
  <2>5. BackendInv'
    BY <2>1 DEF StartFlag, OwnedBackend, OneBackendProcess, LaunchReady,
        TargetsKnown, Live, Parentless, BackendType, ThreadType
  <2>6. ProxyInv'
    BY DEF ListenerOwned, SocketsKnown, ProxyType, ThreadType
  <2>7. FailureInv'
    BY <2>1 DEF FailureKnown, FailedStartStopsProxy, ProxyStopPCs, StartFlag,
        ThreadType
  <2> QED
    BY <2>5, <2>6, <2>7
<1>18. ASSUME NEW l \in Listeners, AcceptError(l) PROVE Inv'
  <2>1. BackendInv'
    BY <1>18 DEF AcceptError, Released, AfterProxyStop, StartFlag,
        OwnedBackend, OneBackendProcess, LaunchReady, TargetsKnown, Live,
        BackendType, ThreadType
  <2>2. ProxyInv'
    BY <1>18 DEF AcceptError, Released, AfterProxyStop, ListenerOwned,
        SocketsKnown, ProxyType, ThreadType
  <2>3. FailureKnown'
    BY <1>18 DEF AcceptError, Released, AfterProxyStop, FailureKnown,
        FailedStartStopsProxy, ProxyStopPCs, LaunchReady, TargetsKnown,
        OwnedBackend, StartFlag, BackendType, ThreadType
  <2>4. FailedStartStopsProxy'
    BY <1>18 DEF AcceptError, Released, AfterProxyStop, FailureKnown,
        FailedStartStopsProxy, StartFlag
  <2> QED
    BY <2>1, <2>2, <2>3, <2>4
<1>19. ASSUME NEW c \in Conns, Accept(c) PROVE Inv'
  <2>1. BackendInv'
    BY <1>19 DEF Accept, StartFlag, OwnedBackend, OneBackendProcess,
        LaunchReady, TargetsKnown, Live, Parentless, BackendType, ThreadType
  <2>2. ProxyInv'
    BY <1>19 DEF Accept, ListenerOwned, SocketsKnown, ProxyType, ThreadType
  <2>3. FailureKnown'
    BY <1>19 DEF Accept, FailureKnown, FailedStartStopsProxy, ProxyStopPCs,
        LaunchReady, TargetsKnown, OwnedBackend, StartFlag, BackendType,
        ThreadType
  <2>4. FailedStartStopsProxy'
    BY <1>19 DEF Accept, FailureKnown, FailedStartStopsProxy, StartFlag
  <2> QED
    BY <2>1, <2>2, <2>3, <2>4
<1>20. ASSUME NEW c \in Conns, Forward(c) PROVE Inv'
  <2>1. BackendInv'
    BY <1>20 DEF Forward, StartFlag, OwnedBackend, OneBackendProcess,
        LaunchReady, TargetsKnown, Live, Parentless, BackendType, ThreadType
  <2>2. ProxyInv'
    BY <1>20 DEF Forward, ListenerOwned, SocketsKnown, ProxyType, ThreadType
  <2>3. FailureKnown'
    BY <1>20 DEF Forward, FailureKnown, FailedStartStopsProxy, ProxyStopPCs,
        LaunchReady, TargetsKnown, OwnedBackend, StartFlag, BackendType,
        ThreadType
  <2>4. FailedStartStopsProxy'
    BY <1>20 DEF Forward, FailureKnown, FailedStartStopsProxy, StartFlag
  <2> QED
    BY <2>1, <2>2, <2>3, <2>4
<1>21. ASSUME NEW c \in Conns, EndConn(c) PROVE Inv'
  <2>1. BackendInv'
    BY <1>21 DEF EndConn, Released, AfterProxyStop, StartFlag, OwnedBackend,
        OneBackendProcess, LaunchReady, TargetsKnown, Live, Parentless, BackendType,
        ThreadType
  <2>2. ProxyInv'
    BY <1>21 DEF EndConn, Released, AfterProxyStop, ListenerOwned,
        SocketsKnown, ProxyType, ThreadType
  <2>3. FailureKnown'
    BY <1>21 DEF EndConn, Released, AfterProxyStop, FailureKnown,
        FailedStartStopsProxy, ProxyStopPCs, LaunchReady, TargetsKnown,
        OwnedBackend, StartFlag, BackendType, ThreadType
  <2>4. FailedStartStopsProxy'
    BY <1>21 DEF EndConn, Released, AfterProxyStop, FailureKnown,
        FailedStartStopsProxy, StartFlag
  <2> QED
    BY <2>1, <2>2, <2>3, <2>4
<1>22. ASSUME NEW p \in Procs, ProcessExit(p) PROVE Inv'
  <2>1. BackendInv'
    BY <1>22 DEF ProcessExit, StartFlag, OwnedBackend, OneBackendProcess,
        LaunchReady, TargetsKnown, Live, Parentless, BackendType, ThreadType
  <2>2. ProxyInv'
    BY <1>22 DEF ProcessExit, ListenerOwned, SocketsKnown, ProxyType,
        ThreadType
  <2>3. FailureKnown'
    BY <1>22 DEF ProcessExit, FailureKnown, FailedStartStopsProxy,
        ProxyStopPCs, LaunchReady, TargetsKnown, OwnedBackend, StartFlag,
        BackendType, ThreadType
  <2>4. FailedStartStopsProxy'
    BY <1>22 DEF ProcessExit, FailureKnown, FailedStartStopsProxy, StartFlag
  <2> QED
    BY <2>1, <2>2, <2>3, <2>4
<1>23. ASSUME NEW p \in Procs, WaitBackend(p) PROVE Inv'
  <2>1. BackendInv'
    BY <1>23 DEF WaitBackend, StartFlag, OwnedBackend, OneBackendProcess,
        LaunchReady, TargetsKnown, Live, Parentless, BackendType, ThreadType
  <2>2. ProxyInv'
    BY <1>23 DEF WaitBackend, ListenerOwned, SocketsKnown, ProxyType,
        ThreadType
  <2>3. FailureKnown'
    BY <1>23 DEF WaitBackend, FailureKnown, FailedStartStopsProxy,
        ProxyStopPCs, LaunchReady, TargetsKnown, OwnedBackend, StartFlag,
        BackendType, ThreadType
  <2>4. FailedStartStopsProxy'
    BY <1>23 DEF WaitBackend, FailureKnown, FailedStartStopsProxy, StartFlag
  <2> QED
    BY <2>1, <2>2, <2>3, <2>4
<1>24. ASSUME Vanish PROVE Inv'
  BY <1>24, VanishInv
<1> QED
  BY <1>1, <1>2, <1>3, <1>4, <1>5, <1>6, <1>7, <1>8, <1>9, <1>10, <1>11,
      <1>12, <1>13, <1>14, <1>15, <1>16, <1>17, <1>18, <1>19, <1>20, <1>21,
      <1>22, <1>23, <1>24
  DEF Next, CallNext, StarterNext, ProxyStopNext, OpNext, ConnNext,
      EndReading, UpstreamEnds, BackendGone, CallStop, CallRestart, CallQuit,
      Sigterm, SeeExit, GiveUpKill, Crash, Kinds

\* The inductive invariant holds in every reachable state.
LEMMA Invariance == Spec => [](TypeOK /\ Inv)
<1>1. Init => Inv
  <2> SUFFICES ASSUME Init PROVE Inv
    OBVIOUS
  <2> USE LifecycleAssumption DEF Init, Threads
  <2>1. BackendInv
    BY DEF BackendInv, StartFlag, OwnedBackend, OneBackendProcess, Live, Parentless,
        LaunchReady, TargetsKnown
  <2>2. ProxyInv /\ FailureInv
    BY DEF ProxyInv, ListenerOwned, SocketsKnown, FailureInv, FailureKnown,
        FailedStartStopsProxy, ProxyStopPCs
  <2> QED
    BY <2>1, <2>2 DEF Inv
<1>2. Inv /\ UNCHANGED vars => Inv'
  <2> SUFFICES ASSUME Inv, UNCHANGED vars PROVE Inv'
    OBVIOUS
  <2> USE DEF Inv, vars, daemonVars, proxyVars, backendVars, threadVars, history
  <2>1. BackendInv'
    BY DEF BackendInv, StartFlag, OwnedBackend, OneBackendProcess, Live, Parentless,
        LaunchReady, TargetsKnown
  <2>2. ProxyInv'
    BY DEF ProxyInv, ListenerOwned, SocketsKnown
  <2>3. FailureInv'
    BY DEF FailureInv, FailureKnown, FailedStartStopsProxy, ProxyStopPCs
  <2> QED
    BY <2>1, <2>2, <2>3
<1>3. TypeOK /\ TypeOK' /\ Inv /\ [Next]_vars => Inv'
  BY <1>2, InvStep
<1> QED
  BY <1>1, <1>3, TypeCorrect, PTL DEF Spec

\* m.running is set exactly while m.cmd names the one child not yet reaped.
THEOREM BackendOwnership == Spec => []OwnedBackend
  BY Invariance, PTL DEF Inv, BackendInv

\* At most one cli-proxy-api server lives, across starts, stops and daemon deaths.
THEOREM OneBackend == Spec => []OneBackendProcess
  BY Invariance, PTL DEF Inv, BackendInv

\* A bound socket is the running proxy's listener or about to be closed.
THEOREM ListenerOwnership == Spec => []ListenerOwned
  BY Invariance, PTL DEF Inv, ProxyInv

\* A start that ended with an error has left the proxy (and the backend) down.
THEOREM FailedStart == Spec => []FailedStartStopsProxy
  BY Invariance, PTL DEF Inv, FailureInv

\* A step that ends a living child is the child's own: the sweep finds no child,
\* and a kill goes to one that was sent SIGTERM.
LEMMA WarnedStep ==
  ASSUME TypeOK, Inv, Next, NEW p \in Procs,
         proc[p] = "alive", proc'[p] = "exited"
  PROVE  pc' = pc
<1> USE LifecycleAssumption DEF TypeOK, BackendType, ThreadType, Inv, BackendInv,
      StarterStep, StarterGoto, daemonVars, proxyVars, backendVars, threadVars,
      history, Threads
<1>1. CASE CallNext
  BY <1>1 DEF CallNext, Boot, CallStart, CallStop, CallRestart, CallQuit, Sigterm,
      Spawn
<1>2. CASE SweepOrphans
  BY <1>2 DEF SweepOrphans, LaunchReady, OwnedBackend
<1>3. CASE StarterNext /\ ~SweepOrphans
  BY <1>3 DEF StarterNext, BindProxy, PollProxy, CheckBackend, LaunchBackend,
      AwaitBackend, ReportFailure, EndStart
<1>4. ASSUME NEW t \in Threads, ProxyStopNext(t) PROVE FALSE
  BY <1>4 DEF ProxyStopNext, StopProxy, CloseListener, WaitProxy
<1>5. ASSUME Vanish PROVE FALSE
  BY <1>5 DEF Vanish
<1>6. ASSUME NEW o \in Ops, OpNext(o) PROVE FALSE
  <2>1. ~StopBackend(o)
    BY <1>5 DEF StopBackend
  <2>2. ~KillBackend(o)
    BY DEF KillBackend, TargetsKnown
  <2>3. ~SeeExit(o) /\ ~GiveUpKill(o) /\ ~StartAgain(o)
    BY <1>5 DEF SeeExit, GiveUpKill, StopDone, StartAgain
  <2> QED
    BY <1>6, <2>1, <2>2, <2>3 DEF OpNext
<1>7. ASSUME NEW l \in Listeners, AcceptError(l) PROVE FALSE
  BY <1>7 DEF AcceptError
<1>8. ASSUME NEW c \in Conns, ConnNext(c) PROVE FALSE
  BY <1>8 DEF ConnNext, Accept, Forward, EndReading, UpstreamEnds, BackendGone,
      EndConn
<1>9. ASSUME NEW q \in Procs, ProcessExit(q) \/ WaitBackend(q) PROVE pc' = pc
  BY <1>9 DEF ProcessExit, WaitBackend
<1> QED
  BY <1>1, <1>2, <1>3, <1>4, <1>5, <1>6, <1>7, <1>8, <1>9 DEF Next, Crash

\* No thread of the daemon ends a child that was not first sent SIGTERM.
THEOREM WarnedKill == Spec => NoUnwarnedKill
<1>1. TypeOK /\ Inv /\ [Next]_vars =>
        [\A p \in Procs : proc[p] = "alive" /\ proc'[p] = "exited" => pc' = pc]_vars
  BY WarnedStep DEF vars
<1> QED
  BY <1>1, Invariance, PTL DEF Spec, NoUnwarnedKill

-----------------------------------------------------------------------------
(* A stop that nothing overlapped                                          *)

Child(p) == proc[p] \in {"alive", "termed"}

\* Past the critical section of proxy.Stop.
Draining == {"unbind", "wait", "draining", "stopBackend"}
ProxyGiven == Draining \cup {"termWait", "killWait", "sleep"}

\* While nothing overlaps, at most one goroutine starts or stops the servers.
OneAtATime == \A t, u \in Threads : pc[t] # "idle" /\ pc[u] # "idle" => t = u

\* An op that has left proxy.Stop has left the proxy down; in the graceful window
\* the process it signalled is the only one that may live, afterwards none does.
StopProgress ==
  \A o \in Ops :
    /\ pc[o] \in ProxyGiven => ~proxyRunning
    /\ pc[o] = "termWait" => \A p \in Procs : Child(p) => p = target[o]
    /\ pc[o] \in {"killWait", "sleep"} => \A p \in Procs : ~Child(p)

\* Who starts the servers answers a request to start them.
StartsMeant ==
  /\ starting => lastCall = "start"
  /\ \A o \in Ops : pc[o] = "sleep" => kind[o] = "again"
  /\ \A o \in Ops : pc[o] # "idle" /\ kind[o] = "again" => lastCall = "start"

StoppedDown ==
  Quiet /\ lastCall = "stop" => ~proxyRunning /\ \A p \in Procs : ~Child(p)

StopInv == ~overlapped => OneAtATime /\ StopProgress /\ StartsMeant /\ StoppedDown

\* A step keeps StopInv when no goroutine begins or ends, nothing comes up, and an
\* op moves only within proxy.Stop once the proxy is down.
LEMMA StopKept ==
  ASSUME StopInv,
         UNCHANGED <<starting, kind, lastCall, overlapped>>,
         proxyRunning' => proxyRunning,
         \A p \in Procs : Child(p)' => Child(p),
         \A t \in Threads : pc'[t] = "idle" <=> pc[t] = "idle",
         \A o \in Ops :
           \/ pc'[o] = pc[o] /\ target'[o] = target[o]
           \/ pc'[o] \in Draining /\ (pc[o] \in Draining \/ ~proxyRunning')
  PROVE  StopInv'
<1> SUFFICES ASSUME ~overlapped' PROVE (OneAtATime /\ StopProgress /\ StartsMeant /\ StoppedDown)'
  BY DEF StopInv
<1>0. OneAtATime /\ StopProgress /\ StartsMeant /\ StoppedDown
  BY DEF StopInv
<1>1. OneAtATime'
  BY <1>0 DEF OneAtATime
<1>2. StopProgress'
  <2> SUFFICES ASSUME NEW o \in Ops
               PROVE  /\ pc'[o] \in ProxyGiven => ~proxyRunning'
                      /\ pc'[o] = "termWait" => \A p \in Procs : Child(p)' => p = target'[o]
                      /\ pc'[o] \in {"killWait", "sleep"} => \A p \in Procs : ~Child(p)'
    BY DEF StopProgress
  <2>1. CASE pc'[o] = pc[o] /\ target'[o] = target[o]
    BY <1>0, <2>1 DEF StopProgress
  <2>2. CASE pc'[o] \in Draining /\ (pc[o] \in Draining \/ ~proxyRunning')
    BY <1>0, <2>2 DEF StopProgress, ProxyGiven, Draining
  <2> QED
    BY <2>1, <2>2
<1>3. StartsMeant'
  BY <1>0 DEF StartsMeant, Draining, Threads
<1>4. StoppedDown'
  BY <1>0 DEF StoppedDown, Quiet, Busy, Threads
<1> QED
  BY <1>1, <1>2, <1>3, <1>4

\* The end of the daemon leaves nothing of it running.
LEMMA StopVanish == ASSUME TypeOK, Vanish PROVE StopInv'
<1>1. /\ \A t \in Threads : pc'[t] = "idle"
      /\ \A p \in Procs : ~Child(p)'
      /\ ~starting' /\ lastCall' = "start"
  BY DEF Vanish, Child, Parentless
<1> QED
  BY <1>1 DEF StopInv, OneAtATime, StopProgress, StartsMeant, StoppedDown, ProxyGiven,
      Draining, Threads

\* While the start goroutine works, alone, nothing is claimed of any op.
LEMMA StopStarting ==
  ASSUME TypeOK, Inv, StopInv, pc[Starter] # "idle", pc'[Starter] # "idle",
         \A o \in Ops : pc'[o] = pc[o],
         UNCHANGED <<starting, lastCall, overlapped>>
  PROVE  StopInv'
<1> SUFFICES ASSUME ~overlapped' PROVE (OneAtATime /\ StopProgress /\ StartsMeant /\ StoppedDown)'
  BY DEF StopInv
<1>1. starting /\ lastCall = "start" /\ Starter \in Threads /\ Starter \notin Ops
  BY LifecycleAssumption DEF Inv, BackendInv, StartFlag, StopInv, StartsMeant, Threads
<1>2. \A o \in Ops : pc'[o] = "idle"
  BY <1>1 DEF StopInv, OneAtATime, Threads
<1> QED
  BY <1>1, <1>2 DEF OneAtATime, StopProgress, StartsMeant, StoppedDown, Quiet, Busy, Threads,
      ProxyGiven, Draining

\* An op that has stopped the servers with nobody beside it goes on.
LEMMA StopOver ==
  ASSUME TypeOK, StopInv, NEW o \in Ops, pc[o] \in ProxyGiven, kind[o] # "shutdown",
         AfterStop(o), ~overlapped => \A p \in Procs : ~Child(p)',
         UNCHANGED <<starting, proxyRunning, lastCall, overlapped>>
  PROVE  StopInv'
<1> SUFFICES ASSUME ~overlapped' PROVE (OneAtATime /\ StopProgress /\ StartsMeant /\ StoppedDown)'
  BY DEF StopInv
<1>0. OneAtATime /\ StopProgress /\ StartsMeant /\ StoppedDown
  BY DEF StopInv
<1>1. PICK x \in {"idle", "sleep", "stopProxy"} :
        /\ pc' = [pc EXCEPT ![o] = x]
        /\ x = "sleep" => kind[o] = "again" /\ kind' = kind
        /\ x = "idle" => kind' = kind
        /\ x = "stopProxy" => kind' = [kind EXCEPT ![o] = "shutdown"]
  BY DEF AfterStop
<1>2. pc'[o] = x /\ \A t \in Threads : t # o => pc'[t] = pc[t]
  BY <1>1 DEF TypeOK, ThreadType, Threads
<1>3. o \in Threads /\ \A t \in Threads : t # o => pc[t] = "idle"
  BY <1>0 DEF OneAtATime, Threads, ProxyGiven, Draining
<1>4. ~proxyRunning' /\ \A p \in Procs : ~Child(p)'
  BY <1>0 DEF StopProgress
<1>5. /\ x = "sleep" => kind'[o] = "again" /\ lastCall' = "start"
      /\ x = "stopProxy" => kind'[o] = "shutdown"
  BY <1>0, <1>1 DEF StartsMeant, TypeOK, ThreadType, ProxyGiven, Draining
<1>6. OneAtATime'
  BY <1>2, <1>3 DEF OneAtATime
<1>7. StopProgress'
  BY <1>2, <1>3, <1>4 DEF StopProgress, ProxyGiven, Draining, Threads
<1>8. StartsMeant'
  BY <1>0, <1>2, <1>3, <1>5 DEF StartsMeant, Threads
<1>9. StoppedDown'
  BY <1>4 DEF StoppedDown
<1> QED
  BY <1>6, <1>7, <1>8, <1>9

\* Without a daemon no goroutine is active.
DeadIsIdle == ~up => \A t \in Threads : pc[t] = "idle"

\* DeadIsIdle is inductive.
LEMMA DeadStep ==
  ASSUME TypeOK, Inv, DeadIsIdle, Next PROVE DeadIsIdle'
<1> SUFFICES ASSUME ~up', NEW u \in Threads PROVE pc'[u] = "idle"
  BY DEF DeadIsIdle
<1> USE DEF StarterStep, StarterGoto, daemonVars, proxyVars, backendVars, threadVars, history
<1>1. CASE Vanish
  BY <1>1 DEF Vanish
<1>2. CASE ~up
  <2>1. \A t \in Threads : pc[t] = "idle"
    BY <1>2 DEF DeadIsIdle
  <2>2. Starter \in Threads /\ Ops \subseteq Threads
    BY DEF Threads
  <2>3. ~StarterNext /\ ~CallNext
    BY <1>2, <2>1, <2>2 DEF StarterNext, BindProxy, PollProxy, CheckBackend, SweepOrphans,
        LaunchBackend, AwaitBackend, ReportFailure, EndStart, CallNext, Boot, CallStart,
        CallStop, CallRestart, CallQuit, Sigterm, Spawn
  <2>4. /\ \A t \in Threads : ~ProxyStopNext(t)
        /\ \A o \in Ops : ~OpNext(o)
    BY <2>1, <2>2 DEF ProxyStopNext, StopProxy, CloseListener, WaitProxy, OpNext, StopBackend,
        SeeExit, KillBackend, GiveUpKill, StartAgain
  <2>5. CASE \/ \E l \in Listeners : AcceptError(l)
             \/ \E c \in Conns : ConnNext(c)
             \/ \E p \in Procs : ProcessExit(p) \/ WaitBackend(p)
    BY <2>1, <2>5 DEF AcceptError, ConnNext, Accept, Forward, EndReading, UpstreamEnds,
        BackendGone, EndConn, Released, ProcessExit, WaitBackend
  <2> QED
    BY <1>1, <1>2, <2>3, <2>4, <2>5 DEF Next, Crash
<1>3. CASE up /\ ~Vanish
  <2>1. ~CallNext /\ ~StarterNext
    BY <1>3 DEF StarterNext, BindProxy, PollProxy, CheckBackend, SweepOrphans,
        LaunchBackend, AwaitBackend, ReportFailure, EndStart, CallNext, Boot, CallStart,
        CallStop, CallRestart, CallQuit, Sigterm, Spawn
  <2>2. /\ \A t \in Threads : ~ProxyStopNext(t)
        /\ \A o \in Ops : ~OpNext(o)
    BY <1>3 DEF ProxyStopNext, StopProxy, CloseListener, WaitProxy, OpNext, StopBackend,
        SeeExit, KillBackend, GiveUpKill, StartAgain, StopDone
  <2>3. /\ \A l \in Listeners : ~AcceptError(l)
        /\ \A c \in Conns : ~ConnNext(c)
        /\ \A p \in Procs : ~ProcessExit(p) /\ ~WaitBackend(p)
    BY <1>3 DEF AcceptError, ConnNext, Accept, Forward, EndReading, UpstreamEnds,
        BackendGone, EndConn, ProcessExit, WaitBackend
  <2> QED
    BY <1>3, <2>1, <2>2, <2>3 DEF Next, Crash
<1> QED
  BY <1>1, <1>2, <1>3

\* Every action keeps StopInv.
LEMMA StopStep ==
  ASSUME TypeOK, Inv, DeadIsIdle, StopInv, Next PROVE StopInv'
<1> USE DEF StarterStep, StarterGoto, daemonVars, proxyVars, backendVars, threadVars, history
<1>0. /\ Starter \in Threads /\ Starter \notin Ops /\ Ops \subseteq Threads
      /\ pc \in [Threads -> PCs] /\ proc \in [Procs -> {"gone", "alive", "termed", "exited", "orphan", "missed"}]
      /\ kind \in [Ops -> Kinds] /\ target \in [Threads -> Procs \cup {Nil}]
      /\ (starting <=> pc[Starter] # "idle")
  BY LifecycleAssumption DEF Threads, TypeOK, ThreadType, BackendType, PCs, Inv, BackendInv,
      StartFlag
<1>a. StopInv /\ ~overlapped => OneAtATime /\ StopProgress /\ StartsMeant /\ StoppedDown
  BY DEF StopInv
\* A start is granted.
<1>1. ASSUME NEW pcs \in [Threads -> PCs], NEW overlap, ~starting, starting',
             pc' = [pcs EXCEPT ![Starter] = "bind"], overlapped' = overlap,
             ~overlap => lastCall' = "start" /\ \A o \in Ops : pcs[o] = "idle"
      PROVE  StopInv'
  <2>1. pc'[Starter] = "bind" /\ \A o \in Ops : pc'[o] = pcs[o]
    BY <1>0, <1>1
  <2> SUFFICES ASSUME ~overlapped'
               PROVE  (OneAtATime /\ StopProgress /\ StartsMeant /\ StoppedDown)'
    BY DEF StopInv
  <2> QED
    BY <1>0, <1>1, <2>1 DEF OneAtATime, StopProgress, StartsMeant, StoppedDown, Quiet, Busy,
        Threads, ProxyGiven, Draining
<1>2. ASSUME CallStart \/ Boot PROVE StopInv'
  <2>1. lastCall' = "start" /\ UNCHANGED <<proxyVars, backendVars, kind, target>>
    BY <1>2 DEF CallStart, Boot
  <2>2. CASE pc' = pc /\ UNCHANGED <<starting, overlapped>>
    BY <1>a, <2>1, <2>2 DEF StopInv, OneAtATime, StopProgress, StartsMeant, StoppedDown, Child
  <2>3. CASE starting' /\ ~starting
    <3>1. /\ pc' = [pc EXCEPT ![Starter] = "bind"]
          /\ ~overlapped' => ~Busy(Ops)
      BY <1>2, <2>3 DEF CallStart, Boot, StartServer, DeadIsIdle, Busy, Threads
    <3> QED
      BY <1>0, <1>1, <2>1, <2>3, <3>1 DEF Busy
  <2> QED
    BY <1>2, <2>2, <2>3 DEF CallStart, Boot, StartServer
<1>3. ASSUME NEW o \in Ops, NEW k \in Kinds, Spawn(o, k),
             k = "again" => lastCall' = "start"
      PROVE  StopInv'
  <2>1. /\ pc[o] = "idle" /\ pc' = [pc EXCEPT ![o] = "stopProxy"]
        /\ kind' = [kind EXCEPT ![o] = k]
        /\ overlapped' = (starting \/ Busy(Ops \ {o}))
        /\ UNCHANGED <<starting, proxyRunning, proc, target>>
    BY <1>3 DEF Spawn
  <2> SUFFICES ASSUME ~overlapped'
               PROVE  (OneAtATime /\ StopProgress /\ StartsMeant /\ StoppedDown)'
    BY DEF StopInv
  <2>2. ~starting /\ \A t \in Threads : pc[t] = "idle"
    BY <1>0, <2>1 DEF Busy, Threads
  <2>3. pc'[o] = "stopProxy" /\ kind'[o] = k /\ \A t \in Threads : t # o => pc'[t] = "idle"
    BY <1>0, <2>1, <2>2
  <2> QED
    BY <1>0, <1>3, <2>1, <2>2, <2>3 DEF OneAtATime, StopProgress, StartsMeant, StoppedDown,
        Quiet, Busy, ProxyGiven, Draining
<1>4. ASSUME BindProxy \/ PollProxy \/ CheckBackend \/ SweepOrphans \/ LaunchBackend
              \/ AwaitBackend \/ ReportFailure
      PROVE  StopInv'
  <2>1. pc[Starter] # "idle" /\ UNCHANGED <<starting, lastCall, overlapped>>
        /\ \E x \in PCs \ {"idle"} : pc' = [pc EXCEPT ![Starter] = x]
    BY <1>4 DEF BindProxy, PollProxy, CheckBackend, SweepOrphans, LaunchBackend,
        AwaitBackend, ReportFailure, PCs, StarterPCs, ProxyStopPCs
  <2>2. pc'[Starter] # "idle" /\ \A o \in Ops : pc'[o] = pc[o]
    BY <1>0, <2>1
  <2> QED
    BY <2>1, <2>2, StopStarting
<1>5. ASSUME EndStart PROVE StopInv'
  <2>1. /\ pc[Starter] # "idle" /\ pc' = [pc EXCEPT ![Starter] = "idle"] /\ ~starting'
        /\ UNCHANGED <<lastCall, overlapped, kind>>
    BY <1>5 DEF EndStart
  <2> SUFFICES ASSUME ~overlapped'
               PROVE  (OneAtATime /\ StopProgress /\ StartsMeant /\ StoppedDown)'
    BY DEF StopInv
  <2>2. lastCall' = "start" /\ \A o \in Ops : pc[o] = "idle"
    BY <1>0, <1>a, <2>1 DEF OneAtATime, StartsMeant
  <2>3. \A t \in Threads : pc'[t] = "idle"
    BY <1>0, <2>1, <2>2 DEF Threads
  <2> QED
    BY <1>0, <2>1, <2>2, <2>3 DEF OneAtATime, StopProgress, StartsMeant, StoppedDown,
        ProxyGiven, Draining
<1>6. ASSUME NEW t \in Threads, ProxyStopNext(t) PROVE StopInv'
  <2>1. /\ UNCHANGED <<starting, kind, lastCall, overlapped, proc, target>>
        /\ proxyRunning' => proxyRunning
        /\ pc[t] # "idle"
    BY <1>6 DEF ProxyStopNext, StopProxy, CloseListener, WaitProxy, ProxyType, TypeOK
  <2>2. \E x \in PCs \ {"idle"} :
          /\ pc' = [pc EXCEPT ![t] = x]
          /\ t # Starter => x \in Draining /\ (pc[t] \in Draining \/ ~proxyRunning')
    BY <1>6 DEF ProxyStopNext, StopProxy, CloseListener, WaitProxy, AfterProxyStop, Draining,
        PCs, StarterPCs, OpPCs, ProxyStopPCs
  <2>3. \A p \in Procs : Child(p)' => Child(p)
    BY <2>1 DEF Child
  <2>4. /\ \A u \in Threads : pc'[u] = "idle" <=> pc[u] = "idle"
        /\ \A o \in Ops :
             \/ pc'[o] = pc[o] /\ target'[o] = target[o]
             \/ pc'[o] \in Draining /\ (pc[o] \in Draining \/ ~proxyRunning')
    BY <1>0, <2>1, <2>2
  <2> QED
    BY <2>1, <2>3, <2>4, StopKept
<1>7. ASSUME NEW o \in Ops, StopBackend(o) PROVE StopInv'
  <2>1. CASE Vanish
    BY <2>1, StopVanish
  <2>2. CASE cmd = Nil /\ ~Vanish
    <3>1. /\ pc[o] = "stopBackend" /\ kind[o] # "shutdown" /\ AfterStop(o)
          /\ UNCHANGED <<starting, proxyRunning, lastCall, overlapped, proc>>
      BY <1>7, <2>2 DEF StopBackend
    <3>2. \A p \in Procs : ~Child(p)'
      BY <2>2, <3>1, LifecycleAssumption DEF Child, Inv, BackendInv, OwnedBackend
    <3> QED
      BY <3>1, <3>2, StopOver DEF ProxyGiven, Draining
  <2>3. CASE cmd # Nil
    <3>1. /\ pc[o] = "stopBackend" /\ pc' = [pc EXCEPT ![o] = "termWait"]
          /\ target' = [target EXCEPT ![o] = cmd]
          /\ proc' = [proc EXCEPT ![cmd] = IF @ = "alive" THEN "termed" ELSE @]
          /\ UNCHANGED <<starting, proxyRunning, kind, lastCall, overlapped>>
      BY <1>7, <2>3 DEF StopBackend
    <3>2. pc'[o] = "termWait" /\ target'[o] = cmd /\ \A u \in Threads : u # o => pc'[u] = pc[u]
      BY <1>0, <3>1
    <3>3. \A p \in Procs : Child(p)' => p = cmd
      BY <1>0, <3>1 DEF Child, Inv, BackendInv, OwnedBackend
    <3> SUFFICES ASSUME ~overlapped'
                 PROVE  (OneAtATime /\ StopProgress /\ StartsMeant /\ StoppedDown)'
      BY DEF StopInv
    <3>4. \A u \in Threads : u # o => pc'[u] = "idle"
      BY <1>0, <1>a, <3>1, <3>2 DEF OneAtATime
    <3>5. StopProgress'
      BY <1>0, <1>a, <3>1, <3>2, <3>3, <3>4 DEF StopProgress, ProxyGiven, Draining
    <3>6. StartsMeant'
      BY <1>0, <1>a, <3>1, <3>2, <3>4 DEF StartsMeant
    <3>7. ~Quiet'
      BY <3>2 DEF Quiet, Busy
    <3> QED
      BY <3>4, <3>5, <3>6, <3>7 DEF OneAtATime, StoppedDown
  <2> QED
    BY <2>1, <2>2, <2>3
<1>8. ASSUME NEW o \in Ops, StopDone(o), pc[o] \in {"termWait", "killWait"},
             pc[o] = "termWait" => proc[target[o]] = "gone"
      PROVE  StopInv'
  <2>1. CASE Vanish
    BY <2>1, StopVanish
  <2>2. CASE kind[o] # "shutdown"
    <3>1. AfterStop(o) /\ UNCHANGED <<starting, proxyRunning, lastCall, overlapped, proc>>
      BY <1>8, <2>2 DEF StopDone
    <3>2. ~overlapped => \A p \in Procs : ~Child(p)'
      BY <1>8, <1>a, <3>1 DEF StopProgress, Child
    <3> QED
      BY <1>8, <2>2, <3>1, <3>2, StopOver DEF ProxyGiven, Draining
  <2> QED
    BY <1>8, <2>1, <2>2 DEF StopDone
<1>9. ASSUME NEW o \in Ops, KillBackend(o) PROVE StopInv'
  <2>1. /\ pc[o] = "termWait" /\ pc' = [pc EXCEPT ![o] = "killWait"]
        /\ proc' = [proc EXCEPT ![target[o]] = IF @ = "gone" THEN @ ELSE "exited"]
        /\ UNCHANGED <<starting, proxyRunning, kind, target, lastCall, overlapped>>
    BY <1>9 DEF KillBackend
  <2>2. pc'[o] = "killWait" /\ \A u \in Threads : u # o => pc'[u] = pc[u]
    BY <1>0, <2>1
  <2> SUFFICES ASSUME ~overlapped'
               PROVE  (OneAtATime /\ StopProgress /\ StartsMeant /\ StoppedDown)'
    BY DEF StopInv
  <2>3. \A u \in Threads : u # o => pc'[u] = "idle"
    BY <1>0, <1>a, <2>1, <2>2 DEF OneAtATime
  <2>4. \A p \in Procs : ~Child(p)'
    BY <1>0, <1>a, <2>1 DEF StopProgress, Child
  <2>5. StopProgress'
    BY <1>0, <1>a, <2>1, <2>2, <2>3, <2>4 DEF StopProgress, ProxyGiven, Draining
  <2>6. StartsMeant'
    BY <1>0, <1>a, <2>1, <2>2, <2>3 DEF StartsMeant
  <2>7. ~Quiet'
    BY <2>2 DEF Quiet, Busy
  <2> QED
    BY <2>3, <2>5, <2>6, <2>7 DEF OneAtATime, StoppedDown
<1>10. ASSUME NEW o \in Ops, StartAgain(o) PROVE StopInv'
  <2> DEFINE pcs == [pc EXCEPT ![o] = "idle"]
  <2>1. /\ pc[o] = "sleep" /\ UNCHANGED <<proxyRunning, proc, kind, target, lastCall>>
        /\ \/ pc' = pcs /\ UNCHANGED <<starting, overlapped>>
           \/ /\ ~starting /\ starting' /\ pc' = [pcs EXCEPT ![Starter] = "bind"]
              /\ overlapped' = (overlapped \/ Busy(Ops \ {o}))
    BY <1>10 DEF StartAgain, StartServer
  <2>2. /\ pcs \in [Threads -> PCs] /\ pcs[o] = "idle"
        /\ \A u \in Threads : u # o => pcs[u] = pc[u]
    BY <1>0 DEF PCs, StarterPCs
  <2>3. ~overlapped => lastCall = "start" /\ \A u \in Threads : pcs[u] = "idle"
    BY <1>0, <1>a, <2>1, <2>2 DEF OneAtATime, StartsMeant
  <2> HIDE DEF pcs
  <2>4. CASE pc' = pcs /\ UNCHANGED <<starting, overlapped>>
    BY <1>0, <1>a, <2>1, <2>3, <2>4 DEF StopInv, OneAtATime, StopProgress, StartsMeant,
        StoppedDown, ProxyGiven, Draining
  <2>5. CASE /\ ~starting /\ starting' /\ pc' = [pcs EXCEPT ![Starter] = "bind"]
             /\ overlapped' = (overlapped \/ Busy(Ops \ {o}))
    BY <1>0, <1>1, <2>1, <2>2, <2>3, <2>5
  <2> QED
    BY <2>1, <2>4, <2>5
\* Steps that move goroutines only out of wg.Wait.
<1>11. ASSUME UNCHANGED <<starting, kind, target, lastCall, overlapped, proxyRunning>>,
              \A p \in Procs : Child(p)' => Child(p),
              \/ pc' = pc
              \/ pc' = [t \in Threads |-> IF pc[t] = "draining" THEN AfterProxyStop(t) ELSE pc[t]]
       PROVE  StopInv'
  <2>1. \A t \in Threads : pc'[t] = pc[t] \/ (pc[t] = "draining" /\ pc'[t] = AfterProxyStop(t))
    BY <1>0, <1>11
  <2>2. \A t \in Threads : pc'[t] = "idle" <=> pc[t] = "idle"
    BY <2>1 DEF AfterProxyStop
  <2>3. \A o \in Ops : \/ pc'[o] = pc[o] /\ target'[o] = target[o]
                       \/ pc'[o] \in Draining /\ (pc[o] \in Draining \/ ~proxyRunning')
    BY <1>0, <1>11, <2>1 DEF AfterProxyStop, Draining
  <2> QED
    BY <1>11, <2>2, <2>3, StopKept
<1>12. ASSUME NEW l \in Listeners, AcceptError(l) PROVE StopInv'
  BY <1>11, <1>12 DEF AcceptError, Released, Child
<1>13. ASSUME NEW c \in Conns, ConnNext(c) PROVE StopInv'
  BY <1>11, <1>13 DEF ConnNext, Accept, Forward, EndReading, UpstreamEnds, BackendGone,
      EndConn, Released, Child
<1>14. ASSUME NEW p \in Procs, ProcessExit(p) \/ WaitBackend(p) PROVE StopInv'
  <2>1. \A q \in Procs : Child(q)' => Child(q)
    BY <1>0, <1>14 DEF ProcessExit, WaitBackend, Child
  <2> QED
    BY <1>11, <1>14, <2>1 DEF ProcessExit, WaitBackend
<1>15. CASE Crash
  BY <1>15, StopVanish DEF Crash
<1> QED
  BY <1>2, <1>3, <1>4, <1>5, <1>6, <1>7, <1>8, <1>9, <1>10, <1>12, <1>13, <1>14, <1>15
  DEF Next, CallNext, StarterNext, OpNext, CallStop, CallRestart, CallQuit, Sigterm,
      SeeExit, GiveUpKill, Kinds

\* A stop that no other request overlapped leaves the proxy down and no child that was
\* not sent SIGKILL, for any number of goroutines and processes (stopServer).
THEOREM StopIsComplete == Spec => []StopLeavesNothing
<1>1. Init => StopInv /\ DeadIsIdle
  BY DEF Init, DeadIsIdle, StopInv, OneAtATime, StopProgress, StartsMeant, StoppedDown, Child, ProxyGiven,
      Draining, Threads
<1>2. StopInv /\ DeadIsIdle /\ UNCHANGED vars => (StopInv /\ DeadIsIdle)'
  <2> SUFFICES ASSUME StopInv, DeadIsIdle, UNCHANGED vars PROVE StopInv' /\ DeadIsIdle'
    OBVIOUS
  <2>0. DeadIsIdle'
    BY DEF DeadIsIdle, vars, daemonVars, threadVars
  <2>1. /\ UNCHANGED <<starting, kind, target, lastCall, overlapped, proxyRunning, pc, proc>>
        /\ \A p \in Procs : Child(p)' => Child(p)
    BY DEF vars, daemonVars, proxyVars, backendVars, threadVars, history, Child
  <2> QED
    BY <2>0, <2>1, StopKept
<1>3. TypeOK /\ Inv /\ StopInv /\ DeadIsIdle /\ [Next]_vars => (StopInv /\ DeadIsIdle)'
  BY <1>2, StopStep, DeadStep
<1>4. StopInv => StopLeavesNothing
  BY DEF StopInv, StoppedDown, StopLeavesNothing, Child
<1> QED
  BY <1>1, <1>3, <1>4, Invariance, PTL DEF Spec
================================================================================
