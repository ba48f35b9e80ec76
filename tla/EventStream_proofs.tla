--------------------------- MODULE EventStream_proofs ---------------------------
(***************************************************************************)
(* Proofs about EventStream, for any number of clients and facts and any   *)
(* buffer and interval: its types, that no stream is silently behind, that *)
(* no goroutine sends on a closed channel, that snapshots keep their       *)
(* distance, and that the streams implement StateObserver.                 *)
(***************************************************************************)
EXTENDS EventStream, SequenceTheorems, TLAPS

-----------------------------------------------------------------------------
(* The inductive invariant                                                 *)

\* Between two streams nothing of the last one is left.
OffIsReset ==
  \A c \in Clients : pc[c] = "off" =>
    c \notin subs /\ ~ended[c] /\ timer[c] = Off /\ seen[c] = Unseen

\* What a snapshot has read lies between what the client was told and the truth.
SnapshotsGrow ==
  /\ \A p \in Parts : version[p] >= 1 /\ announced[p] <= version[p]
  /\ \A c \in Clients : pc[c] = "sendState" => toRead[c] = {}
  /\ \A c \in Clients, p \in Parts :
       /\ seen[c][p] <= version[p]
       /\ pc[c] \in {"read", "sendState"} /\ p \notin toRead[c] =>
            /\ seen[c][p] <= snap[c][p] /\ snap[c][p] <= version[p]
            /\ snap[c][p] >= 1

\* A pending timer runs out no earlier than the interval, and no snapshot is
\* sent meanwhile.
TimerSpaced ==
  \A c \in Clients : timer[c] # Off =>
    /\ pc[c] \notin {"read", "sendState", "off"}
    /\ age[c] + timer[c] >= Interval

Inv == OffIsReset /\ SnapshotsGrow /\ TimerSpaced
         /\ RegisteredAreOpen /\ NeverSilentlyBehind

-----------------------------------------------------------------------------
(* Type correctness                                                        *)

\* Every action keeps the types of the server, channels, handlers and clients.
LEMMA TypeStep ==
  ASSUME TypeOK, Next PROVE TypeOK'
<1> USE StreamAssumption DEF TypeOK, At, Goto, StartSnapshot, factVars, serverVars,
      channelVars, handlerVars, clockVars, clientVars
<1>1. ASSUME NEW p \in Parts, Change(p) PROVE TypeOK'
  <2>server. ServerType'
    BY <1>1 DEF Change, ServerType, Facts
  <2>channel. ChannelType'
    BY <1>1 DEF Change, ChannelType, ServerType
  <2>handler. HandlerType'
    BY <1>1 DEF Change, HandlerType, ServerType, ChannelType, Facts, PCs,
        Unseen
  <2>clock. ClockType'
    BY <1>1 DEF Change, ClockType, Off
  <2>client. ClientType'
    BY <1>1 DEF Change, ClientType, HandlerType, ServerType, Facts, Unseen
  <2> QED
    BY <2>server, <2>channel, <2>handler, <2>clock, <2>client
<1>1a. ASSUME NEW p \in Parts, ChangeSilently(p) PROVE TypeOK'
  <2>server. ServerType'
    BY <1>1a DEF ChangeSilently, ServerType, Facts
  <2>channel. ChannelType'
    BY <1>1a DEF ChangeSilently, ChannelType
  <2>handler. HandlerType'
    BY <1>1a DEF ChangeSilently, HandlerType
  <2>clock. ClockType'
    BY <1>1a DEF ChangeSilently, ClockType
  <2>client. ClientType'
    BY <1>1a DEF ChangeSilently, ClientType
  <2> QED
    BY <2>server, <2>channel, <2>handler, <2>clock, <2>client
<1>2. ASSUME NotifyStateChanged PROVE TypeOK'
  <2>server. ServerType'
    BY <1>2 DEF NotifyStateChanged, ServerType, Facts
  <2>channel. ChannelType'
    BY <1>2 DEF NotifyStateChanged, ChannelType, ServerType
  <2>handler. HandlerType'
    BY <1>2 DEF NotifyStateChanged, HandlerType, ServerType, ChannelType,
        Facts, PCs, Unseen
  <2>clock. ClockType'
    BY <1>2 DEF NotifyStateChanged, ClockType, Off
  <2>client. ClientType'
    BY <1>2 DEF NotifyStateChanged, ClientType, HandlerType, ServerType,
        Facts, Unseen
  <2> QED
    BY <2>server, <2>channel, <2>handler, <2>clock, <2>client
<1>3. ASSUME PostMessage PROVE TypeOK'
  <2>server. ServerType'
    BY <1>3 DEF PostMessage, ServerType, Facts
  <2>1. posted' \in 1..MaxPosts
    BY <1>3 DEF PostMessage, ServerType
  <2>2. ASSUME NEW c \in Clients
        PROVE  msgs'[c] \in Seq(1..MaxPosts) /\ Len(msgs'[c]) <= Cap
    <3>1. msgs[c] \in Seq(1..MaxPosts) /\ Len(msgs[c]) <= Cap
      BY DEF ChannelType
    <3>2. /\ Append(msgs[c], posted') \in Seq(1..MaxPosts)
          /\ Len(Append(msgs[c], posted')) = Len(msgs[c]) + 1
      BY <2>1, <3>1
    <3>3. \/ msgs'[c] = msgs[c]
          \/ msgs'[c] = Append(msgs[c], posted') /\ Len(msgs[c]) < Cap
      BY <1>3 DEF PostMessage
    <3>4. Len(msgs[c]) \in Nat /\ Cap \in Nat
      BY <3>1
    <3>5. CASE msgs'[c] = msgs[c]
      BY <3>1, <3>5
    <3>6. CASE msgs'[c] = Append(msgs[c], posted') /\ Len(msgs[c]) < Cap
      BY <3>2, <3>4, <3>6
    <3> QED
      BY <3>3, <3>5, <3>6
  <2>channel. ChannelType'
    BY <1>3, <2>2 DEF PostMessage, ChannelType
  <2>handler. HandlerType'
    BY <1>3 DEF PostMessage, HandlerType, ServerType, ChannelType, Facts, PCs,
        Unseen
  <2>clock. ClockType'
    BY <1>3 DEF PostMessage, ClockType, Off
  <2>client. ClientType'
    BY <1>3 DEF PostMessage, ClientType, HandlerType, ServerType, Facts,
        Unseen
  <2> QED
    BY <2>server, <2>channel, <2>handler, <2>clock, <2>client
<1>4. ASSUME Close PROVE TypeOK'
  <2>server. ServerType'
    BY <1>4 DEF Close, ServerType, Facts
  <2>channel. ChannelType'
    BY <1>4 DEF Close, ChannelType, ServerType
  <2>handler. HandlerType'
    BY <1>4 DEF Close, HandlerType, ServerType, ChannelType, Facts, PCs,
        Unseen
  <2>clock. ClockType'
    BY <1>4 DEF Close, ClockType, Off
  <2>client. ClientType'
    BY <1>4 DEF Close, ClientType, HandlerType, ServerType, Facts, Unseen
  <2> QED
    BY <2>server, <2>channel, <2>handler, <2>clock, <2>client
<1>5. ASSUME Tick PROVE TypeOK'
  <2>server. ServerType'
    BY <1>5 DEF Tick, ServerType, Facts
  <2>channel. ChannelType'
    BY <1>5 DEF Tick, ChannelType, ServerType
  <2>handler. HandlerType'
    BY <1>5 DEF Tick, HandlerType, ServerType, ChannelType, Facts, PCs, Unseen
  <2>clock. ClockType'
    BY <1>5 DEF Tick, ClockType, Off
  <2>client. ClientType'
    BY <1>5 DEF Tick, ClientType, HandlerType, ServerType, Facts, Unseen
  <2> QED
    BY <2>server, <2>channel, <2>handler, <2>clock, <2>client
<1>6. ASSUME NEW c \in Clients, Subscribe(c) PROVE TypeOK'
  <2>server. ServerType'
    BY <1>6 DEF Subscribe, ServerType, Facts
  <2>channel. ChannelType'
    BY <1>6 DEF Subscribe, ChannelType, ServerType
  <2>handler. HandlerType'
    BY <1>6 DEF Subscribe, HandlerType, ServerType, ChannelType, Facts, PCs,
        Unseen
  <2>clock. ClockType'
    BY <1>6 DEF Subscribe, ClockType, Off
  <2>client. ClientType'
    BY <1>6 DEF Subscribe, ClientType, HandlerType, ServerType, Facts, Unseen
  <2> QED
    BY <2>server, <2>channel, <2>handler, <2>clock, <2>client
<1>7. ASSUME NEW c \in Clients, NEW p \in Parts, ReadPart(c, p) PROVE TypeOK'
  <2>server. ServerType'
    BY <1>7 DEF ReadPart, ServerType, Facts
  <2>channel. ChannelType'
    BY <1>7 DEF ReadPart, ChannelType, ServerType
  <2>handler. HandlerType'
    BY <1>7 DEF ReadPart, HandlerType, ServerType, ChannelType, Facts, PCs,
        Unseen
  <2>clock. ClockType'
    BY <1>7 DEF ReadPart, ClockType, Off
  <2>client. ClientType'
    BY <1>7 DEF ReadPart, ClientType, HandlerType, ServerType, Facts, Unseen
  <2> QED
    BY <2>server, <2>channel, <2>handler, <2>clock, <2>client
<1>8. ASSUME NEW c \in Clients, SendState(c) PROVE TypeOK'
  <2>server. ServerType'
    BY <1>8 DEF SendState, ServerType, Facts
  <2>channel. ChannelType'
    BY <1>8 DEF SendState, ChannelType, ServerType
  <2>handler. HandlerType'
    BY <1>8 DEF SendState, HandlerType, ServerType, ChannelType, Facts, PCs,
        Unseen
  <2>clock. ClockType'
    BY <1>8 DEF SendState, ClockType, Off
  <2>client. ClientType'
    BY <1>8 DEF SendState, ClientType, HandlerType, ServerType, Facts, Unseen
  <2> QED
    BY <2>server, <2>channel, <2>handler, <2>clock, <2>client
<1>9. ASSUME NEW c \in Clients, SendMessage(c) PROVE TypeOK'
  <2>server. ServerType'
    BY <1>9 DEF SendMessage, ServerType, Facts
  <2>channel. ChannelType'
    BY <1>9 DEF SendMessage, ChannelType, ServerType
  <2>handler. HandlerType'
    BY <1>9 DEF SendMessage, HandlerType, ServerType, ChannelType, Facts, PCs,
        Unseen
  <2>clock. ClockType'
    BY <1>9 DEF SendMessage, ClockType, Off
  <2>client. ClientType'
    BY <1>9 DEF SendMessage, ClientType, HandlerType, ServerType, Facts,
        Unseen
  <2> QED
    BY <2>server, <2>channel, <2>handler, <2>clock, <2>client
<1>10. ASSUME NEW c \in Clients, ClientGone(c) PROVE TypeOK'
  <2>server. ServerType'
    BY <1>10 DEF ClientGone, ServerType, Facts
  <2>channel. ChannelType'
    BY <1>10 DEF ClientGone, ChannelType, ServerType
  <2>handler. HandlerType'
    BY <1>10 DEF ClientGone, HandlerType, ServerType, ChannelType, Facts, PCs,
        Unseen
  <2>clock. ClockType'
    BY <1>10 DEF ClientGone, ClockType, Off
  <2>client. ClientType'
    BY <1>10 DEF ClientGone, ClientType, HandlerType, ServerType, Facts,
        Unseen
  <2> QED
    BY <2>server, <2>channel, <2>handler, <2>clock, <2>client
<1>11. ASSUME NEW c \in Clients, Heartbeat(c) PROVE TypeOK'
  <2>server. ServerType'
    BY <1>11 DEF Heartbeat, ServerType, Facts
  <2>channel. ChannelType'
    BY <1>11 DEF Heartbeat, ChannelType, ServerType
  <2>handler. HandlerType'
    BY <1>11 DEF Heartbeat, HandlerType, ServerType, ChannelType, Facts, PCs,
        Unseen
  <2>clock. ClockType'
    BY <1>11 DEF Heartbeat, ClockType, Off
  <2>client. ClientType'
    BY <1>11 DEF Heartbeat, ClientType, HandlerType, ServerType, Facts, Unseen
  <2> QED
    BY <2>server, <2>channel, <2>handler, <2>clock, <2>client
<1>12. ASSUME NEW c \in Clients, SendHeartbeat(c) PROVE TypeOK'
  <2>server. ServerType'
    BY <1>12 DEF SendHeartbeat, ServerType, Facts
  <2>channel. ChannelType'
    BY <1>12 DEF SendHeartbeat, ChannelType, ServerType
  <2>handler. HandlerType'
    BY <1>12 DEF SendHeartbeat, HandlerType, ServerType, ChannelType, Facts,
        PCs, Unseen
  <2>clock. ClockType'
    BY <1>12 DEF SendHeartbeat, ClockType, Off
  <2>client. ClientType'
    BY <1>12 DEF SendHeartbeat, ClientType, HandlerType, ServerType, Facts,
        Unseen
  <2> QED
    BY <2>server, <2>channel, <2>handler, <2>clock, <2>client
<1>13. ASSUME NEW c \in Clients, TakeMessage(c) PROVE TypeOK'
  <2>server. ServerType'
    BY <1>13 DEF TakeMessage, ServerType, Facts
  <2>channel. ChannelType'
    BY <1>13 DEF TakeMessage, ChannelType, ServerType
  <2>handler. HandlerType'
    BY SMTT(30), <1>13 DEF TakeMessage, HandlerType, ServerType, ChannelType, Facts,
        PCs, Unseen
  <2>clock. ClockType'
    BY <1>13 DEF TakeMessage, ClockType, Off
  <2>client. ClientType'
    BY <1>13 DEF TakeMessage, ClientType, HandlerType, ServerType, Facts,
        Unseen
  <2> QED
    BY <2>server, <2>channel, <2>handler, <2>clock, <2>client
<1>14. ASSUME NEW c \in Clients, StreamEnds(c) PROVE TypeOK'
  <2>server. ServerType'
    BY <1>14 DEF StreamEnds, ServerType, Facts
  <2>channel. ChannelType'
    BY <1>14 DEF StreamEnds, ChannelType, ServerType
  <2>handler. HandlerType'
    BY <1>14 DEF StreamEnds, HandlerType, ServerType, ChannelType, Facts, PCs,
        Unseen
  <2>clock. ClockType'
    BY <1>14 DEF StreamEnds, ClockType, Off
  <2>client. ClientType'
    BY <1>14 DEF StreamEnds, ClientType, HandlerType, ServerType, Facts,
        Unseen
  <2> QED
    BY <2>server, <2>channel, <2>handler, <2>clock, <2>client
<1>15. ASSUME NEW c \in Clients, TakeDirty(c) PROVE TypeOK'
  <2>server. ServerType'
    BY <1>15 DEF TakeDirty, ServerType, Facts
  <2>channel. ChannelType'
    BY <1>15 DEF TakeDirty, ChannelType, ServerType
  <2>1. \/ UNCHANGED <<pc, toRead>>
        \/ /\ pc' = [pc EXCEPT ![c] = "read"]
           /\ toRead' = [toRead EXCEPT ![c] = Parts]
    BY <1>15 DEF TakeDirty
  <2>handler. HandlerType'
    BY <1>15, <2>1 DEF TakeDirty, HandlerType, PCs
  <2>clock. ClockType'
    BY <1>15 DEF TakeDirty, ClockType, Off
  <2>client. ClientType'
    BY <1>15 DEF TakeDirty, ClientType, HandlerType, ServerType, Facts, Unseen
  <2> QED
    BY <2>server, <2>channel, <2>handler, <2>clock, <2>client
<1>16. ASSUME NEW c \in Clients, TimerFires(c) PROVE TypeOK'
  <2>server. ServerType'
    BY <1>16 DEF TimerFires, ServerType, Facts
  <2>channel. ChannelType'
    BY <1>16 DEF TimerFires, ChannelType, ServerType
  <2>handler. HandlerType'
    BY <1>16 DEF TimerFires, HandlerType, ServerType, ChannelType, Facts, PCs,
        Unseen
  <2>clock. ClockType'
    BY <1>16 DEF TimerFires, ClockType, Off
  <2>client. ClientType'
    BY <1>16 DEF TimerFires, ClientType, HandlerType, ServerType, Facts,
        Unseen
  <2> QED
    BY <2>server, <2>channel, <2>handler, <2>clock, <2>client
<1>17. ASSUME NEW c \in Clients, Unsubscribe(c) PROVE TypeOK'
  <2>server. ServerType'
    BY <1>17 DEF Unsubscribe, ServerType, Facts
  <2>channel. ChannelType'
    BY <1>17 DEF Unsubscribe, ChannelType, ServerType
  <2>handler. HandlerType'
    BY <1>17 DEF Unsubscribe, HandlerType, ServerType, ChannelType, Facts,
        PCs, Unseen
  <2>clock. ClockType'
    BY <1>17 DEF Unsubscribe, ClockType, Off
  <2>client. ClientType'
    BY <1>17 DEF Unsubscribe, ClientType, HandlerType, ServerType, Facts,
        Unseen
  <2> QED
    BY <2>server, <2>channel, <2>handler, <2>clock, <2>client
<1> QED
  BY <1>1, <1>1a, <1>2, <1>3, <1>4, <1>5, <1>6, <1>7, <1>8, <1>9, <1>10, <1>11,
      <1>12, <1>13, <1>14, <1>15, <1>16, <1>17
  DEF Next, HandlerNext

\* In every reachable state each variable has its type.
THEOREM TypeCorrect == Spec => []TypeOK
<1>1. Init => TypeOK
  <2> SUFFICES ASSUME Init PROVE TypeOK
    OBVIOUS
  <2> USE StreamAssumption DEF Init
  <2>0. ServerType
    <3>1. 1 \in 0..(MaxChanges + 1) /\ 0 \in 0..MaxPosts
      OBVIOUS
    <3> QED
      BY <3>1 DEF ServerType, Facts
  <2>1. ClockType
    BY DEF ClockType, Off
  <2>2. ChannelType
    BY DEF ChannelType
  <2>3. HandlerType /\ ClientType
    BY DEF HandlerType, ClientType, Facts, PCs, Unseen
  <2> QED
    BY <2>0, <2>1, <2>2, <2>3 DEF TypeOK
<1>2. TypeOK /\ UNCHANGED vars => TypeOK'
  BY DEF TypeOK, ServerType, ChannelType, HandlerType, ClockType, ClientType, vars,
      factVars, serverVars, channelVars, handlerVars, clockVars, clientVars
<1> QED
  BY <1>1, <1>2, TypeStep, PTL DEF Spec

-----------------------------------------------------------------------------
(* Safety                                                                  *)

\* Every action keeps the inductive invariant.
LEMMA InvStep ==
  ASSUME TypeOK, Inv, Next PROVE Inv'
<1> USE StreamAssumption DEF TypeOK, Inv, Off, At, Goto, StartSnapshot, factVars,
      serverVars, channelVars, handlerVars, clockVars, clientVars
<1>1. ASSUME NEW p \in Parts, Change(p) PROVE Inv'
  <2>off. OffIsReset'
    BY <1>1 DEF Change, OffIsReset, HandlerType, ClientType, ClockType,
        ChannelType, PCs
  <2>grow. SnapshotsGrow'
    BY SMTT(30), <1>1 DEF Change, SnapshotsGrow, Facts, OffIsReset, Unseen, HandlerType,
        ServerType, ClientType
  <2>spaced. TimerSpaced'
    BY <1>1 DEF Change, TimerSpaced, OffIsReset, HandlerType, ClockType
  <2>open. RegisteredAreOpen'
    BY <1>1 DEF Change, RegisteredAreOpen, OffIsReset, HandlerType,
        ChannelType
  <2>behind. NeverSilentlyBehind'
    BY <1>1 DEF Change, NeverSilentlyBehind, Told, Streaming, SnapshotsGrow,
        HandlerType, ServerType, ChannelType, ClockType, ClientType
  <2> QED
    BY <2>off, <2>grow, <2>spaced, <2>open, <2>behind
<1>1a. ASSUME NEW p \in Parts, ChangeSilently(p) PROVE Inv'
  <2>off. OffIsReset'
    BY <1>1a DEF ChangeSilently, OffIsReset
  <2>grow. SnapshotsGrow'
    BY SMTT(30), <1>1a DEF ChangeSilently, SnapshotsGrow, Facts, HandlerType,
        ServerType, ClientType
  <2>spaced. TimerSpaced'
    BY <1>1a DEF ChangeSilently, TimerSpaced
  <2>open. RegisteredAreOpen'
    BY <1>1a DEF ChangeSilently, RegisteredAreOpen
  <2>behind. NeverSilentlyBehind'
    BY <1>1a DEF ChangeSilently, NeverSilentlyBehind, Told, Streaming
  <2> QED
    BY <2>off, <2>grow, <2>spaced, <2>open, <2>behind
<1>2. ASSUME NotifyStateChanged PROVE Inv'
  <2>off. OffIsReset'
    BY <1>2 DEF NotifyStateChanged, OffIsReset, HandlerType, ClientType,
        ClockType, ChannelType, PCs
  <2>grow. SnapshotsGrow'
    BY <1>2 DEF NotifyStateChanged, SnapshotsGrow, Facts, OffIsReset, Unseen,
        HandlerType, ServerType, ClientType
  <2>spaced. TimerSpaced'
    BY <1>2 DEF NotifyStateChanged, TimerSpaced, OffIsReset, HandlerType,
        ClockType
  <2>open. RegisteredAreOpen'
    BY <1>2 DEF NotifyStateChanged, RegisteredAreOpen, OffIsReset,
        HandlerType, ChannelType
  <2>behind. NeverSilentlyBehind'
    BY <1>2 DEF NotifyStateChanged, NeverSilentlyBehind, Told, Streaming,
        SnapshotsGrow, HandlerType, ServerType, ChannelType, ClockType,
        ClientType
  <2> QED
    BY <2>off, <2>grow, <2>spaced, <2>open, <2>behind
<1>3. ASSUME PostMessage PROVE Inv'
  <2>off. OffIsReset'
    BY <1>3 DEF PostMessage, OffIsReset, HandlerType, ClientType, ClockType,
        ChannelType, PCs
  <2>grow. SnapshotsGrow'
    BY <1>3 DEF PostMessage, SnapshotsGrow, Facts, OffIsReset, Unseen,
        HandlerType, ServerType, ClientType
  <2>spaced. TimerSpaced'
    BY <1>3 DEF PostMessage, TimerSpaced, OffIsReset, HandlerType, ClockType
  <2>open. RegisteredAreOpen'
    BY <1>3 DEF PostMessage, RegisteredAreOpen, OffIsReset, HandlerType,
        ChannelType
  <2>behind. NeverSilentlyBehind'
    BY <1>3 DEF PostMessage, NeverSilentlyBehind, Told, Streaming,
        SnapshotsGrow, HandlerType, ServerType, ChannelType, ClockType,
        ClientType
  <2> QED
    BY <2>off, <2>grow, <2>spaced, <2>open, <2>behind
<1>4. ASSUME Close PROVE Inv'
  <2>off. OffIsReset'
    BY <1>4 DEF Close, OffIsReset, HandlerType, ClientType, ClockType,
        ChannelType, PCs
  <2>grow. SnapshotsGrow'
    BY <1>4 DEF Close, SnapshotsGrow, Facts, OffIsReset, Unseen, HandlerType,
        ServerType, ClientType
  <2>spaced. TimerSpaced'
    BY <1>4 DEF Close, TimerSpaced, OffIsReset, HandlerType, ClockType
  <2>open. RegisteredAreOpen'
    BY <1>4 DEF Close, RegisteredAreOpen, OffIsReset, HandlerType, ChannelType
  <2>behind. NeverSilentlyBehind'
    BY <1>4 DEF Close, NeverSilentlyBehind, Told, Streaming, SnapshotsGrow,
        HandlerType, ServerType, ChannelType, ClockType, ClientType
  <2> QED
    BY <2>off, <2>grow, <2>spaced, <2>open, <2>behind
<1>5. ASSUME Tick PROVE Inv'
  <2>off. OffIsReset'
    BY <1>5 DEF Tick, OffIsReset, HandlerType, ClientType, ClockType,
        ChannelType, PCs
  <2>grow. SnapshotsGrow'
    BY <1>5 DEF Tick, SnapshotsGrow, Facts, OffIsReset, Unseen, HandlerType,
        ServerType, ClientType
  <2>spaced. TimerSpaced'
    BY <1>5 DEF Tick, TimerSpaced, OffIsReset, HandlerType, ClockType
  <2>open. RegisteredAreOpen'
    BY <1>5 DEF Tick, RegisteredAreOpen, OffIsReset, HandlerType, ChannelType
  <2>behind. NeverSilentlyBehind'
    BY SMTT(30), <1>5 DEF Tick, NeverSilentlyBehind, Told, Streaming, SnapshotsGrow,
        HandlerType, ServerType, ChannelType, ClockType, ClientType
  <2> QED
    BY <2>off, <2>grow, <2>spaced, <2>open, <2>behind
<1>6. ASSUME NEW c \in Clients, Subscribe(c) PROVE Inv'
  <2>off. OffIsReset'
    BY <1>6 DEF Subscribe, OffIsReset, HandlerType, ClientType, ClockType,
        ChannelType, PCs
  <2>grow. SnapshotsGrow'
    BY <1>6 DEF Subscribe, SnapshotsGrow, Facts, OffIsReset, Unseen,
        HandlerType, ServerType, ClientType
  <2>spaced. TimerSpaced'
    BY <1>6 DEF Subscribe, TimerSpaced, OffIsReset, HandlerType, ClockType
  <2>open. RegisteredAreOpen'
    BY <1>6 DEF Subscribe, RegisteredAreOpen, OffIsReset, HandlerType,
        ChannelType
  <2>behind. NeverSilentlyBehind'
    BY <1>6 DEF Subscribe, NeverSilentlyBehind, Told, Streaming,
        SnapshotsGrow, HandlerType, ServerType, ChannelType, ClockType,
        ClientType
  <2> QED
    BY <2>off, <2>grow, <2>spaced, <2>open, <2>behind
<1>7. ASSUME NEW c \in Clients, NEW p \in Parts, ReadPart(c, p) PROVE Inv'
  <2>off. OffIsReset'
    BY <1>7 DEF ReadPart, OffIsReset, HandlerType, ClientType, ClockType,
        ChannelType, PCs
  <2>1. \A d \in Clients, q \in Parts :
          snap'[d][q] = IF d = c /\ q = p THEN version[p] ELSE snap[d][q]
    BY <1>7 DEF ReadPart, HandlerType, Facts
  <2>2. /\ toRead'[c] = toRead[c] \ {p} /\ pc[c] = "read"
        /\ pc'[c] = IF toRead[c] = {p} THEN "sendState" ELSE "read"
        /\ \A d \in Clients : d # c => toRead'[d] = toRead[d] /\ pc'[d] = pc[d]
    BY <1>7 DEF ReadPart, HandlerType
  <2>3. UNCHANGED <<version, unnotified, announced, subs, dirty, timer, seen>>
    BY <1>7 DEF ReadPart
  <2>grow. SnapshotsGrow'
    <3>1. ASSUME NEW d \in Clients, pc'[d] = "sendState" PROVE toRead'[d] = {}
      BY <2>2, <3>1 DEF SnapshotsGrow
    <3>2. ASSUME NEW d \in Clients, NEW q \in Parts,
                 pc'[d] \in {"read", "sendState"}, q \notin toRead'[d]
          PROVE  /\ seen[d][q] <= snap'[d][q] /\ snap'[d][q] <= version[q]
                 /\ snap'[d][q] >= 1
      <4>1. CASE d = c /\ q = p
        BY <2>1, <4>1 DEF SnapshotsGrow, ServerType, Facts
      <4>2. CASE d # c \/ q # p
        BY <2>1, <2>2, <3>2, <4>2 DEF SnapshotsGrow
      <4> QED
        BY <4>1, <4>2
    <3> QED
      BY <2>3, <3>1, <3>2 DEF SnapshotsGrow
  <2>spaced. TimerSpaced'
    BY <1>7 DEF ReadPart, TimerSpaced, OffIsReset, HandlerType, ClockType
  <2>open. RegisteredAreOpen'
    BY <1>7 DEF ReadPart, RegisteredAreOpen, OffIsReset, HandlerType,
        ChannelType
  <2>4. ASSUME NEW d \in Clients, NEW q \in Parts, Streaming(d)',
               Told(d, q)' < announced[q]
        PROVE  \/ unnotified > 0 \/ dirty[d] \/ timer[d] # Off
               \/ pc'[d] = "read" /\ q \in toRead'[d]
    <3>1. CASE d # c
      BY <2>1, <2>2, <2>3, <2>4, <3>1 DEF NeverSilentlyBehind, Told, Streaming
    <3>2. CASE d = c /\ q # p
      BY <2>1, <2>2, <2>3, <2>4, <3>2 DEF NeverSilentlyBehind, Told, Streaming
    <3>3. CASE d = c /\ q = p
      <4>1. Told(c, p)' = version[p]
        BY <2>1, <2>2 DEF Told
      <4>2. announced[p] <= version[p]
        BY DEF SnapshotsGrow
      <4> QED
        BY <2>4, <3>3, <4>1, <4>2 DEF ServerType, Facts
    <3> QED
      BY <3>1, <3>2, <3>3
  <2>behind. NeverSilentlyBehind'
    BY <2>3, <2>4 DEF NeverSilentlyBehind
  <2> QED
    BY <2>off, <2>grow, <2>spaced, <2>open, <2>behind
<1>8. ASSUME NEW c \in Clients, SendState(c) PROVE Inv'
  <2>off. OffIsReset'
    BY <1>8 DEF SendState, OffIsReset, HandlerType, ClientType, ClockType,
        ChannelType, PCs
  <2>grow. SnapshotsGrow'
    BY <1>8 DEF SendState, SnapshotsGrow, Facts, OffIsReset, Unseen,
        HandlerType, ServerType, ClientType
  <2>spaced. TimerSpaced'
    BY <1>8 DEF SendState, TimerSpaced, OffIsReset, HandlerType, ClockType
  <2>open. RegisteredAreOpen'
    BY <1>8 DEF SendState, RegisteredAreOpen, OffIsReset, HandlerType,
        ChannelType
  <2>behind. NeverSilentlyBehind'
    BY <1>8 DEF SendState, NeverSilentlyBehind, Told, Streaming,
        SnapshotsGrow, HandlerType, ServerType, ChannelType, ClockType,
        ClientType
  <2> QED
    BY <2>off, <2>grow, <2>spaced, <2>open, <2>behind
<1>9. ASSUME NEW c \in Clients, SendMessage(c) PROVE Inv'
  <2>off. OffIsReset'
    BY <1>9 DEF SendMessage, OffIsReset, HandlerType, ClientType, ClockType,
        ChannelType, PCs
  <2>grow. SnapshotsGrow'
    BY <1>9 DEF SendMessage, SnapshotsGrow, Facts, OffIsReset, Unseen,
        HandlerType, ServerType, ClientType
  <2>spaced. TimerSpaced'
    BY <1>9 DEF SendMessage, TimerSpaced, OffIsReset, HandlerType, ClockType
  <2>open. RegisteredAreOpen'
    BY <1>9 DEF SendMessage, RegisteredAreOpen, OffIsReset, HandlerType,
        ChannelType
  <2>behind. NeverSilentlyBehind'
    BY <1>9 DEF SendMessage, NeverSilentlyBehind, Told, Streaming,
        SnapshotsGrow, HandlerType, ServerType, ChannelType, ClockType,
        ClientType
  <2> QED
    BY <2>off, <2>grow, <2>spaced, <2>open, <2>behind
<1>10. ASSUME NEW c \in Clients, ClientGone(c) PROVE Inv'
  <2>off. OffIsReset'
    BY <1>10 DEF ClientGone, OffIsReset, HandlerType, ClientType, ClockType,
        ChannelType, PCs
  <2>grow. SnapshotsGrow'
    BY <1>10 DEF ClientGone, SnapshotsGrow, Facts, OffIsReset, Unseen,
        HandlerType, ServerType, ClientType
  <2>spaced. TimerSpaced'
    BY <1>10 DEF ClientGone, TimerSpaced, OffIsReset, HandlerType, ClockType
  <2>open. RegisteredAreOpen'
    BY <1>10 DEF ClientGone, RegisteredAreOpen, OffIsReset, HandlerType,
        ChannelType
  <2>behind. NeverSilentlyBehind'
    BY <1>10 DEF ClientGone, NeverSilentlyBehind, Told, Streaming,
        SnapshotsGrow, HandlerType, ServerType, ChannelType, ClockType,
        ClientType
  <2> QED
    BY <2>off, <2>grow, <2>spaced, <2>open, <2>behind
<1>11. ASSUME NEW c \in Clients, Heartbeat(c) PROVE Inv'
  <2>off. OffIsReset'
    BY <1>11 DEF Heartbeat, OffIsReset, HandlerType, ClientType, ClockType,
        ChannelType, PCs
  <2>grow. SnapshotsGrow'
    BY <1>11 DEF Heartbeat, SnapshotsGrow, Facts, OffIsReset, Unseen,
        HandlerType, ServerType, ClientType
  <2>spaced. TimerSpaced'
    BY <1>11 DEF Heartbeat, TimerSpaced, OffIsReset, HandlerType, ClockType
  <2>open. RegisteredAreOpen'
    BY <1>11 DEF Heartbeat, RegisteredAreOpen, OffIsReset, HandlerType,
        ChannelType
  <2>behind. NeverSilentlyBehind'
    BY <1>11 DEF Heartbeat, NeverSilentlyBehind, Told, Streaming,
        SnapshotsGrow, HandlerType, ServerType, ChannelType, ClockType,
        ClientType
  <2> QED
    BY <2>off, <2>grow, <2>spaced, <2>open, <2>behind
<1>12. ASSUME NEW c \in Clients, SendHeartbeat(c) PROVE Inv'
  <2>off. OffIsReset'
    BY <1>12 DEF SendHeartbeat, OffIsReset, HandlerType, ClientType,
        ClockType, ChannelType, PCs
  <2>grow. SnapshotsGrow'
    BY <1>12 DEF SendHeartbeat, SnapshotsGrow, Facts, OffIsReset, Unseen,
        HandlerType, ServerType, ClientType
  <2>spaced. TimerSpaced'
    BY <1>12 DEF SendHeartbeat, TimerSpaced, OffIsReset, HandlerType,
        ClockType
  <2>open. RegisteredAreOpen'
    BY <1>12 DEF SendHeartbeat, RegisteredAreOpen, OffIsReset, HandlerType,
        ChannelType
  <2>behind. NeverSilentlyBehind'
    BY <1>12 DEF SendHeartbeat, NeverSilentlyBehind, Told, Streaming,
        SnapshotsGrow, HandlerType, ServerType, ChannelType, ClockType,
        ClientType
  <2> QED
    BY <2>off, <2>grow, <2>spaced, <2>open, <2>behind
<1>13. ASSUME NEW c \in Clients, TakeMessage(c) PROVE Inv'
  <2>off. OffIsReset'
    BY <1>13 DEF TakeMessage, OffIsReset, HandlerType, ClientType, ClockType,
        ChannelType, PCs
  <2>grow. SnapshotsGrow'
    BY <1>13 DEF TakeMessage, SnapshotsGrow, Facts, OffIsReset, Unseen,
        HandlerType, ServerType, ClientType
  <2>spaced. TimerSpaced'
    BY <1>13 DEF TakeMessage, TimerSpaced, OffIsReset, HandlerType, ClockType
  <2>open. RegisteredAreOpen'
    BY <1>13 DEF TakeMessage, RegisteredAreOpen, OffIsReset, HandlerType,
        ChannelType
  <2>behind. NeverSilentlyBehind'
    BY <1>13 DEF TakeMessage, NeverSilentlyBehind, Told, Streaming,
        SnapshotsGrow, HandlerType, ServerType, ChannelType, ClockType,
        ClientType
  <2> QED
    BY <2>off, <2>grow, <2>spaced, <2>open, <2>behind
<1>14. ASSUME NEW c \in Clients, StreamEnds(c) PROVE Inv'
  <2>off. OffIsReset'
    BY <1>14 DEF StreamEnds, OffIsReset, HandlerType, ClientType, ClockType,
        ChannelType, PCs
  <2>grow. SnapshotsGrow'
    BY <1>14 DEF StreamEnds, SnapshotsGrow, Facts, OffIsReset, Unseen,
        HandlerType, ServerType, ClientType
  <2>spaced. TimerSpaced'
    BY <1>14 DEF StreamEnds, TimerSpaced, OffIsReset, HandlerType, ClockType
  <2>open. RegisteredAreOpen'
    BY <1>14 DEF StreamEnds, RegisteredAreOpen, OffIsReset, HandlerType,
        ChannelType
  <2>behind. NeverSilentlyBehind'
    BY <1>14 DEF StreamEnds, NeverSilentlyBehind, Told, Streaming,
        SnapshotsGrow, HandlerType, ServerType, ChannelType, ClockType,
        ClientType
  <2> QED
    BY <2>off, <2>grow, <2>spaced, <2>open, <2>behind
<1>15. ASSUME NEW c \in Clients, TakeDirty(c) PROVE Inv'
  <2>off. OffIsReset'
    BY <1>15 DEF TakeDirty, OffIsReset, HandlerType, ClientType, ClockType,
        ChannelType, PCs
  <2>grow. SnapshotsGrow'
    BY ZenonT(40), <1>15 DEF TakeDirty, SnapshotsGrow, Facts, OffIsReset, Unseen,
        HandlerType, ServerType, ClientType
  <2>spaced. TimerSpaced'
    BY <1>15 DEF TakeDirty, TimerSpaced, OffIsReset, HandlerType, ClockType
  <2>open. RegisteredAreOpen'
    <3>1. pc[c] = "select" /\ \A d \in Clients : d # c => pc'[d] = pc[d]
      BY <1>15 DEF TakeDirty, HandlerType
    <3>2. pc'[c] \in {"read", "select"}
      BY <1>15 DEF TakeDirty, HandlerType
    <3> QED
      BY <1>15, <3>1, <3>2 DEF TakeDirty, RegisteredAreOpen, ServerType
  <2>behind. NeverSilentlyBehind'
    <3> SUFFICES ASSUME NEW d \in Clients, NEW p \in Parts,
                        (Streaming(d) /\ Told(d, p) < announced[p])'
                 PROVE  (\/ unnotified > 0 \/ dirty[d] \/ timer[d] # Off
                         \/ pc[d] = "read" /\ p \in toRead[d])'
      BY DEF NeverSilentlyBehind
    <3>1. CASE d # c
      <4>1. /\ pc'[d] = pc[d] /\ toRead'[d] = toRead[d]
            /\ timer'[d] = timer[d] /\ dirty'[d] = dirty[d]
        BY <1>15, <3>1 DEF TakeDirty, StartSnapshot, HandlerType, ChannelType, ClockType
      <4>2. UNCHANGED <<version, unnotified, announced, subs, snap, seen>>
        BY <1>15 DEF TakeDirty, factVars, serverVars, clientVars
      <4>3. Streaming(d) /\ Told(d, p) < announced[p]
        BY <4>1, <4>2 DEF Streaming, Told
      <4> QED
        BY <4>1, <4>2, <4>3 DEF NeverSilentlyBehind
    <3>2. CASE d = c
      BY <1>15, <3>2 DEF TakeDirty, StartSnapshot, HandlerType, ClockType, Off
    <3> QED
      BY <3>1, <3>2
  <2> QED
    BY <2>off, <2>grow, <2>spaced, <2>open, <2>behind
<1>16. ASSUME NEW c \in Clients, TimerFires(c) PROVE Inv'
  <2>off. OffIsReset'
    BY <1>16 DEF TimerFires, OffIsReset, HandlerType, ClientType, ClockType,
        ChannelType, PCs
  <2>grow. SnapshotsGrow'
    BY <1>16 DEF TimerFires, SnapshotsGrow, Facts, OffIsReset, Unseen,
        HandlerType, ServerType, ClientType
  <2>spaced. TimerSpaced'
    BY <1>16 DEF TimerFires, TimerSpaced, OffIsReset, HandlerType, ClockType
  <2>open. RegisteredAreOpen'
    BY <1>16 DEF TimerFires, RegisteredAreOpen, OffIsReset, HandlerType,
        ChannelType
  <2>behind. NeverSilentlyBehind'
    BY <1>16 DEF TimerFires, NeverSilentlyBehind, Told, Streaming,
        SnapshotsGrow, HandlerType, ServerType, ChannelType, ClockType,
        ClientType
  <2> QED
    BY <2>off, <2>grow, <2>spaced, <2>open, <2>behind
<1>17. ASSUME NEW c \in Clients, Unsubscribe(c) PROVE Inv'
  <2>off. OffIsReset'
    BY <1>17 DEF Unsubscribe, OffIsReset, HandlerType, ClientType, ClockType,
        ChannelType, PCs
  <2>grow. SnapshotsGrow'
    BY SMTT(30), <1>17 DEF Unsubscribe, SnapshotsGrow, Facts, OffIsReset, Unseen,
        HandlerType, ServerType, ClientType
  <2>spaced. TimerSpaced'
    BY <1>17 DEF Unsubscribe, TimerSpaced, OffIsReset, HandlerType, ClockType
  <2>open. RegisteredAreOpen'
    BY <1>17 DEF Unsubscribe, RegisteredAreOpen, OffIsReset, HandlerType,
        ChannelType
  <2>behind. NeverSilentlyBehind'
    BY <1>17 DEF Unsubscribe, NeverSilentlyBehind, Told, Streaming,
        SnapshotsGrow, HandlerType, ServerType, ChannelType, ClockType,
        ClientType
  <2> QED
    BY <2>off, <2>grow, <2>spaced, <2>open, <2>behind
<1> QED
  BY <1>1, <1>1a, <1>2, <1>3, <1>4, <1>5, <1>6, <1>7, <1>8, <1>9, <1>10, <1>11,
      <1>12, <1>13, <1>14, <1>15, <1>16, <1>17
  DEF Next, HandlerNext

\* The inductive invariant holds in every reachable state.
LEMMA Invariance == Spec => [](TypeOK /\ Inv)
<1>1. Init => Inv
  BY StreamAssumption DEF Init, Inv, OffIsReset, SnapshotsGrow, TimerSpaced,
      RegisteredAreOpen, NeverSilentlyBehind, Streaming, Unseen, Off
<1>2. Inv /\ UNCHANGED vars => Inv'
  BY DEF Inv, OffIsReset, SnapshotsGrow, TimerSpaced, RegisteredAreOpen,
      NeverSilentlyBehind, Streaming, Told, vars, factVars, serverVars, channelVars,
      handlerVars, clockVars, clientVars
<1> QED
  BY <1>1, <1>2, InvStep, TypeCorrect, PTL DEF Spec

\* A stream that is behind an announced change has something left that will bring
\* it up to date.
THEOREM NotSilentlyBehind == Spec => []NeverSilentlyBehind
  BY Invariance, PTL DEF Inv

\* Nothing is registered whose channel is closed, so no post or notification
\* meets a closed channel.
THEOREM NoSendOnClosed == Spec => []RegisteredAreOpen
  BY Invariance, PTL DEF Inv

\* Two snapshots of a stream are at least Interval ticks apart.
THEOREM Spaced == Spec => SpacedStates
<1>1. ASSUME TypeOK, Inv, Next, NEW c \in Clients, pc[c] = "select", pc'[c] = "read"
      PROVE  age[c] = Interval
  <2> USE StreamAssumption DEF TypeOK, At, Goto, factVars, serverVars, channelVars,
        handlerVars, clockVars, clientVars
  <2>1. TakeDirty(c) \/ TimerFires(c)
    BY <1>1 DEF Next, HandlerNext, Change, ChangeSilently, NotifyStateChanged, PostMessage, Close,
        Tick, Subscribe, ReadPart, SendState, SendMessage, ClientGone, Heartbeat,
        SendHeartbeat, TakeMessage, StreamEnds, Unsubscribe, StartSnapshot,
        TakeDirty, TimerFires, HandlerType
  <2>2. CASE TakeDirty(c)
    BY <1>1, <2>2 DEF TakeDirty, ClockType, HandlerType
  <2>3. CASE TimerFires(c)
    BY <1>1, <2>3 DEF TimerFires, ClockType, Inv, TimerSpaced, Off
  <2> QED
    BY <2>1, <2>2, <2>3
<1>2. TypeOK /\ Inv /\ [Next]_vars =>
        [\A c \in Clients :
           pc[c] = "select" /\ pc'[c] = "read" => age[c] = Interval]_vars
  BY <1>1
<1> QED
  BY <1>2, Invariance, PTL DEF Spec, SpacedStates

-----------------------------------------------------------------------------
(* The streams implement StateObserver                                     *)

\* A step that tells no registered client anything new, changes no fact and
\* registers nobody is a stutter of StateObserver.
LEMMA Stutter ==
  ASSUME UNCHANGED <<version, announced, subs>>, \A c \in subs : seen'[c] = seen[c]
  PROVE  UNCHANGED Observer!vars
  BY DEF Observer!vars, Shown

\* Every step of the streams is a step of StateObserver or a stutter.
LEMMA ObserverStep ==
  ASSUME TypeOK, Inv, Next PROVE Observer!Next \/ UNCHANGED Observer!vars
<1> USE DEF TypeOK, ServerType, ClientType, factVars, serverVars, clientVars
<1>1. ASSUME NEW p \in Parts, Change(p) PROVE Observer!Change(p)
  BY <1>1 DEF Change, Observer!Change, Shown
<1>1a. ASSUME NEW p \in Parts, ChangeSilently(p) PROVE Observer!Change(p)
  BY <1>1a DEF ChangeSilently, Observer!Change, Shown
<1>1b. ASSUME NotifyStateChanged PROVE Observer!Announce
  BY <1>1b DEF NotifyStateChanged, Observer!Announce, Shown
<1>2. ASSUME NEW c \in Clients, Subscribe(c) PROVE Observer!Join(c)
  <2>1. c \notin subs /\ seen[c] = Unseen
    BY <1>2 DEF Subscribe, At, Inv, OffIsReset
  <2> QED
    BY <1>2, <2>1 DEF Subscribe, Observer!Join, Shown
<1>3. ASSUME NEW c \in Clients, SendState(c), c \in subs PROVE Observer!Observe(c)
  <2>1. snap[c] \in [Parts -> 1..(MaxChanges + 1)]
    BY <1>3, StreamAssumption DEF SendState, At, Inv, SnapshotsGrow, HandlerType, Facts
  <2>2. \A p \in Parts : seen[c][p] <= snap[c][p] /\ snap[c][p] <= version[p]
    BY <1>3 DEF SendState, At, Inv, SnapshotsGrow
  <2>3. Shown' = [Shown EXCEPT ![c] = snap[c]] /\ Shown[c] = seen[c]
    BY <1>3 DEF SendState, Shown
  <2>4. UNCHANGED <<version, announced, subs>>
    BY <1>3 DEF SendState
  <2> QED
    BY <1>3, <2>1, <2>2, <2>3, <2>4 DEF Observer!Observe
<1>4. ASSUME NEW c \in Clients, SendState(c), c \notin subs
      PROVE  UNCHANGED Observer!vars
  BY <1>4, Stutter DEF SendState
<1>5. ASSUME Close PROVE Observer!Leave(subs)
  BY <1>5 DEF Close, Observer!Leave, Observer!Unseen, Shown, Unseen
<1>6. ASSUME NEW c \in Clients, Unsubscribe(c), c \in subs PROVE Observer!Leave({c})
  BY <1>6 DEF Unsubscribe, Observer!Leave, Observer!Unseen, Shown, Unseen
<1>7. ASSUME NEW c \in Clients, Unsubscribe(c), c \notin subs
      PROVE  UNCHANGED Observer!vars
  BY <1>7, Stutter DEF Unsubscribe
<1>8. ASSUME PostMessage \/ Tick PROVE UNCHANGED Observer!vars
  BY <1>8, Stutter DEF PostMessage, Tick
<1>9. ASSUME NEW c \in Clients,
             \/ \E p \in Parts : ReadPart(c, p)
             \/ SendMessage(c) \/ SendHeartbeat(c) \/ TakeMessage(c)
             \/ StreamEnds(c) \/ TakeDirty(c) \/ TimerFires(c)
             \/ ClientGone(c) \/ Heartbeat(c)
      PROVE  UNCHANGED Observer!vars
  BY <1>9, Stutter DEF ReadPart, SendMessage, SendHeartbeat, TakeMessage, StreamEnds,
      TakeDirty, TimerFires, ClientGone, Heartbeat
<1> QED
  BY <1>1, <1>1a, <1>1b, <1>2, <1>3, <1>4, <1>5, <1>6, <1>7, <1>8, <1>9
  DEF Next, HandlerNext, Observer!Next

\* A client is told each fact's changes in order and never one that has not
\* happened: the streams refine StateObserver.
THEOREM Refinement == Spec => Observed
<1>1. Init => Observer!Init
  BY DEF Init, Observer!Init, Observer!Unseen, Shown, Unseen
<1>2. TypeOK /\ Inv /\ [Next]_vars => [Observer!Next]_Observer!vars
  <2>1. UNCHANGED vars => UNCHANGED Observer!vars
    BY DEF vars, factVars, serverVars, clientVars, Observer!vars, Shown
  <2> QED
    BY <2>1, ObserverStep
<1> QED
  BY <1>1, <1>2, Invariance, PTL DEF Spec, Observed, Observer!Spec

-----------------------------------------------------------------------------
(* The messages of a stream                                                *)

\* What the client got, the message being sent and the buffer.
Sending(c) == IF out[c] = 0 THEN <<>> ELSE <<out[c]>>
Relayed(c) == received[c] \o Sending(c) \o msgs[c]

\* Nothing is in hand unless it is being sent or the client left meanwhile, and
\* nothing at all between two streams.
HandsKnown ==
  \A c \in Clients :
    /\ pc[c] \notin {"sendMessage", "leave"} => out[c] = 0
    /\ pc[c] = "off" => received[c] = <<>> /\ msgs[c] = <<>>

\* A sequence with the numbers of messages between two counts of the posts: in order,
\* no more than were posted, and, if it misses none, all of them.
InOrder(s, from, to, complete) ==
  /\ from <= to /\ Len(s) <= to - from
  /\ \A i \in 1..Len(s) : s[i] <= to
  /\ \A i \in 1..(Len(s) - 1) : s[i] < s[i + 1]
  /\ complete => Len(s) = to - from /\ \A i \in 1..Len(s) : s[i] = from + i

RelayedInOrder ==
  \A c \in Clients :
    InOrder(Relayed(c), joined[c], posted, Streaming(c) /\ posted - joined[c] <= Cap)

MessagesInv == HandsKnown /\ RelayedInOrder

\* One more message, at the end; and a message that is dropped.
LEMMA InOrderAppend ==
  ASSUME NEW s \in Seq(Nat), NEW from \in Nat, NEW to \in Nat, NEW complete \in BOOLEAN,
         InOrder(s, from, to, complete)
  PROVE  /\ InOrder(Append(s, to + 1), from, to + 1, complete)
         /\ InOrder(s, from, to + 1, FALSE)
<1> DEFINE t == Append(s, to + 1)
<1>1. /\ t \in Seq(Nat) /\ Len(t) = Len(s) + 1 /\ Len(s) \in Nat
      /\ \A i \in 1..Len(s) : t[i] = s[i] /\ s[i] \in Nat
      /\ t[Len(s) + 1] = to + 1
  BY AppendProperties, ElementOfSeq
<1> HIDE DEF t
<1>2. \A i \in 1..Len(t) : i = Len(s) + 1 \/ i \in 1..Len(s)
  BY <1>1
<1>3. ASSUME NEW i \in 1..Len(t) PROVE t[i] <= to + 1
  <2>1. CASE i = Len(s) + 1
    BY <1>1, <2>1
  <2>2. CASE i \in 1..Len(s)
    <3>1. t[i] \in Nat /\ t[i] <= to
      BY <1>1, <2>2 DEF InOrder
    <3> QED
      BY <3>1
  <2> QED
    BY <1>2, <2>1, <2>2
<1>4. \A i \in 1..(Len(t) - 1) : t[i] < t[i + 1]
  <2> SUFFICES ASSUME NEW i \in 1..Len(s) PROVE t[i] < t[i + 1]
    BY <1>1
  <2>1. CASE i = Len(s)
    BY <1>1, <2>1 DEF InOrder
  <2>2. CASE i # Len(s)
    <3>1. i \in 1..(Len(s) - 1) /\ i + 1 \in 1..Len(s)
      BY <1>1, <2>2
    <3> QED
      BY <1>1, <3>1 DEF InOrder
  <2> QED
    BY <2>1, <2>2
<1>5. ASSUME complete PROVE Len(t) = to + 1 - from /\ \A i \in 1..Len(t) : t[i] = from + i
  <2>1. Len(s) = to - from /\ \A i \in 1..Len(s) : s[i] = from + i
    BY <1>5 DEF InOrder
  <2>2. Len(t) = to + 1 - from /\ t[Len(s) + 1] = from + (Len(s) + 1)
    BY <1>1, <2>1
  <2>3. \A i \in 1..Len(t) : t[i] = from + i
    BY <1>1, <1>2, <2>1, <2>2
  <2> QED
    BY <2>2, <2>3
<1>6. InOrder(t, from, to + 1, complete)
  BY <1>1, <1>3, <1>4, <1>5 DEF InOrder
<1>7. InOrder(s, from, to + 1, FALSE)
  BY <1>1 DEF InOrder
<1> QED
  BY <1>6, <1>7 DEF t

\* What a stream relays is a sequence of message numbers, and what is in its buffer
\* is part of it.
LEMMA RelayedType ==
  ASSUME TypeOK, NEW c \in Clients
  PROVE  /\ received[c] \in Seq(Nat) /\ msgs[c] \in Seq(Nat) /\ Sending(c) \in Seq(Nat)
         /\ Relayed(c) \in Seq(Nat) /\ Len(msgs[c]) <= Len(Relayed(c))
<1>1. 1..MaxPosts \subseteq Nat /\ 0..MaxPosts \subseteq Nat
  BY StreamAssumption
<1>2. received[c] \in Seq(Nat) /\ msgs[c] \in Seq(Nat)
  BY <1>1, SeqMonotonic DEF TypeOK, ClientType, ChannelType
<1>3. Sending(c) \in Seq(Nat)
  BY <1>1 DEF TypeOK, HandlerType, Sending
<1>4. /\ received[c] \o Sending(c) \in Seq(Nat)
      /\ Relayed(c) \in Seq(Nat)
      /\ Len(Relayed(c)) = Len(received[c] \o Sending(c)) + Len(msgs[c])
  BY <1>2, <1>3, ConcatProperties DEF Relayed
<1> DEFINE m == Len(received[c] \o Sending(c))
           n == Len(msgs[c])
           k == Len(Relayed(c))
<1>5. m \in Nat /\ n \in Nat /\ k = m + n
  BY <1>2, <1>4, LenProperties
<1>6. n <= k
  <2> HIDE DEF k, m, n
  <2> QED
    BY <1>5
<1> QED
  BY <1>2, <1>3, <1>4, <1>6

\* Concatenation is associative.
LEMMA Regroup ==
  \A u, v, w \in Seq(Nat) : (u \o v) \o w = u \o (v \o w)
  BY SMTT(30), ConcatAssociative

\* A handler that takes a message or sends it relays what it relayed before.
LEMMA TakeKeepsRelayed ==
  ASSUME TypeOK, NEW c \in Clients, out[c] = 0, msgs[c] # <<>>, Head(msgs[c]) # 0
  PROVE  received[c] \o <<Head(msgs[c])>> \o Tail(msgs[c]) = Relayed(c)
<1>1. received[c] \in Seq(Nat) /\ msgs[c] \in Seq(Nat)
  BY RelayedType
<1>2. Head(msgs[c]) \in Nat /\ Tail(msgs[c]) \in Seq(Nat)
  BY <1>1, HeadTailProperties
<1>3. <<Head(msgs[c])>> \o Tail(msgs[c]) = msgs[c]
  <2> DEFINE q == msgs[c]
  <2>1. q \in Seq(Nat) /\ q # <<>>
    BY <1>1
  <2> HIDE DEF q
  <2>2. /\ <<Head(q)>> \in Seq(Nat) /\ Len(<<Head(q)>>) = 1 /\ Head(q) = q[1]
        /\ Tail(q) \in Seq(Nat) /\ Len(Tail(q)) = Len(q) - 1 /\ Len(q) \in Nat \ {0}
        /\ \A i \in 1..Len(Tail(q)) : Tail(q)[i] = q[i + 1]
    BY <2>1, HeadTailProperties, EmptySeq
  <2>3. /\ <<Head(q)>> \o Tail(q) \in Seq(Nat) /\ Len(<<Head(q)>> \o Tail(q)) = Len(q)
        /\ \A i \in 1..Len(q) : (<<Head(q)>> \o Tail(q))[i] = q[i]
    BY <2>2
  <2>4. <<Head(q)>> \o Tail(q) = q
    BY <2>1, <2>3, SeqEqual
  <2> QED
    BY <2>4 DEF q
<1>4. received[c] \o <<>> = received[c] /\ Sending(c) = <<>>
  BY <1>1, ConcatEmptySeq DEF Sending
<1> DEFINE r == received[c]
           h == <<Head(msgs[c])>>
           q == Tail(msgs[c])
<1>5. r \in Seq(Nat) /\ h \in Seq(Nat) /\ q \in Seq(Nat)
  BY <1>1, <1>2
<1>6. (r \o h) \o q = r \o (h \o q)
  BY <1>5, Regroup
<1> QED
  BY <1>3, <1>4, <1>6 DEF Relayed

\* A send keeps the order of what was relayed.
LEMMA SendKeepsRelayed ==
  ASSUME TypeOK, NEW c \in Clients, out[c] # 0
  PROVE  Append(received[c], out[c]) \o <<>> \o msgs[c] = Relayed(c)
<1>1. received[c] \in Seq(Nat) /\ out[c] \in Nat /\ Sending(c) = <<out[c]>>
  BY RelayedType, StreamAssumption DEF Sending, TypeOK, HandlerType
<1>2. Append(received[c], out[c]) = received[c] \o <<out[c]>>
      /\ Append(received[c], out[c]) \in Seq(Nat)
  BY <1>1, AppendIsConcat, AppendProperties
<1>3. Append(received[c], out[c]) \o <<>> = received[c] \o <<out[c]>>
  BY <1>2, ConcatEmptySeq
<1> QED
  BY <1>1, <1>3 DEF Relayed

\* A client for which nothing was posted keeps its order.
LEMMA OrderKept ==
  ASSUME TypeOK, MessagesInv, NEW c \in Clients,
         posted' = posted, joined'[c] = joined[c], Relayed(c)' = Relayed(c),
         Streaming(c)' => Streaming(c)
  PROVE  InOrder(Relayed(c), joined[c], posted, Streaming(c) /\ posted - joined[c] <= Cap)'
  BY DEF MessagesInv, RelayedInOrder, InOrder

\* MessagesInv is inductive.
LEMMA MessagesStep ==
  ASSUME TypeOK, TypeOK', Inv, MessagesInv, Next PROVE MessagesInv'
<1> USE DEF At, Goto, StartSnapshot, factVars, serverVars, channelVars, handlerVars, clockVars,
      clientVars
<1>0. /\ pc \in [Clients -> PCs] /\ out \in [Clients -> 0..MaxPosts]
      /\ msgs \in [Clients -> Seq(1..MaxPosts)] /\ received \in [Clients -> Seq(1..MaxPosts)]
      /\ joined \in [Clients -> 0..MaxPosts] /\ posted \in 0..MaxPosts
      /\ MaxPosts \in Nat /\ Cap \in Nat
  BY StreamAssumption DEF TypeOK, HandlerType, ChannelType, ClientType, ServerType
\* Steps that move no message and register nobody.
<1>1. ASSUME UNCHANGED <<posted, joined, received, out, msgs>>,
             \A c \in Clients : /\ Streaming(c)' => Streaming(c)
                                /\ pc'[c] = "off" => pc[c] = "off"
                                /\ pc[c] \in {"sendMessage", "leave"}
                                     => pc'[c] \in {"sendMessage", "leave"}
      PROVE  MessagesInv'
  <2>1. HandsKnown'
    BY <1>1 DEF MessagesInv, HandsKnown
  <2>2. \A c \in Clients : Relayed(c)' = Relayed(c)
    BY <1>1 DEF Relayed, Sending
  <2>3. RelayedInOrder'
    BY <1>1, <2>2, OrderKept DEF RelayedInOrder
  <2> QED
    BY <2>1, <2>3 DEF MessagesInv
<1>2. ASSUME (\E p \in Parts : Change(p) \/ ChangeSilently(p)) \/ NotifyStateChanged
               \/ Close \/ Tick
      PROVE  MessagesInv'
  BY <1>1, <1>2 DEF Change, ChangeSilently, NotifyStateChanged, Close, Tick, Streaming
<1>3. ASSUME NEW c \in Clients, (\E p \in Parts : ReadPart(c, p)) \/ SendState(c) \/ ClientGone(c)
               \/ Heartbeat(c) \/ SendHeartbeat(c) \/ StreamEnds(c) \/ TakeDirty(c) \/ TimerFires(c)
      PROVE  MessagesInv'
  <2>1. UNCHANGED <<posted, joined, received, out, msgs, subs>>
    BY <1>3 DEF ReadPart, SendState, ClientGone, Heartbeat, SendHeartbeat, StreamEnds, TakeDirty,
        TimerFires
  <2>2. \/ pc' = pc
        \/ /\ pc[c] \notin {"off", "leave"}
           /\ \E x \in PCs \ {"off"} : /\ pc' = [pc EXCEPT ![c] = x]
                                       /\ pc[c] = "sendMessage" => x = "leave"
    BY <1>3 DEF ReadPart, SendState, ClientGone, Heartbeat, SendHeartbeat, StreamEnds, TakeDirty,
        TimerFires, PCs
  <2>3. \A d \in Clients : /\ Streaming(d)' => Streaming(d)
                           /\ pc'[d] = "off" => pc[d] = "off"
                           /\ pc[d] \in {"sendMessage", "leave"}
                                => pc'[d] \in {"sendMessage", "leave"}
    BY <1>0, <2>1, <2>2 DEF Streaming
  <2> QED
    BY <1>1, <2>1, <2>3
<1>4. ASSUME PostMessage PROVE MessagesInv'
  <2>1. /\ posted' = posted + 1 /\ UNCHANGED <<joined, received, out, pc, subs>>
        /\ \A c \in Clients :
             msgs'[c] = IF c \in subs /\ Len(msgs[c]) < Cap THEN Append(msgs[c], posted + 1)
                                                            ELSE msgs[c]
    BY <1>4 DEF PostMessage
  <2>2. HandsKnown'
    BY <2>1 DEF MessagesInv, HandsKnown, Inv, OffIsReset
  <2>3. ASSUME NEW c \in Clients
        PROVE  InOrder(Relayed(c), joined[c], posted, Streaming(c) /\ posted - joined[c] <= Cap)'
    <3> DEFINE complete == Streaming(c) /\ posted - joined[c] <= Cap
    <3>1. /\ Relayed(c) \in Seq(Nat) /\ Len(msgs[c]) <= Len(Relayed(c)) /\ Sending(c) \in Seq(Nat)
          /\ received[c] \in Seq(Nat) /\ msgs[c] \in Seq(Nat)
          /\ InOrder(Relayed(c), joined[c], posted, complete)
      BY RelayedType DEF MessagesInv, RelayedInOrder
    <3>2. /\ joined[c] \in Nat /\ posted \in Nat /\ complete \in BOOLEAN
          /\ Len(msgs[c]) \in Nat
      BY <1>0, <3>1, LenProperties
    <3>3. InOrder(Append(Relayed(c), posted + 1), joined[c], posted + 1, complete)
          /\ InOrder(Relayed(c), joined[c], posted + 1, FALSE)
      BY <3>1, <3>2, InOrderAppend
    <3>4. /\ (Streaming(c) <=> Streaming(c)') /\ joined'[c] = joined[c]
          /\ received'[c] = received[c] /\ Sending(c)' = Sending(c)
      BY <2>1 DEF Streaming, Sending
    <3>5. (Streaming(c) /\ posted - joined[c] <= Cap)' =>
             complete /\ c \in subs /\ Len(msgs[c]) < Cap
      BY <1>0, <2>1, <3>1, <3>2, <3>4 DEF Streaming, InOrder
    <3>6. CASE c \in subs /\ Len(msgs[c]) < Cap
      <4>1. Relayed(c)' = Append(Relayed(c), posted + 1)
        <5>1. received[c] \o Sending(c) \in Seq(Nat) /\ posted + 1 \in Nat /\ <<posted + 1>> \in Seq(Nat)
          BY <3>1, <3>2, ConcatProperties
        <5>2. Append(msgs[c], posted + 1) = msgs[c] \o <<posted + 1>>
              /\ Append(Relayed(c), posted + 1) = Relayed(c) \o <<posted + 1>>
          BY <3>1, <5>1, AppendIsConcat
        <5> DEFINE r == received[c] \o Sending(c)
                   q == msgs[c]
                   n == <<posted + 1>>
        <5>3. (r \o q) \o n = r \o (q \o n)
          <6>1. r \in Seq(Nat) /\ q \in Seq(Nat) /\ n \in Seq(Nat)
            BY <3>1, <5>1
          <6> HIDE DEF r, q, n
          <6> QED
            BY <6>1, Regroup
        <5> QED
          BY <2>1, <3>4, <3>6, <5>2, <5>3 DEF Relayed
      <4> QED
        BY <2>1, <3>3, <3>4, <3>5, <4>1 DEF InOrder
    <3>7. CASE ~(c \in subs /\ Len(msgs[c]) < Cap)
      <4>1. Relayed(c)' = Relayed(c)
        BY <2>1, <3>4, <3>7 DEF Relayed
      <4> QED
        BY <2>1, <3>3, <3>4, <3>5, <3>7, <4>1 DEF InOrder
    <3> QED
      BY <3>6, <3>7
  <2> QED
    BY <2>2, <2>3 DEF MessagesInv, RelayedInOrder
<1>5. ASSUME NEW c \in Clients, Subscribe(c) PROVE MessagesInv'
  <2>1. /\ UNCHANGED <<posted, received, out, msgs>> /\ pc[c] = "off" /\ pc'[c] = "read"
        /\ joined'[c] = posted /\ subs' = subs \cup {c}
        /\ \A d \in Clients : d # c => pc'[d] = pc[d] /\ joined'[d] = joined[d]
    BY <1>0, <1>5 DEF Subscribe
  <2>2. HandsKnown'
    BY <2>1 DEF MessagesInv, HandsKnown
  <2>3. \A d \in Clients : Relayed(d)' = Relayed(d)
    BY <2>1 DEF Relayed, Sending
  <2>4. Relayed(c)' = <<>> \o <<>> \o <<>>
    BY <2>1, <2>3 DEF Relayed, Sending, MessagesInv, HandsKnown
  <2>5. Relayed(c)' = <<>>
    BY <2>4, ConcatEmptySeq, EmptySeq
  <2>6. ASSUME NEW d \in Clients
        PROVE  InOrder(Relayed(d), joined[d], posted, Streaming(d) /\ posted - joined[d] <= Cap)'
    <3>1. CASE d = c
      BY <1>0, <2>1, <2>5, <3>1 DEF InOrder
    <3>2. CASE d # c
      BY <2>1, <2>3, <3>2, OrderKept DEF Streaming
    <3> QED
      BY <3>1, <3>2
  <2> QED
    BY <2>2, <2>6 DEF MessagesInv, RelayedInOrder
<1>6. ASSUME NEW c \in Clients, SendMessage(c) PROVE MessagesInv'
  <2>1. /\ UNCHANGED <<posted, joined, msgs, subs>> /\ pc[c] = "sendMessage" /\ pc'[c] = "select"
        /\ received'[c] = Append(received[c], out[c]) /\ out'[c] = 0 /\ out[c] # 0
        /\ \A d \in Clients : d # c =>
             pc'[d] = pc[d] /\ received'[d] = received[d] /\ out'[d] = out[d]
    BY <1>0, <1>6 DEF SendMessage, TypeOK, HandlerType
  <2>2. HandsKnown'
    BY <2>1 DEF MessagesInv, HandsKnown
  <2>3. Relayed(c)' = Relayed(c)
    BY <2>1, SendKeepsRelayed DEF Relayed, Sending
  <2>4. \A d \in Clients : Relayed(d)' = Relayed(d) /\ (Streaming(d)' => Streaming(d))
    BY <2>1, <2>3 DEF Relayed, Sending, Streaming
  <2>5. RelayedInOrder'
    BY <2>1, <2>4, OrderKept DEF RelayedInOrder
  <2> QED
    BY <2>2, <2>5 DEF MessagesInv
<1>7. ASSUME NEW c \in Clients, TakeMessage(c) PROVE MessagesInv'
  <2>1. /\ UNCHANGED <<posted, joined, received, subs>> /\ pc[c] = "select" /\ pc'[c] = "sendMessage"
        /\ msgs[c] # <<>> /\ msgs'[c] = Tail(msgs[c]) /\ out'[c] = Head(msgs[c])
        /\ \A d \in Clients : d # c => pc'[d] = pc[d] /\ msgs'[d] = msgs[d] /\ out'[d] = out[d]
    BY <1>0, <1>7 DEF TakeMessage
  <2>2. out[c] = 0
    BY <2>1 DEF MessagesInv, HandsKnown
  <2>3. Head(msgs[c]) # 0
    BY <1>0, <2>1
  <2>4. HandsKnown'
    BY <2>1 DEF MessagesInv, HandsKnown
  <2>5. Relayed(c)' = Relayed(c)
    BY <2>1, <2>2, <2>3, TakeKeepsRelayed DEF Relayed, Sending
  <2>6. \A d \in Clients : Relayed(d)' = Relayed(d) /\ (Streaming(d)' => Streaming(d))
    BY <2>1, <2>5 DEF Relayed, Sending, Streaming
  <2>7. RelayedInOrder'
    BY <2>1, <2>6, OrderKept DEF RelayedInOrder
  <2> QED
    BY <2>4, <2>7 DEF MessagesInv
<1>8. ASSUME NEW c \in Clients, Unsubscribe(c) PROVE MessagesInv'
  <2>1. /\ posted' = posted /\ pc'[c] = "off" /\ received'[c] = <<>> /\ msgs'[c] = <<>>
        /\ out'[c] = 0 /\ joined'[c] = 0 /\ c \notin subs' /\ subs' = subs \ {c}
        /\ \A d \in Clients : d # c =>
             /\ pc'[d] = pc[d] /\ received'[d] = received[d] /\ out'[d] = out[d]
             /\ msgs'[d] = msgs[d] /\ joined'[d] = joined[d]
    BY <1>0, <1>8 DEF Unsubscribe
  <2>2. HandsKnown'
    BY <2>1 DEF MessagesInv, HandsKnown
  <2>3. Relayed(c)' = <<>> \o <<>> \o <<>>
    BY <2>1 DEF Relayed, Sending
  <2>4. Relayed(c)' = <<>>
    BY <2>3, ConcatEmptySeq, EmptySeq
  <2>5. ASSUME NEW d \in Clients
        PROVE  InOrder(Relayed(d), joined[d], posted, Streaming(d) /\ posted - joined[d] <= Cap)'
    <3>1. CASE d = c
      BY <1>0, <2>1, <2>4, <3>1 DEF InOrder, Streaming
    <3>2. CASE d # c
      <4>1. Relayed(d)' = Relayed(d) /\ (Streaming(d)' => Streaming(d))
        BY <2>1, <3>2 DEF Relayed, Sending, Streaming
      <4> QED
        BY <2>1, <3>2, <4>1, OrderKept
    <3> QED
      BY <3>1, <3>2
  <2> QED
    BY <2>2, <2>5 DEF MessagesInv, RelayedInOrder
<1> QED
  BY <1>2, <1>3, <1>4, <1>5, <1>6, <1>7, <1>8 DEF Next, HandlerNext

\* Messages arrive in the order they were posted, none twice, and of the first Cap
\* posted after the client subscribed none is lost, for any buffer and any number of
\* posts (PostMessage).
THEOREM Ordered == Spec => []MessagesInOrder
<1>1. Init => MessagesInv
  <2> SUFFICES ASSUME Init PROVE MessagesInv
    OBVIOUS
  <2>1. HandsKnown
    BY DEF Init, HandsKnown
  <2>2. ASSUME NEW c \in Clients PROVE Relayed(c) = <<>>
    <3>1. Relayed(c) = <<>> \o <<>> \o <<>>
      BY DEF Init, Relayed, Sending
    <3> QED
      BY <3>1, ConcatEmptySeq, EmptySeq
  <2>3. RelayedInOrder
    BY <2>2 DEF Init, RelayedInOrder, InOrder, Streaming
  <2> QED
    BY <2>1, <2>3 DEF MessagesInv
<1>2. TypeOK /\ MessagesInv /\ UNCHANGED vars => MessagesInv'
  <2> SUFFICES ASSUME TypeOK, MessagesInv, UNCHANGED vars PROVE MessagesInv'
    OBVIOUS
  <2>1. UNCHANGED <<posted, joined, received, out, msgs, pc, subs>>
    BY DEF vars, serverVars, channelVars, handlerVars, clientVars
  <2>2. HandsKnown'
    BY <2>1 DEF MessagesInv, HandsKnown
  <2>3. RelayedInOrder'
    BY <2>1 DEF MessagesInv, RelayedInOrder, Relayed, Sending, Streaming, InOrder
  <2> QED
    BY <2>2, <2>3 DEF MessagesInv
<1>3. TypeOK /\ TypeOK' /\ Inv /\ MessagesInv /\ [Next]_vars => MessagesInv'
  BY <1>2, MessagesStep
<1>4. TypeOK /\ MessagesInv => MessagesInOrder
  <2> SUFFICES ASSUME TypeOK, MessagesInv, NEW c \in Clients
               PROVE  /\ \A i \in 1..(Len(Relayed(c)) - 1) : Relayed(c)[i] < Relayed(c)[i + 1]
                      /\ Streaming(c) /\ posted - joined[c] <= Cap =>
                           ToSet(Relayed(c)) = (joined[c] + 1)..posted
    BY DEF MessagesInOrder, Relayed, Sending
  <2> DEFINE s == Relayed(c)
  <2>1. s \in Seq(Nat) /\ joined[c] \in Nat /\ posted \in Nat
    BY RelayedType, StreamAssumption DEF TypeOK, ClientType, ServerType
  <2>2. InOrder(s, joined[c], posted, Streaming(c) /\ posted - joined[c] <= Cap)
    BY DEF MessagesInv, RelayedInOrder
  <2> HIDE DEF s
  <2>3. \A i \in 1..(Len(s) - 1) : s[i] < s[i + 1]
    BY <2>2 DEF InOrder
  <2>4. ASSUME Streaming(c), posted - joined[c] <= Cap
        PROVE  ToSet(s) = (joined[c] + 1)..posted
    <3>1. Len(s) = posted - joined[c] /\ \A i \in 1..Len(s) : s[i] = joined[c] + i
      BY <2>2, <2>4 DEF InOrder
    <3>2. DOMAIN s = 1..Len(s)
      BY <2>1, LenProperties
    <3>3. ASSUME NEW n \in (joined[c] + 1)..posted PROVE \E i \in DOMAIN s : s[i] = n
      <4>1. n - joined[c] \in DOMAIN s /\ s[n - joined[c]] = n
        BY <2>1, <3>1, <3>2
      <4> QED
        BY <4>1
    <3>4. \A i \in DOMAIN s : s[i] \in (joined[c] + 1)..posted
      BY <2>1, <3>1, <3>2
    <3> QED
      BY <3>3, <3>4 DEF ToSet
  <2> QED
    BY <2>3, <2>4 DEF s
<1> QED
  BY <1>1, <1>3, <1>4, Invariance, PTL DEF Spec
================================================================================
