------------------------------ MODULE EventStream ------------------------------
(***************************************************************************)
(* The event streams of internal/control and internal/webui: a server      *)
(* keeps a subscriber per stream, with a one-slot channel that marks its   *)
(* state dirty and a buffered channel of messages.  A goroutine that       *)
(* changes the daemon's state notifies the server afterwards, or, at a few *)
(* places, does not.  The handler of a stream sends a snapshot at once and *)
(* another after notifications, at least Interval ticks after the last,    *)
(* and relays the messages.                                                *)
(*                                                                         *)
(* A snapshot is assembled fact by fact without a common lock              *)
(* (Daemon.State), so it may mix old and new facts.                        *)
(***************************************************************************)
EXTENDS Integers, Sequences, SequencesExt

CONSTANTS
  Clients,     \* programs that may open a stream
  Parts,       \* facts of the snapshot, each read on its own
  Cap,         \* subscriberBuffer
  Interval,    \* StateCoalesceInterval, in ticks
  MaxChanges,  \* bound: changes of one fact
  MaxPosts     \* bound: messages posted

ASSUME StreamAssumption ==
  /\ Cap \in Nat \ {0} /\ Interval \in Nat \ {0}
  /\ MaxChanges \in Nat /\ MaxPosts \in Nat
  /\ Parts # {}

VARIABLES
  version,     \* how often each fact has changed, 1 at the start
  unnotified,  \* changes whose notifyStateChanged has not run yet
  announced,   \* the version of each fact that a notification made or due covers
  posted,      \* messages posted so far
  closed,      \* s.closed
  subs,        \* s.subs: clients whose subscriber is registered
  dirty,       \* sub.dirty holds a token
  msgs,        \* sub.msgs, as the numbers of the messages
  ended,       \* sub.msgs is closed
  pc,          \* control point of each client's handler
  toRead,      \* facts the snapshot under way has still to read
  snap,        \* the facts it has read
  out,         \* the message being sent, or 0
  timer,       \* ticks until timerC fires, or Off
  age,         \* ticks since lastState, as far as they matter
  seen,        \* facts the client was last told
  received,    \* messages the client got on this stream
  joined       \* `posted` when the client subscribed

factVars    == <<version, unnotified, announced>>
serverVars  == <<posted, closed, subs>>
channelVars == <<dirty, msgs, ended>>
handlerVars == <<pc, toRead, snap, out>>
clockVars   == <<timer, age>>
clientVars  == <<seen, received, joined>>
vars == <<factVars, serverVars, channelVars, handlerVars, clockVars, clientVars>>

Off    == -1
Unseen == [p \in Parts |-> 0]
Facts  == [Parts -> 0..(MaxChanges + 1)]
PCs    == {"off", "read", "sendState", "select", "sendMessage", "ping", "leave"}

ServerType ==
  /\ version \in Facts /\ unnotified \in Nat /\ announced \in Facts
  /\ posted \in 0..MaxPosts /\ closed \in BOOLEAN /\ subs \subseteq Clients

ChannelType ==
  /\ dirty \in [Clients -> BOOLEAN] /\ ended \in [Clients -> BOOLEAN]
  /\ msgs \in [Clients -> Seq(1..MaxPosts)]
  /\ \A c \in Clients : Len(msgs[c]) <= Cap

HandlerType ==
  /\ pc \in [Clients -> PCs] /\ toRead \in [Clients -> SUBSET Parts]
  /\ snap \in [Clients -> Facts] /\ out \in [Clients -> 0..MaxPosts]
  /\ \A c \in Clients : pc[c] = "sendMessage" => out[c] # 0

ClockType ==
  /\ timer \in [Clients -> Off..Interval] /\ age \in [Clients -> 0..Interval]

ClientType ==
  /\ seen \in [Clients -> Facts]
  /\ received \in [Clients -> Seq(1..MaxPosts)]
  /\ joined \in [Clients -> 0..MaxPosts]

TypeOK == ServerType /\ ChannelType /\ HandlerType /\ ClockType /\ ClientType

Init ==
  /\ version = [p \in Parts |-> 1] /\ unnotified = 0 /\ announced = version
  /\ posted = 0 /\ closed = FALSE /\ subs = {}
  /\ dirty = [c \in Clients |-> FALSE]
  /\ msgs = [c \in Clients |-> <<>>]
  /\ ended = [c \in Clients |-> FALSE]
  /\ pc = [c \in Clients |-> "off"]
  /\ toRead = [c \in Clients |-> {}]
  /\ snap = [c \in Clients |-> Unseen]
  /\ out = [c \in Clients |-> 0]
  /\ timer = [c \in Clients |-> Off]
  /\ age = [c \in Clients |-> 0]
  /\ seen = [c \in Clients |-> Unseen]
  /\ received = [c \in Clients |-> <<>>]
  /\ joined = [c \in Clients |-> 0]

-----------------------------------------------------------------------------
(* The daemon                                                              *)

\* A goroutine changes a fact; its notification follows as a step of its own.
Change(p) ==
  /\ version[p] <= MaxChanges
  /\ version' = [version EXCEPT ![p] = @ + 1]
  /\ unnotified' = unnotified + 1
  /\ announced' = [announced EXCEPT ![p] = version'[p]]
  /\ UNCHANGED <<serverVars, channelVars, handlerVars, clockVars, clientVars>>

\* A change nobody announces: a stale Grok completion clears the session, the code
\* and the flag and returns, and a started login's session is stored last.
ChangeSilently(p) ==
  /\ version[p] <= MaxChanges
  /\ version' = [version EXCEPT ![p] = @ + 1]
  /\ UNCHANGED <<unnotified, announced, serverVars, channelVars, handlerVars,
                 clockVars, clientVars>>

\* The mark makes a stream read every fact anew, so it covers silent changes too.
NotifyStateChanged ==
  /\ unnotified > 0
  /\ unnotified' = unnotified - 1
  /\ announced' = version
  /\ dirty' = [c \in Clients |-> dirty[c] \/ c \in subs]
  /\ UNCHANGED <<version, serverVars, msgs, ended, handlerVars, clockVars, clientVars>>

\* Mutant: the last free slot of the buffer is never used.
PostMessage_WastesSlot ==
  /\ posted < MaxPosts
  /\ posted' = posted + 1
  /\ msgs' = [c \in Clients |-> IF c \in subs /\ Len(msgs[c]) < Cap - 1
                                THEN Append(msgs[c], posted') ELSE msgs[c]]
  /\ UNCHANGED <<factVars, closed, subs, dirty, ended, handlerVars, clockVars,
                 clientVars>>

\* A full buffer drops the message.
PostMessage ==
  /\ posted < MaxPosts
  /\ posted' = posted + 1
  /\ msgs' = [c \in Clients |-> IF c \in subs /\ Len(msgs[c]) < Cap
                                THEN Append(msgs[c], posted') ELSE msgs[c]]
  /\ UNCHANGED <<factVars, closed, subs, dirty, ended, handlerVars, clockVars,
                 clientVars>>

\* Mutant: the subscribers stay registered.
Close_KeepsSubs ==
  /\ ~closed
  /\ closed' = TRUE
  /\ ended' = [c \in Clients |-> ended[c] \/ c \in subs]
  /\ UNCHANGED <<factVars, posted, subs, dirty, msgs, handlerVars, clockVars,
                 clientVars>>

Close ==
  /\ ~closed
  /\ closed' = TRUE
  /\ subs' = {}
  /\ ended' = [c \in Clients |-> ended[c] \/ c \in subs]
  /\ UNCHANGED <<factVars, posted, dirty, msgs, handlerVars, clockVars, clientVars>>

-----------------------------------------------------------------------------
(* handleEvents                                                            *)

At(c, from) == pc[c] = from
Goto(c, to) == pc' = [pc EXCEPT ![c] = to]

StartSnapshot(c) == Goto(c, "read") /\ toRead' = [toRead EXCEPT ![c] = Parts]

\* subscribe, which a closed server refuses, and the first sendState.
Subscribe(c) ==
  /\ At(c, "off") /\ ~closed
  /\ subs' = subs \cup {c}
  /\ joined' = [joined EXCEPT ![c] = posted]
  /\ StartSnapshot(c)
  /\ UNCHANGED <<factVars, posted, closed, channelVars, snap, out, clockVars, seen,
                 received>>

\* One fact of provider.State().
ReadPart(c, p) ==
  /\ At(c, "read") /\ p \in toRead[c]
  /\ snap' = [snap EXCEPT ![c][p] = version[p]]
  /\ toRead' = [toRead EXCEPT ![c] = @ \ {p}]
  /\ pc' = IF toRead[c] = {p} THEN [pc EXCEPT ![c] = "sendState"] ELSE pc
  /\ UNCHANGED <<factVars, serverVars, channelVars, out, clockVars, clientVars>>

\* Mutant: the snapshot just sent clears the mark.
SendState_ClearsMark(c) ==
  /\ At(c, "sendState")
  /\ seen' = [seen EXCEPT ![c] = snap[c]]
  /\ age' = [age EXCEPT ![c] = 0]
  /\ dirty' = [dirty EXCEPT ![c] = FALSE]
  /\ Goto(c, "select")
  /\ UNCHANGED <<factVars, serverVars, msgs, ended, toRead, snap, out, timer,
                 received, joined>>

SendState(c) ==
  /\ At(c, "sendState")
  /\ seen' = [seen EXCEPT ![c] = snap[c]]
  /\ age' = [age EXCEPT ![c] = 0]
  /\ Goto(c, "select")
  /\ UNCHANGED <<factVars, serverVars, channelVars, toRead, snap, out, timer,
                 received, joined>>

SendMessage(c) ==
  /\ At(c, "sendMessage")
  /\ received' = [received EXCEPT ![c] = Append(@, out[c])]
  /\ out' = [out EXCEPT ![c] = 0]
  /\ Goto(c, "select")
  /\ UNCHANGED <<factVars, serverVars, channelVars, toRead, snap, clockVars, seen,
                 joined>>

\* The client is gone: a write fails, or the request context is done.
ClientGone(c) ==
  /\ pc[c] \in {"sendState", "sendMessage", "ping", "select"}
  /\ Goto(c, "leave")
  /\ UNCHANGED <<factVars, serverVars, channelVars, toRead, snap, out, clockVars,
                 clientVars>>

\* The heartbeat of the web UI's streams.
Heartbeat(c) ==
  /\ At(c, "select")
  /\ Goto(c, "ping")
  /\ UNCHANGED <<factVars, serverVars, channelVars, toRead, snap, out, clockVars,
                 clientVars>>

SendHeartbeat(c) ==
  /\ At(c, "ping")
  /\ Goto(c, "select")
  /\ UNCHANGED <<factVars, serverVars, channelVars, toRead, snap, out, clockVars,
                 clientVars>>

\* A closed channel still yields what it holds.
TakeMessage(c) ==
  /\ At(c, "select") /\ msgs[c] # <<>>
  /\ out' = [out EXCEPT ![c] = Head(msgs[c])]
  /\ msgs' = [msgs EXCEPT ![c] = Tail(@)]
  /\ Goto(c, "sendMessage")
  /\ UNCHANGED <<factVars, serverVars, dirty, ended, toRead, snap, clockVars,
                 clientVars>>

StreamEnds(c) ==
  /\ At(c, "select") /\ msgs[c] = <<>> /\ ended[c]
  /\ Goto(c, "leave")
  /\ UNCHANGED <<factVars, serverVars, channelVars, toRead, snap, out, clockVars,
                 clientVars>>

\* Mutant: a mark that comes too early is dropped.
TakeDirty_Drops(c) ==
  /\ At(c, "select") /\ dirty[c]
  /\ dirty' = [dirty EXCEPT ![c] = FALSE]
  /\ IF timer[c] = Off /\ age[c] >= Interval
     THEN StartSnapshot(c)
     ELSE UNCHANGED <<pc, toRead>>
  /\ UNCHANGED <<factVars, serverVars, msgs, ended, snap, out, clockVars, clientVars>>

\* With a timer pending the mark adds nothing; otherwise the snapshot is due at
\* once, or when the rest of the interval has passed.
TakeDirty(c) ==
  /\ At(c, "select") /\ dirty[c]
  /\ dirty' = [dirty EXCEPT ![c] = FALSE]
  /\ \/ timer[c] # Off /\ UNCHANGED <<pc, toRead, timer>>
     \/ timer[c] = Off /\ age[c] >= Interval /\ StartSnapshot(c) /\ UNCHANGED timer
     \/ /\ timer[c] = Off /\ age[c] < Interval
        /\ timer' = [timer EXCEPT ![c] = Interval - age[c]]
        /\ UNCHANGED <<pc, toRead>>
  /\ UNCHANGED <<factVars, serverVars, msgs, ended, snap, out, age, clientVars>>

TimerFires(c) ==
  /\ At(c, "select") /\ timer[c] = 0
  /\ timer' = [timer EXCEPT ![c] = Off]
  /\ StartSnapshot(c)
  /\ UNCHANGED <<factVars, serverVars, channelVars, snap, out, age, clientVars>>

\* Mutant: a handler returns and leaves its subscriber behind.
Unsubscribe_Skipped(c) ==
  /\ At(c, "leave")
  /\ Goto(c, "off")
  /\ dirty' = [dirty EXCEPT ![c] = FALSE]
  /\ msgs' = [msgs EXCEPT ![c] = <<>>]
  /\ ended' = [ended EXCEPT ![c] = FALSE]
  /\ toRead' = [toRead EXCEPT ![c] = {}]
  /\ snap' = [snap EXCEPT ![c] = Unseen]
  /\ out' = [out EXCEPT ![c] = 0]
  /\ timer' = [timer EXCEPT ![c] = Off]
  /\ age' = [age EXCEPT ![c] = 0]
  /\ seen' = [seen EXCEPT ![c] = Unseen]
  /\ received' = [received EXCEPT ![c] = <<>>]
  /\ joined' = [joined EXCEPT ![c] = 0]
  /\ UNCHANGED <<factVars, serverVars>>

\* The deferred unsubscribe; the client may open another stream later.
Unsubscribe(c) ==
  /\ At(c, "leave")
  /\ Goto(c, "off")
  /\ subs' = subs \ {c}
  /\ dirty' = [dirty EXCEPT ![c] = FALSE]
  /\ msgs' = [msgs EXCEPT ![c] = <<>>]
  /\ ended' = [ended EXCEPT ![c] = FALSE]
  /\ toRead' = [toRead EXCEPT ![c] = {}]
  /\ snap' = [snap EXCEPT ![c] = Unseen]
  /\ out' = [out EXCEPT ![c] = 0]
  /\ timer' = [timer EXCEPT ![c] = Off]
  /\ age' = [age EXCEPT ![c] = 0]
  /\ seen' = [seen EXCEPT ![c] = Unseen]
  /\ received' = [received EXCEPT ![c] = <<>>]
  /\ joined' = [joined EXCEPT ![c] = 0]
  /\ UNCHANGED <<factVars, posted, closed>>

\* Time passes for every handler alike.
Tick ==
  /\ \E c \in Clients : pc[c] # "off" /\ (age[c] < Interval \/ timer[c] > 0)
  /\ age' = [c \in Clients |-> IF pc[c] # "off" /\ age[c] < Interval
                               THEN age[c] + 1 ELSE age[c]]
  /\ timer' = [c \in Clients |-> IF timer[c] > 0 THEN timer[c] - 1 ELSE timer[c]]
  /\ UNCHANGED <<factVars, serverVars, channelVars, handlerVars, clientVars>>

-----------------------------------------------------------------------------
HandlerNext(c) ==
  \/ \E p \in Parts : ReadPart(c, p)
  \/ SendState(c) \/ SendMessage(c) \/ SendHeartbeat(c)
  \/ TakeMessage(c) \/ StreamEnds(c) \/ TakeDirty(c) \/ TimerFires(c)
  \/ Unsubscribe(c)

Next ==
  \/ \E p \in Parts : Change(p) \/ ChangeSilently(p)
  \/ NotifyStateChanged \/ PostMessage \/ Close \/ Tick
  \/ \E c \in Clients :
       HandlerNext(c) \/ Subscribe(c) \/ ClientGone(c) \/ Heartbeat(c)

\* A goroutine that is about to notify does, time passes and handlers run.  A
\* select with several ready cases picks one at random, so none waits forever.
Fairness ==
  /\ WF_vars(NotifyStateChanged) /\ WF_vars(Tick)
  /\ \A c \in Clients :
       /\ WF_vars(HandlerNext(c))
       /\ SF_vars(TakeDirty(c)) /\ SF_vars(TimerFires(c))

Spec == Init /\ [][Next]_vars
FairSpec == Spec /\ Fairness

-----------------------------------------------------------------------------
(* Properties                                                              *)

Streaming(c) == c \in subs /\ pc[c] # "leave"

\* What the snapshot under way, or the last one sent, says of a fact.
Told(c, p) ==
  IF pc[c] \in {"read", "sendState"} /\ p \notin toRead[c] THEN snap[c][p] ELSE seen[c][p]

\* A stream is never behind an announced change without something left to tell it
\* so: whoever changed the fact has yet to notify, the mark is set, the timer runs,
\* or the snapshot under way has yet to read the fact (handleEvents,
\* NotifyStateChanged).  It may be behind a silent change for as long as nobody
\* notifies of anything; the next notification covers that change as well.
NeverSilentlyBehind ==
  \A c \in Clients, p \in Parts :
    Streaming(c) /\ Told(c, p) < announced[p] =>
      \/ unnotified > 0 \/ dirty[c] \/ timer[c] # Off
      \/ pc[c] = "read" /\ p \in toRead[c]

\* No goroutine sends on a closed channel: whatever is registered is open, has a
\* live handler, and a closed server has nothing registered (Close, PostMessage).
RegisteredAreOpen ==
  /\ \A c \in subs : ~ended[c] /\ pc[c] # "off"
  /\ closed => subs = {}

\* Messages arrive in the order they were posted, none twice, and none of the
\* first Cap posted after the client subscribed is lost (PostMessage).
MessagesInOrder ==
  \A c \in Clients :
    LET all == received[c] \o (IF out[c] = 0 THEN <<>> ELSE <<out[c]>>) \o msgs[c]
    IN  /\ \A i \in 1..(Len(all) - 1) : all[i] < all[i + 1]
        /\ Streaming(c) /\ posted - joined[c] <= Cap =>
             ToSet(all) = (joined[c] + 1)..posted

\* "StateCoalesceInterval is the minimum gap between two state events sent to one
\* subscriber": a stream starts a further snapshot only when Interval ticks have
\* passed since it sent the last.
SpacedStates ==
  [][\A c \in Clients :
       pc[c] = "select" /\ pc'[c] = "read" => age[c] = Interval]_vars

\* What the clients with a registered subscriber have been told.
Shown == [c \in Clients |-> IF c \in subs THEN seen[c] ELSE Unseen]

Observer == INSTANCE StateObserver WITH watching <- subs, seen <- Shown

\* The streams do what StateObserver promises: facts are told in order.
Observed == Observer!Spec

\* A stream that stays open is told of every announced change in the end, and of
\* what had changed silently before it.  ("state is sent again after any change",
\* says docs/control-api.md; a silent change that nothing follows is not sent.)
ChangesAreSeen == Observer!SeenInTheEnd
=============================================================================
