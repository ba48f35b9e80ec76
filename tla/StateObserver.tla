----------------------------- MODULE StateObserver -----------------------------
(***************************************************************************)
(* What an event stream promises its clients, whatever the channels, the   *)
(* timers and the handlers do: a client watches a set of facts, sees each  *)
(* fact's changes in order and never one that has not happened, and while  *)
(* it stays it sees every change that is announced in the end.             *)
(***************************************************************************)
EXTENDS Naturals

CONSTANTS
  Clients,    \* programs that may open a stream
  Parts,      \* facts of the snapshot, each read on its own
  MaxChanges  \* changes of one fact

VARIABLES
  version,   \* how often each fact has changed, 1 at the start
  announced, \* the version of each fact that clients are to be told of
  watching,  \* clients that hold a stream
  seen       \* the version of each fact the client has last been told, or 0

vars == <<version, announced, watching, seen>>

Unseen == [p \in Parts |-> 0]

Init ==
  /\ version = [p \in Parts |-> 1] /\ announced = version
  /\ watching = {}
  /\ seen = [c \in Clients |-> Unseen]

\* A change is announced as it happens, or not.
Change(p) ==
  /\ version' = [version EXCEPT ![p] = @ + 1]
  /\ \/ announced' = [announced EXCEPT ![p] = version'[p]]
     \/ UNCHANGED announced
  /\ UNCHANGED <<watching, seen>>

\* What has changed so far is announced after all.
Announce ==
  /\ announced' = version
  /\ UNCHANGED <<version, watching, seen>>

Join(c) ==
  /\ c \notin watching
  /\ watching' = watching \cup {c}
  /\ UNCHANGED <<version, announced, seen>>

\* The facts may have been read at different times, so each has its own version.
Observe(c) ==
  /\ c \in watching
  /\ \E s \in [Parts -> 1..(MaxChanges + 1)] :
       /\ \A p \in Parts : seen[c][p] <= s[p] /\ s[p] <= version[p]
       /\ seen' = [seen EXCEPT ![c] = s]
  /\ UNCHANGED <<version, announced, watching>>

Leave(gone) ==
  /\ watching' = watching \ gone
  /\ seen' = [c \in Clients |-> IF c \in gone THEN Unseen ELSE seen[c]]
  /\ UNCHANGED <<version, announced>>

Next ==
  \/ Announce
  \/ \E p \in Parts : Change(p)
  \/ \E c \in Clients : Join(c) \/ Observe(c)
  \/ \E gone \in SUBSET watching : Leave(gone)

Spec == Init /\ [][Next]_vars

\* While a client watches, whatever is announced of a fact is seen in the end.
SeenInTheEnd ==
  \A c \in Clients, p \in Parts, v \in 1..(MaxChanges + 1) :
    c \in watching /\ announced[p] >= v ~> c \notin watching \/ seen[c][p] >= v
=============================================================================
