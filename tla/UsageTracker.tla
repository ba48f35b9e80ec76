---------------------------- MODULE UsageTracker ----------------------------
(***************************************************************************)
(* The quota cards, usage/tracker.go, with the parts of daemon.go that ask *)
(* for them and the Meta observations of meta/meta_muse_usage_store.go.    *)
(*                                                                         *)
(* A refresh takes a generation, shows placeholders, asks for every        *)
(* selected account at once and publishes its results if no other refresh  *)
(* has begun.  Meta cards come from a local store and are replaced alone   *)
(* when the proxy sees a new observation.                                  *)
(*                                                                         *)
(* One account of each kind stands for the selected ones: "claude" for     *)
(* those that are asked for over the network, "meta" for the local ones.   *)
(***************************************************************************)
EXTENDS Integers, FiniteSets

CONSTANTS MaxScans,     \* bound: published changes of the account list
          MaxRefreshes, \* bound: calls of Refresh
          MaxObs        \* bound: Meta observations after the first

ASSUME UsageAssumption ==
  /\ MaxScans \in Nat
  /\ MaxRefreshes \in Nat \ {0}
  /\ MaxObs \in Nat

Scans == 1..MaxScans
Refreshes == 1..MaxRefreshes
Updates == 1..MaxObs

VARIABLES
  obs,        \* the last Meta observation, UsageStore
  list,       \* the accounts the manager lists as enabled
  usageSig,   \* d.usageSig
  hand,       \* onAuthStateChanged after each published scan
  generation, refreshin, cards, \* the tracker's fields
  job,        \* Refresh calls and the goroutines of each
  latest,     \* history: the selection of the last generation
  update,     \* UpdateMetaAccounts after each observation
  crossed,    \* history: two answers to list changes were under way at once
  mixed       \* history: two reads of the observations were under way at once

vars == <<obs, list, usageSig, hand, generation,
          refreshin, cards, job, latest, update, crossed, mixed>>
trackerVars == <<generation, refreshin, cards>>
daemonVars == <<list, usageSig, hand>>

Accounts == {"claude", "meta"}

\* No card, a placeholder, a card of a refresh or one with an observation.
Cards == {<<"none", 0>>, <<"loading", 0>>}
           \cup ({"fetched"} \X Nat) \cup ({"observed"} \X (0..MaxObs))
NoCard == <<"none", 0>>
Loading == <<"loading", 0>>

\* A refresh: not asked for, its goroutine spawned with its accounts, fetching
\* for its generation, ended; busy until the network has answered for Claude.
JobRecord ==
  [pc : {"none", "called", "run", "ended"}, sel : SUBSET Accounts,
   gen : Nat, meta : 0..MaxObs, busy : BOOLEAN]
NoJob == [pc |-> "none", sel |-> {}, gen |-> 0, meta |-> 0, busy |-> FALSE]
Ended == [NoJob EXCEPT !.pc = "ended"]
Called(sel) == [NoJob EXCEPT !.pc = "called", !.sel = sel]

HandRecord == [pc : {"none", "sign", "set", "ended"}, sig : SUBSET Accounts]
UpdateRecord == [pc : {"none", "read", "replace", "ended"}, on : BOOLEAN, seen : 0..MaxObs]

\* Who answers a list change: a handler, or the refresh it spawned until it has
\* its generation.  Who holds a reading of the observations.
Answering(h) == hand[h].pc \in {"sign", "set"}
Waiting(r) == job[r].pc = "called"
HoldsMeta(r) == job[r].pc = "run" /\ "meta" \in job[r].sel
Updating(u) == update[u].pc \in {"read", "replace"}

\* run() has scanned, found both accounts, and its refresh is on its way.
Init ==
  /\ obs = 0
  /\ list = Accounts
  /\ usageSig = list
  /\ hand = [h \in Scans |-> [pc |-> "none", sig |-> {}]]
  /\ generation = 0
  /\ refreshin = FALSE
  /\ cards = [a \in Accounts |-> NoCard]
  /\ job = [r \in Refreshes |-> IF r = 1 THEN Called(list) ELSE NoJob]
  /\ latest = {}
  /\ update = [u \in Updates |-> [pc |-> "none", on |-> FALSE, seen |-> 0]]
  /\ crossed = FALSE
  /\ mixed = FALSE

-----------------------------------------------------------------------------
(* Account changes and the daemon's answer *)

\* A scan publishes another list, after a toggle, a removal, a login or an
\* expiry, and calls onAuthStateChanged.
Scan(h) ==
  /\ hand[h].pc = "none"
  /\ \A g \in Scans : g < h => hand[g].pc # "none"
  /\ list' \in SUBSET Accounts \ {list}
  /\ hand' = [hand EXCEPT ![h] = [@ EXCEPT !.pc = "sign"]]
  /\ crossed' = (crossed \/ (\E g \in Scans : Answering(g)) \/ \E r \in Refreshes : Waiting(r))
  /\ mixed' = (mixed \/ \E u \in Updates : Updating(u))
  /\ UNCHANGED <<obs, usageSig, trackerVars, job, latest, update>>

\* The signature is compared without the lock under which it is then stored.
Sign(h) ==
  /\ hand[h].pc = "sign"
  /\ hand' = [hand EXCEPT ![h] = IF list = usageSig THEN [pc |-> "ended", sig |-> {}]
                                  ELSE [pc |-> "set", sig |-> list]]
  /\ UNCHANGED <<obs, list, usageSig, trackerVars, job, latest, update, crossed, mixed>>

\* refreshUsage reads the accounts and spawns Refresh.
Spawns(r) ==
  /\ job[r].pc = "none"
  /\ \A q \in Refreshes : q < r => job[q].pc # "none"
  /\ job' = [job EXCEPT ![r] = Called(list)]

RefreshUsage_KeepsSignature(h, r) ==
  /\ hand[h].pc = "set"
  /\ Spawns(r)
  /\ hand' = [hand EXCEPT ![h] = [pc |-> "ended", sig |-> {}]]
  /\ UNCHANGED <<obs, list, usageSig, trackerVars, latest, update, crossed, mixed>>
RefreshUsage(h, r) ==
  /\ hand[h].pc = "set"
  /\ usageSig' = hand[h].sig
  /\ Spawns(r)
  /\ hand' = [hand EXCEPT ![h] = [pc |-> "ended", sig |-> {}]]
  /\ UNCHANGED <<obs, list, trackerVars, latest, update, crossed, mixed>>

\* The call usage.refresh, and the refresh run() asks for after its scan.
CallRefresh(r) ==
  /\ Spawns(r)
  /\ crossed' = (crossed \/ \E h \in Scans : Answering(h))
  /\ UNCHANGED <<obs, daemonVars, trackerVars, latest, update, mixed>>

-----------------------------------------------------------------------------
(* Refresh *)

\* The generation and the placeholders; fetchMetaUsage reads the local store
\* only, which the same step stands for.
Begin_KeepsFlag(r) ==
  /\ job[r].pc = "called"
  /\ generation' = generation + 1
  /\ latest' = job[r].sel
  /\ IF job[r].sel = {}
     THEN /\ cards' = [a \in Accounts |-> NoCard]
          /\ job' = [job EXCEPT ![r] = Ended]
          /\ UNCHANGED <<refreshin, mixed>>
     ELSE /\ cards' = [a \in Accounts |-> IF a \in job[r].sel THEN Loading ELSE NoCard]
          /\ refreshin' = TRUE
          /\ job' = [job EXCEPT ![r] = [@ EXCEPT
                       !.pc = "run", !.gen = generation', !.meta = obs,
                       !.busy = ("claude" \in job[r].sel)]]
          /\ mixed' = (mixed \/ ("meta" \in job[r].sel
                                  /\ ((\E q \in Refreshes : HoldsMeta(q))
                                       \/ \E u \in Updates : Updating(u))))
  /\ UNCHANGED <<obs, daemonVars, update, crossed>>
Begin(r) ==
  /\ job[r].pc = "called"
  /\ generation' = generation + 1
  /\ latest' = job[r].sel
  /\ IF job[r].sel = {}
     THEN /\ cards' = [a \in Accounts |-> NoCard]
          /\ refreshin' = FALSE
          /\ job' = [job EXCEPT ![r] = Ended]
          /\ UNCHANGED mixed
     ELSE /\ cards' = [a \in Accounts |-> IF a \in job[r].sel THEN Loading ELSE NoCard]
          /\ refreshin' = TRUE
          /\ job' = [job EXCEPT ![r] = [@ EXCEPT
                       !.pc = "run", !.gen = generation', !.meta = obs,
                       !.busy = ("claude" \in job[r].sel)]]
          /\ mixed' = (mixed \/ ("meta" \in job[r].sel
                                  /\ ((\E q \in Refreshes : HoldsMeta(q))
                                       \/ \E u \in Updates : Updating(u))))
  /\ UNCHANGED <<obs, daemonVars, update, crossed>>

\* fetchClaudeUsage, whatever its end: a card or a card that says why not.
Fetch(r) ==
  /\ job[r].busy
  /\ job' = [job EXCEPT ![r] = [@ EXCEPT !.busy = FALSE]]
  /\ UNCHANGED <<obs, daemonVars, trackerVars, latest, update, crossed, mixed>>

\* wg.Wait is over: the results are published unless another refresh began.
Fetched(r) == job[r].pc = "run" /\ ~job[r].busy
Results(r) ==
  [a \in Accounts |->
     CASE a \notin job[r].sel -> NoCard
       [] a = "claude" /\ a \in job[r].sel -> <<"fetched", job[r].gen>>
       [] OTHER -> <<"observed", job[r].meta>>]
Complete_Late(r) ==
  /\ Fetched(r)
  /\ cards' = Results(r)
  /\ refreshin' = FALSE
  /\ job' = [job EXCEPT ![r] = Ended]
  /\ UNCHANGED <<obs, daemonVars, generation, latest, update, crossed, mixed>>
Complete(r) ==
  /\ Fetched(r)
  /\ IF job[r].gen = generation
     THEN cards' = Results(r) /\ refreshin' = FALSE
     ELSE UNCHANGED <<cards, refreshin>>
  /\ job' = [job EXCEPT ![r] = Ended]
  /\ UNCHANGED <<obs, daemonVars, generation, latest, update, crossed, mixed>>

-----------------------------------------------------------------------------
(* Meta observations *)

\* The proxy records an observation and publishes MetaUsageChanged, whose
\* handler runs in the goroutine of the response.
Observe(u) ==
  /\ update[u].pc = "none"
  /\ obs = u - 1
  /\ obs' = u
  /\ update' = [update EXCEPT ![u] = [@ EXCEPT !.pc = "read"]]
  /\ mixed' = (mixed \/ (\E v \in Updates : Updating(v)) \/ (\E r \in Refreshes : HoldsMeta(r))
                     \/ \E h \in Scans : Answering(h))
  /\ UNCHANGED <<daemonVars, trackerVars, job, latest, crossed>>

\* onMetaUsageChanged reads the list, UpdateMetaAccounts the store, and then
\* replaces the Meta cards under the lock.
UpdateRead(u) ==
  /\ update[u].pc = "read"
  /\ update' = [update EXCEPT ![u] =
                  [pc |-> "replace", on |-> "meta" \in list, seen |-> obs]]
  /\ UNCHANGED <<obs, daemonVars, trackerVars, job, latest, crossed, mixed>>

UpdateReplace(u) ==
  /\ update[u].pc = "replace"
  /\ cards' = [cards EXCEPT !["meta"] =
                 IF update[u].on THEN <<"observed", update[u].seen>> ELSE NoCard]
  /\ update' = [update EXCEPT ![u] = [pc |-> "ended", on |-> FALSE, seen |-> 0]]
  /\ UNCHANGED <<obs, daemonVars, generation, refreshin, job, latest, crossed, mixed>>

-----------------------------------------------------------------------------
Handler(h) == Sign(h) \/ \E r \in Refreshes : RefreshUsage(h, r)
Refresh(r) == Begin(r) \/ Fetch(r) \/ Complete(r)
UpdateMeta(u) == UpdateRead(u) \/ UpdateReplace(u)

Next ==
  \/ \E h \in Scans : Scan(h) \/ Handler(h)
  \/ \E r \in Refreshes : CallRefresh(r) \/ Refresh(r)
  \/ \E u \in Updates : Observe(u) \/ UpdateMeta(u)

\* Goroutines run; every HTTP request ends, with its timeout at the latest.
Fairness ==
  /\ \A r \in Refreshes : WF_vars(Refresh(r))
  /\ \A h \in Scans : WF_vars(Handler(h))
  /\ \A u \in Updates : WF_vars(UpdateMeta(u))

Spec == Init /\ [][Next]_vars /\ Fairness

-----------------------------------------------------------------------------
(* Properties *)

\* The state has its types.
TypeOK ==
  /\ obs \in 0..MaxObs
  /\ list \subseteq Accounts
  /\ usageSig \subseteq Accounts
  /\ hand \in [Scans -> HandRecord]
  /\ generation \in Nat
  /\ refreshin \in BOOLEAN
  /\ cards \in [Accounts -> Cards]
  /\ job \in [Refreshes -> JobRecord]
  /\ latest \subseteq Accounts
  /\ update \in [Updates -> UpdateRecord]
  /\ crossed \in BOOLEAN /\ mixed \in BOOLEAN

\* The cards are those of the refresh that began last: an earlier one that ends
\* after it publishes nothing, and no placeholder is left once the tracker says
\* that it is done.
CardsOfLatest ==
  /\ cards["claude"] # NoCard <=> "claude" \in latest
  /\ cards["claude"] \in {NoCard, Loading, <<"fetched", generation>>}
  /\ refreshin <=> \E r \in Refreshes : job[r].pc = "run" /\ job[r].gen = generation
  /\ ~refreshin => \A a \in Accounts : cards[a] # Loading

Settled == (\A h \in Scans : ~Answering(h)) /\ (\A r \in Refreshes : ~Waiting(r)) /\ ~crossed

\* When all answers to list changes are given, the last selection is the list:
\* comparing signatures skips no refresh that was needed. When nobody refreshes
\* or updates either, an enabled Meta account shows the last observation. Exempt
\* are two answers under way at once (the signature is not compared under its
\* lock, and the spawned refreshes may begin in either order), and, for the
\* card, two readers of the store (a full refresh publishes the observation it
\* read when it began) (daemon.go:240-285, tracker.go:133-249).
CatchesUp ==
  /\ Settled => latest = list
  /\ (Settled /\ (\A r \in Refreshes : job[r].pc # "run") /\ (\A u \in Updates : ~Updating(u))
        /\ ~mixed /\ "meta" \in list)
       => cards["meta"] = <<"observed", obs>>

\* A refresh ends: the tracker does not say for ever that it is at work.
RefreshSettles == refreshin ~> ~refreshin
=============================================================================
