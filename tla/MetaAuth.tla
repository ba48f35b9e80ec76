------------------------------- MODULE MetaAuth -------------------------------
(***************************************************************************)
(* The Meta Muse accounts of the daemon: the account file                  *)
(* (internal/meta/meta_muse_credential_store.go) and those who change it,  *)
(* which are the sign-in goroutines and the key refreshes of AuthManager   *)
(* (internal/meta/meta_muse_support.go) and the calls account.remove and   *)
(* account.toggleDisabled.                                                 *)
(*                                                                         *)
(* One action is one critical section, with the answer of Meta it acts     *)
(* upon.  The identity token of a sign-in is the number of the sign-in; an *)
(* API key is the number of its minting.                                   *)
(***************************************************************************)
EXTENDS Naturals, FiniteSets

CONSTANTS
  Ids,         \* account ids, derived from the claims of the identity token
  MaxLogins,   \* bound on the generations
  MaxKeys      \* bound on the minted keys

ASSUME MetaAssumption ==
  /\ IsFiniteSet(Ids) /\ Ids # {}
  /\ MaxLogins \in Nat \ {0}
  /\ MaxKeys \in Nat

VARIABLES
  state,       \* AuthManager.state
  generation,  \* AuthManager.pollGeneration
  flow,        \* the goroutine of each sign-in
  refreshing,  \* AuthManager.refreshing
  job,         \* the workers of RefreshAPIKeyIfNeeded, two at most for an account
  store,       \* accounts.json
  due,         \* keys inside their refresh margin
  keys,        \* keys minted so far
  keyToken,    \* the identity token each key was minted for
  latest       \* history: the token of the last sign-in saved for an account, if it is there

managerVars == <<state, generation, refreshing>>
vars == <<state, generation, flow, refreshing, job, store, due, keys, keyToken, latest>>

Logins == 1 .. MaxLogins
Tokens == 0 .. MaxLogins       \* 0: of a sign-in before this daemon's first start
Keys   == 0 .. MaxKeys
Slots  == 1 .. 2

Account    == [present : BOOLEAN, token : Tokens, key : Keys, disabled : BOOLEAN]
StateKind  == {"idle", "authenticating", "connected", "failed"}
LoginSteps == {"off", "request", "poll", "mint", "save", "finish"}
Flow       == [pc : LoginSteps, id : Ids, key : Keys, ok : BOOLEAN]
Job        == [pc : {"off", "mint", "store"}, token : Tokens, key : Keys, minted : Keys]

TypeOK ==
  /\ state \in StateKind
  /\ generation \in 0 .. MaxLogins
  /\ flow \in [Logins -> Flow]
  /\ refreshing \subseteq Ids
  /\ job \in [Ids -> [Slots -> Job]]
  /\ store \in [Ids -> Account]
  /\ due \subseteq Keys
  /\ keys \in Keys
  /\ keyToken \in [Keys -> Tokens]
  /\ latest \in [Ids -> SUBSET Tokens]

Present(a) == store[a].present
Enabled(a) == Present(a) /\ ~store[a].disabled

HasCredentialsState == IF \E a \in Ids : Present(a) THEN "connected" ELSE "idle"

NoAccount == [present |-> FALSE, token |-> 0, key |-> 0, disabled |-> FALSE]
NoJob == [pc |-> "off", token |-> 0, key |-> 0, minted |-> 0]
NoFlow == [pc |-> "off", id |-> CHOOSE a \in Ids : TRUE, key |-> 0, ok |-> FALSE]

Init ==
  /\ store \in [Ids -> {NoAccount} \cup
                 [present : {TRUE}, token : {0}, key : {0}, disabled : BOOLEAN]]
  /\ latest = [a \in Ids |-> IF Present(a) THEN {0} ELSE {}]
  /\ state = HasCredentialsState
  /\ generation = 0
  /\ flow = [g \in Logins |-> NoFlow]
  /\ refreshing = {}
  /\ job = [a \in Ids |-> [i \in Slots |-> NoJob]]
  /\ due = {}
  /\ keys = 0
  /\ keyToken = [k \in Keys |-> 0]

-----------------------------------------------------------------------------
(* Sign-in *)

IsCurrent(g) == g = generation

\* The goroutine of sign-in g ends at its next look at the generation.
Abandon(g) == flow' = [flow EXCEPT ![g] = NoFlow]

\* It goes on to finishAuthentication with a failure.
Fail(g) == flow' = [flow EXCEPT ![g] = [@ EXCEPT !.pc = "finish", !.ok = FALSE]]

StartAuthentication ==
  /\ state # "authenticating"
  /\ generation < MaxLogins
  /\ generation' = generation + 1
  /\ state' = "authenticating"
  /\ flow' = [flow EXCEPT ![generation + 1].pc = "request"]
  /\ UNCHANGED <<refreshing, job, store, due, keys, keyToken, latest>>

\* HasCredentialsState reads the account file inside the manager's lock.
CancelAuthentication ==
  /\ state = "authenticating"
  /\ generation < MaxLogins
  /\ generation' = generation + 1
  /\ state' = HasCredentialsState
  /\ UNCHANGED <<flow, refreshing, job, store, due, keys, keyToken, latest>>

RequestDeviceAuthorization(g) ==
  /\ flow[g].pc = "request"
  /\ \/ ~IsCurrent(g) /\ Abandon(g)
     \/ IsCurrent(g) /\ Fail(g)
     \/ IsCurrent(g) /\ flow' = [flow EXCEPT ![g].pc = "poll"]
  /\ UNCHANGED <<managerVars, job, store, due, keys, keyToken, latest>>

\* A pending or slow_down answer changes nothing.  Failure includes the deadline.
\* On approval the token names the account the user has chosen.
PollForToken(g) ==
  /\ flow[g].pc = "poll"
  /\ \/ ~IsCurrent(g) /\ Abandon(g)
     \/ IsCurrent(g) /\ Fail(g)
     \/ IsCurrent(g) /\ \E a \in Ids : flow' = [flow EXCEPT ![g] = [@ EXCEPT !.pc = "mint", !.id = a]]
  /\ UNCHANGED <<managerVars, job, store, due, keys, keyToken, latest>>

\* Meta issues one more key for token t.
Minted(t) ==
  /\ keys < MaxKeys
  /\ keys' = keys + 1
  /\ keyToken' = [keyToken EXCEPT ![keys + 1] = t]

MintForLogin(g) ==
  /\ flow[g].pc = "mint"
  /\ \/ ~IsCurrent(g) /\ Abandon(g) /\ UNCHANGED <<keys, keyToken>>
     \/ IsCurrent(g) /\ Fail(g) /\ UNCHANGED <<keys, keyToken>>
     \/ /\ IsCurrent(g)
        /\ Minted(g)
        /\ flow' = [flow EXCEPT ![g] = [@ EXCEPT !.pc = "save", !.key = keys + 1]]
  /\ UNCHANGED <<managerVars, job, store, due, latest>>

\* CredentialStore.Save; the generation is not looked at again.
Save(g) ==
  LET a == flow[g].id
  IN /\ flow[g].pc = "save"
     /\ \/ /\ store' = [store EXCEPT ![a] =
                 [present |-> TRUE, token |-> g, key |-> flow[g].key,
                  disabled |-> store[a].disabled]]
           /\ latest' = [latest EXCEPT ![a] = {g}]
           /\ flow' = [flow EXCEPT ![g] = [@ EXCEPT !.pc = "finish", !.ok = TRUE]]
        \/ Fail(g) /\ UNCHANGED <<store, latest>>
     /\ UNCHANGED <<managerVars, job, due, keys, keyToken>>

\* Whatever the generation is by now.
FinishAuthentication(g) ==
  /\ flow[g].pc = "finish"
  /\ state' = IF flow[g].ok THEN "connected" ELSE "failed"
  /\ flow' = [flow EXCEPT ![g] = NoFlow]
  /\ UNCHANGED <<generation, refreshing, job, store, due, keys, keyToken, latest>>

-----------------------------------------------------------------------------
(* Key refresh *)

\* RefreshAPIKeyIfNeeded selects under the manager's lock.
Eligible == {a \in Ids : Enabled(a) /\ a \notin refreshing /\ store[a].key \in due}

FreeSlot(a) == CHOOSE i \in Slots : job[a][i].pc = "off"

RefreshAPIKeyIfNeeded ==
  /\ Eligible # {}
  /\ \A a \in Eligible : \E i \in Slots : job[a][i].pc = "off"
  /\ refreshing' = refreshing \cup Eligible
  /\ job' = [a \in Ids |->
       IF a \in Eligible
       THEN [job[a] EXCEPT ![FreeSlot(a)] =
               [pc |-> "mint", token |-> store[a].token, key |-> store[a].key, minted |-> 0]]
       ELSE job[a]]
  /\ UNCHANGED <<state, generation, flow, store, due, keys, keyToken, latest>>

\* A failed minting keeps the mark.
MintForRefresh_MarkKept(a, i) ==
  /\ job[a][i].pc = "mint"
  /\ \/ /\ job' = [job EXCEPT ![a][i] = NoJob]
        /\ UNCHANGED <<refreshing, keys, keyToken>>
     \/ /\ Minted(job[a][i].token)
        /\ refreshing' = refreshing \ {a}
        /\ job' = [job EXCEPT ![a][i] = [@ EXCEPT !.pc = "store", !.minted = keys + 1]]
  /\ UNCHANGED <<state, generation, flow, store, due, latest>>

\* A worker has its answer and takes back the mark, before it stores the key.
MintForRefresh(a, i) ==
  /\ job[a][i].pc = "mint"
  /\ refreshing' = refreshing \ {a}
  /\ \/ job' = [job EXCEPT ![a][i] = NoJob] /\ UNCHANGED <<keys, keyToken>>
     \/ /\ Minted(job[a][i].token)
        /\ job' = [job EXCEPT ![a][i] = [@ EXCEPT !.pc = "store", !.minted = keys + 1]]
  /\ UNCHANGED <<state, generation, flow, store, due, latest>>

\* It compares the id alone.
SameCredentials_IdOnly(a, i) == Present(a)

\* CredentialStore.UpdateKey: only if the account still holds the credentials read.
SameCredentials(a, i) ==
  Present(a) /\ store[a].token = job[a][i].token /\ store[a].key = job[a][i].key

UpdateKey(a, i) ==
  /\ job[a][i].pc = "store"
  /\ job' = [job EXCEPT ![a][i] = NoJob]
  /\ \/ SameCredentials(a, i) /\ store' = [store EXCEPT ![a].key = job[a][i].minted]
     \/ UNCHANGED store        \* other credentials, or the write fails
  /\ UNCHANGED <<managerVars, flow, due, keys, keyToken, latest>>

\* Time passes: the refresh margin of a key is reached.
ReachMargin ==
  /\ \E k \in (0 .. keys) \ due : due' = due \cup {k}
  /\ UNCHANGED <<managerVars, flow, job, store, keys, keyToken, latest>>

-----------------------------------------------------------------------------
(* The other changes of the account file, and the end of the daemon *)

Remove(a) ==
  /\ Present(a)
  /\ store' = [store EXCEPT ![a] = NoAccount]
  /\ latest' = [latest EXCEPT ![a] = {}]
  /\ UNCHANGED <<managerVars, flow, job, due, keys, keyToken>>

\* The check counts disabled accounts too.
ToggleDisabled_CountsAll(a) ==
  /\ Present(a)
  /\ store[a].disabled \/ Cardinality({b \in Ids : Present(b)}) > 1
  /\ store' = [store EXCEPT ![a].disabled = ~@]
  /\ UNCHANGED <<managerVars, flow, job, due, keys, keyToken, latest>>

ToggleDisabled(a) ==
  /\ Present(a)
  /\ store[a].disabled \/ Cardinality({b \in Ids : Enabled(b)}) > 1
  /\ store' = [store EXCEPT ![a].disabled = ~@]
  /\ UNCHANGED <<managerVars, flow, job, due, keys, keyToken, latest>>

\* Only accounts.json survives.  Generations are compared within one daemon only, so
\* the next daemon's go on from here.
Crash ==
  /\ state' = HasCredentialsState
  /\ flow' = [g \in Logins |-> NoFlow]
  /\ refreshing' = {}
  /\ job' = [a \in Ids |-> [i \in Slots |-> NoJob]]
  /\ UNCHANGED <<generation, store, due, keys, keyToken, latest>>

-----------------------------------------------------------------------------
SignInStep(g) ==
  \/ RequestDeviceAuthorization(g) \/ PollForToken(g) \/ MintForLogin(g)
  \/ Save(g) \/ FinishAuthentication(g)

RefreshStep(a, i) == MintForRefresh(a, i) \/ UpdateKey(a, i)

Next ==
  \/ StartAuthentication
  \/ CancelAuthentication
  \/ RefreshAPIKeyIfNeeded
  \/ ReachMargin
  \/ Crash
  \/ \E g \in Logins : SignInStep(g)
  \/ \E a \in Ids : Remove(a) \/ ToggleDisabled(a)
  \/ \E a \in Ids, i \in Slots : RefreshStep(a, i)

\* Goroutines run; a request ends because the client gives up after 30 s, and the
\* polling at its deadline.
Fairness ==
  /\ \A g \in Logins : WF_vars(SignInStep(g))
  /\ \A a \in Ids, i \in Slots : WF_vars(RefreshStep(a, i))

Spec == Init /\ [][Next]_vars /\ Fairness

-----------------------------------------------------------------------------
(* Properties *)

\* An account holds the identity token of the last sign-in saved for it and a key that
\* was minted for that token, and a removed account is not there: whatever a refresh
\* that began earlier still stores (meta_muse_credential_store.go:270-272).
NewestLoginKept ==
  \A a \in Ids :
    /\ latest[a] = IF Present(a) THEN {store[a].token} ELSE {}
    /\ Present(a) => keyToken[store[a].key] = store[a].token

\* While an account keeps its sign-in, its key is only replaced by one minted later,
\* although two refreshes may be at work for it.
KeysAdvance ==
  [][\A a \in Ids :
       Present(a) /\ Present(a)' /\ store[a].token = store'[a].token
         => store'[a].key >= store[a].key]_vars

\* The page says that a sign-in is under way only while its goroutine lives: nothing
\* that was cancelled or finishes late leaves it there for ever.
AuthenticatingIsAlive ==
  state = "authenticating" => \E g \in Logins : IsCurrent(g) /\ flow[g].pc # "off"

\* Only the removal of an enabled account can leave the accounts without one
\* (meta_muse_credential_store.go:240-241).
OneEnabledLeft ==
  [][(\E a \in Ids : Enabled(a)) /\ (\A a \in Ids : ~Enabled(a)')
       => \E a \in Ids : Enabled(a) /\ ~Present(a)']_vars

\* Every sign-in comes to an end, and no account stays excluded from the refresh.
SignInAndRefreshEnd ==
  /\ state = "authenticating" ~> state # "authenticating"
  /\ \A a \in Ids : a \in refreshing ~> a \notin refreshing

=============================================================================
