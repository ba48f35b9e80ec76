---------------------------- MODULE MetaAuth_proofs ----------------------------
(***************************************************************************)
(* Proofs about MetaAuth, for any accounts, sign-ins and keys.             *)
(***************************************************************************)
EXTENDS MetaAuth, FiniteSetTheorems, TLAPS

-----------------------------------------------------------------------------
(* Type correctness                                                        *)

\* The records the actions reset to are of their types.
LEMMA TypedRecords ==
  NoAccount \in Account /\ NoJob \in Job /\ NoFlow \in Flow
<1>1. (CHOOSE a \in Ids : TRUE) \in Ids
  BY MetaAssumption
<1> QED
  BY <1>1, MetaAssumption
  DEF NoAccount, NoJob, NoFlow, Account, Job, Flow, LoginSteps, Tokens, Keys

LEMMA InitType == Init => TypeOK
<1> SUFFICES ASSUME Init PROVE TypeOK
  OBVIOUS
<1>1. 0 \in Tokens /\ 0 \in Keys
  BY MetaAssumption DEF Tokens, Keys
<1>2. store \in [Ids -> Account] /\ latest \in [Ids -> SUBSET Tokens]
  BY <1>1, TypedRecords DEF Init, Account
<1>3. flow \in [Logins -> Flow] /\ job \in [Ids -> [Slots -> Job]]
  BY TypedRecords DEF Init
<1>4. state \in StateKind
  BY DEF Init, HasCredentialsState, StateKind
<1>5. keyToken \in [Keys -> Tokens] /\ generation \in 0 .. MaxLogins
  BY <1>1, MetaAssumption DEF Init
<1> QED
  BY <1>1, <1>2, <1>3, <1>4, <1>5 DEF Init, TypeOK

\* Minting a key keeps the types of what it counts.
LEMMA MintType ==
  ASSUME TypeOK, NEW t \in Tokens, Minted(t)
  PROVE  keys' \in Keys /\ keyToken' \in [Keys -> Tokens] /\ keys + 1 \in Keys
<1>1. keys + 1 \in Keys
  BY MetaAssumption DEF TypeOK, Minted, Keys
<1> QED
  BY <1>1 DEF TypeOK, Minted

\* A sign-in step changes its own goroutine within the types.
LEMMA FlowType ==
  ASSUME TypeOK, NEW g \in Logins, Abandon(g) \/ Fail(g)
  PROVE  flow' \in [Logins -> Flow]
<1>1. CASE Abandon(g)
  BY <1>1, TypedRecords DEF TypeOK, Abandon
<1>2. CASE Fail(g)
  <2>1. [flow[g] EXCEPT !.pc = "finish", !.ok = FALSE] \in Flow
    BY DEF TypeOK, Flow, LoginSteps
  <2> QED
    BY <1>2, <2>1 DEF TypeOK, Fail
<1> QED
  BY <1>1, <1>2

\* Every action keeps the types of all variables.
LEMMA TypeStep ==
  ASSUME TypeOK, Next PROVE TypeOK'
<1> USE MetaAssumption DEF TypeOK, managerVars
<1>1. CASE StartAuthentication
  <2>1. generation + 1 \in Logins
    BY <1>1 DEF StartAuthentication, Logins
  <2>2. [flow[generation + 1] EXCEPT !.pc = "request"] \in Flow
    BY <2>1 DEF Flow, LoginSteps
  <2> QED
    BY <1>1, <2>1, <2>2 DEF StartAuthentication, StateKind, Logins
<1>2. CASE CancelAuthentication
  BY <1>2 DEF CancelAuthentication, HasCredentialsState, StateKind
<1>3. CASE RefreshAPIKeyIfNeeded
  <2>1. job' \in [Ids -> [Slots -> Job]]
    <3>1. \A a \in Eligible : FreeSlot(a) \in Slots
      BY <1>3 DEF RefreshAPIKeyIfNeeded, FreeSlot
    <3>2. \A a \in Ids : [pc |-> "mint", token |-> store[a].token, key |-> store[a].key,
                          minted |-> 0] \in Job
      BY DEF Account, Job, Keys
    <3> QED
      BY <1>3, <3>1, <3>2 DEF RefreshAPIKeyIfNeeded, Eligible
  <2>2. refreshing' \subseteq Ids
    BY <1>3 DEF RefreshAPIKeyIfNeeded, Eligible
  <2> QED
    BY <1>3, <2>1, <2>2 DEF RefreshAPIKeyIfNeeded
<1>4. CASE ReachMargin
  BY <1>4 DEF ReachMargin, Keys
<1>5. CASE Crash
  BY <1>5, TypedRecords DEF Crash, HasCredentialsState, StateKind
<1>6. ASSUME NEW g \in Logins, RequestDeviceAuthorization(g) PROVE TypeOK'
  <2>1. [flow[g] EXCEPT !.pc = "poll"] \in Flow
    BY DEF Flow, LoginSteps
  <2>2. flow' \in [Logins -> Flow]
    BY <1>6, <2>1, FlowType DEF RequestDeviceAuthorization
  <2> QED
    BY <1>6, <2>2 DEF RequestDeviceAuthorization
<1>7. ASSUME NEW g \in Logins, PollForToken(g) PROVE TypeOK'
  <2>1. \A a \in Ids : [flow[g] EXCEPT !.pc = "mint", !.id = a] \in Flow
    BY DEF Flow, LoginSteps
  <2>2. flow' \in [Logins -> Flow]
    BY <1>7, <2>1, FlowType DEF PollForToken
  <2> QED
    BY <1>7, <2>2 DEF PollForToken
<1>8. ASSUME NEW g \in Logins, MintForLogin(g) PROVE TypeOK'
  <2>1. g \in Tokens
    BY DEF Logins, Tokens
  <2>2. flow' \in [Logins -> Flow] /\ keys' \in Keys /\ keyToken' \in [Keys -> Tokens]
    <3>1. CASE Minted(g) /\ flow' = [flow EXCEPT ![g] = [@ EXCEPT !.pc = "save", !.key = keys + 1]]
      BY <2>1, <3>1, MintType DEF Flow, LoginSteps
    <3>2. CASE (Abandon(g) \/ Fail(g)) /\ UNCHANGED <<keys, keyToken>>
      BY <3>2, FlowType
    <3> QED
      BY <1>8, <3>1, <3>2 DEF MintForLogin
  <2> QED
    BY <1>8, <2>2 DEF MintForLogin
<1>9. ASSUME NEW g \in Logins, Save(g) PROVE TypeOK'
  <2>1. CASE Fail(g) /\ UNCHANGED <<store, latest>>
    BY <1>9, <2>1, FlowType DEF Save
  <2> DEFINE saved == [present |-> TRUE, token |-> g, key |-> flow[g].key,
                       disabled |-> store[flow[g].id].disabled]
  <2>2. CASE /\ store' = [store EXCEPT ![flow[g].id] = saved]
             /\ latest' = [latest EXCEPT ![flow[g].id] = {g}]
             /\ flow' = [flow EXCEPT ![g] = [@ EXCEPT !.pc = "finish", !.ok = TRUE]]
    <3>1. g \in Tokens /\ flow[g].id \in Ids /\ flow[g].key \in Keys
      BY DEF Logins, Tokens, Flow
    <3>2. saved \in Account
      BY <3>1 DEF Account
    <3>3. store' \in [Ids -> Account]
      <4> HIDE DEF saved
      <4> QED
        BY <2>2, <3>2
    <3>4. latest' \in [Ids -> SUBSET Tokens]
      BY <2>2, <3>1
    <3>5. [flow[g] EXCEPT !.pc = "finish", !.ok = TRUE] \in Flow
      BY DEF Flow, LoginSteps
    <3>6. flow' \in [Logins -> Flow]
      BY <2>2, <3>5
    <3> QED
      BY <1>9, <3>3, <3>4, <3>6 DEF Save
  <2> QED
    BY <1>9, <2>1, <2>2 DEF Save
<1>10. ASSUME NEW g \in Logins, FinishAuthentication(g) PROVE TypeOK'
  BY <1>10, TypedRecords DEF FinishAuthentication, StateKind
<1>11. ASSUME NEW a \in Ids, Remove(a) PROVE TypeOK'
  BY <1>11, TypedRecords DEF Remove
<1>12. ASSUME NEW a \in Ids, ToggleDisabled(a) PROVE TypeOK'
  BY <1>12 DEF ToggleDisabled, Account
<1>13. ASSUME NEW a \in Ids, NEW i \in Slots, MintForRefresh(a, i) PROVE TypeOK'
  <2>1. job[a][i] \in Job /\ job[a][i].token \in Tokens
    BY DEF Job
  <2>2. job' \in [Ids -> [Slots -> Job]] /\ keys' \in Keys /\ keyToken' \in [Keys -> Tokens]
    <3>1. CASE job' = [job EXCEPT ![a][i] = NoJob] /\ UNCHANGED <<keys, keyToken>>
      BY <3>1, TypedRecords
    <3>2. CASE /\ Minted(job[a][i].token)
               /\ job' = [job EXCEPT ![a][i] = [@ EXCEPT !.pc = "store", !.minted = keys + 1]]
      BY <2>1, <3>2, MintType DEF Job
    <3> QED
      BY <1>13, <3>1, <3>2 DEF MintForRefresh
  <2> QED
    BY <1>13, <2>2 DEF MintForRefresh
<1>14. ASSUME NEW a \in Ids, NEW i \in Slots, UpdateKey(a, i) PROVE TypeOK'
  <2>1. job' \in [Ids -> [Slots -> Job]]
    BY <1>14, TypedRecords DEF UpdateKey
  <2>2. store' \in [Ids -> Account]
    <3>1. CASE store' = [store EXCEPT ![a].key = job[a][i].minted]
      <4> DEFINE k == job[a][i].minted
      <4>1. k \in Keys
        BY DEF Job
      <4> HIDE DEF k
      <4>2. [store[a] EXCEPT !.key = k] \in Account
        BY <4>1 DEF Account
      <4>3. store' = [store EXCEPT ![a] = [store[a] EXCEPT !.key = k]]
        BY <3>1 DEF k
      <4> QED
        BY <4>2, <4>3
    <3> QED
      BY <1>14, <3>1 DEF UpdateKey
  <2> QED
    BY <1>14, <2>1, <2>2 DEF UpdateKey
<1> QED
  BY <1>1, <1>2, <1>3, <1>4, <1>5, <1>6, <1>7, <1>8, <1>9, <1>10, <1>11, <1>12, <1>13,
     <1>14 DEF Next, SignInStep, RefreshStep

\* All variables keep their types.
THEOREM Typed == Spec => []TypeOK
<1>1. TypeOK /\ [Next]_vars => TypeOK'
  <2>1. CASE Next
    BY <2>1, TypeStep
  <2>2. CASE UNCHANGED vars
    BY <2>2 DEF vars, TypeOK
  <2> QED
    BY <2>1, <2>2
<1> QED
  BY InitType, <1>1, PTL DEF Spec

-----------------------------------------------------------------------------
(* The account file                                                        *)

\* Every key in use was minted before now, and for the token it is used with; the
\* key a worker is about to store is younger than the one it replaces.
KeysKnown ==
  /\ keyToken[0] = 0
  /\ \A a \in Ids : store[a].key <= keys /\ keyToken[store[a].key] = store[a].token
  /\ \A g \in Logins :
       flow[g].key <= keys /\ (flow[g].pc = "save" => keyToken[flow[g].key] = g)
  /\ \A a \in Ids, i \in Slots :
       /\ job[a][i].key <= keys
       /\ job[a][i].minted <= keys
       /\ job[a][i].pc = "store" =>
            keyToken[job[a][i].minted] = job[a][i].token /\ job[a][i].key < job[a][i].minted

\* A sign-in that has not saved yet has a token that no account has, and one that has
\* not begun has no goroutine.
LoginUnsaved ==
  \A g \in Logins :
    /\ g > generation \/ flow[g].pc \in {"request", "poll", "mint", "save"}
         => \A a \in Ids : store[a].token # g
    /\ g > generation => flow[g].pc = "off"

StoreInv == TypeOK /\ KeysKnown /\ LoginUnsaved /\ NewestLoginKept

LEMMA InitStore == Init => StoreInv
<1> SUFFICES ASSUME Init PROVE StoreInv
  OBVIOUS
<1>1. TypeOK
  BY InitType
<1>2. \A a \in Ids : store[a].key = 0 /\ store[a].token = 0
  <2> SUFFICES ASSUME NEW a \in Ids PROVE store[a].key = 0 /\ store[a].token = 0
    OBVIOUS
  <2>1. store[a] \in {NoAccount} \cup
                       [present : {TRUE}, token : {0}, key : {0}, disabled : BOOLEAN]
    BY DEF Init
  <2>2. CASE store[a] = NoAccount
    BY <2>2 DEF NoAccount
  <2>3. CASE store[a] \in [present : {TRUE}, token : {0}, key : {0}, disabled : BOOLEAN]
    BY <2>3
  <2> QED
    BY <2>1, <2>2, <2>3
<1>3. KeysKnown
  <2>1. \A g \in Logins : flow[g].key = 0 /\ flow[g].pc = "off"
    BY DEF Init, NoFlow
  <2>2. \A a \in Ids, i \in Slots :
          job[a][i].key = 0 /\ job[a][i].minted = 0 /\ job[a][i].pc = "off"
    BY DEF Init, NoJob
  <2>3. keys = 0 /\ keyToken[0] = 0
    BY MetaAssumption DEF Init, Keys
  <2> QED
    BY <1>2, <2>1, <2>2, <2>3 DEF KeysKnown
<1>4. LoginUnsaved
  <2>1. \A g \in Logins : flow[g].pc = "off" /\ g # 0
    BY MetaAssumption DEF Init, NoFlow, Logins
  <2> QED
    BY <1>2, <2>1 DEF LoginUnsaved
<1>5. NewestLoginKept
  BY <1>2, <1>3 DEF Init, NewestLoginKept, KeysKnown, Present
<1> QED
  BY <1>1, <1>3, <1>4, <1>5 DEF StoreInv

\* A sign-in step other than the minting does not disturb it.
LEMMA FlowKeys ==
  ASSUME StoreInv, NEW g \in Logins, NEW f, flow' = [flow EXCEPT ![g] = f],
         f.key = flow[g].key \/ f.key = 0, f.pc # "save",
         UNCHANGED <<keys, keyToken, job, store>>
  PROVE  KeysKnown'
<1>1. keys \in Nat
  BY MetaAssumption DEF StoreInv, TypeOK, Keys
<1>2. \A h \in Logins : flow'[h] = IF h = g THEN f ELSE flow[h]
  BY DEF StoreInv, TypeOK
<1> QED
  BY <1>1, <1>2 DEF StoreInv, KeysKnown

\* What Abandon and Fail make of a sign-in is such a step.
LEMMA EndKeys ==
  ASSUME StoreInv, NEW g \in Logins, Abandon(g) \/ Fail(g),
         UNCHANGED <<keys, keyToken, job, store>>
  PROVE  KeysKnown'
<1>1. CASE Abandon(g)
  <2>1. NoFlow.key = 0 /\ NoFlow.pc = "off"
    BY DEF NoFlow
  <2> QED
    BY <1>1, <2>1, FlowKeys DEF Abandon
<1>2. CASE Fail(g)
  <2> DEFINE f == [flow[g] EXCEPT !.pc = "finish", !.ok = FALSE]
  <2>1. f.key = flow[g].key /\ f.pc = "finish"
    BY DEF StoreInv, TypeOK, Flow
  <2>2. flow' = [flow EXCEPT ![g] = f]
    BY <1>2 DEF Fail
  <2> HIDE DEF f
  <2> QED
    BY <2>1, <2>2, FlowKeys
<1> QED
  BY <1>1, <1>2

\* Every action keeps what is known about them.
LEMMA KeysStep ==
  ASSUME StoreInv, Next PROVE KeysKnown'
<1> USE MetaAssumption DEF StoreInv, managerVars, KeysKnown
<1>0. /\ keys \in Nat /\ keyToken \in [Keys -> Tokens]
      /\ \A a \in Ids : store[a].key \in Keys
      /\ \A g \in Logins : flow[g].key \in Keys
      /\ \A a \in Ids, i \in Slots : job[a][i].key \in Keys /\ job[a][i].minted \in Keys
      /\ \A k \in Keys : k \in Nat
  BY DEF TypeOK, Keys, Account, Flow, Job
<1>1. CASE StartAuthentication
  BY <1>1 DEF StartAuthentication, TypeOK
<1>2. CASE CancelAuthentication
  BY <1>2 DEF CancelAuthentication
<1>3. CASE RefreshAPIKeyIfNeeded
  BY <1>3, <1>0 DEF RefreshAPIKeyIfNeeded, TypeOK
<1>4. CASE ReachMargin
  BY <1>4 DEF ReachMargin
<1>5. CASE Crash
  BY <1>5, <1>0 DEF Crash, NoFlow, NoJob
<1>6. ASSUME NEW g \in Logins, RequestDeviceAuthorization(g) PROVE KeysKnown'
  <2> DEFINE f == [flow[g] EXCEPT !.pc = "poll"]
  <2>1. CASE flow' = [flow EXCEPT ![g] = f]
    <3>1. f.key = flow[g].key /\ f.pc = "poll"
      BY DEF TypeOK, Flow
    <3> HIDE DEF f
    <3> QED
      BY <1>6, <2>1, <3>1, FlowKeys DEF RequestDeviceAuthorization
  <2> QED
    BY <1>6, <2>1, EndKeys DEF RequestDeviceAuthorization
<1>7. ASSUME NEW g \in Logins, PollForToken(g) PROVE KeysKnown'
  <2>1. ASSUME NEW a \in Ids,
               flow' = [flow EXCEPT ![g] = [flow[g] EXCEPT !.pc = "mint", !.id = a]]
        PROVE  KeysKnown'
    <3> DEFINE f == [flow[g] EXCEPT !.pc = "mint", !.id = a]
    <3>1. f.key = flow[g].key /\ f.pc = "mint"
      BY DEF TypeOK, Flow
    <3>2. flow' = [flow EXCEPT ![g] = f]
      BY <2>1
    <3> HIDE DEF f
    <3> QED
      BY <1>7, <3>1, <3>2, FlowKeys DEF PollForToken
  <2> QED
    BY <1>7, <2>1, EndKeys DEF PollForToken
<1>8. ASSUME NEW g \in Logins, MintForLogin(g) PROVE KeysKnown'
  <2>1. CASE (Abandon(g) \/ Fail(g)) /\ UNCHANGED <<keys, keyToken>>
    BY <1>8, <2>1, EndKeys DEF MintForLogin
  <2>2. CASE Minted(g) /\ flow' = [flow EXCEPT ![g] = [@ EXCEPT !.pc = "save", !.key = keys + 1]]
    BY <1>8, <2>2, <1>0 DEF MintForLogin, Minted, TypeOK, Keys
  <2> QED
    BY <1>8, <2>1, <2>2 DEF MintForLogin
<1>9. ASSUME NEW g \in Logins, Save(g) PROVE KeysKnown'
  <2>1. CASE Fail(g) /\ UNCHANGED <<store, latest>>
    BY <1>9, <2>1, EndKeys DEF Save
  <2> DEFINE saved == [present |-> TRUE, token |-> g, key |-> flow[g].key,
                       disabled |-> store[flow[g].id].disabled]
             f == [flow[g] EXCEPT !.pc = "finish", !.ok = TRUE]
  <2>2. CASE store' = [store EXCEPT ![flow[g].id] = saved] /\ flow' = [flow EXCEPT ![g] = f]
    <3>1. saved.key <= keys /\ keyToken[saved.key] = saved.token
      BY <1>9 DEF Save
    <3>2. f.key = flow[g].key /\ f.pc = "finish"
      BY DEF TypeOK, Flow
    <3> HIDE DEF saved, f
    <3>3. \A a \in Ids : store'[a] = IF a = flow[g].id THEN saved ELSE store[a]
      BY <2>2 DEF TypeOK
    <3>4. \A h \in Logins : flow'[h] = IF h = g THEN f ELSE flow[h]
      BY <2>2 DEF TypeOK
    <3> QED
      BY <1>9, <3>1, <3>2, <3>3, <3>4 DEF Save
  <2> QED
    BY <1>9, <2>1, <2>2 DEF Save
<1>10. ASSUME NEW g \in Logins, FinishAuthentication(g) PROVE KeysKnown'
  BY <1>10, <1>0 DEF FinishAuthentication, NoFlow, TypeOK
<1>11. ASSUME NEW a \in Ids, Remove(a) PROVE KeysKnown'
  BY <1>11, <1>0 DEF Remove, NoAccount, TypeOK
<1>12. ASSUME NEW a \in Ids, ToggleDisabled(a) PROVE KeysKnown'
  BY <1>12, <1>0 DEF ToggleDisabled, TypeOK
<1>13. ASSUME NEW a \in Ids, NEW i \in Slots, MintForRefresh(a, i) PROVE KeysKnown'
  <2>1. CASE job' = [job EXCEPT ![a][i] = NoJob] /\ UNCHANGED <<keys, keyToken>>
    BY <1>13, <2>1, <1>0 DEF MintForRefresh, NoJob, TypeOK
  <2>2. CASE /\ Minted(job[a][i].token)
             /\ job' = [job EXCEPT ![a][i] = [@ EXCEPT !.pc = "store", !.minted = keys + 1]]
    BY <1>13, <2>2, <1>0 DEF MintForRefresh, Minted, TypeOK, Keys
  <2> QED
    BY <1>13, <2>1, <2>2 DEF MintForRefresh
<1>14. ASSUME NEW a \in Ids, NEW i \in Slots, UpdateKey(a, i) PROVE KeysKnown'
  <2>1. \A b \in Ids, j \in Slots : job'[b][j] = IF b = a /\ j = i THEN NoJob ELSE job[b][j]
    BY <1>14 DEF UpdateKey, TypeOK
  <2>2. NoJob.key = 0 /\ NoJob.minted = 0 /\ NoJob.pc = "off"
    BY DEF NoJob
  <2>3. CASE UNCHANGED store
    BY <1>14, <1>0, <2>1, <2>2, <2>3 DEF UpdateKey
  <2>4. CASE SameCredentials(a, i) /\ store' = [store EXCEPT ![a].key = job[a][i].minted]
    <3>1. \A b \in Ids : /\ store'[b].token = store[b].token
                        /\ store'[b].key = IF b = a THEN job[a][i].minted ELSE store[b].key
      BY <2>4 DEF TypeOK, Account
    <3> QED
      BY <1>14, <1>0, <2>1, <2>2, <2>4, <3>1 DEF UpdateKey, SameCredentials
  <2> QED
    BY <1>14, <2>3, <2>4 DEF UpdateKey
<1> QED
  BY <1>1, <1>2, <1>3, <1>4, <1>5, <1>6, <1>7, <1>8, <1>9, <1>10, <1>11, <1>12, <1>13,
     <1>14 DEF Next, SignInStep, RefreshStep

\* A sign-in has a number of its own, and gives it to an account only when it saves.
LEMMA UnsavedStep ==
  ASSUME StoreInv, Next PROVE LoginUnsaved'
<1> USE MetaAssumption DEF StoreInv, managerVars
<1>1. generation \in Nat /\ \A g \in Logins : g \in Nat \ {0}
  BY DEF TypeOK, Logins
<1>2. ASSUME generation' >= generation, generation' \in Nat,
             \A g \in Logins :
               /\ flow'[g].pc \in {"request", "poll", "mint", "save"}
                    => g > generation \/ flow[g].pc \in {"request", "poll", "mint", "save"}
               /\ flow'[g].pc # flow[g].pc => g <= generation' \/ flow'[g].pc = "off",
             \A a \in Ids : store'[a].token = store[a].token \/ store'[a].token = 0
      PROVE  LoginUnsaved'
  BY <1>1, <1>2 DEF LoginUnsaved
<1>3. CASE StartAuthentication
  <2>1. \A g \in Logins : flow'[g].pc = IF g = generation + 1 THEN "request" ELSE flow[g].pc
    BY <1>3 DEF StartAuthentication, TypeOK, Flow
  <2> QED
    BY <1>1, <1>2, <1>3, <2>1 DEF StartAuthentication
<1>4. CASE CancelAuthentication
  BY <1>1, <1>2, <1>4 DEF CancelAuthentication
<1>5. CASE RefreshAPIKeyIfNeeded \/ ReachMargin
  BY <1>1, <1>2, <1>5 DEF RefreshAPIKeyIfNeeded, ReachMargin
<1>6. CASE Crash
  BY <1>1, <1>2, <1>6 DEF Crash, NoFlow
<1>7. ASSUME NEW g \in Logins, UNCHANGED <<generation, store>>, flow[g].pc # "off",
             \A h \in Logins : h # g => flow'[h] = flow[h],
             \/ flow'[g].pc \in {"off", "finish"}
             \/ flow[g].pc \in {"request", "poll", "mint", "save"}
      PROVE  LoginUnsaved'
  <2>1. g <= generation
    BY <1>1, <1>7 DEF LoginUnsaved, TypeOK
  <2> QED
    BY <1>1, <1>2, <1>7, <2>1
<1>11. ASSUME NEW g \in Logins, RequestDeviceAuthorization(g) PROVE LoginUnsaved'
  <2>1. \A h \in Logins : h # g => flow'[h] = flow[h]
    BY <1>11 DEF RequestDeviceAuthorization, Abandon, Fail, TypeOK
  <2> QED
    BY <1>7, <1>11, <2>1 DEF RequestDeviceAuthorization
<1>12. ASSUME NEW g \in Logins, PollForToken(g) PROVE LoginUnsaved'
  <2>1. \A h \in Logins : h # g => flow'[h] = flow[h]
    BY <1>12 DEF PollForToken, Abandon, Fail, TypeOK
  <2> QED
    BY <1>7, <1>12, <2>1 DEF PollForToken
<1>13. ASSUME NEW g \in Logins, MintForLogin(g) PROVE LoginUnsaved'
  <2>1. \A h \in Logins : h # g => flow'[h] = flow[h]
    BY <1>13 DEF MintForLogin, Abandon, Fail, TypeOK
  <2> QED
    BY <1>7, <1>13, <2>1 DEF MintForLogin
<1>14. ASSUME NEW g \in Logins, FinishAuthentication(g) PROVE LoginUnsaved'
  <2>1. /\ \A h \in Logins : h # g => flow'[h] = flow[h]
        /\ flow'[g].pc = "off"
    BY <1>14 DEF FinishAuthentication, NoFlow, TypeOK
  <2> QED
    BY <1>7, <1>14, <2>1 DEF FinishAuthentication
<1>8. ASSUME NEW g \in Logins, Save(g) PROVE LoginUnsaved'
  <2>1. CASE Fail(g) /\ UNCHANGED <<store, latest>>
    <3>1. \A h \in Logins : h # g => flow'[h] = flow[h]
      BY <2>1 DEF Fail, TypeOK
    <3> QED
      BY <1>7, <1>8, <2>1, <3>1 DEF Save
  <2> DEFINE saved == [present |-> TRUE, token |-> g, key |-> flow[g].key,
                       disabled |-> store[flow[g].id].disabled]
             f == [flow[g] EXCEPT !.pc = "finish", !.ok = TRUE]
  <2>2. CASE store' = [store EXCEPT ![flow[g].id] = saved] /\ flow' = [flow EXCEPT ![g] = f]
    <3>1. saved.token = g
      OBVIOUS
    <3>2. f.pc = "finish"
      BY DEF TypeOK, Flow
    <3> HIDE DEF saved, f
    <3>3. \A a \in Ids : store'[a] = IF a = flow[g].id THEN saved ELSE store[a]
      BY <2>2 DEF TypeOK
    <3>4. \A h \in Logins : flow'[h] = IF h = g THEN f ELSE flow[h]
      BY <2>2 DEF TypeOK
    <3>5. g <= generation /\ UNCHANGED generation
      BY <1>1, <1>8 DEF Save, LoginUnsaved
    <3> QED
      BY <1>1, <3>1, <3>2, <3>3, <3>4, <3>5 DEF LoginUnsaved
  <2> QED
    BY <1>8, <2>1, <2>2 DEF Save
<1>9. ASSUME NEW a \in Ids, Remove(a) \/ ToggleDisabled(a) PROVE LoginUnsaved'
  <2>1. \A b \in Ids : store'[b].token = store[b].token \/ store'[b].token = 0
    BY <1>9 DEF Remove, ToggleDisabled, NoAccount, TypeOK, Account
  <2> QED
    BY <1>1, <1>2, <1>9, <2>1 DEF Remove, ToggleDisabled
<1>10. ASSUME NEW a \in Ids, NEW i \in Slots, RefreshStep(a, i) PROVE LoginUnsaved'
  <2>1. \A b \in Ids : store'[b].token = store[b].token
    <3>1. CASE UNCHANGED store
      BY <3>1
    <3>2. CASE store' = [store EXCEPT ![a].key = job[a][i].minted]
      BY <3>2 DEF TypeOK, Account
    <3> QED
      BY <1>10, <3>1, <3>2 DEF RefreshStep, MintForRefresh, UpdateKey
  <2> QED
    BY <1>1, <1>2, <1>10, <2>1 DEF RefreshStep, MintForRefresh, UpdateKey
<1> QED
  BY <1>3, <1>4, <1>5, <1>6, <1>8, <1>9, <1>10, <1>11, <1>12, <1>13, <1>14
  DEF Next, SignInStep

\* What a step may do to the account file.
LEMMA StoreStep ==
  ASSUME StoreInv, Next
  PROVE  \/ UNCHANGED <<store, latest>>
         \/ \E g \in Logins, a \in Ids :
              /\ flow[g].pc = "save"
              /\ store' = [store EXCEPT ![a] = [present |-> TRUE, token |-> g,
                             key |-> flow[g].key, disabled |-> store[a].disabled]]
              /\ latest' = [latest EXCEPT ![a] = {g}]
         \/ \E a \in Ids : Remove(a)
         \/ \E a \in Ids : ToggleDisabled(a)
         \/ \E a \in Ids, i \in Slots :
              /\ job[a][i].pc = "store"
              /\ SameCredentials(a, i)
              /\ store' = [store EXCEPT ![a].key = job[a][i].minted]
              /\ UNCHANGED latest
<1>1. CASE StartAuthentication \/ CancelAuthentication \/ RefreshAPIKeyIfNeeded
             \/ ReachMargin \/ Crash
  BY <1>1 DEF StartAuthentication, CancelAuthentication, RefreshAPIKeyIfNeeded, ReachMargin,
       Crash
<1>2. ASSUME NEW g \in Logins, SignInStep(g), ~Save(g) PROVE UNCHANGED <<store, latest>>
  BY <1>2 DEF SignInStep, RequestDeviceAuthorization, PollForToken, MintForLogin,
       FinishAuthentication
<1>3. ASSUME NEW g \in Logins, Save(g), ~UNCHANGED <<store, latest>>
      PROVE  \E a \in Ids :
              /\ flow[g].pc = "save"
              /\ store' = [store EXCEPT ![a] = [present |-> TRUE, token |-> g,
                             key |-> flow[g].key, disabled |-> store[a].disabled]]
              /\ latest' = [latest EXCEPT ![a] = {g}]
  <2>1. flow[g].id \in Ids
    BY DEF StoreInv, TypeOK, Flow
  <2> QED
    BY <1>3, <2>1 DEF Save
<1>4. ASSUME NEW a \in Ids, NEW i \in Slots, MintForRefresh(a, i)
      PROVE  UNCHANGED <<store, latest>>
  BY <1>4 DEF MintForRefresh
<1>5. ASSUME NEW a \in Ids, NEW i \in Slots, UpdateKey(a, i), ~UNCHANGED <<store, latest>>
      PROVE  /\ job[a][i].pc = "store"
             /\ SameCredentials(a, i)
             /\ store' = [store EXCEPT ![a].key = job[a][i].minted]
             /\ UNCHANGED latest
  BY <1>5 DEF UpdateKey
<1> QED
  BY <1>1, <1>2, <1>3, <1>4, <1>5 DEF Next, RefreshStep

\* What the minting of keys and the numbering of sign-ins keep known.
LEMMA NewestStep ==
  ASSUME StoreInv, Next PROVE NewestLoginKept'
<1>1. \A a \in Ids : keyToken'[store'[a].key] = store'[a].token
  BY KeysStep DEF KeysKnown
<1>2. \A a \in Ids : latest'[a] = IF store'[a].present THEN {store'[a].token} ELSE {}
  <2> USE DEF StoreInv, NewestLoginKept, Present
  <2>1. CASE UNCHANGED <<store, latest>>
    BY <2>1
  <2>2. ASSUME NEW g \in Logins, NEW a \in Ids,
               store' = [store EXCEPT ![a] = [present |-> TRUE, token |-> g,
                           key |-> flow[g].key, disabled |-> store[a].disabled]],
               latest' = [latest EXCEPT ![a] = {g}]
        PROVE  \A b \in Ids : latest'[b] = IF store'[b].present THEN {store'[b].token} ELSE {}
    BY <2>2 DEF TypeOK
  <2>3. ASSUME NEW a \in Ids, Remove(a)
        PROVE  \A b \in Ids : latest'[b] = IF store'[b].present THEN {store'[b].token} ELSE {}
    BY <2>3 DEF TypeOK, Remove, NoAccount
  <2>4. ASSUME NEW a \in Ids, ToggleDisabled(a)
        PROVE  \A b \in Ids : latest'[b] = IF store'[b].present THEN {store'[b].token} ELSE {}
    <3>1. \A b \in Ids : store'[b].present = store[b].present /\ store'[b].token = store[b].token
      BY <2>4 DEF TypeOK, ToggleDisabled, Account
    <3> QED
      BY <2>4, <3>1 DEF ToggleDisabled
  <2>5. ASSUME NEW a \in Ids, NEW i \in Slots, UNCHANGED latest,
               store' = [store EXCEPT ![a].key = job[a][i].minted]
        PROVE  \A b \in Ids : latest'[b] = IF store'[b].present THEN {store'[b].token} ELSE {}
    <3>1. \A b \in Ids : store'[b].present = store[b].present /\ store'[b].token = store[b].token
      BY <2>5 DEF TypeOK, Account
    <3> QED
      BY <2>5, <3>1
  <2> QED
    BY <2>1, <2>2, <2>3, <2>4, <2>5, StoreStep
<1> QED
  BY <1>1, <1>2 DEF NewestLoginKept, Present

LEMMA StoreInvariant == Spec => []StoreInv
<1>1. StoreInv /\ [Next]_vars => StoreInv'
  <2>1. CASE StoreInv /\ Next
    BY <2>1, TypeStep, KeysStep, UnsavedStep, NewestStep DEF StoreInv
  <2>2. CASE StoreInv /\ UNCHANGED vars
    BY <2>2 DEF vars, StoreInv, TypeOK, KeysKnown, LoginUnsaved, NewestLoginKept, Present
  <2> QED
    BY <2>1, <2>2
<1> QED
  BY InitStore, <1>1, PTL DEF Spec

\* An account holds the token of the last sign-in saved for it and a key minted for that
\* token; what is removed stays away.
THEOREM NewestKept == Spec => []NewestLoginKept
BY StoreInvariant, PTL DEF StoreInv

\* An account's key is only replaced by a younger one while its sign-in lasts.
THEOREM KeysOnlyAdvance == Spec => KeysAdvance
<1> DEFINE Advance ==
      \A a \in Ids :
        Present(a) /\ Present(a)' /\ store[a].token = store'[a].token
          => store'[a].key >= store[a].key
<1>1. StoreInv /\ [Next]_vars => Advance
  <2> SUFFICES ASSUME StoreInv, [Next]_vars PROVE Advance
    OBVIOUS
  <2>0. \A a \in Ids : store[a].key \in Nat
    BY MetaAssumption DEF StoreInv, TypeOK, Account, Keys
  <2>1. CASE UNCHANGED store
    BY <2>0, <2>1
  <2>2. ASSUME NEW g \in Logins, NEW a \in Ids, flow[g].pc = "save",
               store' = [store EXCEPT ![a] = [present |-> TRUE, token |-> g,
                           key |-> flow[g].key, disabled |-> store[a].disabled]]
        PROVE  Advance
    BY <2>0, <2>2 DEF StoreInv, TypeOK, LoginUnsaved
  <2>3. ASSUME NEW a \in Ids, Remove(a) PROVE Advance
    BY <2>0, <2>3 DEF Remove, StoreInv, TypeOK, NoAccount, Present
  <2>4. ASSUME NEW a \in Ids, ToggleDisabled(a) PROVE Advance
    <3>1. \A b \in Ids : store'[b].key = store[b].key
      BY <2>4 DEF StoreInv, TypeOK, ToggleDisabled, Account
    <3> QED
      BY <2>0, <3>1
  <2>5. ASSUME NEW a \in Ids, NEW i \in Slots, job[a][i].pc = "store",
               SameCredentials(a, i), store' = [store EXCEPT ![a].key = job[a][i].minted]
        PROVE  Advance
    <3>1. \A b \in Ids : store'[b].key = IF b = a THEN job[a][i].minted ELSE store[b].key
      BY <2>5 DEF StoreInv, TypeOK, Account
    <3>2. store[a].key < job[a][i].minted /\ job[a][i].minted \in Nat
      BY <2>5, MetaAssumption DEF StoreInv, TypeOK, KeysKnown, SameCredentials, Job, Keys
    <3> QED
      BY <2>0, <3>1, <3>2
  <2>6. CASE Next
    BY <2>1, <2>2, <2>3, <2>4, <2>5, <2>6, StoreStep
  <2> QED
    BY <2>1, <2>6 DEF vars
<1> QED
  BY <1>1, StoreInvariant, PTL DEF Spec, KeysAdvance

\* One enabled account stays, unless the last one is removed.
THEOREM EnabledAccountStays == Spec => OneEnabledLeft
<1> DEFINE Left ==
      (\E a \in Ids : Enabled(a)) /\ (\A a \in Ids : ~Enabled(a)')
        => \E a \in Ids : Enabled(a) /\ ~Present(a)'
<1> USE DEF Enabled, Present
<1>1. StoreInv /\ [Next]_vars => Left
  <2> SUFFICES ASSUME StoreInv, [Next]_vars,
                      \E a \in Ids : Enabled(a), \A a \in Ids : ~Enabled(a)'
               PROVE  \E a \in Ids : Enabled(a) /\ ~Present(a)'
    OBVIOUS
  <2>0. PICK e \in Ids : Enabled(e)
    OBVIOUS
  <2>1. CASE UNCHANGED store
    BY <2>0, <2>1
  <2>2. ASSUME NEW g \in Logins, NEW a \in Ids,
               store' = [store EXCEPT ![a] = [present |-> TRUE, token |-> g,
                           key |-> flow[g].key, disabled |-> store[a].disabled]]
        PROVE  FALSE
    BY <2>0, <2>2 DEF StoreInv, TypeOK
  <2>3. ASSUME NEW a \in Ids, Remove(a) PROVE e = a /\ ~Present(a)'
    BY <2>0, <2>3 DEF Remove, StoreInv, TypeOK, NoAccount
  <2>4. ASSUME NEW a \in Ids, ToggleDisabled(a) PROVE FALSE
    <3>1. \A b \in Ids : store'[b] = IF b = a THEN [store[a] EXCEPT !.disabled = ~@] ELSE store[b]
      BY <2>4 DEF ToggleDisabled, StoreInv, TypeOK
    <3>2. e = a
      BY <2>0, <3>1
    <3>3. {b \in Ids : Enabled(b)} \subseteq {a}
      BY <3>1, <2>0, <3>2
    <3>4. Cardinality({b \in Ids : Enabled(b)}) <= 1
      <4>1. IsFiniteSet({a}) /\ Cardinality({a}) = 1
        BY FS_Singleton
      <4> QED
        BY <3>3, <4>1, FS_Subset
    <3>5. /\ Cardinality({b \in Ids : Enabled(b)}) > 1
          /\ Cardinality({b \in Ids : Enabled(b)}) \in Nat
      <4>1. IsFiniteSet({b \in Ids : Enabled(b)})
        BY MetaAssumption, FS_Subset
      <4> QED
        BY <4>1, <2>0, <2>4, <3>2, FS_CardinalityType DEF ToggleDisabled
    <3> QED
      BY <3>4, <3>5
  <2>5. ASSUME NEW a \in Ids, NEW i \in Slots,
               store' = [store EXCEPT ![a].key = job[a][i].minted]
        PROVE  FALSE
    <3>1. \A b \in Ids : store'[b].present = store[b].present
                        /\ store'[b].disabled = store[b].disabled
      BY <2>5 DEF StoreInv, TypeOK, Account
    <3> QED
      BY <2>0, <3>1
  <2>6. CASE Next
    <3> HIDE DEF Enabled, Present
    <3> QED
      BY <2>0, <2>1, <2>2, <2>3, <2>4, <2>5, <2>6, StoreStep
  <2> QED
    BY <2>1, <2>6 DEF vars
<1> QED
  BY <1>1, StoreInvariant, PTL DEF Spec, OneEnabledLeft

-----------------------------------------------------------------------------
(* The state of the sign-in                                                *)

\* Only its own end or a cancellation takes the current sign-in away, and both leave the
\* authenticating state.
THEOREM SignInAlive == Spec => []AuthenticatingIsAlive
<1>1. Init => AuthenticatingIsAlive
  BY DEF Init, AuthenticatingIsAlive, HasCredentialsState
<1>2. TypeOK /\ AuthenticatingIsAlive /\ [Next]_vars => AuthenticatingIsAlive'
  <2> SUFFICES ASSUME TypeOK, AuthenticatingIsAlive, [Next]_vars
               PROVE  AuthenticatingIsAlive'
    OBVIOUS
  <2> USE DEF AuthenticatingIsAlive, IsCurrent
  <2>1. CASE StartAuthentication
    <3>1. generation + 1 \in Logins
      BY <2>1, MetaAssumption DEF StartAuthentication, TypeOK, Logins
    <3>2. flow'[generation + 1].pc = "request" /\ generation' = generation + 1
      BY <2>1, <3>1 DEF StartAuthentication, TypeOK, Flow
    <3> QED
      BY <3>1, <3>2
  <2>2. CASE CancelAuthentication \/ Crash
    BY <2>2 DEF CancelAuthentication, Crash, HasCredentialsState
  <2>3. ASSUME UNCHANGED <<state, generation, flow>> PROVE AuthenticatingIsAlive'
    BY <2>3
  <2>4. ASSUME NEW g \in Logins, FinishAuthentication(g) PROVE AuthenticatingIsAlive'
    BY <2>4 DEF FinishAuthentication
  <2>5. ASSUME NEW g \in Logins, UNCHANGED <<state, generation>>,
               \A h \in Logins : h # g => flow'[h] = flow[h],
               flow'[g].pc # "off" \/ ~IsCurrent(g)
        PROVE  AuthenticatingIsAlive'
    BY <2>5
  <2>6. ASSUME NEW g \in Logins, Abandon(g) \/ Fail(g)
        PROVE  /\ \A h \in Logins : h # g => flow'[h] = flow[h]
               /\ Fail(g) => flow'[g].pc = "finish"
    BY <2>6 DEF Abandon, Fail, TypeOK, Flow
  <2>7. ASSUME NEW g \in Logins, RequestDeviceAuthorization(g) PROVE AuthenticatingIsAlive'
    <3>1. CASE flow' = [flow EXCEPT ![g].pc = "poll"]
      BY <2>7, <2>5, <3>1 DEF RequestDeviceAuthorization, managerVars, TypeOK, Flow
    <3> QED
      BY <2>7, <2>5, <2>6, <3>1 DEF RequestDeviceAuthorization, managerVars
  <2>8. ASSUME NEW g \in Logins, PollForToken(g) PROVE AuthenticatingIsAlive'
    <3>1. CASE \E a \in Ids : flow' = [flow EXCEPT ![g] = [@ EXCEPT !.pc = "mint", !.id = a]]
      BY <2>8, <2>5, <3>1 DEF PollForToken, managerVars, TypeOK, Flow
    <3> QED
      BY <2>8, <2>5, <2>6, <3>1 DEF PollForToken, managerVars
  <2>9. ASSUME NEW g \in Logins, MintForLogin(g) PROVE AuthenticatingIsAlive'
    <3>1. CASE flow' = [flow EXCEPT ![g] = [@ EXCEPT !.pc = "save", !.key = keys + 1]]
      BY <2>9, <2>5, <3>1 DEF MintForLogin, managerVars, TypeOK, Flow
    <3> QED
      BY <2>9, <2>5, <2>6, <3>1 DEF MintForLogin, managerVars
  <2>10. ASSUME NEW g \in Logins, Save(g) PROVE AuthenticatingIsAlive'
    <3>1. CASE flow' = [flow EXCEPT ![g] = [@ EXCEPT !.pc = "finish", !.ok = TRUE]]
      BY <2>10, <2>5, <3>1 DEF Save, managerVars, TypeOK, Flow
    <3> QED
      BY <2>10, <2>5, <2>6, <3>1 DEF Save, managerVars
  <2>11. ASSUME NEW a \in Ids, \/ Remove(a) \/ ToggleDisabled(a)
                               \/ \E i \in Slots : RefreshStep(a, i)
         PROVE  AuthenticatingIsAlive'
    BY <2>3, <2>11 DEF Remove, ToggleDisabled, RefreshStep, MintForRefresh, UpdateKey, managerVars
  <2>12. CASE RefreshAPIKeyIfNeeded \/ ReachMargin
    BY <2>3, <2>12 DEF RefreshAPIKeyIfNeeded, ReachMargin, managerVars
  <2>13. CASE UNCHANGED vars
    BY <2>3, <2>13 DEF vars
  <2> QED
    BY <2>1, <2>2, <2>4, <2>7, <2>8, <2>9, <2>10, <2>11, <2>12, <2>13 DEF Next, SignInStep
<1> QED
  BY <1>1, <1>2, Typed, PTL DEF Spec
=============================================================================
