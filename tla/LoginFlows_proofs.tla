--------------------------- MODULE LoginFlows_proofs ---------------------------
(* Proofs about the sign-ins of LoginFlows, for any number of logins and cancels. *)
EXTENDS LoginFlows, TLAPS

\* What the cancellation of one login leaves of the others.
LEMMA CancelOne ==
  ASSUME logins \in [Logins -> LoginStates], NEW s \in Logins
  PROVE  /\ Cancelled(s) \in [Logins -> LoginStates]
         /\ Cancelled(s)[s].cancelled # "no"
         /\ \A i \in Logins : /\ Cancelled(s)[i].pc = logins[i].pc
                              /\ Cancelled(s)[i].outcome = logins[i].outcome
                              /\ i # s => Cancelled(s)[i] = logins[i]
                              /\ Cancelled(s)[i].cancelled = "no" => logins[i].cancelled = "no"
                              /\ Cancelled(s)[i].cancelled = "seen" =>
                                    \/ logins[i].cancelled = "seen"
                                    \/ logins[i].pc \in {"asking", "polling"}
<1> DEFINE mark == IF logins[s].cancelled # "no" THEN logins[s].cancelled
                   ELSE IF logins[s].pc \in {"asking", "polling"} THEN "seen" ELSE "late"
<1>1. /\ logins[s] \in LoginStates
      /\ mark \in {"seen", "late"}
      /\ mark = "seen" => logins[s].cancelled = "seen" \/ logins[s].pc \in {"asking", "polling"}
  BY DEF LoginStates
<1>2. Cancelled(s) = [logins EXCEPT ![s] = [logins[s] EXCEPT !.cancelled = mark]]
  BY DEF Cancelled
<1> HIDE DEF mark
<1> DEFINE new == [logins[s] EXCEPT !.cancelled = mark]
<1>3. new \in LoginStates /\ new.pc = logins[s].pc /\ new.outcome = logins[s].outcome /\ new.cancelled = mark
  BY <1>1 DEF LoginStates
<1> HIDE DEF new
<1>4. /\ Cancelled(s) \in [Logins -> LoginStates]
      /\ Cancelled(s)[s] = new
      /\ \A i \in Logins : i # s => Cancelled(s)[i] = logins[i]
  BY <1>2, <1>3 DEF new
<1> QED
  BY <1>1, <1>3, <1>4

\* The logins after the one that startGrokLogin replaces is cancelled.
Dropped == IF session = 0 THEN logins ELSE Cancelled(session)

LEMMA DropOne ==
  ASSUME TypeOK
  PROVE  /\ Dropped \in [Logins -> LoginStates]
         /\ session # 0 => Dropped[session].cancelled # "no"
         /\ \A i \in Logins : /\ Dropped[i].pc = logins[i].pc
                              /\ Dropped[i].outcome = logins[i].outcome
                              /\ i # session => Dropped[i] = logins[i]
                              /\ Dropped[i].cancelled = "no" => logins[i].cancelled = "no"
                              /\ Dropped[i].cancelled = "seen" =>
                                    \/ logins[i].cancelled = "seen"
                                    \/ logins[i].pc \in {"asking", "polling"}
<1>1. CASE session = 0
  BY <1>1 DEF TypeOK, Dropped, Logins
<1>2. CASE session # 0
  <2>1. session \in Logins /\ Dropped = Cancelled(session)
    BY <1>2, LoginAssumption DEF TypeOK, Dropped, Logins
  <2> QED
    BY <2>1, CancelOne DEF TypeOK
<1> QED
  BY <1>1, <1>2

-----------------------------------------------------------------------------
\* The rest of TypeOK, on which only a few actions have an effect each.
Fields ==
    /\ session \in 0 .. MaxLogins /\ code \in 0 .. MaxLogins /\ waiting \in BOOLEAN
    /\ starting \subseteq Logins /\ dropping \subseteq Logins
    /\ saved \subseteq Logins /\ told \subseteq Logins
    /\ cancels \in 0 .. MaxCancels /\ muddled \in BOOLEAN
    /\ busy \in BOOLEAN
    /\ runs \in [Callers -> [pc : {"idle", "running", "settled"}, left : BOOLEAN]]

LEMMA Bounds == /\ 0 \in 0 .. MaxLogins /\ Logins \subseteq 0 .. MaxLogins
                /\ 0 \notin Logins
                /\ 0 \in 0 .. MaxCancels
                /\ \A n \in 0 .. MaxCancels : n < MaxCancels => n + 1 \in 0 .. MaxCancels
  BY LoginAssumption DEF Logins

LEMMA TypeInit == Init => TypeOK
<1>1. Init => TypeOK
  <2> SUFFICES ASSUME Init PROVE TypeOK
    OBVIOUS
  <2>1. logins \in [Logins -> LoginStates] /\ runs \in [Callers -> [pc : {"idle", "running", "settled"}, left : BOOLEAN]]
    BY DEF Init, LoginStates
  <2> QED
    BY <2>1, Bounds DEF Init, TypeOK
<1> QED
  BY <1>1

LEMMA TypeStep == TypeOK /\ [Next]_vars => TypeOK'
<1>1. TypeOK /\ [Next]_vars => TypeOK'
  <2> SUFFICES ASSUME TypeOK, [Next]_vars PROVE TypeOK'
    OBVIOUS
  <2>0. Fields /\ \A i \in Logins : logins[i] \in LoginStates
    BY DEF TypeOK, Fields
  <2> USE Bounds DEF Ends
  <2> SUFFICES Fields' /\ logins' \in [Logins -> LoginStates]
    BY DEF TypeOK, Fields
  <2>1. ASSUME NEW i \in Logins, StartGrokLogin(i)
        PROVE  Fields' /\ logins' \in [Logins -> LoginStates]
    <3>1. logins' = [Dropped EXCEPT ![i] = [Dropped[i] EXCEPT !.pc = "asking"]]
      BY <2>1 DEF StartGrokLogin, Dropped
    <3>2. [Dropped[i] EXCEPT !.pc = "asking"] \in LoginStates
      BY DropOne DEF LoginStates
    <3>3. logins' \in [Logins -> LoginStates]
      BY <3>1, <3>2, DropOne
    <3> QED
      BY <2>0, <2>1, <3>3 DEF StartGrokLogin, Fields
  <2>2. ASSUME NEW i \in Logins, StoreSession(i)
        PROVE  Fields' /\ logins' \in [Logins -> LoginStates]
    BY <2>0, <2>2 DEF StoreSession, Fields, TypeOK
  <2>3. ASSUME CancelProviderAuth
        PROVE  Fields' /\ logins' \in [Logins -> LoginStates]
    <3>1. logins' \in [Logins -> LoginStates]
      BY <2>3 DEF CancelProviderAuth, TypeOK
    <3>2. cancels' \in 0 .. MaxCancels
      BY <2>0, <2>3 DEF CancelProviderAuth, Fields
    <3>3. session \in Logins \/ session = 0
      BY <2>0, LoginAssumption DEF Fields, Logins
    <3>4. dropping' \subseteq Logins
      BY <2>0, <2>3, <3>3 DEF CancelProviderAuth, Fields
    <3> QED
      BY <2>0, <2>3, <3>1, <3>2, <3>4 DEF CancelProviderAuth, Fields
  <2>3a. ASSUME NEW i \in Logins, CancelSession(i)
        PROVE  Fields' /\ logins' \in [Logins -> LoginStates]
    <3>1. logins' \in [Logins -> LoginStates]
      BY <2>3a, CancelOne DEF CancelSession, TypeOK
    <3> QED
      BY <2>0, <2>3a, <3>1 DEF CancelSession, Fields
  <2>4. ASSUME NEW i \in Logins, Asked(i) \/ Polled(i) \/ Expires(i)
        PROVE  Fields' /\ logins' \in [Logins -> LoginStates]
    <3>1. logins' \in [Logins -> LoginStates]
      BY <2>4 DEF Asked, Polled, Expires, TypeOK, LoginStates
    <3> QED
      BY <2>0, <2>4, <3>1 DEF Asked, Polled, Expires, Fields
  <2>5. ASSUME NEW i \in Logins, Prompt(i)
        PROVE  Fields' /\ logins' \in [Logins -> LoginStates]
    <3>1. logins' \in [Logins -> LoginStates]
      BY <2>5 DEF Prompt, TypeOK, LoginStates
    <3> QED
      BY <2>0, <2>5, <3>1 DEF Prompt, Fields
  <2>6. ASSUME NEW i \in Logins, Persist(i)
        PROVE  Fields' /\ logins' \in [Logins -> LoginStates]
    <3>1. logins' \in [Logins -> LoginStates]
      BY SMTT(30), <2>6 DEF Persist, TypeOK, LoginStates
    <3> QED
      BY <2>0, <2>6, <3>1 DEF Persist, Fields
  <2>7. ASSUME NEW i \in Logins, Complete(i)
        PROVE  Fields' /\ logins' \in [Logins -> LoginStates]
    <3>1. logins' \in [Logins -> LoginStates]
      BY <2>7 DEF Complete, TypeOK, LoginStates
    <3>2. told' \subseteq Logins
      BY <2>0, <2>7 DEF Complete, Fields
    <3>3. muddled' \in BOOLEAN
      BY <2>7 DEF Complete
    <3>4. /\ session' = 0 /\ code' = 0 /\ waiting' = FALSE
          /\ UNCHANGED <<starting, dropping, saved, cancels, busy, runs>>
      BY <2>7 DEF Complete
    <3> QED
      BY <2>0, <3>1, <3>2, <3>3, <3>4 DEF Fields
  <2>8. ASSUME NEW r \in Callers, RunBundledLogin(r) \/ Settles(r) \/ CallerLeaves(r)
        PROVE  Fields' /\ logins' \in [Logins -> LoginStates]
    <3>1. UNCHANGED grok
      BY <2>8 DEF RunBundledLogin, Settles, CommandSettles, FinishRun, CallerLeaves
    <3>2. busy' \in BOOLEAN
      BY <2>0, <2>8 DEF RunBundledLogin, Settles, CommandSettles, FinishRun, CallerLeaves, Fields
    <3>3. runs[r] \in [pc : {"idle", "running", "settled"}, left : BOOLEAN]
      BY <2>0 DEF Fields
    <3>4. \E new \in [pc : {"idle", "running", "settled"}, left : BOOLEAN] :
             runs' = [runs EXCEPT ![r] = new]
      <4>1. CASE RunBundledLogin(r)
        <5>1. PICK pc \in {"running", "settled"} : runs' = [runs EXCEPT ![r] = [runs[r] EXCEPT !.pc = pc]]
          BY <4>1 DEF RunBundledLogin
        <5>2. [runs[r] EXCEPT !.pc = pc] \in [pc : {"idle", "running", "settled"}, left : BOOLEAN]
          BY <3>3
        <5> QED
          BY <5>1, <5>2
      <4>2. CASE CommandSettles(r)
        <5>1. runs' = [runs EXCEPT ![r] = [runs[r] EXCEPT !.pc = "settled"]]
          BY <4>2 DEF CommandSettles
        <5>2. [runs[r] EXCEPT !.pc = "settled"] \in [pc : {"idle", "running", "settled"}, left : BOOLEAN]
          BY <3>3
        <5> QED
          BY <5>1, <5>2
      <4>3. CASE CallerLeaves(r)
        <5>1. runs' = [runs EXCEPT ![r] = [runs[r] EXCEPT !.left = TRUE]]
          BY <4>3 DEF CallerLeaves
        <5>2. [runs[r] EXCEPT !.left = TRUE] \in [pc : {"idle", "running", "settled"}, left : BOOLEAN]
          BY <3>3
        <5> QED
          BY <5>1, <5>2
      <4>4. CASE FinishRun(r)
        BY <4>4 DEF FinishRun
      <4> QED
        BY <2>8, <4>1, <4>2, <4>3, <4>4 DEF Settles
    <3>5. runs' \in [Callers -> [pc : {"idle", "running", "settled"}, left : BOOLEAN]]
      BY <2>0, <3>4 DEF Fields
    <3>6. /\ UNCHANGED <<session, code, waiting, starting, dropping, saved, told, cancels, muddled>>
          /\ logins' \in [Logins -> LoginStates]
      BY <3>1 DEF grok, TypeOK
    <3> QED
      BY <2>0, <3>2, <3>5, <3>6 DEF Fields
  <2>9. CASE UNCHANGED vars
    BY <2>0, <2>9 DEF vars, grok, Fields, TypeOK
  <2> QED
    BY <2>1, <2>2, <2>3, <2>3a, <2>4, <2>5, <2>6, <2>7, <2>8, <2>9 DEF Next, Goroutine
<1> QED
  BY <1>1

\* Every variable keeps its type.
THEOREM TypeCorrect == Spec => []TypeOK
  BY TypeInit, TypeStep, PTL DEF Spec

-----------------------------------------------------------------------------
\* While calls have not crossed: a session is stored by one call at a time, and
\* only the login that is stored or about to be stored is alive.
OneAtATime ==
    /\ starting # {} => session = 0
    /\ \A i, j \in starting : i = j
    /\ \A i \in Live : /\ session = i \/ i \in starting
                       /\ waiting
                       /\ logins[i].pc = "polling" => code = i
    /\ \A i, j \in Live : i = j

\* What cancellation leaves of each login, and what is told of it. A login that
\* has left the state without a cancel call was the current one to its end.
Faithful(i) ==
    /\ logins[i].pc = "persist" => logins[i].cancelled # "seen"
    /\ i \in saved => logins[i].pc \in {"complete", "done"} /\ logins[i].cancelled # "seen"
    /\ logins[i].outcome = "cancelled" => logins[i].cancelled # "no"
    /\ logins[i].pc = "done" /\ logins[i].cancelled = "no" /\ i \notin dropping =>
          i \in told \/ muddled

LoginInv == /\ TypeOK
            /\ muddled \/ OneAtATime
            /\ \A i \in Logins : Faithful(i)

\* How a step of a login's goroutine changes that login, and no other.
LEMMA Moved ==
  ASSUME TypeOK, NEW i \in Logins, NEW x, logins' = [logins EXCEPT ![i].pc = x]
  PROVE  /\ logins'[i].pc = x /\ logins'[i].cancelled = logins[i].cancelled
         /\ logins'[i].outcome = logins[i].outcome
         /\ \A j \in Logins : j # i => logins'[j] = logins[j]
<1>1. logins[i] \in LoginStates /\ logins \in [Logins -> LoginStates]
  BY DEF TypeOK
<1> QED
  BY <1>1 DEF LoginStates

LEMMA Ended ==
  ASSUME TypeOK, NEW i \in Logins, NEW y, Ends(i, y)
  PROVE  /\ logins'[i].pc = "complete" /\ logins'[i].cancelled = logins[i].cancelled
         /\ logins'[i].outcome = y
         /\ \A j \in Logins : j # i => logins'[j] = logins[j]
<1>1. logins[i] \in LoginStates /\ logins \in [Logins -> LoginStates]
  BY DEF TypeOK
<1> QED
  BY <1>1 DEF LoginStates, Ends

\* A step of the goroutine of one login, and what LoginInv says of it after.
LEMMA GoroutineStep ==
  ASSUME LoginInv, TypeOK', NEW i \in Logins, Goroutine(i)
  PROVE  (muddled' \/ OneAtATime') /\ \A j \in Logins : Faithful(j)'
<1> USE DEF LoginInv, OneAtATime, Faithful, Live, Running
<1>0. TypeOK /\ logins[i] \in LoginStates
  BY DEF TypeOK
<1>1. CASE Asked(i)
  <2>1. \/ logins' = [logins EXCEPT ![i].pc = "prompt"]
        \/ Ends(i, "failed")
        \/ Ends(i, "cancelled") /\ logins[i].cancelled # "no"
    BY <1>1 DEF Asked
  <2>2. /\ logins[i].pc = "asking"
        /\ UNCHANGED <<session, code, waiting, starting, dropping, saved, told, muddled>>
    BY <1>1 DEF Asked
  <2>3. /\ logins'[i].pc \in {"prompt", "complete"} /\ logins'[i].cancelled = logins[i].cancelled
        /\ logins'[i].outcome = "cancelled" =>
              logins[i].outcome = "cancelled" \/ logins[i].cancelled # "no"
        /\ \A j \in Logins : j # i => logins'[j] = logins[j]
    BY <1>0, <2>1, Moved, Ended
  <2>4. muddled' \/ OneAtATime'
    BY <2>2, <2>3
  <2>5. \A j \in Logins : Faithful(j)'
    BY <2>2, <2>3
  <2> QED
    BY <2>4, <2>5
<1>2. CASE Prompt(i)
  <2>1. /\ logins' = [logins EXCEPT ![i].pc = "polling"] /\ logins[i].pc = "prompt"
        /\ code' = i /\ (muddled => muddled') /\ (i \notin Live /\ Live # {} => muddled')
        /\ UNCHANGED <<session, waiting, starting, dropping, saved, told>>
    BY <1>2 DEF Prompt
  <2>2. /\ logins'[i].pc = "polling" /\ logins'[i].cancelled = logins[i].cancelled
        /\ logins'[i].outcome = logins[i].outcome
        /\ \A j \in Logins : j # i => logins'[j] = logins[j]
    BY <1>0, <2>1, Moved
  <2>3. muddled' \/ OneAtATime'
    <3>1. CASE muddled \/ (i \notin Live /\ Live # {})
      BY <2>1, <3>1
    <3>2. CASE ~muddled /\ i \in Live
      <4>1. Live' = Live /\ \A j \in Live : j = i
        BY <2>1, <2>2, <3>2
      <4> QED
        BY <2>1, <2>2, <3>2, <4>1
    <3>3. CASE ~muddled /\ Live = {}
      <4>1. Live' = {}
        BY <2>1, <2>2, <3>3
      <4> QED
        BY <2>1, <3>3, <4>1
    <3> QED
      BY <3>1, <3>2, <3>3
  <2>4. \A j \in Logins : Faithful(j)'
    BY <2>1, <2>2
  <2> QED
    BY <2>3, <2>4
<1>3. CASE Polled(i) \/ Expires(i)
  <2>1. \/ logins' = [logins EXCEPT ![i].pc = "persist"] /\ logins[i].cancelled = "no"
        \/ Ends(i, "failed")
        \/ Ends(i, "cancelled") /\ logins[i].cancelled # "no"
    BY <1>3 DEF Polled, Expires
  <2>2. /\ logins[i].pc = "polling"
        /\ UNCHANGED <<session, code, waiting, starting, dropping, saved, told, muddled>>
    BY <1>3 DEF Polled, Expires
  <2> QED
    BY <1>0, <2>1, <2>2, Moved, Ended
<1>4. CASE Persist(i)
  <2>1. \/ saved' = saved \cup {i} /\ Ends(i, "connected")
        \/ saved' = saved /\ Ends(i, "failed")
    BY <1>4 DEF Persist
  <2>2. /\ logins[i].pc = "persist"
        /\ UNCHANGED <<session, code, waiting, starting, dropping, told, muddled>>
    BY <1>4 DEF Persist
  <2> QED
    BY <1>0, <2>1, <2>2, Ended
<1>5. CASE Complete(i)
  <2>1. PICK own \in OwnSession(i) :
           /\ logins' = [logins EXCEPT ![i].pc = "done"] /\ logins[i].pc = "complete"
           /\ session' = 0
           /\ session = own /\ logins[i].outcome # "cancelled" => i \in told'
           /\ told \subseteq told'
           /\ muddled => muddled'
           /\ session # own /\ (session # 0 \/ starting # {}) => muddled'
           /\ UNCHANGED <<starting, dropping, saved>>
    BY <1>5 DEF Complete
  <2>a. /\ logins'[i].pc = "done" /\ logins'[i].cancelled = logins[i].cancelled
        /\ logins'[i].outcome = logins[i].outcome
        /\ \A j \in Logins : j # i => logins'[j] = logins[j]
    BY <1>0, <2>1, Moved
  <2>b. (own = 0 => i \in starting) /\ (own = i \/ own = 0)
    BY <2>1, Bounds DEF OwnSession
  <2>2. (muddled' \/ OneAtATime')
    <3>1. CASE muddled \/ (session # own /\ (session # 0 \/ starting # {}))
      BY <2>1, <3>1
    <3>2. CASE ~muddled /\ session = own
      <4>1. \A j \in Live : j = i
        BY <2>b, <3>2, Bounds
      <4>2. Live' = {}
        BY <2>1, <2>a, <4>1
      <4> QED
        BY <2>1, <3>2, <4>2
    <3>3. CASE ~muddled /\ session = 0 /\ starting = {}
      <4>1. Live' = {}
        BY <2>1, <2>a, <3>3, Bounds
      <4> QED
        BY <2>1, <3>3, <4>1
    <3> QED
      BY <3>1, <3>2, <3>3
  <2>3. \A j \in Logins : Faithful(j)'
    <3>1. Faithful(i)'
      <4>1. ASSUME logins[i].cancelled = "no", i \notin dropping PROVE i \in told' \/ muddled'
        <5>1. CASE muddled
          BY <2>1, <5>1
        <5>2. CASE ~muddled
          <6>1. (session = i \/ i \in starting) /\ logins[i].outcome # "cancelled"
            BY <2>1, <4>1, <5>2
          <6> QED
            BY <2>1, <2>b, <6>1, Bounds
        <5> QED
          BY <5>1, <5>2
      <4> QED
        BY <2>1, <2>a, <4>1
    <3>2. \A j \in Logins : j # i => Faithful(j)'
      BY <2>1, <2>a
    <3> QED
      BY <3>1, <3>2
  <2> QED
    BY <2>2, <2>3
<1> QED
  BY <1>1, <1>2, <1>3, <1>4, <1>5 DEF Goroutine

\* LoginInv is inductive.
LEMMA Inductive == LoginInv /\ [Next]_vars => LoginInv'
<1> SUFFICES ASSUME LoginInv, [Next]_vars PROVE LoginInv'
  OBVIOUS
<1>0. TypeOK /\ TypeOK'
  BY TypeStep DEF LoginInv
<1> SUFFICES (muddled' \/ OneAtATime') /\ \A j \in Logins : Faithful(j)'
  BY <1>0 DEF LoginInv
<1>1. ASSUME NEW i \in Logins, StartGrokLogin(i)
      PROVE  (muddled' \/ OneAtATime') /\ \A j \in Logins : Faithful(j)'
  <2>1. /\ logins' = [Dropped EXCEPT ![i] = [Dropped[i] EXCEPT !.pc = "asking"]]
        /\ logins[i].pc = "new"
        /\ session' = 0 /\ waiting' = TRUE
        /\ starting' = starting \cup {i}
        /\ muddled => muddled'
        /\ starting # {} => muddled'
        /\ UNCHANGED <<dropping, saved, told>>
    BY <1>1 DEF StartGrokLogin, Dropped
  <2>2. /\ logins'[i].pc = "asking" /\ logins'[i].cancelled = Dropped[i].cancelled
        /\ logins'[i].outcome = logins[i].outcome
        /\ \A j \in Logins : j # i => logins'[j] = Dropped[j]
    BY <1>0, <2>1, DropOne DEF LoginStates
  <2>3. muddled' \/ OneAtATime'
    <3>1. CASE muddled \/ starting # {}
      BY <2>1, <3>1
    <3>2. CASE ~muddled /\ starting = {}
      <4>1. \A j \in Live : j = session
        BY <3>2 DEF LoginInv, OneAtATime
      <4>2. \A j \in Logins : Running(j) /\ j # i /\ j \notin dropping => Dropped[j].cancelled # "no"
        BY <1>0, <4>1, DropOne, Bounds DEF Live
      <4>3. \A j \in Live' : j = i
        BY <1>0, <2>1, <2>2, <4>2, DropOne DEF Live, Running
      <4>4. logins'[i].pc # "polling"
        BY <2>2
      <4>5. /\ starting' # {} => session' = 0
            /\ \A j, k \in starting' : j = k
            /\ \A j, k \in Live' : j = k
            /\ \A j \in Live' : j \in starting' /\ waiting' /\ logins'[j].pc # "polling"
        BY <2>1, <3>2, <4>3, <4>4
      <4> QED
        BY <4>5 DEF OneAtATime
    <3> QED
      BY <3>1, <3>2
  <2>4. \A j \in Logins : Faithful(j)'
    <3>1. Faithful(i)'
      BY <1>0, <2>1, <2>2, DropOne DEF LoginInv, Faithful
    <3>2. ASSUME NEW j \in Logins, j # i PROVE Faithful(j)'
      <4>1. /\ logins'[j].pc = logins[j].pc /\ logins'[j].outcome = logins[j].outcome
            /\ logins'[j].cancelled = "no" => logins[j].cancelled = "no"
            /\ logins'[j].cancelled = "seen" =>
                  logins[j].cancelled = "seen" \/ logins[j].pc \in {"asking", "polling"}
        BY <1>0, <2>2, <3>2, DropOne
      <4> QED
        BY <2>1, <4>1 DEF LoginInv, Faithful
    <3> QED
      BY <3>1, <3>2
  <2> QED
    BY <2>3, <2>4
<1>2. ASSUME NEW i \in Logins, StoreSession(i)
      PROVE  (muddled' \/ OneAtATime') /\ \A j \in Logins : Faithful(j)'
  <2>1. muddled' \/ OneAtATime'
    <3>1. /\ i \in starting /\ starting' = starting \ {i} /\ session' = i
          /\ UNCHANGED <<code, waiting, logins, muddled>>
      BY <1>2 DEF StoreSession
    <3>2. CASE muddled
      BY <3>1, <3>2
    <3>3. CASE ~muddled
      <4>1. session = 0 /\ starting' = {} /\ \A j \in Live : j = i
        BY <3>1, <3>3, Bounds DEF LoginInv, OneAtATime, Live
      <4>2. Live' = Live
        BY <1>2 DEF StoreSession, Live, Running
      <4> QED
        BY <3>1, <3>3, <4>1, <4>2 DEF LoginInv, OneAtATime
    <3> QED
      BY <3>2, <3>3
  <2>2. \A j \in Logins : Faithful(j)'
    BY <1>2 DEF StoreSession, LoginInv, Faithful
  <2> QED
    BY <2>1, <2>2
<1>3. ASSUME CancelProviderAuth
      PROVE  (muddled' \/ OneAtATime') /\ \A j \in Logins : Faithful(j)'
  <2>1. /\ logins' = logins /\ dropping' = dropping \cup ({session} \ {0})
        /\ session' = 0
        /\ muddled => muddled'
        /\ starting # {} => muddled'
        /\ UNCHANGED <<starting, saved, told>>
    BY <1>3 DEF CancelProviderAuth
  <2>2. muddled' \/ OneAtATime'
    <3>1. CASE muddled \/ starting # {}
      BY <2>1, <3>1
    <3>2. CASE ~muddled /\ starting = {}
      <4>1. \A j \in Live : j = session
        BY <3>2 DEF LoginInv, OneAtATime
      <4>2. Live' = {}
        BY <2>1, <4>1, Bounds DEF Live, Running
      <4>3. starting' = {}
        BY <2>1, <3>2
      <4> QED
        BY <4>2, <4>3 DEF OneAtATime
    <3> QED
      BY <3>1, <3>2
  <2>3. ASSUME NEW j \in Logins PROVE Faithful(j)'
    BY <2>1 DEF LoginInv, Faithful
  <2> QED
    BY <2>2, <2>3
<1>3a. ASSUME NEW i \in Logins, CancelSession(i)
      PROVE  (muddled' \/ OneAtATime') /\ \A j \in Logins : Faithful(j)'
  <2>1. /\ logins' = Cancelled(i) /\ i \in dropping /\ dropping' = dropping \ {i}
        /\ UNCHANGED <<session, code, waiting, starting, saved, told, muddled>>
    BY <1>3a DEF CancelSession
  <2>2. /\ logins'[i].cancelled # "no"
        /\ \A j \in Logins : /\ logins'[j].pc = logins[j].pc
                             /\ logins'[j].outcome = logins[j].outcome
                             /\ j # i => logins'[j] = logins[j]
                             /\ logins'[j].cancelled = "no" => logins[j].cancelled = "no"
                             /\ logins'[j].cancelled = "seen" =>
                                   logins[j].cancelled = "seen" \/ logins[j].pc \in {"asking", "polling"}
    BY <1>0, <2>1, CancelOne DEF TypeOK
  <2>3. Live' = Live
    BY <2>1, <2>2 DEF Live, Running
  <2>4. muddled' \/ OneAtATime'
    BY <2>1, <2>2, <2>3 DEF LoginInv, OneAtATime, Live
  <2>5. ASSUME NEW j \in Logins PROVE Faithful(j)'
    BY <2>1, <2>2 DEF LoginInv, Faithful
  <2> QED
    BY <2>4, <2>5
<1>4. ASSUME NEW i \in Logins, Goroutine(i)
      PROVE  (muddled' \/ OneAtATime') /\ \A j \in Logins : Faithful(j)'
  BY <1>0, <1>4, GoroutineStep
<1>5. ASSUME UNCHANGED grok
      PROVE  (muddled' \/ OneAtATime') /\ \A j \in Logins : Faithful(j)'
  BY <1>5 DEF grok, LoginInv, OneAtATime, Live, Running, Faithful
<1>6. ASSUME NEW r \in Callers, RunBundledLogin(r) \/ Settles(r) \/ CallerLeaves(r)
      PROVE  UNCHANGED grok
  BY <1>6 DEF RunBundledLogin, Settles, CommandSettles, FinishRun, CallerLeaves
<1>7. CASE UNCHANGED vars
  BY <1>7, <1>5 DEF vars
<1> QED
  BY <1>1, <1>2, <1>3, <1>3a, <1>4, <1>5, <1>6, <1>7 DEF Next

LEMMA Invariant == Spec => []LoginInv
<1>1. Init => LoginInv
  <2>1. Init => TypeOK
    BY TypeInit
  <2>2. Init => OneAtATime /\ \A i \in Logins : Faithful(i)
    BY DEF Init, OneAtATime, Live, Running, Faithful
  <2> QED
    BY <2>1, <2>2 DEF LoginInv
<1> QED
  BY <1>1, Inductive, PTL DEF Spec

\* However many logins are started, cancelled and replaced, only one that nobody is
\* about to cancel waits for the user, and the state shows it, until calls have
\* crossed.
THEOREM LoginShown == Spec => []OneLoginShown
<1>1. LoginInv => OneLoginShown
  BY DEF LoginInv, OneAtATime, OneLoginShown
<1> QED
  BY <1>1, Invariant, PTL

\* A login cancelled while it waits saves nothing; one that is not is reported.
THEOREM LoginEndsAsAsked == Spec => []EndsAsAsked
<1>1. LoginInv => EndsAsAsked
  BY DEF LoginInv, Faithful, EndsAsAsked, TypeOK
<1> QED
  BY <1>1, Invariant, PTL
=============================================================================
