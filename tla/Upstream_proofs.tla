---------------------------- MODULE Upstream_proofs ----------------------------
(***************************************************************************)
(* Proofs about what goes to the upstreams.  GrokToken, for any number of  *)
(* callers and of answers: its types, that refreshes are single-flighted   *)
(* and every waiter is answered once, and that no refresh token is spent   *)
(* twice without an excuse.  ProxyRequests, for any requests: that         *)
(* disabled providers get nothing, neither directly nor through the        *)
(* backend, that api.x.ai accepts what it is sent, that every usage report *)
(* of Meta is recorded, that an answer that is not rewritten arrives       *)
(* whole, and that one that is repaired is changed in nothing but the      *)
(* arguments of calls, alike in all their copies.  The operators: what the *)
(* scanners of a JSON text return, that the edits of one never overlap and *)
(* keep its brackets balanced, that an edit leaves every other field of    *)
(* its object as it was, and that the repair of arguments keeps what is    *)
(* fine and makes usable what can be saved.                                *)
(***************************************************************************)
EXTENDS GrokToken, ProxyRequests, FiniteSetTheorems, SequenceTheorems, WellFoundedInduction, TLAPS

-----------------------------------------------------------------------------
(* The inductive invariant                                                 *)

\* Refresh tokens that may still be sent, because they work or their failure
\* is explained.
Sendable == valid \cup revoked \cup excused

\* A login that is not saved yet has tokens nobody else has seen, so that no
\* refresh can spend them.
LoginApart ==
  login # 0 =>
    /\ login \in valid \cup revoked
    /\ login # file.refresh /\ login # read.refresh /\ login # toggle.refresh
    /\ \A c \in Callers : login # creds[c].refresh /\ login # refreshed[c].refresh

\* No refresh token is newer than the last answer.
TokensIssued ==
  /\ file.refresh <= issued /\ read.refresh <= issued /\ toggle.refresh <= issued
  /\ \A c \in Callers : creds[c].refresh <= issued /\ refreshed[c].refresh <= issued

\* What the leader sends is sendable, and what it saves works unless withdrawn.
LeaderHolds ==
  \A c \in Callers :
    /\ pc[c] = "post" => creds[c].refresh \in Sendable
    /\ c \in Savers => refreshed[c].refresh \in valid \cup revoked

TokenInv == LoginApart /\ TokensIssued /\ LeaderHolds /\ FileNeverSpent /\ RefusedIsExplained

FlightInv == SingleFlight /\ OneAnswerDue

-----------------------------------------------------------------------------
(* Type correctness                                                        *)

\* The records that the actions build are files and credentials.
LEMMA TypedRecords ==
  ASSUME TypeOK
  PROVE  Absent \in File /\ None \in Credential /\ Stored \in Credential
  BY TokenAssumption DEF TypeOK, FileType, File, Absent, None, Stored, Credential, Tokens

\* Every action keeps the types of all variables and the discipline of the lock.
LEMMA TypeStep ==
  ASSUME TypeOK, Next PROVE TypeOK'
<1> USE TokenAssumption DEF serverVars, ioVars, flightVars, callerVars, historyVars,
     Goto, Return, Acquire, Release, Excuse, TypeOK
<1>1. ASSUME NEW c \in Callers, Load(c) PROVE TypeOK'
  <2>1. CallerType'
    <3>1. Stored \in Credential /\ None \in Credential
      BY TypedRecords
    <3>2. creds' \in [Callers -> Credential] /\ pc' \in [Callers -> PCs]
      BY <1>1, <3>1 DEF Load, CallerType, PCs
    <3> QED
      BY <1>1, <3>2 DEF Load, CallerType
  <2>2. ServerType' /\ FileType' /\ FlightType' /\ HistoryType' /\ LockType'
    BY <1>1 DEF Load, ServerType, FileType, FlightType, HistoryType, LockType, Tokens,
         File, Absent, Merged, Stored, Credential, CallerType, PCs
  <2> QED
    BY <2>1, <2>2
<1>2. ASSUME NEW c \in Callers, Reread(c) PROVE TypeOK'
  <2>1. HistoryType'
    <3>1. creds[c].refresh \in Tokens
      BY DEF CallerType, Credential
    <3> QED
      BY <1>2, <3>1 DEF Reread, HistoryType
  <2>2. ServerType' /\ FileType' /\ FlightType' /\ CallerType' /\ LockType'
    BY <1>2 DEF Reread, ServerType, FileType, FlightType, CallerType, LockType, Tokens,
         File, Absent, Merged, Stored, Credential, PCs, Leading, None, Active
  <2> QED
    BY <2>1, <2>2
<1>3. ASSUME NEW c \in Callers, Renew(c) PROVE TypeOK'
  <2>1. ServerType'
    <3>1. issued \in Nat /\ issued' = issued + 1 /\ issued' \in Tokens
      BY <1>3 DEF Renew, ServerType, Tokens
    <3>2. 1..issued \subseteq 1..issued' /\ issued' \in 1..issued'
      BY <3>1
    <3>3. valid' \subseteq valid \cup {issued'}
      BY <1>3, <3>1 DEF Renew
    <3> QED
      BY <1>3, <3>1, <3>2, <3>3 DEF Renew, ServerType
  <2>2. FileType' /\ FlightType' /\ CallerType' /\ HistoryType' /\ LockType'
    BY SMTT(30), <1>3 DEF Renew, FileType, FlightType, CallerType, HistoryType, LockType, File,
         Absent, Merged, Stored, Credential, Tokens, PCs, Leading, None, Active,
         ServerType
  <2> QED
    BY <2>1, <2>2
<1>4. ASSUME NEW c \in Callers, SaveFails(c) PROVE TypeOK'
  <2>1. ServerType'
    BY <1>4 DEF SaveFails, ServerType, Tokens
  <2>2. FileType'
    BY <1>4 DEF SaveFails, FileType, File, Absent, Merged, Stored, Credential,
         CallerType, Tokens
  <2>3. FlightType'
    BY <1>4 DEF SaveFails, FlightType
  <2>4. CallerType'
    BY <1>4 DEF SaveFails, CallerType, PCs, Leading, Credential, None, Active, Stored,
         FileType, File, ServerType, Tokens
  <2>5. HistoryType'
    BY <1>4 DEF SaveFails, HistoryType, CallerType, FileType, File, Credential, Tokens
  <2>6. LockType'
    BY <1>4 DEF SaveFails, LockType, CallerType, PCs
  <2> QED
    BY <2>1, <2>2, <2>3, <2>4, <2>5, <2>6
<1>5. ASSUME NEW c \in Callers, Disable(c) PROVE TypeOK'
  <2>1. FileType'
    <3>1. [read EXCEPT !.disabled = TRUE] \in File
      BY DEF FileType, File
    <3> QED
      BY <1>5, <3>1, TypedRecords DEF Disable, FileType
  <2>2. ServerType' /\ FlightType' /\ CallerType' /\ HistoryType' /\ LockType'
    BY <1>5 DEF Disable, ServerType, FlightType, CallerType, HistoryType, LockType,
         Tokens, PCs, Leading, Credential, None, Active, Stored, FileType, File
  <2> QED
    BY <2>1, <2>2
<1>6. ASSUME NEW c \in Callers, Deliver(c) PROVE TypeOK'
  <2>1. ServerType'
    BY <1>6 DEF Deliver, ServerType, Tokens
  <2>2. FileType'
    BY <1>6 DEF Deliver, FileType, File, Absent, Merged, Stored, Credential,
         CallerType, Tokens
  <2>3. FlightType'
    BY <1>6 DEF Deliver, FlightType
  <2>4. CallerType'
    BY <1>6 DEF Deliver, CallerType, PCs, Leading, Credential, None, Active, Stored,
         FileType, File, ServerType, Tokens
  <2>5. HistoryType'
    BY <1>6 DEF Deliver, HistoryType, CallerType, FileType, File, Credential, Tokens
  <2>6. LockType'
    BY <1>6 DEF Deliver, LockType, CallerType, PCs
  <2> QED
    BY <2>1, <2>2, <2>3, <2>4, <2>5, <2>6
<1>7. ASSUME ToggleWrite PROVE TypeOK'
  <2>1. FileType'
    <3>1. [toggle EXCEPT !.disabled = FALSE] \in File
      BY DEF FileType, File
    <3> QED
      BY <1>7, <3>1, TypedRecords DEF ToggleWrite, FileType
  <2>2. ServerType' /\ FlightType' /\ CallerType' /\ HistoryType' /\ LockType'
    BY <1>7 DEF ToggleWrite, ServerType, FlightType, CallerType, HistoryType, LockType,
         Tokens, PCs, Leading, Credential, None, Active, Stored, FileType, File
  <2> QED
    BY <2>1, <2>2
<1>8. ASSUME Crash PROVE TypeOK'
  <2>1. ServerType'
    BY <1>8 DEF Crash, ServerType, Tokens
  <2>2. FileType'
    BY <1>8 DEF Crash, FileType, File, Absent, Merged, Stored, Credential, CallerType,
         Tokens
  <2>3. FlightType'
    BY <1>8 DEF Crash, FlightType
  <2>4. CallerType'
    BY <1>8, TypedRecords DEF Crash, CallerType, PCs, Tokens
  <2>5. HistoryType'
    <3>1. \A c \in Callers : creds[c].refresh \in Tokens
      BY DEF CallerType, Credential
    <3>2. {creds[c].refresh : c \in Savers} \subseteq Tokens
      BY <3>1 DEF Savers
    <3> QED
      BY <1>8, <3>2 DEF Crash, HistoryType
  <2>6. LockType'
    BY <1>8 DEF Crash, LockType, CallerType, PCs
  <2> QED
    BY <2>1, <2>2, <2>3, <2>4, <2>5, <2>6
<1> USE DEF ServerType, FileType, FlightType, CallerType, HistoryType, LockType,
     Tokens, File, Absent, Merged, Stored, Credential, PCs, Leading, None, Active
<1>9. ASSUME NEW c \in Callers, Call(c) PROVE TypeOK'
  BY <1>9 DEF Call
<1>10. ASSUME NEW c \in Callers, SaveRead(c) PROVE TypeOK'
  BY <1>10 DEF SaveRead
<1>11. ASSUME NEW c \in Callers, QuarantineRead(c) PROVE TypeOK'
  BY <1>11 DEF QuarantineRead
<1>12. ASSUME NEW c \in Callers, TakeSlot(c) PROVE TypeOK'
  BY <1>12 DEF TakeSlot
<1>13. ASSUME NEW c \in Callers, Refuse(c) PROVE TypeOK'
  BY ZenonT(40), <1>13 DEF Refuse
<1>14. ASSUME NEW c \in Callers, NoAnswer(c) PROVE TypeOK'
  BY ZenonT(40), <1>14 DEF NoAnswer
<1>15. ASSUME NEW c \in Callers, SaveWrite(c) PROVE TypeOK'
  BY <1>15 DEF SaveWrite
<1>16. ASSUME NEW c \in Callers, Receive(c) PROVE TypeOK'
  BY <1>16 DEF Receive
<1>17. ASSUME NEW n \in 1..issued, Expire(n) PROVE TypeOK'
  BY <1>17 DEF Expire
<1>18. ASSUME NEW n \in 1..issued, Revoke(n) PROVE TypeOK'
  BY <1>18 DEF Revoke
<1>19. ASSUME Approve PROVE TypeOK'
  BY <1>19 DEF Approve
<1>20. ASSUME LoginRead PROVE TypeOK'
  BY <1>20 DEF LoginRead
<1>21. ASSUME LoginWrite PROVE TypeOK'
  BY <1>21 DEF LoginWrite
<1>22. ASSUME LoginFails PROVE TypeOK'
  BY <1>22 DEF LoginFails
<1>23. ASSUME ToggleRead PROVE TypeOK'
  BY <1>23 DEF ToggleRead
<1>24. ASSUME DeleteAccount PROVE TypeOK'
  BY <1>24 DEF DeleteAccount
<1> QED
  BY <1>1, <1>2, <1>3, <1>4, <1>5, <1>6, <1>7, <1>8, <1>9, <1>10, <1>11, <1>12, <1>13,
       <1>14, <1>15, <1>16, <1>17, <1>18, <1>19, <1>20, <1>21, <1>22, <1>23, <1>24 DEF
       Next, Locking, Running, Refresh, LoginEnds

\* Every variable keeps its type, and authIOMu is held exactly between the two
\* halves of a read-modify-write.
THEOREM TypeCorrect == Spec => []TypeOK
<1>1. Init => TypeOK
  <2> SUFFICES ASSUME Init PROVE TypeOK
    OBVIOUS
  <2> USE TokenAssumption DEF Init
  <2>1. 0 \in Tokens /\ 1 \in Tokens
    BY DEF Tokens
  <2>2. ServerType
    BY <2>1 DEF ServerType
  <2>3. FileType
    BY <2>1 DEF FileType, File, Absent
  <2>4. CallerType
    BY <2>1 DEF CallerType, PCs, Credential, None
  <2>5. FlightType /\ HistoryType /\ LockType
    BY DEF FlightType, HistoryType, LockType
  <2> QED
    BY <2>2, <2>3, <2>4, <2>5 DEF TypeOK
<1>2. TypeOK /\ [Next]_vars => TypeOK'
  <2>1. ASSUME TypeOK, UNCHANGED vars PROVE TypeOK'
    BY <2>1 DEF vars, serverVars, ioVars, flightVars, callerVars, historyVars, TypeOK,
       ServerType, FileType, FlightType, CallerType, HistoryType, LockType
  <2> QED
    BY <2>1, TypeStep
<1> QED
  BY <1>1, <1>2, PTL DEF Spec

-----------------------------------------------------------------------------
(* Single flight                                                           *)

\* Every action keeps one leader at most, and one answer due for each waiter.
LEMMA FlightStep ==
  ASSUME TypeOK, SingleFlight, OneAnswerDue, Next PROVE SingleFlight' /\ OneAnswerDue'
<1> USE TokenAssumption DEF serverVars, ioVars, flightVars, callerVars, historyVars,
     Goto, Return, Acquire, Release, Excuse, TypeOK
<1> USE DEF SingleFlight, OneAnswerDue, Leaders, Leading, CallerType, PCs, FlightType
<1>1. ASSUME NEW c \in Callers, Call(c) PROVE SingleFlight' /\ OneAnswerDue'
  BY <1>1 DEF Call
<1>2. ASSUME NEW c \in Callers, Load(c) PROVE SingleFlight' /\ OneAnswerDue'
  BY <1>2 DEF Load
<1>3. ASSUME NEW c \in Callers, Reread(c) PROVE SingleFlight' /\ OneAnswerDue'
  BY <1>3 DEF Reread
<1>4. ASSUME NEW c \in Callers, SaveRead(c) PROVE SingleFlight' /\ OneAnswerDue'
  BY <1>4 DEF SaveRead
<1>5. ASSUME NEW c \in Callers, QuarantineRead(c) PROVE SingleFlight' /\ OneAnswerDue'
  BY <1>5 DEF QuarantineRead
<1>6. ASSUME NEW c \in Callers, TakeSlot(c) PROVE SingleFlight' /\ OneAnswerDue'
  BY <1>6 DEF TakeSlot
<1>7. ASSUME NEW c \in Callers, Renew(c) PROVE SingleFlight' /\ OneAnswerDue'
  BY <1>7 DEF Renew
<1>8. ASSUME NEW c \in Callers, Refuse(c) PROVE SingleFlight' /\ OneAnswerDue'
  BY <1>8 DEF Refuse
<1>9. ASSUME NEW c \in Callers, NoAnswer(c) PROVE SingleFlight' /\ OneAnswerDue'
  BY <1>9 DEF NoAnswer
<1>10. ASSUME NEW c \in Callers, SaveWrite(c) PROVE SingleFlight' /\ OneAnswerDue'
  BY <1>10 DEF SaveWrite
<1>11. ASSUME NEW c \in Callers, SaveFails(c) PROVE SingleFlight' /\ OneAnswerDue'
  BY <1>11 DEF SaveFails
<1>12. ASSUME NEW c \in Callers, Disable(c) PROVE SingleFlight' /\ OneAnswerDue'
  BY <1>12 DEF Disable
<1>13. ASSUME NEW c \in Callers, Deliver(c) PROVE SingleFlight' /\ OneAnswerDue'
  BY <1>13 DEF Deliver
<1>14. ASSUME NEW c \in Callers, Receive(c) PROVE SingleFlight' /\ OneAnswerDue'
  BY <1>14 DEF Receive
<1>15. ASSUME NEW n \in 1..issued, Expire(n) PROVE SingleFlight' /\ OneAnswerDue'
  BY <1>15 DEF Expire
<1>16. ASSUME NEW n \in 1..issued, Revoke(n) PROVE SingleFlight' /\ OneAnswerDue'
  BY <1>16 DEF Revoke
<1>17. ASSUME Approve PROVE SingleFlight' /\ OneAnswerDue'
  BY <1>17 DEF Approve
<1>18. ASSUME LoginRead PROVE SingleFlight' /\ OneAnswerDue'
  BY <1>18 DEF LoginRead
<1>19. ASSUME LoginWrite PROVE SingleFlight' /\ OneAnswerDue'
  BY <1>19 DEF LoginWrite
<1>20. ASSUME LoginFails PROVE SingleFlight' /\ OneAnswerDue'
  BY <1>20 DEF LoginFails
<1>21. ASSUME ToggleRead PROVE SingleFlight' /\ OneAnswerDue'
  BY <1>21 DEF ToggleRead
<1>22. ASSUME ToggleWrite PROVE SingleFlight' /\ OneAnswerDue'
  BY <1>22 DEF ToggleWrite
<1>23. ASSUME DeleteAccount PROVE SingleFlight' /\ OneAnswerDue'
  BY <1>23 DEF DeleteAccount
<1>24. ASSUME Crash PROVE SingleFlight' /\ OneAnswerDue'
  BY <1>24 DEF Crash
<1> QED
  BY <1>1, <1>2, <1>3, <1>4, <1>5, <1>6, <1>7, <1>8, <1>9, <1>10, <1>11, <1>12, <1>13,
       <1>14, <1>15, <1>16, <1>17, <1>18, <1>19, <1>20, <1>21, <1>22, <1>23, <1>24 DEF
       Next, Locking, Running, Refresh, LoginEnds

\* At most one refresh is under way, and each caller that waits gets one answer:
\* refreshMu makes refreshInFlight and refreshWaiters one decision.
THEOREM SingleFlightAlways == Spec => []RefreshIsShared
<1>1. Init => SingleFlight /\ OneAnswerDue
  BY DEF Init, SingleFlight, OneAnswerDue, Leaders, Leading
<1>2. TypeOK /\ (SingleFlight /\ OneAnswerDue) /\ [Next]_vars
        => (SingleFlight /\ OneAnswerDue)'
  <2>1. ASSUME SingleFlight, OneAnswerDue, UNCHANGED vars
        PROVE  (SingleFlight /\ OneAnswerDue)'
    BY <2>1, SMTT(30) DEF vars, flightVars, callerVars, SingleFlight, OneAnswerDue, Leaders
  <2> QED
    BY <2>1, FlightStep
<1> QED
  BY <1>1, <1>2, TypeCorrect, PTL DEF Spec, RefreshIsShared

-----------------------------------------------------------------------------
(* Spent refresh tokens                                                    *)

\* Every action keeps the parts of TokenInv.
LEMMA TokenStep ==
  ASSUME TypeOK, SingleFlight, TokenInv, Next PROVE TokenInv'
<1> USE TokenAssumption DEF serverVars, ioVars, flightVars, callerVars, historyVars,
     Goto, Return, Acquire, Release, Excuse, TypeOK, TokenInv
<1>1. ASSUME NEW c \in Callers, Load(c) PROVE TokenInv'
  <2>1. LoginApart'
    BY <1>1 DEF Load, LoginApart, TokensIssued, Merged, Stored, Absent, None,
         ServerType, FileType, File, CallerType, Credential, Tokens, PCs
  <2>2. TokensIssued'
    BY <1>1 DEF Load, TokensIssued, Merged, Stored, Absent, None, ServerType, FileType,
         File, CallerType, Credential, Tokens, PCs
  <2>3. LeaderHolds'
    BY <1>1 DEF Load, LeaderHolds, LoginApart, FileNeverSpent, Active, Stored,
         Sendable, Savers, SingleFlight, Leaders, Leading, ServerType, FileType, File,
         CallerType, Credential, Tokens, PCs
  <2>4. FileNeverSpent'
    BY <1>1 DEF Load, FileNeverSpent, LeaderHolds, LoginApart, Active, Merged, Absent,
         Sendable, Savers, SingleFlight, Leaders, Leading, ServerType, FileType, File,
         CallerType, Credential, Tokens, PCs
  <2>5. RefusedIsExplained'
    BY <1>1 DEF Load, RefusedIsExplained, LeaderHolds, Sendable
  <2> QED
    BY <2>1, <2>2, <2>3, <2>4, <2>5
<1>2. ASSUME NEW c \in Callers, Renew(c) PROVE TokenInv'
  <2>1. TokensIssued'
    <3>1. issued \in Nat /\ issued' = issued + 1
      BY <1>2 DEF Renew, ServerType, Tokens
    <3>2. /\ file.refresh \in Nat /\ read.refresh \in Nat /\ toggle.refresh \in Nat
          /\ \A d \in Callers : creds[d].refresh \in Nat /\ refreshed[d].refresh \in Nat
      BY DEF FileType, File, CallerType, Credential, Tokens
    <3>3. \A d \in Callers : \/ refreshed'[d] = refreshed[d]
                             \/ refreshed'[d].refresh \in {issued', creds[d].refresh}
      BY <1>2 DEF Renew, CallerType
    <3> QED
      BY <1>2, <3>1, <3>2, <3>3 DEF Renew, TokensIssued
  <2>2. LoginApart' /\ LeaderHolds' /\ FileNeverSpent' /\ RefusedIsExplained'
    BY SMTT(30), <1>2 DEF Renew, LoginApart, LeaderHolds, FileNeverSpent, RefusedIsExplained,
         TokensIssued, Merged, Stored, Absent, None, ServerType, FileType, File,
         CallerType, Credential, Tokens, PCs, Active, Sendable, Savers, SingleFlight,
         Leaders, Leading
  <2> QED
    BY <2>1, <2>2
<1>3. ASSUME NEW c \in Callers, Refuse(c) PROVE TokenInv'
  <2>1. LoginApart'
    BY <1>3 DEF Refuse, LoginApart, TokensIssued, Merged, Stored, Absent, None,
         ServerType, FileType, File, CallerType, Credential, Tokens, PCs
  <2>2. TokensIssued'
    BY <1>3 DEF Refuse, TokensIssued, Merged, Stored, Absent, None, ServerType,
         FileType, File, CallerType, Credential, Tokens, PCs
  <2>3. LeaderHolds'
    BY <1>3 DEF Refuse, LeaderHolds, LoginApart, FileNeverSpent, Active, Stored,
         Sendable, Savers, SingleFlight, Leaders, Leading, ServerType, FileType, File,
         CallerType, Credential, Tokens, PCs
  <2>4. FileNeverSpent'
    BY <1>3 DEF Refuse, FileNeverSpent, LeaderHolds, LoginApart, Active, Merged,
         Absent, Sendable, Savers, SingleFlight, Leaders, Leading, ServerType,
         FileType, File, CallerType, Credential, Tokens, PCs
  <2>5. RefusedIsExplained'
    BY <1>3 DEF Refuse, RefusedIsExplained, LeaderHolds, Sendable
  <2> QED
    BY <2>1, <2>2, <2>3, <2>4, <2>5
<1>4. ASSUME LoginWrite PROVE TokenInv'
  <2>1. TokensIssued'
    <3>1. login \in 1..issued
      BY <1>4 DEF LoginWrite, LockType, LoginApart, ServerType
    <3>2. file'.refresh = login
      BY <1>4 DEF LoginWrite, Merged
    <3> QED
      BY <1>4, <3>1, <3>2 DEF LoginWrite, TokensIssued, Absent, ServerType, Tokens
  <2>2. LoginApart' /\ LeaderHolds' /\ FileNeverSpent' /\ RefusedIsExplained'
    BY <1>4 DEF LoginWrite, LoginApart, LeaderHolds, FileNeverSpent,
         RefusedIsExplained, TokensIssued, Merged, Stored, Absent, None, ServerType,
         FileType, File, CallerType, Credential, Tokens, PCs, Active, Sendable, Savers,
         SingleFlight, Leaders, Leading
  <2> QED
    BY <2>1, <2>2
<1> USE DEF LoginApart, TokensIssued, LeaderHolds, FileNeverSpent, RefusedIsExplained,
     Merged, Stored, Absent, None, ServerType, FileType, File, CallerType, Credential,
     Tokens, PCs, Active, Sendable, Savers, SingleFlight, Leaders, Leading
<1>5. ASSUME NEW c \in Callers, Call(c) PROVE TokenInv'
  BY <1>5 DEF Call
<1>6. ASSUME NEW c \in Callers, Reread(c) PROVE TokenInv'
  BY <1>6 DEF Reread
<1>7. ASSUME NEW c \in Callers, SaveRead(c) PROVE TokenInv'
  BY <1>7 DEF SaveRead
<1>8. ASSUME NEW c \in Callers, QuarantineRead(c) PROVE TokenInv'
  BY <1>8 DEF QuarantineRead
<1>9. ASSUME NEW c \in Callers, TakeSlot(c) PROVE TokenInv'
  BY <1>9 DEF TakeSlot
<1>10. ASSUME NEW c \in Callers, NoAnswer(c) PROVE TokenInv'
  BY <1>10 DEF NoAnswer
<1>11. ASSUME NEW c \in Callers, SaveWrite(c) PROVE TokenInv'
  BY <1>11 DEF SaveWrite
<1>12. ASSUME NEW c \in Callers, SaveFails(c) PROVE TokenInv'
  BY <1>12 DEF SaveFails
<1>13. ASSUME NEW c \in Callers, Disable(c) PROVE TokenInv'
  BY <1>13 DEF Disable
<1>14. ASSUME NEW c \in Callers, Deliver(c) PROVE TokenInv'
  BY <1>14 DEF Deliver
<1>15. ASSUME NEW c \in Callers, Receive(c) PROVE TokenInv'
  BY <1>15 DEF Receive
<1>16. ASSUME NEW n \in 1..issued, Expire(n) PROVE TokenInv'
  BY <1>16 DEF Expire
<1>17. ASSUME NEW n \in 1..issued, Revoke(n) PROVE TokenInv'
  BY <1>17 DEF Revoke
<1>18. ASSUME Approve PROVE TokenInv'
  BY <1>18 DEF Approve
<1>19. ASSUME LoginRead PROVE TokenInv'
  BY <1>19 DEF LoginRead
<1>20. ASSUME LoginFails PROVE TokenInv'
  BY <1>20 DEF LoginFails
<1>21. ASSUME ToggleRead PROVE TokenInv'
  BY <1>21 DEF ToggleRead
<1>22. ASSUME ToggleWrite PROVE TokenInv'
  BY <1>22 DEF ToggleWrite
<1>23. ASSUME DeleteAccount PROVE TokenInv'
  BY <1>23 DEF DeleteAccount
<1>24. ASSUME Crash PROVE TokenInv'
  BY <1>24 DEF Crash
<1> QED
  BY <1>1, <1>2, <1>3, <1>4, <1>5, <1>6, <1>7, <1>8, <1>9, <1>10, <1>11, <1>12, <1>13,
       <1>14, <1>15, <1>16, <1>17, <1>18, <1>19, <1>20, <1>21, <1>22, <1>23, <1>24 DEF
       Next, Locking, Running, Refresh, LoginEnds

\* TokenInv, from which the next two theorems follow.
LEMMA TokenInvAlways == Spec => []TokenInv
<1>1. Init => TokenInv
  BY DEF Init, TokenInv, LoginApart, TokensIssued, LeaderHolds, FileNeverSpent,
     RefusedIsExplained, Active, Absent, None, Savers
<1>2. TypeOK /\ SingleFlight /\ TokenInv /\ [Next]_vars => TokenInv'
  <2>1. ASSUME TokenInv, UNCHANGED vars PROVE TokenInv'
    BY <2>1 DEF vars, serverVars, ioVars, callerVars, historyVars, TokenInv, LoginApart,
       TokensIssued, LeaderHolds, FileNeverSpent, RefusedIsExplained, Active, Savers,
       Sendable
  <2> QED
    BY <2>1, TokenStep
<1> QED
  BY <1>1, <1>2, TypeCorrect, SingleFlightAlways, PTL DEF Spec, RefreshIsShared

\* The file holds no spent refresh token beyond the moment its successor is saved,
\* unless that successor was lost or undone: login, refresh, quarantine, toggle and
\* removal included, and across deaths of the daemon.
THEOREM FileNotSpent == Spec => []FileNeverSpent
  BY TokenInvAlways, PTL DEF TokenInv

\* xAI refuses a refresh only for a token that was withdrawn, lost or taken away,
\* never because two requests spent the same one.
THEOREM NoSpuriousRefusal == Spec => []RefusedIsExplained
  BY TokenInvAlways, PTL DEF TokenInv

-----------------------------------------------------------------------------
\* A set of numbers that is not empty has a least one.
LEMMA LeastNat ==
  ASSUME NEW S, S \subseteq Nat, S # {}
  PROVE  \E m \in S : \A k \in Nat : k < m => k \notin S
<1>1. PICK m \in S : \A k \in S : ~(<<k, m>> \in OpToRel(<, Nat))
  BY NatLessThanWellFounded, WFMin
<1>2. \A k, n \in Nat : k < n => <<k, n>> \in OpToRel(<, Nat)
  BY DEF OpToRel
<1> QED
  BY <1>1, <1>2

-----------------------------------------------------------------------------
(* What api.x.ai is sent                                                   *)

\* A tool of a kind the provider knows, not in the nested form.
Flat(tool) == tool.type \in AllowedToolTypes /\ tool.shape = "flat"

\* Sanitizing a tool leaves nothing, or one that is flat.
LEMMA ToolIsFlat ==
  ASSUME NEW tool, tool.type \in {"function", "custom"} \/ tool.shape = "flat"
  PROVE  SanitizeTool(tool) = <<>> \/ \E t : SanitizeTool(tool) = <<t>> /\ Flat(t)
<1>1. CASE tool.type \in {"function", "custom"}
  <2>1. CASE tool.name = ""
    BY <1>1, <2>1 DEF SanitizeTool
  <2>2. CASE tool.name # ""
    <3> DEFINE flat == [type |-> "function", shape |-> "flat", name |-> tool.name,
                        command |-> tool.command \/ tool.name \in ExecuteToolNames]
    <3>1. SanitizeTool(tool) = <<flat>>
      BY <1>1, <2>2 DEF SanitizeTool
    <3>2. Flat(flat)
      BY DEF Flat, AllowedToolTypes
    <3> QED
      BY <3>1, <3>2
  <2> QED
    BY <2>1, <2>2
<1>2. CASE tool.type \notin {"function", "custom"}
  BY <1>2 DEF SanitizeTool, Flat
<1> QED
  BY <1>1, <1>2

\* The recursive function of SanitizeToolsArray exists: otherwise there were a
\* shortest list without one.
LEMMA ToolsLoop ==
  ASSUME NEW tools, NEW n \in Nat
  PROVE  \E f : f = [k \in 0 .. n |-> IF k = 0 THEN <<>> ELSE f[k - 1] \o SanitizeTool(tools[k])]
<1> DEFINE Loops(f, m) == f = [k \in 0 .. m |-> IF k = 0 THEN <<>> ELSE f[k - 1] \o SanitizeTool(tools[k])]
           without == {m \in Nat : ~\E f : Loops(f, m)}
<1>1. SUFFICES ASSUME without # {} PROVE FALSE
  OBVIOUS
<1>2. PICK m \in without : \A k \in Nat : k < m => k \notin without
  BY <1>1, LeastNat
<1>3. CASE m = 0
  <2> DEFINE f == [k \in 0 .. m |-> <<>>]
  <2>1. f = [k \in 0 .. m |-> IF k = 0 THEN <<>> ELSE f[k - 1] \o SanitizeTool(tools[k])]
    BY <1>3
  <2> QED
    BY <1>2, <2>1
<1>4. CASE m # 0
  <2>1. m - 1 \in Nat /\ m - 1 < m
    BY <1>2, <1>4
  <2>2. PICK g : Loops(g, m - 1)
    BY <1>2, <2>1
  <2> DEFINE f == [k \in 0 .. m |-> IF k = m THEN g[m - 1] \o SanitizeTool(tools[m]) ELSE g[k]]
  <2>3. \A k \in 0 .. m - 1 : g[k] = IF k = 0 THEN <<>> ELSE g[k - 1] \o SanitizeTool(tools[k])
    BY <2>2
  <2>4. \A k \in 0 .. m : f[k] = IF k = 0 THEN <<>> ELSE f[k - 1] \o SanitizeTool(tools[k])
    BY <1>2, <1>4, <2>1, <2>3
  <2>5. f = [k \in 0 .. m |-> f[k]]
    OBVIOUS
  <2> HIDE DEF f
  <2>6. Loops(f, m)
    BY <2>4, <2>5, Zenon
  <2> QED
    BY <1>2, <2>6
<1> QED
  BY <1>3, <1>4

\* What is left of a list of tools is flat.
LEMMA ToolsAreFlat ==
  ASSUME NEW tools, Len(tools) \in Nat,
         \A n \in 1 .. Len(tools) : tools[n].type \in {"function", "custom"} \/ tools[n].shape = "flat"
  PROVE  /\ SanitizeToolsArray(tools) \in Seq({SanitizeToolsArray(tools)[n] : n \in DOMAIN SanitizeToolsArray(tools)})
         /\ \A n \in DOMAIN SanitizeToolsArray(tools) : Flat(SanitizeToolsArray(tools)[n])
<1> DEFINE N == Len(tools)
           upTo == CHOOSE f : f = [k \in 0 .. N |-> IF k = 0 THEN <<>> ELSE f[k - 1] \o SanitizeTool(tools[k])]
           tidy == {t \in UNION {{SanitizeTool(tools[k])[n] : n \in DOMAIN SanitizeTool(tools[k])} : k \in 1 .. N} : Flat(t)}
           bad == {k \in 0 .. N : upTo[k] \notin Seq(tidy)}
<1>1. upTo = [k \in 0 .. N |-> IF k = 0 THEN <<>> ELSE upTo[k - 1] \o SanitizeTool(tools[k])]
  BY ToolsLoop
<1>2. SanitizeToolsArray(tools) = upTo[N]
  BY DEF SanitizeToolsArray
<1> HIDE DEF upTo
<1>3. \A k \in 1 .. N : SanitizeTool(tools[k]) \in Seq(tidy)
  <2> SUFFICES ASSUME NEW k \in 1 .. N PROVE SanitizeTool(tools[k]) \in Seq(tidy)
    OBVIOUS
  <2>1. CASE SanitizeTool(tools[k]) = <<>>
    BY <2>1
  <2>2. CASE SanitizeTool(tools[k]) # <<>>
    <3>1. PICK t : SanitizeTool(tools[k]) = <<t>> /\ Flat(t)
      BY <2>2, ToolIsFlat
    <3>2. t \in tidy
      BY <3>1
    <3> QED
      BY <3>1, <3>2
  <2> QED
    BY <2>1, <2>2
<1> HIDE DEF tidy
<1>4. bad = {}
  <2> SUFFICES ASSUME bad # {} PROVE FALSE
    OBVIOUS
  <2>1. bad \subseteq Nat
    OBVIOUS
  <2>2. PICK m \in bad : \A k \in bad : ~(k < m)
    BY <2>1, LeastNat
  <2>3. m \in 0 .. N /\ upTo[m] \notin Seq(tidy)
    BY <2>2
  <2>4. CASE m = 0
    <3>1. upTo[m] = <<>>
      BY <1>1, <2>4
    <3>2. <<>> \in Seq(tidy)
      OBVIOUS
    <3> QED
      BY <2>3, <3>1, <3>2
  <2>5. CASE m # 0
    <3>1. m - 1 \in 0 .. N /\ m - 1 < m /\ m \in 1 .. N
      BY <2>1, <2>5
    <3>2. upTo[m - 1] \in Seq(tidy)
      BY <2>2, <3>1
    <3>3. upTo[m] = upTo[m - 1] \o SanitizeTool(tools[m])
      BY <1>1, <2>5, <3>1
    <3>4. SanitizeTool(tools[m]) \in Seq(tidy)
      BY <1>3, <3>1
    <3>5. \A p, q \in Seq(tidy) : p \o q \in Seq(tidy)
      OBVIOUS
    <3> QED
      BY <2>3, <3>2, <3>3, <3>4, <3>5
  <2> QED
    BY <2>4, <2>5
<1>5. upTo[N] \in Seq(tidy)
  BY <1>4
<1>6. \A t \in tidy : Flat(t)
  BY DEF tidy
<1> QED
  BY <1>2, <1>5, <1>6

\* api.x.ai accepts what SanitizeRequestBody returns, by the rules of the
\* comment in its file, for every body whose tools have a form that clients
\* send and whose arguments, where they are sent on as they are, hold objects
\* (grok_request_sanitizer.go).
THEOREM SanitizedIsAccepted ==
  ASSUME NEW b, Len(b.tools) \in Nat,
         \A n \in 1 .. Len(b.tools) : b.tools[n].type \in {"function", "custom"} \/ b.tools[n].shape = "flat",
         WellArgued(b)
  PROVE  XaiAccepts(SanitizeRequestBody(b))
<1> DEFINE tools == SanitizeToolsArray(b.tools)
           out == SanitizeRequestBody(b)
<1>1. \A n \in DOMAIN tools : Flat(tools[n])
  BY ToolsAreFlat
<1>2. /\ out.tools = tools
      /\ out.choice = IF tools = <<>> THEN "none" ELSE SanitizeToolChoice(b.choice)
      /\ out.parallel = (b.parallel /\ ~(tools = <<>>))
      /\ out.input = [n \in DOMAIN b.input |-> SanitizeItem(b.input[n])]
  BY DEF SanitizeRequestBody
<1> HIDE DEF tools, out
<1>3. ASSUME NEW n \in DOMAIN out.input
      PROVE  /\ out.input[n].type \notin {"custom_tool_call", "custom_tool_call_output"}
             /\ out.input[n].type = "function_call" => out.input[n].arguments = "objectText"
  <2> DEFINE item == b.input[n]
  <2>1. out.input[n] = SanitizeItem(item) /\ n \in DOMAIN b.input
    BY <1>2
  <2>2. /\ item.type = "function_call" => item.arguments = "objectText"
        /\ item.type = "custom_tool_call" =>
               /\ item.input # "tailed"
               /\ item.input = "absent" /\ item.arguments \in Strings => item.arguments = "objectText"
    BY <2>1 DEF WellArgued
  <2> HIDE DEF item
  <2>3. CASE item.type = "custom_tool_call"
    <3>1. ArgumentsOf(item) = "objectText"
      BY <2>2, <2>3 DEF ArgumentsOf, CustomToolCallArgumentsJSON, Strings
    <3>2. SanitizeItem(item) = [type |-> "function_call", input |-> "absent", arguments |-> ArgumentsOf(item)]
      BY <2>3 DEF SanitizeItem
    <3> QED
      BY <2>1, <3>1, <3>2
  <2>4. CASE item.type = "custom_tool_call_output"
    <3>1. SanitizeItem(item).type = "function_call_output"
      BY <2>4 DEF SanitizeItem
    <3> QED
      BY <2>1, <3>1
  <2>5. CASE item.type \notin {"custom_tool_call", "custom_tool_call_output"}
    <3>1. SanitizeItem(item) = item
      BY <2>5 DEF SanitizeItem
    <3> QED
      BY <2>1, <2>2, <2>5, <3>1
  <2> QED
    BY <2>3, <2>4, <2>5
<1>4. out.choice \notin {"custom", "nested"}
  BY <1>2 DEF SanitizeToolChoice
<1>5. out.tools = <<>> => out.choice = "none" /\ ~out.parallel
  BY <1>2
<1>6. XaiAccepts(out)
  BY <1>1, <1>2, <1>3, <1>4, <1>5 DEF XaiAccepts, Flat
<1> QED
  BY <1>6 DEF out

-----------------------------------------------------------------------------
(* One connection                                                          *)

Unread == {"reading", "body", "process"}
Unanswered == Unread \cup {"token", "account", "dial"}
AnswerEvents == request.answer.events
Chunks == {AnswerEvents[n] : n \in DOMAIN AnswerEvents}

\* Nothing is sent before the request is read, and nothing relayed before it is sent.
Ordering ==
  /\ request \in Requests
  /\ client = [status |-> client.status, events |-> client.events]
  /\ sent = [dest |-> sent.dest, path |-> sent.path, betas |-> sent.betas,
             text |-> sent.text, grok |-> sent.grok, key |-> sent.key]
  /\ stage \in Unread => sent = Unsent
  /\ stage \in Unanswered => /\ left = AnswerEvents /\ acc = <<>> /\ client.events = <<>>
                             /\ usage = <<>> /\ pending = FALSE

\* What is enabled now was enabled at some time since the request came.
Gate ==
  /\ settings \in [{"grok", "meta", "fast"} -> BOOLEAN]
  /\ \A p \in {"grok", "meta"} : settings[p] => p \in everOn
  /\ DisabledNotDialled

\* The body for Grok is the client's, sanitized if it came whole.
Sanitized == Collected => sent.grok = GrokBody

\* The steps, seen by who may change what.
Arrives == ReadHeader \/ ReadBody \/ ClientHalfCloses
Processed == ProcessGrok \/ ProcessMeta \/ ProcessBackend
Resolved == ResolveToken \/ ResolveAccount \/ Dial
Relays == SendFails \/ PassOn \/ ReadMetaChunk \/ WriteMetaChunk \/ Collect \/ UpstreamEnds \/ WriteFails

LEMMA RefusedIs ==
  ASSUME NEW status, RefuseRequest(status), Ordering
  PROVE  /\ stage' = "over" /\ client'.events = client.events
         /\ client' = [status |-> client'.status, events |-> client'.events]
         /\ UNCHANGED <<request, body, left, acc, cut, pending, usage, env>>
<1>1. client' = [client EXCEPT !.status = status]
  BY DEF RefuseRequest
<1>2. client = [status |-> client.status, events |-> client.events]
  BY DEF Ordering
<1>3. client' = [status |-> status, events |-> client.events]
  BY <1>1, <1>2
<1> QED
  BY <1>3 DEF RefuseRequest

\* How a request is sent on.
LEMMA ProcessedIs ==
  ASSUME Processed, Ordering
  PROVE  /\ stage \in Unread
         /\ UNCHANGED <<request, body, left, acc, cut, pending, usage, env>>
         /\ \/ /\ stage' = "over" /\ sent' = sent /\ client'.events = client.events
               /\ client' = [status |-> client'.status, events |-> client'.events]
            \/ /\ stage' \in {"token", "account", "dial"} /\ client' = client
               /\ sent' = [dest |-> sent'.dest, path |-> sent'.path, betas |-> sent'.betas,
                           text |-> sent'.text, grok |-> sent'.grok, key |-> sent'.key]
               /\ \/ /\ sent'.dest \in {"api.x.ai", "cli-chat-proxy.grok.com"} /\ settings["grok"]
                     /\ sent'.grok = GrokBody
                  \/ sent'.dest = "api.meta.ai" /\ settings["meta"]
                  \/ sent'.dest = "backend"
<1>0. stage \in Unread
  BY DEF Processed, ProcessGrok, ProcessMeta, ProcessBackend, Posted, Unread
<1>1. CASE ProcessGrok
  <2>1. PICK text \in Posted : \E fields \in {InspectRequestJSONFields(text)} :
             IF settings.grok
             THEN /\ stage' = "token"
                  /\ sent' = [Unsent EXCEPT !.dest = UpstreamHost(fields.model),
                                            !.path = NormalizeUpstreamPath(request.path),
                                            !.text = text,
                                            !.grok = GrokBody]
                  /\ UNCHANGED <<request, body, left, acc, client, cut, pending, usage, env>>
             ELSE RefuseRequest(400) /\ UNCHANGED sent
    BY <1>1 DEF ProcessGrok
  <2> DEFINE fields == InspectRequestJSONFields(text)
  <2>2. UpstreamHost(fields.model) \in {"api.x.ai", "cli-chat-proxy.grok.com"}
    BY DEF UpstreamHost
  <2>3. CASE settings.grok
    <3> DEFINE host == UpstreamHost(fields.model)
               path == NormalizeUpstreamPath(request.path)
               grok == GrokBody
    <3>1. sent' = [Unsent EXCEPT !.dest = host, !.path = path, !.text = text, !.grok = grok]
      BY <2>1, <2>3
    <3> HIDE DEF host, path, grok
    <3>2. sent' = [dest |-> host, path |-> path, betas |-> <<>>, text |-> text, grok |-> grok, key |-> 0]
      BY <3>1 DEF Unsent
    <3> QED
      BY <1>0, <2>1, <2>2, <2>3, <3>2 DEF host, grok
  <2>4. CASE ~settings.grok
    BY <1>0, <2>1, <2>4, RefusedIs
  <2> QED
    BY <2>3, <2>4
<1>2. CASE ProcessMeta
  <2>1. PICK text \in Posted :
             IF settings.meta
             THEN /\ stage' = "account"
                  /\ sent' = [Unsent EXCEPT !.dest = "api.meta.ai",
                                            !.path = NormalizeUpstreamPath(request.path),
                                            !.text = text]
                  /\ UNCHANGED <<request, body, left, acc, client, cut, pending, usage, env>>
             ELSE RefuseRequest(400) /\ UNCHANGED sent
    BY <1>2 DEF ProcessMeta
  <2>2. CASE settings.meta
    <3> DEFINE path == NormalizeUpstreamPath(request.path)
    <3>1. sent' = [Unsent EXCEPT !.dest = "api.meta.ai", !.path = path, !.text = text]
      BY <2>1, <2>2
    <3> HIDE DEF path
    <3>2. sent' = [dest |-> "api.meta.ai", path |-> path, betas |-> <<>>, text |-> text,
                   grok |-> NoBody, key |-> 0]
      BY <3>1 DEF Unsent
    <3> QED
      BY <1>0, <2>1, <2>2, <3>2
  <2>3. CASE ~settings.meta
    BY <1>0, <2>1, <2>3, RefusedIs
  <2> QED
    BY <2>2, <2>3
<1>3. CASE ProcessBackend
  <2>1. PICK text : ForwardToBackend(text)
    BY <1>3 DEF ProcessBackend
  <2>2. PICK path, betas :
             /\ stage' = "dial"
             /\ sent' = [Unsent EXCEPT !.dest = "backend", !.path = path, !.betas = betas, !.text = text]
             /\ UNCHANGED <<request, body, left, acc, client, cut, pending, usage, env>>
    BY <2>1 DEF ForwardToBackend
  <2>3. sent' = [dest |-> "backend", path |-> path, betas |-> betas, text |-> text,
                 grok |-> NoBody, key |-> 0]
    BY <2>2 DEF Unsent
  <2> QED
    BY <1>0, <2>2, <2>3
<1> QED
  BY <1>1, <1>2, <1>3 DEF Processed

\* A connection that is refused, resolved or relayed.
LEMMA ResolvedIs ==
  ASSUME Resolved, Ordering
  PROVE  /\ stage \in Unanswered \ Unread
         /\ UNCHANGED <<request, body, left, acc, cut, pending, usage, env>>
         /\ client'.events = client.events
         /\ client' = [status |-> client'.status, events |-> client'.events]
         /\ stage' \in {"over", "dial", "relay"}
         /\ sent' = [sent EXCEPT !.key = sent'.key]
         /\ stage' = "relay" => sent' = sent
<1>0. stage \in Unanswered \ Unread
  BY DEF Resolved, ResolveToken, ResolveAccount, Dial, Unanswered, Unread
<1>1. sent = [sent EXCEPT !.key = sent.key] /\ client = [status |-> client.status, events |-> client.events]
  BY DEF Ordering
<1>2. CASE ResolveToken
  BY <1>0, <1>1, <1>2, RefusedIs DEF ResolveToken
<1>3. CASE ResolveAccount
  <2> DEFINE usable == {n \in DOMAIN accounts : accounts[n]}
  <2>1. CASE usable = {}
    BY <1>0, <1>1, <1>3, <2>1, RefusedIs DEF ResolveAccount
  <2>2. CASE usable # {}
    <3> DEFINE key == Min(usable)
    <3>1. /\ stage' = "dial" /\ sent' = [sent EXCEPT !.key = key]
          /\ UNCHANGED <<request, body, left, acc, client, cut, pending, usage, env>>
      BY <1>3, <2>2 DEF ResolveAccount
    <3> HIDE DEF key
    <3>2. sent' = [dest |-> sent.dest, path |-> sent.path, betas |-> sent.betas,
                   text |-> sent.text, grok |-> sent.grok, key |-> key]
      BY <3>1 DEF Ordering
    <3>3. sent'.key = key
      BY <3>2
    <3> QED
      BY <1>0, <1>1, <3>1, <3>3
  <2> QED
    BY <2>1, <2>2
<1>4. CASE Dial
  BY <1>0, <1>1, <1>4, RefusedIs DEF Dial
<1> QED
  BY <1>2, <1>3, <1>4 DEF Resolved

\* What the relaying of an answer leaves alone.
LEMMA RelaysIs ==
  ASSUME Relays, Ordering
  PROVE  /\ stage \in {"relay", "stream"} /\ stage' \in {"relay", "stream", "over"}
         /\ UNCHANGED <<request, body, sent, env>>
         /\ client' = [status |-> client'.status, events |-> client'.events]
<1>1. stage \in {"relay", "stream"} /\ stage' \in {"relay", "stream", "over"}
      /\ UNCHANGED <<request, body, sent, env>>
  BY DEF Relays, SendFails, PassOn, ReadMetaChunk, WriteMetaChunk, Collect, UpstreamEnds, WriteFails
<1>2. \A events : Got(events) = [status |-> Got(events).status, events |-> Got(events).events]
  BY DEF Got
<1>3. client' = client \/ \E events : client' = Got(events)
  BY DEF Relays, SendFails, PassOn, ReadMetaChunk, WriteMetaChunk, Collect, UpstreamEnds, WriteFails
<1>4. client = [status |-> client.status, events |-> client.events]
  BY DEF Ordering
<1> QED
  BY <1>1, <1>2, <1>3, <1>4

\* What the reading of a request leaves alone.
LEMMA ArrivesIs ==
  ASSUME Arrives, Ordering
  PROVE  /\ stage \in Unread /\ stage' \in {"body", "process", "over"}
         /\ UNCHANGED <<request, sent, left, acc, cut, pending, usage, env>>
         /\ client'.events = client.events
         /\ client' = [status |-> client'.status, events |-> client'.events]
<1>1. /\ stage \in Unread /\ stage' \in {"body", "process", "over"}
      /\ UNCHANGED <<request, sent, left, acc, cut, pending, usage, env>>
      /\ client' = client \/ client' = [client EXCEPT !.status = 400]
  BY DEF Arrives, ReadHeader, ReadBody, ClientHalfCloses, Unread
<1>2. client = [status |-> client.status, events |-> client.events]
  BY DEF Ordering
<1> DEFINE turnedAway == [client EXCEPT !.status = 400]
<1>3. turnedAway = [status |-> 400, events |-> client.events]
  BY <1>2
<1>4. client' = client \/ client' = turnedAway
  BY <1>1
<1> HIDE DEF turnedAway
<1> QED
  BY <1>1, <1>2, <1>3, <1>4

\* A step of the user, or none.
LEMMA MeanwhileIs ==
  ASSUME [RequestNext]_requestVars
  PROVE  \/ Arrives \/ Processed \/ Resolved \/ Relays
         \/ (SwitchProvider \/ AccountEnds \/ UNCHANGED requestVars) /\ UNCHANGED conn
BY DEF RequestNext, Arrives, Processed, Resolved, Relays, SwitchProvider, AccountEnds, requestVars

LEMMA OrderingStep == Ordering /\ [RequestNext]_requestVars => Ordering'
<1> SUFFICES ASSUME Ordering, [RequestNext]_requestVars PROVE Ordering'
  OBVIOUS
<1> USE DEF Unread, Unanswered
<1>1. CASE Arrives
  <2>1. /\ stage \in Unread /\ stage' \in {"body", "process", "over"}
        /\ UNCHANGED <<request, sent, left, acc, cut, pending, usage, env>>
        /\ client'.events = client.events
        /\ client' = [status |-> client'.status, events |-> client'.events]
    BY <1>1, ArrivesIs
  <2> QED
    BY <2>1 DEF Ordering, AnswerEvents
<1>2. CASE Processed
  <2>1. /\ stage \in Unread
        /\ UNCHANGED <<request, body, left, acc, cut, pending, usage, env>>
        /\ \/ /\ stage' = "over" /\ sent' = sent /\ client'.events = client.events
              /\ client' = [status |-> client'.status, events |-> client'.events]
           \/ /\ stage' \in {"token", "account", "dial"} /\ client' = client
              /\ sent' = [dest |-> sent'.dest, path |-> sent'.path, betas |-> sent'.betas,
                          text |-> sent'.text, grok |-> sent'.grok, key |-> sent'.key]
    BY <1>2, ProcessedIs
  <2> QED
    BY <2>1 DEF Ordering, AnswerEvents
<1>3. CASE Resolved
  <2>1. /\ stage \in Unanswered \ Unread
        /\ UNCHANGED <<request, body, left, acc, cut, pending, usage, env>>
        /\ client'.events = client.events
        /\ client' = [status |-> client'.status, events |-> client'.events]
        /\ stage' \in {"over", "dial", "relay"}
        /\ sent' = [sent EXCEPT !.key = sent'.key]
    BY <1>3, ResolvedIs
  <2> DEFINE key == sent'.key
  <2>2. sent' = [sent EXCEPT !.key = key]
    BY <2>1
  <2> HIDE DEF key
  <2>3. sent' = [dest |-> sent.dest, path |-> sent.path, betas |-> sent.betas,
                 text |-> sent.text, grok |-> sent.grok, key |-> key]
    BY <2>2 DEF Ordering
  <2>4. sent' = [dest |-> sent'.dest, path |-> sent'.path, betas |-> sent'.betas,
                 text |-> sent'.text, grok |-> sent'.grok, key |-> sent'.key]
    BY <2>3
  <2> QED
    BY <2>1, <2>4 DEF Ordering, AnswerEvents
<1>4. CASE Relays
  <2>1. /\ stage \in {"relay", "stream"} /\ stage' \in {"relay", "stream", "over"}
        /\ UNCHANGED <<request, sent, env>>
        /\ client' = [status |-> client'.status, events |-> client'.events]
    BY <1>4, RelaysIs
  <2> QED
    BY <2>1 DEF Ordering
<1>5. CASE UNCHANGED conn
  BY <1>5 DEF Ordering, AnswerEvents, conn
<1> QED
  BY <1>1, <1>2, <1>3, <1>4, <1>5, MeanwhileIs

LEMMA OrderingInit == RequestInit => Ordering
<1> SUFFICES ASSUME RequestInit PROVE Ordering
  OBVIOUS
<1>1. client = [status |-> 0, events |-> <<>>]
  BY DEF RequestInit
<1>2. client.status = 0 /\ client.events = <<>>
  BY <1>1
<1>3. sent = [dest |-> "none", path |-> [base |-> "", call |-> ""], betas |-> <<>>,
              text |-> <<>>, grok |-> NoBody, key |-> 0]
  BY DEF RequestInit, Unsent
<1>4. sent = [dest |-> sent.dest, path |-> sent.path, betas |-> sent.betas,
              text |-> sent.text, grok |-> sent.grok, key |-> sent.key]
  BY <1>3
<1> QED
  BY <1>1, <1>2, <1>4 DEF RequestInit, Ordering, AnswerEvents

LEMMA Ordered == RequestSpec => []Ordering
  BY OrderingInit, OrderingStep, PTL DEF RequestSpec

\* Where a request goes is decided by the settings of that moment, and kept.
LEMMA GateStep == Ordering /\ Gate /\ [RequestNext]_requestVars => Gate'
<1> SUFFICES ASSUME Ordering, Gate, [RequestNext]_requestVars PROVE Gate'
  OBVIOUS
<1> USE DEF env
<1>1. ASSUME UNCHANGED env, sent'.dest = sent.dest PROVE Gate'
  BY <1>1 DEF Gate, DisabledNotDialled, Collected
<1>2. CASE Arrives
  BY <1>1, <1>2, ArrivesIs
<1>3. CASE Processed
  <2>1. /\ UNCHANGED env
        /\ \/ sent' = sent
           \/ sent'.dest \in {"api.x.ai", "cli-chat-proxy.grok.com"} /\ settings["grok"]
           \/ sent'.dest = "api.meta.ai" /\ settings["meta"]
           \/ sent'.dest = "backend"
    BY <1>3, ProcessedIs
  <2>2. UNCHANGED <<settings, everOn>>
    BY <2>1
  <2>3. CASE sent' = sent
    BY <1>1, <2>1, <2>3
  <2>4. CASE sent'.dest \in {"api.x.ai", "cli-chat-proxy.grok.com"} /\ settings["grok"]
    BY <2>2, <2>4 DEF Gate, DisabledNotDialled, Collected
  <2>5. CASE sent'.dest = "api.meta.ai" /\ settings["meta"]
    BY <2>2, <2>5 DEF Gate, DisabledNotDialled, Collected
  <2>6. CASE sent'.dest = "backend"
    BY <2>2, <2>6 DEF Gate, DisabledNotDialled, Collected
  <2> QED
    BY <2>1, <2>3, <2>4, <2>5, <2>6
<1>4. CASE Resolved
  <2>1. UNCHANGED env /\ sent' = [sent EXCEPT !.key = sent'.key]
    BY <1>4, ResolvedIs
  <2> DEFINE key == sent'.key
  <2>2. sent' = [sent EXCEPT !.key = key]
    BY <2>1
  <2> HIDE DEF key
  <2>3. sent'.dest = sent.dest
    BY <2>2 DEF Ordering
  <2> QED
    BY <1>1, <2>1, <2>3
<1>5. CASE Relays
  BY <1>1, <1>5, RelaysIs
<1>6. CASE SwitchProvider /\ UNCHANGED conn
  <2>1. PICK p \in {"grok", "meta"} : /\ settings' = [settings EXCEPT ![p] = ~settings[p]]
                                      /\ everOn' = IF settings[p] THEN everOn ELSE everOn \cup {p}
    BY <1>6 DEF SwitchProvider
  <2>2. settings' \in [{"grok", "meta", "fast"} -> BOOLEAN]
    BY <2>1 DEF Gate
  <2>3. \A q \in {"grok", "meta"} : settings'[q] => q \in everOn'
    BY <2>1 DEF Gate
  <2>4. everOn \subseteq everOn' /\ sent' = sent
    BY <1>6, <2>1 DEF conn
  <2>5. DisabledNotDialled'
    BY <2>4 DEF Gate, DisabledNotDialled, Collected
  <2> QED
    BY <2>2, <2>3, <2>5 DEF Gate
<1>7. CASE (AccountEnds \/ UNCHANGED requestVars) /\ UNCHANGED conn
  BY <1>7 DEF AccountEnds, requestVars, conn, Gate, DisabledNotDialled, Collected
<1> QED
  BY <1>2, <1>3, <1>4, <1>5, <1>6, <1>7, MeanwhileIs

\* What the proxy knows of the settings, from the start on.
LEMMA GateAlways == RequestSpec => []Gate
<1>1. RequestInit => Gate
  <2> SUFFICES ASSUME RequestInit PROVE Gate
    OBVIOUS
  <2>1. settings \in [{"grok", "meta", "fast"} -> BOOLEAN]
    BY DEF RequestInit
  <2>2. \A p \in {"grok", "meta"} : settings[p] => p \in everOn
    BY DEF RequestInit
  <2>3. sent.dest = "none"
    BY DEF RequestInit, Unsent
  <2> QED
    BY <2>1, <2>2, <2>3 DEF Gate, DisabledNotDialled, Collected
<1> QED
  BY <1>1, GateStep, Ordered, PTL DEF RequestSpec

LEMMA SanitizedStep == Ordering /\ Sanitized /\ [RequestNext]_requestVars => Sanitized'
<1> SUFFICES ASSUME Ordering, Sanitized, [RequestNext]_requestVars PROVE Sanitized'
  OBVIOUS
<1>0. ASSUME request' = request, body' = body PROVE GrokBody' = GrokBody
  <2>1. Bytes' = Bytes
    BY <1>0 DEF Bytes
  <2> QED
    BY <1>0, <2>1 DEF GrokBody
<1>1. ASSUME request' = request, body' = body, sent'.dest = sent.dest, sent'.grok = sent.grok
      PROVE  Sanitized'
  BY <1>0, <1>1 DEF Sanitized, Collected
<1>2. CASE Arrives
  <2>1. sent' = Unsent
    BY <1>2, ArrivesIs DEF Ordering
  <2>2. sent'.dest = "none"
    BY <2>1 DEF Unsent
  <2> QED
    BY <2>2 DEF Sanitized, Collected
<1>3. CASE Processed
  <2>1. /\ request' = request /\ body' = body
        /\ \/ sent' = sent
           \/ sent'.grok = GrokBody
           \/ sent'.dest \in {"api.meta.ai", "backend"}
    BY <1>3, ProcessedIs
  <2> QED
    BY <1>0, <1>1, <2>1 DEF Sanitized, Collected
<1>4. CASE Resolved
  <2>1. request' = request /\ body' = body /\ sent' = [sent EXCEPT !.key = sent'.key]
    BY <1>4, ResolvedIs
  <2> DEFINE key == sent'.key
  <2>2. sent' = [sent EXCEPT !.key = key]
    BY <2>1
  <2> HIDE DEF key
  <2>3. sent'.dest = sent.dest /\ sent'.grok = sent.grok
    BY <2>2 DEF Ordering
  <2> QED
    BY <1>1, <2>1, <2>3
<1>5. CASE Relays
  BY <1>1, <1>5, RelaysIs
<1>6. CASE UNCHANGED conn
  BY <1>1, <1>6 DEF conn
<1> QED
  BY <1>2, <1>3, <1>4, <1>5, <1>6, MeanwhileIs

\* A request on its way to api.x.ai whose body came whole is one it accepts, if
\* those arguments that are not rewritten hold objects (processRequest,
\* SanitizeRequestBody).
THEOREM GrokAccepts == RequestSpec => []AcceptedByXai
<1>1. RequestInit => Sanitized
  <2> SUFFICES ASSUME RequestInit PROVE Sanitized
    OBVIOUS
  <2>1. sent.dest = "none"
    BY DEF RequestInit, Unsent
  <2> QED
    BY <2>1 DEF Sanitized, Collected
<1>2. Ordering /\ Sanitized => AcceptedByXai
  <2> SUFFICES ASSUME Ordering, Sanitized, Collected, body = Bytes, WellArgued(request.grok)
               PROVE  XaiAccepts(sent.grok)
    BY DEF AcceptedByXai
  <2>1. /\ Len(request.grok.tools) \in Nat
        /\ request.grok.tools = [n \in 1 .. Len(request.grok.tools) |-> request.grok.tools[n]]
        /\ \A n \in DOMAIN request.grok.tools :
              \/ request.grok.tools[n].type \in {"function", "custom"}
              \/ request.grok.tools[n].shape = "flat"
    BY RequestsAssumption DEF Ordering, IsSequence
  <2>2. DOMAIN request.grok.tools = 1 .. Len(request.grok.tools)
    BY <2>1
  <2> QED
    BY <2>1, <2>2, SanitizedIsAccepted DEF Sanitized, GrokBody
<1> QED
  BY <1>1, <1>2, SanitizedStep, Ordered, PTL DEF RequestSpec

-----------------------------------------------------------------------------
(* Usage reports                                                           *)

\* The places of the reports among the first events of an answer.
Reports(events) == {n \in DOMAIN events : events[n].ev \in {"report", "ort"}}
Recorded(events, records, key) ==
  /\ Len(records) = Cardinality(Reports(events))
  /\ \A n \in Reports(events) :
        records[Cardinality({m \in Reports(events) : m <= n})] = <<key, events[n].text>>
Records == {sent.key} \X {AnswerEvents[n].text : n \in DOMAIN AnswerEvents}

\* One more event.
LEMMA OneMore ==
  ASSUME NEW S, NEW c \in Seq(S), NEW e \in S, NEW T, NEW u \in Seq(T), NEW key,
         <<key, e.text>> \in T, Recorded(c, u, key)
  PROVE  /\ e.ev \notin {"report", "ort"} => Recorded(c \o <<e>>, u, key)
         /\ e.ev \in {"report", "ort"} => Recorded(c \o <<e>>, Append(u, <<key, e.text>>), key)
<1> DEFINE d == c \o <<e>>
           last == Len(c) + 1
           R == Reports(c)
           W == Reports(d)
<1>1. /\ d \in Seq(S) /\ DOMAIN d = 1 .. last /\ d[last] = e /\ last \in Nat \ {0}
      /\ DOMAIN c = 1 .. Len(c) /\ Len(c) \in Nat
      /\ \A n \in DOMAIN c : d[n] = c[n] /\ n \in DOMAIN d /\ n < last /\ n \in Nat
  OBVIOUS
<1> HIDE DEF d, last
<1>2. R \subseteq 1 .. Len(c) /\ IsFiniteSet(R)
  <2>1. R \subseteq 1 .. Len(c)
    BY <1>1 DEF Reports
  <2> DEFINE k == Len(c)
  <2>2. k \in Int
    BY <1>1
  <2> HIDE DEF k
  <2>3. IsFiniteSet(1 .. k)
    BY <2>2, FS_Interval
  <2> QED
    BY <2>1, <2>3, FS_Subset DEF k
<1>3. \A n \in 1 .. last : n = last \/ n \in DOMAIN c
  BY <1>1 DEF last
<1>4. CASE e.ev \notin {"report", "ort"}
  <2>1. W = R
    BY <1>1, <1>3, <1>4 DEF Reports
  <2>2. \A n \in R : d[n] = c[n]
    BY <1>1 DEF Reports
  <2>3. Recorded(d, u, key)
    BY <2>1, <2>2 DEF Recorded
  <2> QED
    BY <1>4, <2>3 DEF d
<1>5. CASE e.ev \in {"report", "ort"}
  <2> DEFINE v == Append(u, <<key, e.text>>)
             Upto(n) == {m \in R : m <= n}
  <2>1. W = R \cup {last}
    <3>1. last \in DOMAIN d /\ d[last].ev \in {"report", "ort"}
      BY <1>1, <1>5
    <3>2. \A n \in DOMAIN c : n \in DOMAIN d /\ d[n] = c[n]
      BY <1>1
    <3>3. \A n \in DOMAIN d : n = last \/ n \in DOMAIN c
      BY <1>1, <1>3
    <3> QED
      BY <3>1, <3>2, <3>3 DEF Reports
  <2>2. last \notin R /\ \A n \in R : d[n] = c[n] /\ n < last /\ n \in Nat
    BY <1>1, <1>2
  <2>3. Cardinality(W) = Cardinality(R) + 1
    BY <1>2, <2>1, <2>2, FS_AddElement
  <2>4. /\ Len(u) \in Nat /\ Len(v) = Len(u) + 1 /\ v[Len(u) + 1] = <<key, e.text>>
        /\ \A n \in 1 .. Len(u) : v[n] = u[n]
    OBVIOUS
  <2>5. Len(u) = Cardinality(R)
    BY DEF Recorded
  <2>6. ASSUME NEW n \in R
        PROVE  v[Cardinality({m \in W : m <= n})] = <<key, d[n].text>>
    <3>1. {m \in W : m <= n} = Upto(n)
      BY <1>1, <2>1, <2>2
    <3>2. IsFiniteSet(Upto(n)) /\ Cardinality(Upto(n)) <= Cardinality(R)
      BY <1>2, FS_Subset
    <3>3. Cardinality(Upto(n)) \in Nat /\ Cardinality(Upto(n)) # 0
      <4>1. n \in Upto(n)
        BY <2>2
      <4> QED
        BY <3>2, <4>1, FS_CardinalityType, FS_EmptySet
    <3>4. Cardinality(Upto(n)) \in 1 .. Len(u)
      BY <2>4, <2>5, <3>2, <3>3
    <3>5. u[Cardinality(Upto(n))] = <<key, c[n].text>>
      BY DEF Recorded
    <3> QED
      BY <2>2, <2>4, <3>1, <3>4, <3>5
  <2>7. v[Cardinality({m \in W : m <= last})] = <<key, d[last].text>>
    <3>1. {m \in W : m <= last} = W
      BY <1>1, <2>1, <2>2
    <3> QED
      BY <1>1, <2>3, <2>4, <2>5, <3>1
  <2>8. Recorded(d, v, key)
    BY <2>1, <2>3, <2>4, <2>5, <2>6, <2>7 DEF Recorded
  <2> QED
    BY <1>5, <2>8 DEF d
<1> QED
  BY <1>4, <1>5

\* What is recorded is what was read; the scanner holds half of a line exactly
\* when the last event that was read is one.
Seen == client.events \o acc
Relayed ==
  sent.dest = "api.meta.ai" =>
    /\ client.events \in Seq(Chunks) /\ acc \in Seq(Chunks)
    /\ left \in Seq(Chunks) /\ usage \in Seq(Records)
    /\ Len(Seen) + Len(left) = Len(AnswerEvents)
    /\ \A n \in 1 .. Len(left) : left[n] = AnswerEvents[Len(Seen) + n]
    /\ pending = (Len(Seen) # 0 /\ AnswerEvents[Len(Seen)].ev = "rep")
    /\ Recorded(Seen, usage, sent.key)

\* The pieces of what was read, put together one way and another.
LEMMA SeenGrows ==
  ASSUME NEW S, NEW c \in Seq(S), NEW a \in Seq(S), NEW e \in S
  PROVE  /\ c \o a \in Seq(S) /\ Append(a, e) \in Seq(S)
         /\ c \o Append(a, e) = (c \o a) \o <<e>>
         /\ (c \o a) \o <<>> = c \o a
<1>1. <<e>> \in Seq(S) /\ Append(a, e) \in Seq(S) /\ c \o a \in Seq(S)
  BY AppendProperties, ConcatProperties
<1>2. a \o <<e>> = Append(a, e)
  BY AppendIsConcat
<1>3. c \o (a \o <<e>>) = (c \o a) \o <<e>>
  BY <1>1, ConcatAssociative
<1>4. (c \o a) \o <<>> = c \o a
  BY <1>1, ConcatEmptySeq
<1> QED
  BY <1>1, <1>2, <1>3, <1>4

LEMMA AnswerIs ==
  ASSUME Ordering
  PROVE  /\ AnswerEvents \in Seq(Chunks) /\ Len(AnswerEvents) \in Nat
         /\ \A n \in 1 .. Len(AnswerEvents) :
               AnswerEvents[n].ev = "ort" => n > 1 /\ AnswerEvents[n - 1].ev = "rep"
<1> DEFINE E == AnswerEvents
<1>1. /\ Len(E) \in Nat /\ E = [n \in 1 .. Len(E) |-> E[n]]
      /\ \A n \in DOMAIN E : E[n].ev = "ort" => n > 1 /\ E[n - 1].ev = "rep"
  BY RequestsAssumption DEF Ordering, IsSequence, AnswerEvents
<1>2. \A n \in DOMAIN E : E[n] \in Chunks
  BY DEF Chunks
<1> HIDE DEF E
<1>3. DOMAIN E = 1 .. Len(E)
  BY <1>1
<1>4. E \in Seq(Chunks)
  <2> DEFINE len == Len(E)
  <2>1. E \in [1 .. len -> Chunks]
    BY <1>1, <1>2, <1>3
  <2> QED
    BY <1>1, <2>1
<1> QED
  BY <1>1, <1>3, <1>4 DEF E

\* Before anything is relayed.
LEMMA NothingRelayed ==
  ASSUME NEW key
  PROVE  Recorded(<<>>, <<>>, key)
<1>1. Reports(<<>>) = {}
  BY DEF Reports
<1>2. Cardinality(Reports(<<>>)) = 0
  BY <1>1, FS_EmptySet
<1> QED
  BY <1>1, <1>2 DEF Recorded

\* One event of an answer of Meta is read.
LEMMA ChunkRead ==
  ASSUME Ordering, Relayed, ReadMetaChunk
  PROVE  Relayed'
<1> DEFINE e == Head(left)
           k == Len(Seen)
           E == AnswerEvents
           got == Seen \o <<e>>
           entry == <<sent.key, e.text>>
           counts == e.ev \in {"report", "ort"}
<1>0. /\ client.events \in Seq(Chunks) /\ acc \in Seq(Chunks)
      /\ left \in Seq(Chunks) /\ usage \in Seq(Records)
      /\ Len(Seen) + Len(left) = Len(E)
      /\ \A n \in 1 .. Len(left) : left[n] = E[k + n]
      /\ pending = (k # 0 /\ E[k].ev = "rep")
      /\ Recorded(Seen, usage, sent.key)
  BY DEF Relayed, ReadMetaChunk
<1>2. /\ left # <<>> /\ left' = Tail(left) /\ acc' = Append(acc, e)
      /\ pending' = (e.ev = "rep")
      /\ usage' = IF e.ev = "report" \/ (e.ev = "ort" /\ pending) THEN Append(usage, entry) ELSE usage
      /\ UNCHANGED <<request, sent, client>>
  BY DEF ReadMetaChunk, Scan
<1>0a. e \in Chunks
  BY <1>0, <1>2
<1>0b. /\ Seen \in Seq(Chunks) /\ acc' \in Seq(Chunks) /\ Seen' = got
       /\ client'.events = client.events
  <2> DEFINE S == Chunks
             c == client.events
  <2>1. c \in Seq(S) /\ acc \in Seq(S) /\ e \in S
    BY <1>0, <1>0a
  <2> HIDE DEF S, c, e
  <2>2. c \o acc \in Seq(S) /\ Append(acc, e) \in Seq(S) /\ c \o Append(acc, e) = (c \o acc) \o <<e>>
    BY <2>1, SeenGrows
  <2> QED
    BY <1>2, <2>2 DEF Seen, S, c
<1>1. /\ Seen \in Seq(Chunks) /\ left \in Seq(Chunks) /\ usage \in Seq(Records)
      /\ Len(Seen) + Len(left) = Len(E)
      /\ \A n \in 1 .. Len(left) : left[n] = E[k + n]
      /\ pending = (k # 0 /\ E[k].ev = "rep")
      /\ Recorded(Seen, usage, sent.key)
  BY <1>0, <1>0b
<1>3. /\ k \in Nat /\ Len(left) \in Nat \ {0} /\ e \in Chunks /\ e = left[1]
      /\ Tail(left) \in Seq(Chunks) /\ Len(Tail(left)) = Len(left) - 1
      /\ \A n \in 1 .. Len(left) - 1 : Tail(left)[n] = left[n + 1]
  BY <1>1, <1>2
<1>4. e = E[k + 1] /\ k + 1 \in 1 .. Len(E)
  BY <1>1, <1>3
<1>5. e.ev = "ort" => pending
  <2> SUFFICES ASSUME E[k + 1].ev = "ort" PROVE k # 0 /\ E[k].ev = "rep"
    BY <1>1, <1>4
  <2>1. k + 1 > 1 /\ E[k + 1 - 1].ev = "rep"
    BY <1>4, AnswerIs
  <2>2. k + 1 - 1 = k
    BY <1>3
  <2> QED
    BY <1>3, <2>1, <2>2
<1>6. Seen' = got /\ got \in Seq(Chunks) /\ Len(got) = k + 1
  <2> DEFINE s == Seen
             S == Chunks
  <2>1. s \in Seq(S) /\ e \in S
    BY <1>1, <1>3
  <2> HIDE DEF s, S, e
  <2>2. s \o <<e>> \in Seq(S) /\ Len(s \o <<e>>) = Len(s) + 1
    BY <2>1
  <2> QED
    BY <1>0b, <2>2 DEF s, S
<1>7. entry \in Records
  <2>1. k + 1 \in DOMAIN E
    BY <1>4, AnswerIs
  <2>2. e.text \in {E[n].text : n \in DOMAIN E}
    BY <1>4, <2>1
  <2> QED
    BY <2>2 DEF Records
<1>8. usage' = IF counts THEN Append(usage, entry) ELSE usage
  BY <1>2, <1>5
<1>9. usage' \in Seq(Records) /\ Recorded(got, usage', sent.key)
  <2>1. /\ ~counts => Recorded(got, usage, sent.key)
        /\ counts => Recorded(got, Append(usage, entry), sent.key)
    BY <1>1, <1>3, <1>7, OneMore
  <2>2. Append(usage, entry) \in Seq(Records)
    BY <1>1, <1>7
  <2> HIDE DEF got, entry, counts
  <2> QED
    BY <1>1, <1>8, <2>1, <2>2
<1>10. Chunks' = Chunks /\ AnswerEvents' = E /\ Records' = Records /\ sent' = sent
  BY <1>2 DEF Chunks, AnswerEvents, Records
<1> HIDE DEF e, k, E, got, entry
<1>11. left' \in Seq(Chunks) /\ k + 1 + Len(left') = Len(E)
       /\ \A n \in 1 .. Len(left') : left'[n] = E[k + 1 + n]
  <2>1. left' \in Seq(Chunks) /\ Len(left') = Len(left) - 1 /\ Len(left) \in Nat /\ k \in Nat
        /\ k + Len(left) = Len(E)
    BY <1>1, <1>2, <1>3 DEF k
  <2>2. ASSUME NEW n \in 1 .. Len(left') PROVE left'[n] = E[k + 1 + n]
    <3>1. n \in 1 .. Len(left) - 1 /\ n + 1 \in 1 .. Len(left) /\ k + (n + 1) = k + 1 + n
      BY <2>1
    <3> QED
      BY <1>1, <1>2, <1>3, <3>1
  <2>3. k + 1 + Len(left') = Len(E)
    BY <2>1
  <2> QED
    BY <2>1, <2>2, <2>3
<1>12. pending' = (k + 1 # 0 /\ E[k + 1].ev = "rep")
  BY <1>2, <1>3, <1>4
<1>13. Len(Seen') = k + 1 /\ Recorded(Seen', usage', sent'.key)
  BY <1>6, <1>9, <1>10
<1> QED
  BY <1>0, <1>0b, <1>9, <1>10, <1>11, <1>12, <1>13 DEF Relayed

\* What was read is written.
LEMMA ChunkWritten ==
  ASSUME Ordering, Relayed, WriteMetaChunk
  PROVE  Relayed'
<1>1. /\ client' = Got(acc) /\ acc' = <<>>
      /\ UNCHANGED <<request, sent, left, pending, usage>>
  BY DEF WriteMetaChunk
<1>2. client'.events = Seen
  BY <1>1 DEF Got, Seen
<1>3. client.events \in Seq(Chunks) /\ acc \in Seq(Chunks)
  BY DEF Relayed, WriteMetaChunk
<1>4. Seen \in Seq(Chunks) /\ Seen \o <<>> = Seen
  <2> DEFINE S == Chunks
             c == client.events
  <2> HIDE DEF S, c
  <2>1. c \o acc \in Seq(S) /\ (c \o acc) \o <<>> = c \o acc
    <3>1. c \in Seq(S) /\ acc \in Seq(S)
      BY <1>3 DEF S, c
    <3>2. c \o acc \in Seq(S)
      BY <3>1, ConcatProperties
    <3> QED
      BY <3>2, ConcatEmptySeq
  <2> QED
    BY <2>1 DEF Seen, S, c
<1>5. Seen' = Seen
  BY <1>1, <1>2, <1>4 DEF Seen
<1>6. Chunks' = Chunks /\ AnswerEvents' = AnswerEvents /\ Records' = Records
  BY <1>1 DEF Chunks, AnswerEvents, Records
<1>7. /\ client'.events \in Seq(Chunks) /\ acc' \in Seq(Chunks)
  BY <1>1, <1>2, <1>4
<1> QED
  BY <1>1, <1>5, <1>6, <1>7 DEF Relayed, WriteMetaChunk

LEMMA RelayedStep == Ordering /\ Ordering' /\ Relayed /\ [RequestNext]_requestVars => Relayed'
<1> SUFFICES ASSUME Ordering, Ordering', Relayed, [RequestNext]_requestVars, sent'.dest = "api.meta.ai"
             PROVE  Relayed'
  BY DEF Relayed
<1>1. ASSUME UNCHANGED <<request, sent, acc, client, left, pending, usage>> PROVE Relayed'
  <2>1. Seen' = Seen /\ Chunks' = Chunks /\ AnswerEvents' = AnswerEvents /\ Records' = Records
    BY <1>1 DEF Seen, Chunks, AnswerEvents, Records
  <2> QED
    BY <1>1, <2>1 DEF Relayed
<1>2. CASE Arrives
  <2>1. sent' = Unsent
    BY <1>2, ArrivesIs DEF Ordering
  <2> QED
    BY <2>1 DEF Unsent
<1>3. CASE Processed \/ Resolved
  <2>1. /\ left' = AnswerEvents /\ acc' = <<>> /\ client'.events = <<>> /\ usage' = <<>>
        /\ pending' = FALSE /\ request' = request
    BY <1>3, ProcessedIs, ResolvedIs DEF Ordering, Unanswered
  <2>2. AnswerEvents' = AnswerEvents /\ Chunks' = Chunks
    BY <2>1 DEF AnswerEvents, Chunks
  <2>3. AnswerEvents \in Seq(Chunks) /\ Len(AnswerEvents) \in Nat
    BY AnswerIs
  <2>4. Recorded(<<>>, <<>>, sent'.key)
    BY NothingRelayed
  <2>0. Seen' = <<>>
    BY <2>1 DEF Seen
  <2>5. /\ <<>> \in Seq(Chunks) /\ usage' \in Seq(Records') /\ Len(Seen') = 0
        /\ Len(Seen') + Len(left') = Len(AnswerEvents)
    BY <2>0, <2>1, <2>3
  <2>6. \A n \in 1 .. Len(left') : left'[n] = AnswerEvents[Len(Seen') + n]
    BY <2>1, <2>3, <2>5
  <2> QED
    BY <2>0, <2>1, <2>2, <2>3, <2>4, <2>5, <2>6 DEF Relayed
<1>4. CASE Relays
  <2>1. sent' = sent /\ request' = request
    BY <1>4, RelaysIs
  <2>2. sent.dest = "api.meta.ai" /\ ~Collected
    BY <2>1 DEF Collected
  <2>3. CASE ReadMetaChunk
    BY <2>3, ChunkRead
  <2>4. CASE WriteMetaChunk
    BY <2>4, ChunkWritten
  <2>5. CASE SendFails \/ WriteFails
    BY <1>1, <2>5 DEF SendFails, WriteFails
  <2>6. CASE UpstreamEnds
    BY <1>1, <2>2, <2>6 DEF UpstreamEnds
  <2> QED
    BY <1>4, <2>2, <2>3, <2>4, <2>5, <2>6 DEF Relays, PassOn, Collect
<1>5. CASE UNCHANGED conn
  BY <1>1, <1>5 DEF conn
<1> QED
  BY <1>2, <1>3, <1>4, <1>5, MeanwhileIs

\* What is recorded is, report by report, what came in the events passed on and
\* in those of a chunk not written yet, or lost with the client; each once and
\* in order, for the account whose key the request carried, also when its line
\* is broken between two chunks (relayMetaResponse, ScanUsageChunk).
THEOREM UsageRecorded == RequestSpec => []UsageSeen
<1>1. RequestInit => Relayed
  <2> SUFFICES ASSUME RequestInit PROVE Relayed
    OBVIOUS
  <2>1. sent.dest = "none"
    BY DEF RequestInit, Unsent
  <2> QED
    BY <2>1 DEF Relayed
<1>2. Relayed => UsageSeen
  BY DEF Relayed, UsageSeen, Recorded, Reports, Seen
<1> QED
  BY <1>1, <1>2, RelayedStep, Ordered, PTL DEF RequestSpec

-----------------------------------------------------------------------------
(* Answers that are not rewritten                                          *)

\* What the client has got, what is collected and what is still to come are
\* the answer; a collected answer is passed on only once it is too long.
Flow ==
  stage \in {"relay", "stream"} =>
    /\ client.events \in Seq(Chunks) /\ acc \in Seq(Chunks) /\ left \in Seq(Chunks)
    /\ (client.events \o acc) \o left = AnswerEvents
    /\ stage = "relay" => IF Collected THEN client.events = <<>> /\ Len(acc) <= BufferLimit
                                       ELSE acc = <<>> \/ sent.dest = "api.meta.ai"
    /\ stage = "stream" => acc = <<>> /\ Len(AnswerEvents) > BufferLimit

\* An event is moved from the head of one sequence to the end of another.
LEMMA Moved ==
  ASSUME NEW S, NEW s \in Seq(S), NEW t \in Seq(S), t # <<>>
  PROVE  /\ Head(t) \in S /\ Tail(t) \in Seq(S) /\ Append(s, Head(t)) \in Seq(S)
         /\ s \o <<Head(t)>> = Append(s, Head(t))
         /\ Append(s, Head(t)) \o Tail(t) = s \o t
<1> DEFINE h == Head(t)
           u == Tail(t)
           a == Append(s, h)
           b == a \o u
           c == s \o t
<1>1. /\ h \in S /\ u \in Seq(S) /\ h = t[1] /\ Len(u) = Len(t) - 1 /\ Len(t) \in Nat \ {0}
      /\ \A n \in 1 .. Len(u) : u[n] = t[n + 1]
  BY HeadTailProperties, EmptySeq
<1> HIDE DEF h, u
<1>2. /\ a \in Seq(S) /\ Len(a) = Len(s) + 1 /\ Len(s) \in Nat /\ a[Len(s) + 1] = h
      /\ \A n \in 1 .. Len(s) : a[n] = s[n]
  BY <1>1, AppendProperties, LenProperties
<1>3. s \o <<h>> = a
  BY <1>1, AppendIsConcat
<1> HIDE DEF a
<1>4. /\ b \in Seq(S) /\ Len(b) = Len(a) + Len(u)
      /\ \A n \in 1 .. Len(a) + Len(u) : b[n] = IF n <= Len(a) THEN a[n] ELSE u[n - Len(a)]
  BY <1>1, <1>2, ConcatProperties
<1>5. /\ c \in Seq(S) /\ Len(c) = Len(s) + Len(t)
      /\ \A n \in 1 .. Len(s) + Len(t) : c[n] = IF n <= Len(s) THEN s[n] ELSE t[n - Len(s)]
  BY ConcatProperties
<1> HIDE DEF b, c
<1>6. Len(b) = Len(c)
  BY <1>1, <1>2, <1>4, <1>5
<1>7. ASSUME NEW n \in 1 .. Len(b) PROVE b[n] = c[n]
  <2>1. n \in 1 .. Len(s) + Len(t) /\ n \in 1 .. Len(a) + Len(u)
    BY <1>1, <1>2, <1>4
  <2>2. CASE n <= Len(s)
    BY <1>2, <1>4, <1>5, <2>1, <2>2, SMTT(30)
  <2>3. CASE n = Len(s) + 1
    BY <1>1, <1>2, <1>4, <1>5, <2>1, <2>3, SMTT(30)
  <2>4. CASE n > Len(s) + 1
    <3>1. n - Len(a) \in 1 .. Len(u) /\ (n - Len(a)) + 1 = n - Len(s)
      BY <1>1, <1>2, <2>1, <2>4
    <3>2. b[n] = u[n - Len(a)] /\ c[n] = t[n - Len(s)]
      BY <1>2, <1>4, <1>5, <2>1, <2>4
    <3> QED
      BY <1>1, <3>1, <3>2
  <2> QED
    BY <1>2, <2>1, <2>2, <2>3, <2>4
<1>8. b = c
  BY <1>4, <1>5, <1>6, <1>7, SeqEqual
<1> QED
  BY <1>1, <1>2, <1>3, <1>8 DEF a, b, c, h, u

\* One event is passed on or collected.
LEMMA FlowPassOn ==
  ASSUME Flow, PassOn, Ordering
  PROVE  Flow'
<1>1. /\ stage \in {"relay", "stream"} /\ acc = <<>> /\ left # <<>>
      /\ client.events \in Seq(Chunks) /\ left \in Seq(Chunks)
      /\ (client.events \o acc) \o left = AnswerEvents
  BY DEF PassOn, Flow
<1>2. left' = Tail(left) /\ client' = Got(<<Head(left)>>) /\ UNCHANGED <<request, stage, sent, acc>>
  BY DEF PassOn
<1>3. client'.events = client.events \o <<Head(left)>>
  BY <1>2 DEF Got
<1> DEFINE s == client.events
           t == left
           S == Chunks
<1> HIDE DEF s, t, S
<1>4. /\ Tail(t) \in Seq(S) /\ s \o <<Head(t)>> \in Seq(S)
      /\ (s \o <<Head(t)>>) \o Tail(t) = s \o t
  <2>1. s \in Seq(S) /\ t \in Seq(S) /\ t # <<>>
    BY <1>1 DEF s, t, S
  <2>2. /\ Tail(t) \in Seq(S) /\ Append(s, Head(t)) \in Seq(S)
        /\ s \o <<Head(t)>> = Append(s, Head(t)) /\ Append(s, Head(t)) \o Tail(t) = s \o t
    BY <2>1, Moved
  <2> QED
    BY <2>2
<1>5. s \o <<>> = s /\ (s \o <<Head(t)>>) \o <<>> = s \o <<Head(t)>>
  BY <1>1, <1>4, ConcatEmptySeq DEF s, S
<1>6. AnswerEvents' = AnswerEvents /\ Chunks' = Chunks /\ (Collected' <=> Collected)
  BY <1>2 DEF AnswerEvents, Chunks, Collected
<1>7. s \o t = AnswerEvents
  BY <1>1, <1>5 DEF s, t
<1>8. /\ client'.events \in Seq(S) /\ left' \in Seq(S) /\ acc' = <<>>
      /\ (client'.events \o acc') \o left' = AnswerEvents
  BY <1>1, <1>2, <1>3, <1>4, <1>5, <1>7 DEF s, t
<1>9. <<>> \in Seq(S)
  BY EmptySeq
<1>10. stage' = "relay" => ~Collected
  BY <1>2 DEF PassOn
<1>11. stage' = "stream" => Len(AnswerEvents) > BufferLimit
  BY <1>2 DEF Flow
<1> QED
  BY <1>6, <1>8, <1>9, <1>10, <1>11 DEF Flow, S

\* Some events of Meta's are read or written.
LEMMA FlowMeta ==
  ASSUME Flow, ReadMetaChunk \/ WriteMetaChunk, Ordering
  PROVE  Flow'
<1> DEFINE s == client.events
           t == left
           S == Chunks
           h == Head(t)
<1>1. /\ stage = "relay" /\ sent.dest = "api.meta.ai"
      /\ s \in Seq(S) /\ acc \in Seq(S) /\ t \in Seq(S)
      /\ (s \o acc) \o t = AnswerEvents
  BY DEF Flow, ReadMetaChunk, WriteMetaChunk
<1>2. stage' = "relay" /\ sent'.dest = "api.meta.ai" /\ UNCHANGED <<request, sent>>
  BY <1>1 DEF ReadMetaChunk, WriteMetaChunk
<1>3. AnswerEvents' = AnswerEvents /\ Chunks' = S /\ ~Collected'
  BY <1>2 DEF AnswerEvents, Chunks, Collected
<1>4. CASE ReadMetaChunk
  <2>1. t # <<>> /\ left' = Tail(t) /\ acc' = Append(acc, h) /\ client'.events = s
    BY <1>4 DEF ReadMetaChunk
  <2>2. h \in S
    BY <1>1, <2>1
  <2> HIDE DEF s, t, S, h
  <2>3. s \o acc \in Seq(S) /\ Append(acc, h) \in Seq(S) /\ s \o Append(acc, h) = (s \o acc) \o <<h>>
    BY <1>1, <2>2, SeenGrows
  <2>4. /\ Tail(t) \in Seq(S) /\ (s \o acc) \o <<Head(t)>> = Append(s \o acc, Head(t))
        /\ Append(s \o acc, Head(t)) \o Tail(t) = (s \o acc) \o t
    <3> DEFINE w == s \o acc
    <3>1. w \in Seq(S) /\ t \in Seq(S) /\ t # <<>>
      BY <1>1, <2>1, <2>3
    <3> HIDE DEF w
    <3>2. /\ Tail(t) \in Seq(S) /\ w \o <<Head(t)>> = Append(w, Head(t))
          /\ Append(w, Head(t)) \o Tail(t) = w \o t
      BY <3>1, Moved
    <3> QED
      BY <3>2 DEF w
  <2>5. (s \o Append(acc, h)) \o Tail(t) = AnswerEvents
    BY <1>1, <2>3, <2>4 DEF h
  <2>6. /\ client'.events \in Seq(S) /\ acc' \in Seq(S) /\ left' \in Seq(S)
        /\ (client'.events \o acc') \o left' = AnswerEvents
    BY <1>1, <2>1, <2>3, <2>4, <2>5
  <2> QED
    BY <1>2, <1>3, <2>6 DEF Flow
<1>5. CASE WriteMetaChunk
  <2>1. left' = t /\ acc' = <<>> /\ client'.events = s \o acc
    BY <1>5 DEF WriteMetaChunk, Got
  <2> HIDE DEF s, t, S, h
  <2>2. s \o acc \in Seq(S)
    BY <1>1, ConcatProperties
  <2>3. (s \o acc) \o <<>> = s \o acc /\ <<>> \in Seq(S)
    BY <2>2, ConcatEmptySeq, EmptySeq
  <2>4. /\ client'.events \in Seq(S) /\ acc' \in Seq(S) /\ left' \in Seq(S)
        /\ (client'.events \o acc') \o left' = AnswerEvents
    BY <1>1, <2>1, <2>2, <2>3
  <2> QED
    BY <1>2, <1>3, <2>4 DEF Flow
<1> QED
  BY <1>4, <1>5

LEMMA FlowCollect ==
  ASSUME Flow, Collect, Ordering
  PROVE  Flow'
<1> DEFINE all == Append(acc, Head(left))
           full == Len(all) > BufferLimit
           t == left
           S == Chunks
<1>1. /\ stage = "relay" /\ Collected /\ left # <<>> /\ client.events = <<>>
      /\ acc \in Seq(S) /\ t \in Seq(S) /\ (<<>> \o acc) \o t = AnswerEvents
  BY DEF Collect, Flow
<1>2. /\ left' = Tail(left)
      /\ acc' = IF full THEN <<>> ELSE all
      /\ client' = IF full THEN Got(all) ELSE client
      /\ stage' = IF full THEN "stream" ELSE stage
      /\ UNCHANGED <<request, sent>>
  BY DEF Collect
<1>3. AnswerEvents' = AnswerEvents /\ Chunks' = Chunks /\ (Collected' <=> Collected)
  BY <1>2 DEF AnswerEvents, Chunks, Collected
<1>4. client'.events = IF full THEN <<>> \o all ELSE <<>>
  BY <1>1, <1>2 DEF Got
<1> HIDE DEF S
<1>5. /\ Tail(t) \in Seq(S) /\ all \in Seq(S) /\ all \o Tail(t) = acc \o t
  BY <1>1, Moved
<1>6. <<>> \o acc = acc /\ <<>> \o all = all /\ all \o <<>> = all /\ <<>> \in Seq(S)
  BY <1>1, <1>5, ConcatEmptySeq, EmptySeq
<1>7. all \o Tail(t) = AnswerEvents
  BY <1>1, <1>5, <1>6
<1>8. Len(all) \in Nat /\ Len(AnswerEvents) = Len(all) + Len(Tail(t)) /\ Len(Tail(t)) \in Nat
  BY <1>5, <1>7, ConcatProperties, LenProperties
<1> HIDE DEF all, full
<1>9. CASE full
  <2>1. Len(AnswerEvents) > BufferLimit
    BY <1>8, <1>9, LimitAssumption DEF full
  <2>2. client'.events = all /\ acc' = <<>> /\ left' = Tail(t) /\ stage' = "stream"
    BY <1>2, <1>4, <1>6, <1>9
  <2> QED
    BY <1>3, <1>5, <1>6, <1>7, <2>1, <2>2 DEF Flow, S
<1>10. CASE ~full
  <2>1. Len(all) <= BufferLimit
    BY <1>8, <1>10, LimitAssumption DEF full
  <2>2. client'.events = <<>> /\ acc' = all /\ left' = Tail(t) /\ stage' = "relay"
    BY <1>1, <1>2, <1>4, <1>10
  <2> QED
    BY <1>1, <1>3, <1>5, <1>6, <1>7, <2>1, <2>2 DEF Flow, S
<1> QED
  BY <1>9, <1>10

\* An answer that ends whole is passed on whole, unless it is rewritten.
LEMMA FlowEnds ==
  ASSUME Flow, SendFails \/ UpstreamEnds \/ WriteFails, Ordering
  PROVE  DeliveredUnchanged'
<1> SUFFICES ASSUME Whole', ~Rewritable' PROVE client'.events = request'.answer.events
  BY DEF DeliveredUnchanged
<1>1. /\ left' = <<>> /\ ~cut' /\ left' = left /\ request' = request /\ sent' = sent
      /\ stage \in {"relay", "stream"}
  BY DEF Whole, SendFails, UpstreamEnds, WriteFails
<1>2. ~Rewritable
  BY <1>1 DEF Rewritable, Collected
<1> DEFINE s == client.events
           S == Chunks
<1>3. /\ s \in Seq(S) /\ acc \in Seq(S) /\ (s \o acc) \o <<>> = AnswerEvents
  BY <1>1 DEF Flow
<1>4. s \o acc = AnswerEvents
  <2> HIDE DEF s, S
  <2>1. s \o acc \in Seq(S)
    BY <1>3, ConcatProperties
  <2> QED
    BY <1>3, <2>1, ConcatEmptySeq
<1>5. s \o <<>> = s /\ <<>> \o acc = acc
  <2> HIDE DEF s, S
  <2> QED
    BY <1>3, ConcatEmptySeq
<1>6. CASE SendFails
  <2>1. client'.events = s /\ AnswerEvents = <<>>
    BY <1>1, <1>6 DEF SendFails, AnswerEvents
  <2>2. s = <<>>
    BY <1>3, <1>4, <2>1, ConcatEqualIffEmpty
  <2> QED
    BY <1>1, <2>1, <2>2 DEF AnswerEvents
<1>7. CASE UpstreamEnds /\ acc = <<>>
  BY <1>1, <1>4, <1>5, <1>7 DEF UpstreamEnds, AnswerEvents
<1>8. CASE UpstreamEnds /\ acc # <<>>
  <2>1. PICK out \in RewriteHTTPResponse(request.answer, acc, left = <<>>) : client' = Got(out)
    BY <1>8 DEF UpstreamEnds
  <2>2. stage = "relay" /\ Collected /\ s = <<>> /\ Len(acc) <= BufferLimit
    BY <1>1, <1>8 DEF Flow, UpstreamEnds
  <2>3. acc = AnswerEvents
    BY <1>4, <1>5, <2>2
  <2>4. request.answer.status # 200
    BY <1>2, <2>2, <2>3 DEF Rewritable, AnswerEvents
  <2>5. out = acc
    BY <2>1, <2>4 DEF RewriteHTTPResponse
  <2>6. client'.events = s \o acc
    BY <2>1, <2>5 DEF Got
  <2> QED
    BY <1>1, <1>4, <2>6 DEF AnswerEvents
<1>9. CASE WriteFails
  BY <1>1, <1>9 DEF WriteFails
<1> QED
  BY <1>6, <1>7, <1>8, <1>9

LEMMA FlowStep ==
  Ordering /\ Flow /\ DeliveredUnchanged /\ [RequestNext]_requestVars
    => Flow' /\ DeliveredUnchanged'
<1> SUFFICES ASSUME Ordering, Flow, DeliveredUnchanged, [RequestNext]_requestVars
             PROVE  Flow' /\ DeliveredUnchanged'
  OBVIOUS
<1>1. ASSUME stage' \in {"body", "process", "token", "account", "dial"}
      PROVE  Flow' /\ DeliveredUnchanged'
  BY <1>1 DEF Flow, DeliveredUnchanged, Whole
<1>2. ASSUME stage' = "over", sent' = Unsent PROVE Flow' /\ DeliveredUnchanged'
  BY <1>2 DEF Flow, DeliveredUnchanged, Whole, Unsent
<1>3. CASE Arrives
  <2>1. stage' \in {"body", "process", "over"} /\ sent' = Unsent
    BY <1>3, ArrivesIs DEF Ordering
  <2> QED
    BY <1>1, <1>2, <2>1
<1>4. CASE Processed
  <2>1. /\ stage \in Unread
        /\ (stage' = "over" /\ sent' = sent) \/ stage' \in {"token", "account", "dial"}
    BY <1>4, ProcessedIs
  <2> QED
    BY <1>1, <1>2, <2>1 DEF Ordering
<1>5. CASE Resolved
  <2>1. /\ stage' \in {"over", "dial", "relay"} /\ UNCHANGED request
        /\ left' = AnswerEvents /\ acc' = <<>> /\ client'.events = <<>>
    BY <1>5, ResolvedIs DEF Ordering
  <2>2. AnswerEvents' = AnswerEvents /\ Chunks' = Chunks
    BY <2>1 DEF AnswerEvents, Chunks
  <2>3. CASE stage' = "over"
    BY <2>1, <2>2, <2>3 DEF Flow, DeliveredUnchanged, Whole, AnswerEvents
  <2>4. CASE stage' = "relay"
    <3>1. AnswerEvents \in Seq(Chunks)
      BY AnswerIs
    <3>2. (<<>> \o <<>>) \o AnswerEvents = AnswerEvents /\ <<>> \in Seq(Chunks)
      <4> DEFINE E == AnswerEvents
                 S == Chunks
      <4>1. E \in Seq(S)
        BY <3>1
      <4> HIDE DEF E, S
      <4>2. <<>> \in Seq(S)
        BY EmptySeq
      <4>3. <<>> \o <<>> = <<>> /\ <<>> \o E = E
        BY <4>1, <4>2, ConcatEmptySeq
      <4>4. (<<>> \o <<>>) \o E = E
        BY <4>3
      <4> QED
        BY <4>2, <4>4 DEF E, S
    <3>3. Len(acc') <= BufferLimit
      BY <2>1, LimitAssumption
    <3>4. Flow'
      BY <2>1, <2>2, <2>4, <3>1, <3>2, <3>3 DEF Flow
    <3> QED
      BY <2>4, <3>4 DEF DeliveredUnchanged, Whole
  <2> QED
    BY <1>1, <2>1, <2>3, <2>4
<1>6. CASE Relays
  <2>1. ASSUME Flow', stage' # "over" PROVE DeliveredUnchanged'
    BY <2>1 DEF DeliveredUnchanged, Whole
  <2>2. CASE PassOn
    <3>1. stage' # "over"
      BY <2>2 DEF PassOn
    <3> QED
      BY <2>1, <2>2, <3>1, FlowPassOn
  <2>3. CASE Collect
    <3>1. stage' # "over"
      BY <2>3 DEF Collect
    <3> QED
      BY <2>1, <2>3, <3>1, FlowCollect
  <2>5. CASE ReadMetaChunk \/ WriteMetaChunk
    <3>1. stage' # "over"
      BY <2>5 DEF ReadMetaChunk, WriteMetaChunk
    <3> QED
      BY <2>1, <2>5, <3>1, FlowMeta
  <2>4. CASE SendFails \/ UpstreamEnds \/ WriteFails
    <3>1. stage' = "over"
      BY <2>4 DEF SendFails, UpstreamEnds, WriteFails
    <3> QED
      BY <2>4, <3>1, FlowEnds DEF Flow
  <2> QED
    BY <1>6, <2>2, <2>3, <2>4, <2>5 DEF Relays
<1>7. CASE UNCHANGED conn
  BY <1>7 DEF conn, Flow, DeliveredUnchanged, Whole, Rewritable, Collected, Chunks, AnswerEvents
<1> QED
  BY <1>3, <1>4, <1>5, <1>6, <1>7, MeanwhileIs

\* An answer that is not rewritten and came to its end reaches the client
\* complete and in order, collected at first or not (relayUpstreamResponse,
\* relayMetaResponse).
THEOREM UnrewrittenArrivesWhole == RequestSpec => []DeliveredUnchanged
<1>1. RequestInit => Flow /\ DeliveredUnchanged
  <2> SUFFICES ASSUME RequestInit PROVE Flow /\ DeliveredUnchanged
    OBVIOUS
  <2>1. stage = "reading"
    BY DEF RequestInit
  <2> QED
    BY <2>1 DEF Flow, DeliveredUnchanged, Whole
<1> QED
  BY <1>1, FlowStep, Ordered, PTL DEF RequestSpec

-----------------------------------------------------------------------------
(* The edits of a Claude conversation                                      *)

LEMMA MinIs ==
  ASSUME NEW S, S \subseteq Nat, S # {}
  PROVE  Min(S) \in S /\ \A n \in S : Min(S) <= n
<1>1. PICK m \in S : \A k \in Nat : k < m => k \notin S
  BY LeastNat
<1>2. \A n \in S : m <= n
  BY <1>1
<1> QED
  BY <1>2 DEF Min

\* A value that ends has a token, and ends inside.
LEMMA ValueEnds ==
  ASSUME NEW s, NEW i \in Nat, NEW hi \in Nat
  PROVE  \/ ConsumeValue(s, i, hi) = 0
         \/ ConsumeValue(s, i, hi) \in Nat /\ i < ConsumeValue(s, i, hi) /\ ConsumeValue(s, i, hi) <= hi
<1> DEFINE balanced == {j \in i .. hi - 1 : Depth(s, i, j) = 0}
           stops == {j \in i .. hi : j = hi \/ s[j] \in {",", "}", "]"}}
<1>1. ConsumeValue(s, i, hi) =
        IF i >= hi THEN 0
        ELSE IF s[i] \in Opening THEN IF balanced = {} THEN 0 ELSE Min(balanced) + 1
        ELSE IF IsString(s[i]) THEN i + 1
        ELSE IF Min(stops) > i THEN Min(stops) ELSE 0
  BY DEF ConsumeValue
<1>2. balanced # {} => Min(balanced) \in i .. hi - 1
  <2>1. balanced \subseteq Nat /\ balanced \subseteq i .. hi - 1
    OBVIOUS
  <2> HIDE DEF balanced
  <2> QED
    BY <2>1, MinIs
<1>3. i < hi => Min(stops) \in i .. hi
  <2> SUFFICES ASSUME i < hi PROVE Min(stops) \in i .. hi
    OBVIOUS
  <2>1. hi \in stops
    OBVIOUS
  <2>2. stops \subseteq i .. hi
    OBVIOUS
  <2>3. stops \subseteq Nat
    <3>1. i .. hi \subseteq Nat
      OBVIOUS
    <3> HIDE DEF stops
    <3> QED
      BY <2>2, <3>1
  <2> HIDE DEF stops
  <2> QED
    BY <2>1, <2>2, <2>3, MinIs
<1> HIDE DEF balanced, stops
<1>4. CASE i >= hi
  BY <1>1, <1>4
<1>5. CASE i < hi /\ s[i] \in Opening
  BY <1>1, <1>2, <1>5
<1>6. CASE i < hi /\ s[i] \notin Opening
  BY <1>1, <1>3, <1>6
<1> QED
  BY <1>4, <1>5, <1>6

\* Ranges one behind the other, from one position to before another.
Row(ranges, lo, hi) ==
  /\ ranges \in Seq([lo : Nat, hi : Nat])
  /\ \A n \in 1 .. Len(ranges) :
        lo <= ranges[n].lo /\ ranges[n].lo < ranges[n].hi /\ ranges[n].hi < hi
  /\ \A m, n \in 1 .. Len(ranges) : m < n => ranges[m].hi < ranges[n].lo

LEMMA LongerRow ==
  ASSUME NEW rest, NEW i \in Nat, NEW end \in Nat, NEW hi \in Nat,
         i < end, end < hi, Row(rest, end + 1, hi)
  PROVE  Row(<<[lo |-> i, hi |-> end]>> \o rest, i, hi)
<1> DEFINE Span == [lo : Nat, hi : Nat]
           one == [lo |-> i, hi |-> end]
           all == <<one>> \o rest
<1>1. one \in Span /\ one.lo = i /\ one.hi = end
  OBVIOUS
<1>2. rest \in Seq(Span)
  BY DEF Row
<1> HIDE DEF one, Span
<1>3. ASSUME NEW n \in 1 .. Len(rest)
      PROVE  /\ rest[n].lo \in Nat /\ rest[n].hi \in Nat
             /\ end + 1 <= rest[n].lo /\ rest[n].lo < rest[n].hi /\ rest[n].hi < hi
  <2>1. rest[n] \in Span
    BY <1>2
  <2>2. rest[n].lo \in Nat /\ rest[n].hi \in Nat
    BY <2>1 DEF Span
  <2> QED
    BY <2>2 DEF Row
<1>4. /\ all \in Seq(Span) /\ Len(all) = Len(rest) + 1 /\ Len(rest) \in Nat /\ all[1] = one
      /\ \A n \in 1 .. Len(rest) : all[n + 1] = rest[n]
  BY <1>1, <1>2
<1> HIDE DEF all
<1>5. \A n \in 1 .. Len(all) : n = 1 \/ (n - 1 \in 1 .. Len(rest) /\ all[n] = rest[n - 1])
  <2> SUFFICES ASSUME NEW n \in 1 .. Len(all), n # 1
               PROVE  n - 1 \in 1 .. Len(rest) /\ all[n] = rest[n - 1]
    OBVIOUS
  <2>1. n - 1 \in 1 .. Len(rest) /\ (n - 1) + 1 = n
    BY <1>4
  <2> QED
    BY <1>4, <2>1
<1>6. ASSUME NEW n \in 1 .. Len(all)
      PROVE  i <= all[n].lo /\ all[n].lo < all[n].hi /\ all[n].hi < hi
  <2>1. CASE n = 1
    BY <1>1, <1>4, <2>1
  <2>2. CASE n # 1
    <3>1. n - 1 \in 1 .. Len(rest) /\ all[n] = rest[n - 1]
      BY <1>5, <2>2
    <3> DEFINE m == rest[n - 1]
    <3>2. m.lo \in Nat /\ m.hi \in Nat /\ end + 1 <= m.lo /\ m.lo < m.hi /\ m.hi < hi
      BY <1>3, <3>1
    <3> HIDE DEF m
    <3>3. all[n] = m
      BY <3>1 DEF m
    <3> QED
      BY <3>2, <3>3
  <2> QED
    BY <2>1, <2>2
<1>7. ASSUME NEW m \in 1 .. Len(all), NEW n \in 1 .. Len(all), m < n
      PROVE  all[m].hi < all[n].lo
  <2>1. n # 1 /\ n - 1 \in 1 .. Len(rest) /\ all[n] = rest[n - 1]
    BY <1>4, <1>5, <1>7
  <2>2. CASE m = 1
    <3>1. all[m].hi = end
      BY <1>1, <1>4, <2>2
    <3>2. end + 1 <= rest[n - 1].lo /\ rest[n - 1].lo \in Nat
      BY <1>3, <2>1
    <3> QED
      BY <2>1, <3>1, <3>2
  <2>3. CASE m # 1
    <3>1. m - 1 \in 1 .. Len(rest) /\ all[m] = rest[m - 1] /\ m - 1 < n - 1
      BY <1>4, <1>5, <1>7, <2>3
    <3>2. rest[m - 1].hi < rest[n - 1].lo
      BY <2>1, <3>1 DEF Row
    <3> QED
      BY <2>1, <3>1, <3>2
  <2> QED
    BY <2>2, <2>3
<1>8. Row(all, i, hi)
  BY <1>4, <1>6, <1>7 DEF Row, Span
<1> QED
  BY <1>8 DEF all, one

\* One step of the walk over an array, given the rest of it.
ElementsAt(s, hi, from, i) ==
  LET Joined(end, rest) ==
          IF rest = Broken THEN Broken ELSE <<[lo |-> i, hi |-> end]>> \o rest
      After(end) ==
          IF end = 0 \/ end >= hi \/ s[end] \notin {",", "]"} THEN Broken
          ELSE Joined(end, IF s[end] = "]" THEN <<>> ELSE from[end + 1])
  IN  IF i < hi /\ s[i] = "]" THEN <<>> ELSE After(ConsumeValue(s, i, hi))

\* It looks only at what lies behind it.
LEMMA ElementsLookAhead ==
  ASSUME NEW s, NEW hi \in Nat, NEW i \in Nat, NEW f, NEW g,
         \A j \in Nat : i < j /\ j <= hi => f[j] = g[j]
  PROVE  ElementsAt(s, hi, f, i) = ElementsAt(s, hi, g, i)
<1> DEFINE end == ConsumeValue(s, i, hi)
<1>1. end = 0 \/ (end \in Nat /\ i < end)
  BY ValueEnds
<1> HIDE DEF end
<1>2. ASSUME end # 0, ~(end >= hi) PROVE f[end + 1] = g[end + 1]
  <2>1. end + 1 \in Nat /\ i < end + 1 /\ end + 1 <= hi
    BY <1>1, <1>2
  <2> QED
    BY <2>1
<1> QED
  BY <1>2 DEF ElementsAt, end

\* The recursive function of ElementsFrom exists: otherwise there were a
\* shortest way to the end without one.
LEMMA ElementsLoop ==
  ASSUME NEW s, NEW hi \in Nat, NEW lo \in Nat, lo <= hi
  PROVE  \E f : f = [i \in lo .. hi |-> ElementsAt(s, hi, f, i)]
<1> DEFINE Loops(f, k) == f = [i \in hi - k .. hi |-> ElementsAt(s, hi, f, i)]
           without == {k \in 0 .. hi : ~\E f : Loops(f, k)}
<1>1. without = {}
  <2> SUFFICES ASSUME without # {} PROVE FALSE
    OBVIOUS
  <2>1. PICK m \in without : \A k \in Nat : k < m => k \notin without
    <3>1. without \subseteq Nat
      OBVIOUS
    <3> HIDE DEF without
    <3> QED
      BY <3>1, LeastNat
  <2>2. m \in 0 .. hi
    OBVIOUS
  <2>3. PICK g : m # 0 => Loops(g, m - 1)
    <3>1. m # 0 => m - 1 \in 0 .. hi /\ m - 1 \in Nat /\ m - 1 < m
      BY <2>2
    <3> QED
      BY <2>1, <3>1
  <2> DEFINE first == hi - m
             f == [i \in first .. hi |-> IF i = first THEN ElementsAt(s, hi, g, first) ELSE g[i]]
  <2>4. first \in Nat /\ first <= hi
    BY <2>2
  <2>5. ASSUME NEW i \in first .. hi PROVE f[i] = ElementsAt(s, hi, g, i)
    <3>1. CASE i = first
      BY <3>1
    <3>2. CASE i # first
      <4>1. m # 0 /\ i \in hi - (m - 1) .. hi
        BY <2>2, <3>2
      <4>2. g = [j \in hi - (m - 1) .. hi |-> ElementsAt(s, hi, g, j)]
        BY <2>3, <4>1
      <4>3. g[i] = ElementsAt(s, hi, g, i)
        BY <4>1, <4>2
      <4>4. f[i] = g[i]
        BY <3>2
      <4> QED
        BY <4>3, <4>4
    <3> QED
      BY <3>1, <3>2
  <2>6. ASSUME NEW i \in first .. hi PROVE ElementsAt(s, hi, f, i) = ElementsAt(s, hi, g, i)
    <3>1. i \in Nat /\ \A j \in Nat : i < j /\ j <= hi => f[j] = g[j]
      BY <2>4
    <3> HIDE DEF f
    <3> QED
      BY <3>1, ElementsLookAhead
  <2>7. f = [i \in first .. hi |-> f[i]]
    OBVIOUS
  <2> HIDE DEF f
  <2>8. f = [i \in first .. hi |-> ElementsAt(s, hi, f, i)]
    BY <2>5, <2>6, <2>7
  <2> QED
    BY <2>1, <2>8
<1> DEFINE k == hi - lo
<1>2. k \in 0 .. hi /\ hi - k = lo
  OBVIOUS
<1>3. k \notin without
  BY <1>1
<1>4. \E f : Loops(f, k)
  BY <1>2, <1>3
<1> QED
  BY <1>2, <1>4

\* The elements of an array lie one behind the other.
LEMMA ElementsAreRow ==
  ASSUME NEW s, NEW lo \in Nat, NEW hi \in Nat, ArrayElements(s, lo, hi) # Broken
  PROVE  Row(ArrayElements(s, lo, hi), lo + 1, hi)
<1> DEFINE first == lo + 1
           from == CHOOSE f : f = [i \in first .. hi |-> ElementsAt(s, hi, f, i)]
           bad == {k \in Nat : \E i \in first .. hi :
                                  k = hi - i /\ from[i] # Broken /\ ~Row(from[i], i, hi)}
<1>1. lo < hi /\ ArrayElements(s, lo, hi) = ElementsFrom(s, first, hi)
  BY DEF ArrayElements
<1>2. ElementsFrom(s, first, hi) = from[first]
  BY DEF ElementsFrom, ElementsAt
<1>3. first \in Nat /\ first <= hi
  BY <1>1
<1> HIDE DEF first
<1>4. from = [i \in first .. hi |-> ElementsAt(s, hi, from, i)]
  BY <1>3, ElementsLoop
<1> HIDE DEF from
<1>5. bad = {}
  <2> SUFFICES ASSUME bad # {} PROVE FALSE
    OBVIOUS
  <2>1. PICK m \in bad : \A k \in Nat : k < m => k \notin bad
    <3>1. bad \subseteq Nat
      OBVIOUS
    <3> HIDE DEF bad
    <3> QED
      BY <3>1, LeastNat
  <2>2. PICK i \in first .. hi : m = hi - i /\ from[i] # Broken /\ ~Row(from[i], i, hi)
    BY <2>1
  <2>3. i \in Nat /\ from[i] = ElementsAt(s, hi, from, i)
    <3>1. i \in first .. hi
      BY <2>2
    <3>2. i \in Nat
      BY <1>3, <3>1
    <3>3. from[i] = ElementsAt(s, hi, from, i)
      BY <1>4, <3>1
    <3> QED
      BY <3>2, <3>3
  <2>4. ASSUME NEW j \in first .. hi, i < j, from[j] # Broken PROVE Row(from[j], j, hi)
    <3>1. hi - j \in Nat /\ hi - j < m
      BY <1>3, <2>2, <2>4
    <3>2. hi - j \notin bad
      BY <2>1, <3>1
    <3> QED
      BY <2>4, <3>1, <3>2
  <2> HIDE DEF bad
  <2> DEFINE end == ConsumeValue(s, i, hi)
             rest == IF s[end] = "]" THEN <<>> ELSE from[end + 1]
  <2>5. end = 0 \/ (end \in Nat /\ i < end)
    BY <2>3, ValueEnds
  <2>6. from[i] = IF i < hi /\ s[i] = "]" THEN <<>>
                  ELSE IF end = 0 \/ end >= hi \/ s[end] \notin {",", "]"} THEN Broken
                  ELSE IF rest = Broken THEN Broken ELSE <<[lo |-> i, hi |-> end]>> \o rest
    BY <2>3 DEF ElementsAt
  <2> HIDE DEF end, rest
  <2>7. \A n \in Nat : Row(<<>>, n, hi)
    BY DEF Row
  <2>8. CASE from[i] = <<>>
    BY <2>2, <2>3, <2>7, <2>8
  <2>9. CASE from[i] # <<>>
    <3>1. /\ end # 0 /\ ~(end >= hi) /\ rest # Broken
          /\ from[i] = <<[lo |-> i, hi |-> end]>> \o rest
      BY ONLY <2>2, <2>6, <2>9
    <3>2. end \in Nat /\ i < end /\ end < hi
      BY <2>5, <3>1
    <3>3. Row(rest, end + 1, hi)
      <4> USE DEF rest
      <4>1. CASE s[end] = "]"
        BY <2>7, <3>2, <4>1
      <4>2. CASE s[end] # "]"
        <5>1. end + 1 \in first .. hi /\ i < end + 1
          BY <1>3, <2>2, <3>2
        <5> QED
          BY <2>4, <3>1, <4>2, <5>1
      <4> QED
        BY <4>1, <4>2
    <3>4. Row(from[i], i, hi)
      BY <2>3, <3>1, <3>2, <3>3, LongerRow
    <3> QED
      BY <2>2, <3>4
  <2> QED
    BY <2>8, <2>9
<1>6. from[first] # Broken /\ first \in first .. hi /\ hi - first \in Nat
  BY <1>1, <1>2, <1>3
<1>7. Row(from[first], first, hi)
  BY <1>5, <1>6
<1> QED
  BY <1>1, <1>2, <1>7 DEF first

\* The same for objects.
MembersAt(s, hi, from, i) ==
  LET After(end) ==
          LET one == <<[key |-> s[i], pairLo |-> i, lo |-> i + 2, hi |-> end]>>
          IN  IF end = 0 THEN [read |-> <<>>, closed |-> FALSE]
              ELSE IF end < hi /\ s[end] = ","
              THEN [from[end + 1] EXCEPT !.read = one \o @]
              ELSE [read |-> one, closed |-> end < hi /\ s[end] = "}"]
  IN  IF Keyed(s, i, hi) THEN After(ConsumeValue(s, i + 2, hi))
      ELSE [read |-> <<>>, closed |-> i < hi /\ s[i] = "}"]

LEMMA MembersLookAhead ==
  ASSUME NEW s, NEW hi \in Nat, NEW i \in Nat, NEW f, NEW g,
         \A j \in Nat : i < j /\ j <= hi => f[j] = g[j]
  PROVE  MembersAt(s, hi, f, i) = MembersAt(s, hi, g, i)
<1> DEFINE end == ConsumeValue(s, i + 2, hi)
<1>1. end = 0 \/ (end \in Nat /\ i + 2 < end)
  BY ValueEnds
<1> HIDE DEF end
<1>2. ASSUME end # 0, end < hi PROVE f[end + 1] = g[end + 1]
  <2>1. end + 1 \in Nat /\ i < end + 1 /\ end + 1 <= hi
    BY <1>1, <1>2
  <2> QED
    BY <2>1
<1> QED
  BY <1>2 DEF MembersAt, end

LEMMA MembersLoop ==
  ASSUME NEW s, NEW hi \in Nat, NEW lo \in Nat, lo <= hi
  PROVE  \E f : f = [i \in lo .. hi |-> MembersAt(s, hi, f, i)]
<1> DEFINE Loops(f, k) == f = [i \in hi - k .. hi |-> MembersAt(s, hi, f, i)]
           without == {k \in 0 .. hi : ~\E f : Loops(f, k)}
<1>1. without = {}
  <2> SUFFICES ASSUME without # {} PROVE FALSE
    OBVIOUS
  <2>1. PICK m \in without : \A k \in Nat : k < m => k \notin without
    <3>1. without \subseteq Nat
      OBVIOUS
    <3> HIDE DEF without
    <3> QED
      BY <3>1, LeastNat
  <2>2. m \in 0 .. hi
    OBVIOUS
  <2>3. PICK g : m # 0 => Loops(g, m - 1)
    <3>1. m # 0 => m - 1 \in 0 .. hi /\ m - 1 \in Nat /\ m - 1 < m
      BY <2>2
    <3> QED
      BY <2>1, <3>1
  <2> DEFINE first == hi - m
             f == [i \in first .. hi |-> IF i = first THEN MembersAt(s, hi, g, first) ELSE g[i]]
  <2>4. first \in Nat /\ first <= hi
    BY <2>2
  <2>5. ASSUME NEW i \in first .. hi PROVE f[i] = MembersAt(s, hi, g, i)
    <3>1. CASE i = first
      BY <3>1
    <3>2. CASE i # first
      <4>1. m # 0 /\ i \in hi - (m - 1) .. hi
        BY <2>2, <3>2
      <4>2. g = [j \in hi - (m - 1) .. hi |-> MembersAt(s, hi, g, j)]
        BY <2>3, <4>1
      <4>3. g[i] = MembersAt(s, hi, g, i)
        BY <4>1, <4>2
      <4>4. f[i] = g[i]
        BY <3>2
      <4> QED
        BY <4>3, <4>4
    <3> QED
      BY <3>1, <3>2
  <2>6. ASSUME NEW i \in first .. hi PROVE MembersAt(s, hi, f, i) = MembersAt(s, hi, g, i)
    <3>1. i \in Nat /\ \A j \in Nat : i < j /\ j <= hi => f[j] = g[j]
      BY <2>4
    <3> HIDE DEF f
    <3> QED
      BY <3>1, MembersLookAhead
  <2>7. f = [i \in first .. hi |-> f[i]]
    OBVIOUS
  <2> HIDE DEF f
  <2>8. f = [i \in first .. hi |-> MembersAt(s, hi, f, i)]
    BY <2>5, <2>6, <2>7
  <2> QED
    BY <2>1, <2>8
<1> DEFINE k == hi - lo
<1>2. k \in 0 .. hi /\ hi - k = lo
  OBVIOUS
<1>3. k \notin without
  BY <1>1
<1>4. \E f : Loops(f, k)
  BY <1>2, <1>3
<1> QED
  BY <1>2, <1>4

\* The pairs that can be read from a part of a text, and a walk that read some.
Pairs(s, lo, hi) ==
  {p \in {[key |-> s[k], pairLo |-> k, lo |-> k + 2, hi |-> end] : k \in lo .. hi, end \in lo .. hi} :
     p.lo < p.hi}
Walk(w, s, lo, hi) ==
  w = [read |-> w.read, closed |-> w.closed] /\ w.read \in Seq(Pairs(s, lo, hi))

LEMMA MembersAreWalk ==
  ASSUME NEW s, NEW lo \in Nat, NEW hi \in Nat, lo <= hi
  PROVE  Walk(MembersFrom(s, lo, hi), s, lo, hi)
<1> DEFINE from == CHOOSE f : f = [i \in lo .. hi |-> MembersAt(s, hi, f, i)]
           bad == {k \in Nat : \E i \in lo .. hi : k = hi - i /\ ~Walk(from[i], s, lo, hi)}
<1>1. MembersFrom(s, lo, hi) = from[lo]
  BY DEF MembersFrom, MembersAt
<1>2. from = [i \in lo .. hi |-> MembersAt(s, hi, from, i)]
  BY MembersLoop
<1> HIDE DEF from
<1>3. bad = {}
  <2> SUFFICES ASSUME bad # {} PROVE FALSE
    OBVIOUS
  <2>1. PICK m \in bad : \A k \in Nat : k < m => k \notin bad
    <3>1. bad \subseteq Nat
      OBVIOUS
    <3> HIDE DEF bad
    <3> QED
      BY <3>1, LeastNat
  <2>2. PICK i \in lo .. hi : m = hi - i /\ ~Walk(from[i], s, lo, hi)
    BY <2>1
  <2>3. i \in Nat /\ from[i] = MembersAt(s, hi, from, i)
    <3>1. i \in lo .. hi
      BY <2>2
    <3>2. i \in Nat
      BY <3>1
    <3>3. from[i] = MembersAt(s, hi, from, i)
      BY <1>2, <3>1
    <3> QED
      BY <3>2, <3>3
  <2>4. ASSUME NEW j \in lo .. hi, i < j PROVE Walk(from[j], s, lo, hi)
    <3>1. hi - j \in Nat /\ hi - j < m
      BY <2>2, <2>4
    <3>2. hi - j \notin bad
      BY <2>1, <3>1
    <3> QED
      BY <3>1, <3>2
  <2> HIDE DEF bad
  <2> DEFINE end == ConsumeValue(s, i + 2, hi)
             pair == [key |-> s[i], pairLo |-> i, lo |-> i + 2, hi |-> end]
             one == <<pair>>
             ended == end < hi /\ s[end] = "}"
             P == Pairs(s, lo, hi)
  <2>5. end = 0 \/ (end \in Nat /\ i + 2 < end /\ end <= hi)
    BY <2>3, ValueEnds
  <2>6. from[i] = IF Keyed(s, i, hi)
                  THEN IF end = 0 THEN [read |-> <<>>, closed |-> FALSE]
                       ELSE IF end < hi /\ s[end] = ","
                       THEN [from[end + 1] EXCEPT !.read = one \o @]
                       ELSE [read |-> one, closed |-> ended]
                  ELSE [read |-> <<>>, closed |-> i < hi /\ s[i] = "}"]
    BY <2>3 DEF MembersAt
  <2>7. end # 0 => pair \in P
    <3> SUFFICES ASSUME end # 0 PROVE pair \in P
      OBVIOUS
    <3>1. end \in lo .. hi /\ i + 2 < end
      BY <2>2, <2>3, <2>5
    <3> HIDE DEF end
    <3>2. pair.lo = i + 2 /\ pair.hi = end
      OBVIOUS
    <3>3. pair \in {[key |-> s[k], pairLo |-> k, lo |-> k + 2, hi |-> e] : k \in lo .. hi, e \in lo .. hi}
      BY <2>2, <3>1
    <3> HIDE DEF pair
    <3> QED
      BY <3>1, <3>2, <3>3 DEF Pairs
  <2>8. \A c : Walk([read |-> <<>>, closed |-> c], s, lo, hi)
    BY DEF Walk
  <2> HIDE DEF pair, ended, P, end
  <2>9. CASE ~Keyed(s, i, hi) \/ end = 0
    BY <2>2, <2>6, <2>8, <2>9
  <2>10. CASE Keyed(s, i, hi) /\ end # 0 /\ end < hi /\ s[end] = ","
    <3>0. end # 0 /\ end < hi
      BY ONLY <2>10
    <3>1. end + 1 \in lo .. hi /\ i < end + 1
      BY <2>2, <2>3, <2>5, <3>0
    <3> DEFINE w == from[end + 1]
               r == w.read
               c == w.closed
    <3>2. w = [read |-> r, closed |-> c] /\ r \in Seq(P)
      BY <2>4, <3>1 DEF Walk, P
    <3>3. from[i] = [w EXCEPT !.read = one \o @]
      BY <2>6, <2>10
    <3> HIDE DEF w, r, c
    <3>4. from[i] = [read |-> one \o r, closed |-> c]
      BY <3>2, <3>3
    <3>5. one \o r \in Seq(P)
      <4>1. pair \in P /\ r \in Seq(P)
        BY <2>7, <3>0, <3>2
      <4> QED
        BY ONLY <4>1
    <3>6. Walk(from[i], s, lo, hi)
      BY <3>4, <3>5 DEF Walk, P
    <3> QED
      BY <2>2, <3>6
  <2>11. CASE Keyed(s, i, hi) /\ end # 0 /\ ~(end < hi /\ s[end] = ",")
    <3>1. from[i] = [read |-> one, closed |-> ended]
      BY <2>6, <2>11
    <3>2. one \in Seq(P)
      <4>1. end # 0
        BY ONLY <2>11
      <4>2. pair \in P
        BY <2>7, <4>1
      <4> QED
        BY ONLY <4>2
    <3>3. Walk(from[i], s, lo, hi)
      BY <3>1, <3>2 DEF Walk, P
    <3> QED
      BY <2>2, <3>3
  <2> QED
    BY <2>9, <2>10, <2>11
<1>4. hi - lo \in Nat /\ lo \in lo .. hi
  OBVIOUS
<1>5. Walk(from[lo], s, lo, hi)
  BY <1>3, <1>4
<1> QED
  BY <1>1, <1>5

\* The value of a field lies inside its object.
LEMMA FieldIsInside ==
  ASSUME NEW s, NEW lo \in Nat, NEW hi \in Nat, NEW key, Present(FieldLocation(s, lo, hi, key))
  PROVE  /\ FieldLocation(s, lo, hi, key).lo \in Nat /\ FieldLocation(s, lo, hi, key).hi \in Nat
         /\ lo < FieldLocation(s, lo, hi, key).lo
         /\ FieldLocation(s, lo, hi, key).lo < FieldLocation(s, lo, hi, key).hi
         /\ FieldLocation(s, lo, hi, key).hi <= hi
<1> DEFINE first == lo + 1
           pairs == Members(s, lo, hi).read
           at == {n \in DOMAIN pairs : pairs[n].key = key}
           loc == FieldLocation(s, lo, hi, key)
<1>1. loc = IF at = {} THEN NotThere ELSE pairs[Min(at)]
  BY DEF FieldLocation, Located
<1>2. NotThere.lo = 0
  BY DEF NotThere
<1>3. at # {} /\ loc = pairs[Min(at)]
  BY <1>1, <1>2 DEF Present
<1>4. lo < hi /\ pairs = MembersFrom(s, first, hi).read
  <2>1. ([read |-> <<>>, closed |-> FALSE]).read = <<>>
    OBVIOUS
  <2>2. pairs # <<>>
    BY <1>3
  <2> QED
    BY <2>1, <2>2 DEF Members
<1>5. first \in Nat /\ first <= hi
  BY <1>4
<1> HIDE DEF first
<1>6. pairs \in Seq(Pairs(s, first, hi))
  BY <1>4, <1>5, MembersAreWalk DEF Walk
<1> HIDE DEF pairs
<1>7. at \subseteq 1 .. Len(pairs) /\ at \subseteq Nat
  BY <1>6
<1> HIDE DEF at
<1>8. Min(at) \in 1 .. Len(pairs)
  BY <1>3, <1>7, MinIs
<1>9. loc \in Pairs(s, first, hi)
  BY <1>3, <1>6, <1>8
<1> HIDE DEF loc
<1>10. PICK k \in first .. hi, end \in first .. hi :
          loc = [key |-> s[k], pairLo |-> k, lo |-> k + 2, hi |-> end] /\ loc.lo < loc.hi
  BY <1>9 DEF Pairs
<1>11. loc.lo = k + 2 /\ loc.hi = end
  BY <1>10
<1>12. loc.lo \in Nat /\ loc.hi \in Nat /\ lo < loc.lo /\ loc.lo < loc.hi /\ loc.hi <= hi
  BY <1>5, <1>10, <1>11 DEF first
<1> QED
  BY <1>12 DEF loc

\* Ranges of a text that lie inside a part of it, none of them empty and no two
\* overlapping.
InPlace(edits, lo, hi) ==
  /\ \A e \in edits : /\ e.lo \in Nat /\ e.hi \in Nat
                      /\ lo <= e.lo /\ e.lo < e.hi /\ e.hi <= hi
  /\ \A d, e \in edits : d # e => d.hi <= e.lo \/ e.hi <= d.lo

LEMMA Ascending ==
  \A x, y, z \in Nat : /\ (x < y /\ y < z) => (x < z /\ x <= z)
                       /\ (x <= y /\ y < z) => (x < z /\ x <= z)
                       /\ (x < y) => (x <= y)
                       /\ x <= x
  OBVIOUS

\* The ranges cut out of an array, each with one of the commas beside it, do
\* not reach each other.
LEMMA CutsInPlace ==
  ASSUME NEW els, NEW lo \in Nat, NEW hi \in Nat, Row(els, lo, hi),
         NEW indexes, indexes \subseteq 1 .. Len(els), indexes # 1 .. Len(els)
  PROVE  InPlace(RangesForRemoving(indexes, els), lo, hi)
<1> DEFINE N == Len(els)
           Run(a, b) == /\ a..b \subseteq indexes
                        /\ a - 1 \notin indexes /\ b + 1 \notin indexes
           Cut(a, b) == IF a = 1 THEN [lo |-> els[a].lo, hi |-> els[b + 1].lo]
                        ELSE [lo |-> els[a - 1].hi, hi |-> els[b].hi]
           cuts == RangesForRemoving(indexes, els)
<1>1. N \in Nat
  BY DEF Row
<1>2. ASSUME NEW n \in 1 .. N
      PROVE  /\ els[n].lo \in Nat /\ els[n].hi \in Nat
             /\ lo <= els[n].lo /\ els[n].lo < els[n].hi /\ els[n].hi < hi
  <2> DEFINE Span == [lo : Nat, hi : Nat]
  <2>1. els \in Seq(Span)
    BY DEF Row
  <2> HIDE DEF Span
  <2>2. els[n] \in Span
    BY <2>1
  <2>3. els[n].lo \in Nat /\ els[n].hi \in Nat
    BY <2>2 DEF Span
  <2> QED
    BY <2>3 DEF Row
<1>3. \A m, n \in 1 .. N : m < n => els[m].hi < els[n].lo
  BY DEF Row
<1>4. ASSUME NEW c \in cuts
      PROVE  \E a, b \in 1 .. N : a <= b /\ Run(a, b) /\ c = Cut(a, b)
  <2>1. PICK r \in {q \in indexes \X indexes : q[1] <= q[2] /\ Run(q[1], q[2])} : c = Cut(r[1], r[2])
    BY <1>4 DEF RangesForRemoving
  <2>2. r[1] \in 1 .. N /\ r[2] \in 1 .. N
    BY <2>1
  <2> QED
    BY <2>1, <2>2
<1>5. ASSUME NEW a \in 1 .. N, NEW b \in 1 .. N, a <= b, Run(a, b), a = 1
      PROVE  b + 1 \in 1 .. N
  <2>1. 1 .. b # 1 .. N
    <3> SUFFICES ASSUME 1 .. b = 1 .. N PROVE FALSE
      OBVIOUS
    <3>1. 1 .. N \subseteq indexes
      BY <1>5
    <3> QED
      BY <3>1
  <2>2. b # N
    BY <2>1
  <2> QED
    BY <1>1, <2>2
<1> HIDE DEF N, cuts
<1>6. ASSUME NEW a \in 1 .. N, NEW b \in 1 .. N, a <= b, Run(a, b)
      PROVE  /\ Cut(a, b).lo \in Nat /\ Cut(a, b).hi \in Nat
             /\ lo <= Cut(a, b).lo /\ Cut(a, b).lo < Cut(a, b).hi /\ Cut(a, b).hi <= hi
             /\ b + 1 \in 1 .. N => Cut(a, b).hi < els[b + 1].hi
             /\ \A n \in 1 .. N : b < n => Cut(a, b).hi <= els[n].lo
             /\ a # 1 => Cut(a, b).lo = els[a - 1].hi
  <2>1. CASE a = 1
    <3>1. b + 1 \in 1 .. N
      BY <1>5, <1>6, <2>1
    <3> DEFINE k == b + 1
    <3>2. Cut(a, b).lo = els[a].lo /\ Cut(a, b).hi = els[k].lo
      BY <2>1
    <3>3. k \in 1 .. N /\ a < k /\ k = b + 1 /\ b \in Nat
      BY <1>6, <3>1
    <3> HIDE DEF k, Cut
    <3>4. els[a].hi < els[k].lo /\ els[a].lo < els[a].hi
      BY <1>2, <1>3, <3>3
    <3>5. \A n \in 1 .. N : b < n => els[k].lo <= els[n].lo
      <4> SUFFICES ASSUME NEW n \in 1 .. N, b < n PROVE els[k].lo <= els[n].lo
        OBVIOUS
      <4>1. n = k \/ k < n
        BY <3>3
      <4>2. k < n => els[k].hi < els[n].lo
        BY <1>3, <3>3
      <4>3. els[k].lo \in Nat /\ els[k].hi \in Nat /\ els[n].lo \in Nat /\ els[k].lo < els[k].hi
        BY <1>2, <3>3
      <4>4. CASE n = k
        BY <4>3, <4>4, Ascending
      <4>5. CASE k < n
        BY <4>2, <4>3, <4>5, Ascending
      <4> QED
        BY <4>1, <4>4, <4>5
    <3>6. /\ els[a].lo \in Nat /\ els[a].hi \in Nat /\ els[k].lo \in Nat /\ els[k].hi \in Nat
          /\ lo <= els[a].lo /\ els[k].lo < els[k].hi /\ els[k].hi < hi
      BY <1>2, <3>3
    <3>7. /\ els[a].lo < els[k].lo /\ els[k].lo <= hi
      BY <3>4, <3>6, Ascending
    <3> QED
      BY <2>1, <3>2, <3>3, <3>5, <3>6, <3>7
  <2>2. CASE a # 1
    <3> DEFINE k == a - 1
    <3>1. k \in 1 .. N /\ k < b /\ k < a
      BY <1>1, <1>6, <2>2
    <3>2. Cut(a, b).lo = els[k].hi /\ Cut(a, b).hi = els[b].hi
      BY <2>2
    <3> HIDE DEF k, Cut
    <3>3. els[k].hi < els[b].lo /\ \A n \in 1 .. N : b < n => els[b].hi < els[n].lo
      BY <1>3, <3>1
    <3>4. /\ els[k].lo \in Nat /\ els[k].hi \in Nat /\ els[b].lo \in Nat /\ els[b].hi \in Nat
          /\ lo <= els[k].lo /\ els[k].lo < els[k].hi /\ els[b].lo < els[b].hi /\ els[b].hi < hi
      BY <1>2, <3>1
    <3>5. \A n \in 1 .. N : b < n => els[b].hi <= els[n].lo
      <4> SUFFICES ASSUME NEW n \in 1 .. N, b < n PROVE els[b].hi <= els[n].lo
        OBVIOUS
      <4>1. els[n].lo \in Nat
        BY <1>2
      <4> QED
        BY <3>3, <3>4, <4>1
    <3>6. b + 1 \in 1 .. N => els[b].hi < els[b + 1].hi
      <4> SUFFICES ASSUME b + 1 \in 1 .. N PROVE els[b].hi < els[b + 1].hi
        OBVIOUS
      <4> DEFINE n == b + 1
      <4>1. n \in 1 .. N /\ b < n
        OBVIOUS
      <4> HIDE DEF n
      <4>2. els[n].lo \in Nat /\ els[n].hi \in Nat /\ els[n].lo < els[n].hi
        BY <1>2, <4>1
      <4>3. els[b].hi <= els[n].lo /\ els[b].hi \in Nat
        BY <3>4, <3>5, <4>1
      <4>4. els[b].hi < els[n].hi
        BY <4>2, <4>3, Ascending
      <4> QED
        BY <4>4 DEF n
    <3>7. lo <= els[k].hi /\ els[k].hi < els[b].hi /\ els[b].hi <= hi
      <4>1. els[k].hi < els[b].lo
        BY <3>3
      <4> QED
        BY <3>4, <4>1, Ascending
    <3> QED
      BY <2>2, <3>2, <3>4, <3>5, <3>6, <3>7 DEF k
  <2> QED
    BY <2>1, <2>2
<1> HIDE DEF Cut
<1>7. ASSUME NEW a \in 1 .. N, NEW b \in 1 .. N, NEW c \in 1 .. N, NEW d \in 1 .. N,
             a <= b, c <= d, Run(a, b), Run(c, d), a <= c, Cut(a, b) # Cut(c, d)
      PROVE  Cut(a, b).hi <= Cut(c, d).lo
  <2>1. b + 1 < c
    <3> SUFFICES ASSUME c <= b + 1 PROVE FALSE
      OBVIOUS
    <3>1. CASE a < c
      <4>1. c - 1 \in a .. b
        BY <3>1
      <4> QED
        BY <1>7, <4>1
    <3>2. CASE a = c /\ b < d
      <4>1. b + 1 \in c .. d
        BY <1>7, <3>2
      <4> QED
        BY <1>7, <4>1
    <3>3. CASE a = c /\ d < b
      <4>1. d + 1 \in a .. b
        BY <1>7, <3>3
      <4> QED
        BY <1>7, <4>1
    <3>4. CASE a = c /\ b = d
      BY <1>7, <3>4
    <3> QED
      BY <1>7, <3>1, <3>2, <3>3, <3>4
  <2> DEFINE n == c - 1
  <2>2. n \in 1 .. N /\ b < n /\ c # 1
    BY <1>1, <2>1
  <2>3. Cut(c, d).lo = els[n].hi
    BY <1>6, <1>7, <2>2
  <2> HIDE DEF n
  <2>4. Cut(a, b).hi <= els[n].lo /\ Cut(a, b).hi \in Nat
    BY <1>6, <1>7, <2>2
  <2>5. els[n].lo \in Nat /\ els[n].hi \in Nat /\ els[n].lo < els[n].hi
    BY <1>2, <2>2
  <2>6. Cut(a, b).hi <= els[n].hi
    BY <2>4, <2>5, Ascending
  <2> QED
    BY <2>3, <2>6
<1>8. ASSUME NEW e \in cuts
      PROVE  e.lo \in Nat /\ e.hi \in Nat /\ lo <= e.lo /\ e.lo < e.hi /\ e.hi <= hi
  <2>1. PICK a, b \in 1 .. N : a <= b /\ Run(a, b) /\ e = Cut(a, b)
    BY <1>4
  <2> QED
    BY <1>6, <2>1
<1>9. ASSUME NEW d \in cuts, NEW e \in cuts, d # e PROVE d.hi <= e.lo \/ e.hi <= d.lo
  <2>1. PICK a1, b1 \in 1 .. N : a1 <= b1 /\ Run(a1, b1) /\ d = Cut(a1, b1)
    BY <1>4
  <2>2. PICK a2, b2 \in 1 .. N : a2 <= b2 /\ Run(a2, b2) /\ e = Cut(a2, b2)
    BY <1>4
  <2> HIDE DEF Run
  <2>3. CASE a1 <= a2
    BY <1>7, <1>9, <2>1, <2>2, <2>3
  <2>4. CASE a2 <= a1
    BY <1>7, <1>9, <2>1, <2>2, <2>4
  <2> QED
    BY <2>3, <2>4
<1> QED
  BY <1>8, <1>9 DEF InPlace, cuts

\* The edits of one message stay inside it.
LEMMA MessageEditsInPlace ==
  ASSUME NEW s, NEW range, range.lo \in Nat, range.hi \in Nat,
         Present(MessageInfo(s, range).content)
  PROVE  InPlace(MessageEdits(s, MessageInfo(s, range)), range.lo, range.hi)
<1> DEFINE info == MessageInfo(s, range)
           content == FieldLocation(s, range.lo, range.hi, "content")
           blocks == ArrayElements(s, content.lo, content.hi)
           removable == {n \in DOMAIN info.types : info.types[n] \in Removable}
           whole == [lo |-> content.lo, hi |-> content.hi, text |-> EmptyContentPlaceholder]
           cuts == RangesForRemoving(removable, blocks)
           edits == MessageEdits(s, info)
<1>1. info.content = content
  BY DEF MessageInfo
<1>2. Present(content)
  BY <1>1
<1>3. info.types = IF blocks = Broken THEN <<>>
                   ELSE [n \in DOMAIN blocks |-> StringField(s, blocks[n].lo, blocks[n].hi, "type")]
  BY <1>2 DEF MessageInfo, BlockTypes
<1>4. edits = IF removable = {} THEN {}
              ELSE IF removable = DOMAIN blocks THEN {whole}
              ELSE {[lo |-> c.lo, hi |-> c.hi, text |-> <<>>] : c \in cuts}
  BY <1>1 DEF MessageEdits
<1>5. /\ content.lo \in Nat /\ content.hi \in Nat
      /\ range.lo < content.lo /\ content.lo < content.hi /\ content.hi <= range.hi
  BY <1>2, FieldIsInside
<1>6. blocks = Broken => removable = {}
  BY <1>3, SMTT(30)
<1>7. blocks # Broken => removable \subseteq DOMAIN blocks
  BY <1>3
<1> HIDE DEF info, content, edits
<1>8. CASE removable = {}
  BY <1>4, <1>8 DEF InPlace, edits, info
<1>9. CASE removable # {} /\ removable = DOMAIN blocks
  <2>1. edits = {whole} /\ whole.lo = content.lo /\ whole.hi = content.hi
    BY <1>4, <1>9
  <2> HIDE DEF whole
  <2>2. InPlace(edits, range.lo, range.hi)
    BY <1>5, <2>1 DEF InPlace
  <2> QED
    BY <2>2 DEF edits, info
<1>10. CASE removable # {} /\ removable # DOMAIN blocks
  <2>1. blocks # Broken
    BY <1>6, <1>10
  <2> DEFINE first == content.lo + 1
             last == content.hi
  <2>2. Row(blocks, first, last) /\ first \in Nat /\ last \in Nat
    BY <1>5, <2>1, ElementsAreRow
  <2>3. range.lo <= first /\ last <= range.hi
    BY <1>5
  <2>4. edits = {[lo |-> c.lo, hi |-> c.hi, text |-> <<>>] : c \in cuts}
    BY <1>4, <1>10
  <2>5. removable \subseteq DOMAIN blocks
    BY <1>7, <2>1
  <2> HIDE DEF first, last, blocks, removable
  <2>6. DOMAIN blocks = 1 .. Len(blocks)
    BY <2>2 DEF Row
  <2>7. InPlace(cuts, first, last)
    BY <1>10, <2>2, <2>5, <2>6, CutsInPlace
  <2> HIDE DEF cuts
  <2>8. ASSUME NEW e \in edits
        PROVE  /\ e.lo \in Nat /\ e.hi \in Nat
               /\ range.lo <= e.lo /\ e.lo < e.hi /\ e.hi <= range.hi
    <3>1. PICK c \in cuts : e = [lo |-> c.lo, hi |-> c.hi, text |-> <<>>]
      BY <2>4
    <3>2. /\ c.lo \in Nat /\ c.hi \in Nat
          /\ first <= c.lo /\ c.lo < c.hi /\ c.hi <= last
      BY <2>7 DEF InPlace
    <3>3. e.lo = c.lo /\ e.hi = c.hi
      BY <3>1
    <3> QED
      BY <2>2, <2>3, <3>2, <3>3
  <2>9. ASSUME NEW d \in edits, NEW e \in edits, d # e PROVE d.hi <= e.lo \/ e.hi <= d.lo
    <3>1. PICK b \in cuts : d = [lo |-> b.lo, hi |-> b.hi, text |-> <<>>]
      BY <2>4
    <3>2. PICK c \in cuts : e = [lo |-> c.lo, hi |-> c.hi, text |-> <<>>]
      BY <2>4
    <3>3. b # c
      BY <2>9, <3>1, <3>2
    <3>4. b.hi <= c.lo \/ c.hi <= b.lo
      BY <2>7, <3>3 DEF InPlace
    <3> QED
      BY <3>1, <3>2, <3>4
  <2>10. InPlace(edits, range.lo, range.hi)
    BY <2>8, <2>9 DEF InPlace
  <2> QED
    BY <2>10 DEF edits, info
<1> QED
  BY <1>8, <1>9, <1>10

\* The edits of a conversation lie inside its text, none of them empty and no
\* two overlapping, whatever the text is: the code that passes over an edit
\* because it overlaps the last one is never reached (SanitizeThinkingBlocks).
THEOREM EditsAreApart ==
  ASSUME NEW s, Len(s) \in Nat
  PROVE  InPlace(ThinkingEdits(s), 1, Len(s) + 1)
<1> DEFINE end == Len(s) + 1
           field == FieldLocation(s, 1, end, "messages")
           messages == ArrayElements(s, field.lo, field.hi)
           infos == [n \in DOMAIN messages |-> MessageInfo(s, messages[n])]
           preserve == PreservedTurn(infos, LatestAssistantWithToolResults(infos))
           edited == {n \in DOMAIN infos : /\ infos[n].role = "assistant"
                                           /\ n # preserve
                                           /\ Present(infos[n].content)}
           edits == ThinkingEdits(s)
<1>1. edits = IF Present(field)
              THEN IF messages = Broken THEN {} ELSE UNION {MessageEdits(s, infos[n]) : n \in edited}
              ELSE {}
  BY DEF ThinkingEdits
<1>2. end \in Nat /\ 1 \in Nat
  OBVIOUS
<1> HIDE DEF end
<1>3. InPlace({}, 1, end)
  BY DEF InPlace
<1>4. CASE ~Present(field) \/ messages = Broken
  <2>1. edits = {}
    BY <1>1, <1>4
  <2> QED
    BY <1>3, <2>1 DEF end
<1>5. CASE Present(field) /\ messages # Broken
  <2>1. edits = UNION {MessageEdits(s, infos[n]) : n \in edited}
    BY <1>1, <1>5
  <2>2. field.lo \in Nat /\ field.hi \in Nat /\ 1 < field.lo /\ field.hi <= end
    BY <1>2, <1>5, FieldIsInside
  <2> DEFINE first == field.lo + 1
             last == field.hi
             N == Len(messages)
  <2>3. Row(messages, first, last)
    BY <1>5, <2>2, ElementsAreRow
  <2>4. first \in Nat /\ last \in Nat /\ 1 <= first /\ last <= end
    BY <2>2
  <2> HIDE DEF first, last, field
  <2>5. DOMAIN messages = 1 .. N /\ N \in Nat
    BY <2>3 DEF Row
  <2>6. ASSUME NEW n \in 1 .. N
        PROVE  /\ messages[n].lo \in Nat /\ messages[n].hi \in Nat
               /\ first <= messages[n].lo /\ messages[n].hi < last
    <3> DEFINE Span == [lo : Nat, hi : Nat]
    <3>1. messages \in Seq(Span)
      BY <2>3 DEF Row
    <3> HIDE DEF Span, messages
    <3>2. messages[n] \in Span
      BY <3>1
    <3>3. messages[n].lo \in Nat /\ messages[n].hi \in Nat
      BY <3>2 DEF Span
    <3> QED
      BY <2>3, <3>3 DEF Row
  <2>7. \A m, n \in 1 .. N : m < n => messages[m].hi < messages[n].lo
    BY <2>3 DEF Row
  <2>8. \A n \in edited : n \in 1 .. N /\ infos[n] = MessageInfo(s, messages[n]) /\ Present(infos[n].content)
    BY <2>5
  <2> HIDE DEF edited, infos, messages, N
  <2>9. ASSUME NEW n \in edited
        PROVE  InPlace(MessageEdits(s, infos[n]), messages[n].lo, messages[n].hi)
    BY <2>6, <2>8, MessageEditsInPlace
  <2>10. ASSUME NEW e \in edits
         PROVE  \E n \in edited : e \in MessageEdits(s, infos[n])
    BY <2>1
  <2> HIDE DEF edits
  <2>11. ASSUME NEW e \in edits
         PROVE  e.lo \in Nat /\ e.hi \in Nat /\ 1 <= e.lo /\ e.lo < e.hi /\ e.hi <= end
    <3>1. PICK n \in edited : e \in MessageEdits(s, infos[n])
      BY <2>10
    <3>2. /\ e.lo \in Nat /\ e.hi \in Nat
          /\ messages[n].lo <= e.lo /\ e.lo < e.hi /\ e.hi <= messages[n].hi
      BY <2>9, <3>1 DEF InPlace
    <3>3. /\ messages[n].lo \in Nat /\ messages[n].hi \in Nat
          /\ first <= messages[n].lo /\ messages[n].hi < last
      BY <2>6, <2>8
    <3> QED
      BY <1>2, <2>4, <3>2, <3>3
  <2>12. ASSUME NEW m \in edited, NEW n \in edited, m < n,
                NEW d \in MessageEdits(s, infos[m]), NEW e \in MessageEdits(s, infos[n])
         PROVE  d.hi <= e.lo
    <3>1. d.hi \in Nat /\ d.hi <= messages[m].hi
      BY <2>9 DEF InPlace
    <3>2. e.lo \in Nat /\ messages[n].lo <= e.lo
      BY <2>9 DEF InPlace
    <3>3. /\ messages[m].hi \in Nat /\ messages[n].lo \in Nat
          /\ messages[m].hi < messages[n].lo
      BY <2>6, <2>7, <2>8, <2>12
    <3> QED
      BY <3>1, <3>2, <3>3
  <2>13. ASSUME NEW d \in edits, NEW e \in edits, d # e PROVE d.hi <= e.lo \/ e.hi <= d.lo
    <3>1. PICK m \in edited : d \in MessageEdits(s, infos[m])
      BY <2>10
    <3>2. PICK n \in edited : e \in MessageEdits(s, infos[n])
      BY <2>10
    <3>3. m \in Nat /\ n \in Nat
      BY <2>8
    <3>4. CASE m < n
      BY <2>12, <3>1, <3>2, <3>4
    <3>5. CASE n < m
      BY <2>12, <3>1, <3>2, <3>5
    <3>6. CASE m = n
      BY <2>9, <2>13, <3>1, <3>2, <3>6 DEF InPlace
    <3> QED
      BY <3>3, <3>4, <3>5, <3>6
  <2>14. InPlace(edits, 1, end)
    BY <2>11, <2>13 DEF InPlace
  <2> QED
    BY <2>14 DEF edits, end
<1> QED
  BY <1>4, <1>5
-----------------------------------------------------------------------------
(* Brackets, and texts that agree                                          *)

\* What one token does to the number of open brackets.
Weight(t) == IF t \in Opening THEN 1 ELSE IF t \in Closing THEN 0 - 1 ELSE 0

\* How many of some tokens a part of a text has.
CountOf(C, s, i, j) == Cardinality({k \in i .. j : s[k] \in C})

\* One more position, counted or not.
LEMMA OneMoreOf ==
  ASSUME NEW C, NEW s, NEW i \in Nat, NEW j \in Nat, i <= j
  PROVE  /\ CountOf(C, s, i, j) \in Nat /\ CountOf(C, s, i, j - 1) \in Nat
         /\ CountOf(C, s, i, j) = CountOf(C, s, i, j - 1) + (IF s[j] \in C THEN 1 ELSE 0)
<1> DEFINE before == {k \in i .. j - 1 : s[k] \in C}
           all == {k \in i .. j : s[k] \in C}
           last == j - 1
<1>1. IsFiniteSet(before)
  <2>1. last \in Int
    OBVIOUS
  <2>2. IsFiniteSet(i .. last)
    BY <2>1, FS_Interval
  <2>3. before \subseteq i .. last
    OBVIOUS
  <2> QED
    BY <2>2, <2>3, FS_Subset
<1>2. all = IF s[j] \in C THEN before \cup {j} ELSE before
  OBVIOUS
<1>3. j \notin before
  OBVIOUS
<1>4. Cardinality(before) \in Nat
  BY <1>1, FS_CardinalityType
<1> HIDE DEF before, all
<1>5. Cardinality(before \cup {j}) = Cardinality(before) + 1
  BY <1>1, <1>3, FS_AddElement
<1>6. Cardinality(all) = Cardinality(before) + (IF s[j] \in C THEN 1 ELSE 0)
  BY <1>2, <1>4, <1>5
<1>7. Cardinality(all) \in Nat
  BY <1>4, <1>6
<1> QED
  BY <1>4, <1>6, <1>7 DEF before, all, CountOf

\* A token changes the depth by its weight.
LEMMA DepthStep ==
  ASSUME NEW s, NEW i \in Nat, NEW j \in Nat, i <= j
  PROVE  /\ Depth(s, i, j) \in Int /\ Depth(s, i, j - 1) \in Int
         /\ Depth(s, i, j) = Depth(s, i, j - 1) + Weight(s[j])
<1>1. \A C : /\ CountOf(C, s, i, j) \in Nat /\ CountOf(C, s, i, j - 1) \in Nat
             /\ CountOf(C, s, i, j) = CountOf(C, s, i, j - 1) + (IF s[j] \in C THEN 1 ELSE 0)
  BY OneMoreOf
<1>2. \A m : Depth(s, i, m) = CountOf(Opening, s, i, m) - CountOf(Closing, s, i, m)
  BY DEF Depth, CountOf
<1>3. ~(s[j] \in Opening /\ s[j] \in Closing)
  BY DEF Opening, Closing
<1> QED
  BY <1>1, <1>2, <1>3 DEF Weight

\* No bracket is open after nothing.
LEMMA DepthOfNone ==
  ASSUME NEW s, NEW i \in Int, NEW j \in Int, j < i
  PROVE  Depth(s, i, j) = 0
<1>1. {k \in i .. j : s[k] \in Opening} = {} /\ {k \in i .. j : s[k] \in Closing} = {}
  OBVIOUS
<1>2. Cardinality({}) = 0
  BY FS_EmptySet
<1> QED
  BY <1>1, <1>2 DEF Depth

\* One position is some places further on than another.
Further(i, d, j) == j = i + d

\* Two texts have the same tokens, from a position to before another, some
\* places further on in the second.
Same(s, t, d, i, n) == \A q \in Nat : i <= q /\ q < n => t[q + d] = s[q]

\* What agrees agrees in every part.
LEMMA SameWithin ==
  ASSUME NEW s, NEW t, NEW d, NEW i \in Nat, NEW n \in Nat, Same(s, t, d, i, n),
         NEW j \in Nat, NEW k \in Nat, i <= j, k <= n
  PROVE  Same(s, t, d, j, k)
  BY DEF Same

\* Depth depends on the tokens alone.
LEMMA DepthMoves ==
  ASSUME NEW s, NEW t, NEW d \in Int, NEW i \in Nat, NEW last \in Nat, Same(s, t, d, i, last),
         NEW m \in Nat, m < last,
         NEW from \in Nat, Further(i, d, from), NEW to \in Int, Further(m, d, to)
  PROVE  Depth(t, from, to) = Depth(s, i, m)
<1> USE DEF Further
<1> DEFINE bad == {k \in Nat : i <= k /\ k <= m /\ Depth(t, i + d, k + d) # Depth(s, i, k)}
<1>1. bad = {}
  <2> SUFFICES ASSUME bad # {} PROVE FALSE
    OBVIOUS
  <2>1. PICK n \in bad : \A k \in Nat : k < n => k \notin bad
    <3>1. bad \subseteq Nat
      OBVIOUS
    <3> HIDE DEF bad
    <3> QED
      BY <3>1, LeastNat
  <2>2. n \in Nat /\ i <= n /\ n <= m /\ Depth(t, i + d, n + d) # Depth(s, i, n)
    OBVIOUS
  <2> DEFINE before == n - 1
             here == n + d
             first == i + d
  <2>3. Depth(s, i, n) = Depth(s, i, before) + Weight(s[n])
    BY <2>2, DepthStep
  <2>4. first \in Nat /\ here \in Nat /\ first <= here
    BY <2>2
  <2>5. Depth(t, first, here) = Depth(t, first, here - 1) + Weight(t[here])
    BY <2>4, DepthStep
  <2>6. here - 1 = before + d
    BY <2>2
  <2>7. t[here] = s[n]
    BY <2>2 DEF Same
  <2>8. Depth(t, first, before + d) = Depth(s, i, before)
    <3>1. CASE i = n
      <4>1. before < i /\ before + d < first /\ before \in Int /\ before + d \in Int /\ first \in Int
        BY <2>2, <3>1
      <4> HIDE DEF before, first
      <4> QED
        BY <4>1, DepthOfNone
    <3>2. CASE i # n
      <4>1. before \in Nat /\ before < n /\ i <= before /\ before <= m
        BY <2>2, <3>2
      <4>2. before \notin bad
        BY <2>1, <4>1
      <4> QED
        BY <4>1, <4>2
    <3> QED
      BY <3>1, <3>2
  <2> HIDE DEF before, here, first, bad
  <2>9. Depth(t, first, here) = Depth(s, i, n)
    BY <2>3, <2>5, <2>6, <2>7, <2>8
  <2> QED
    BY <2>2, <2>9 DEF here, first
<1>2. CASE i <= m
  BY <1>1, <1>2
<1>3. CASE m < i
  <2>1. m + d < i + d /\ m + d \in Int /\ i + d \in Int
    BY <1>3
  <2> QED
    BY <1>3, <2>1, DepthOfNone
<1> QED
  BY <1>2, <1>3

\* What is open at the end of two parts is what each opens.
LEMMA DepthAdds ==
  ASSUME NEW s, NEW i \in Nat, NEW j \in Nat, NEW m \in Nat, i <= j, j <= m + 1
  PROVE  Depth(s, i, m) = Depth(s, i, j - 1) + Depth(s, j, m)
<1> DEFINE bad == {k \in Nat : j <= k + 1 /\ k <= m /\ Depth(s, i, k) # Depth(s, i, j - 1) + Depth(s, j, k)}
<1>0. Depth(s, i, j - 1) \in Int
  BY DepthStep
<1>1. bad = {}
  <2> SUFFICES ASSUME bad # {} PROVE FALSE
    OBVIOUS
  <2>1. PICK n \in bad : \A k \in Nat : k < n => k \notin bad
    <3>1. bad \subseteq Nat
      OBVIOUS
    <3> HIDE DEF bad
    <3> QED
      BY <3>1, LeastNat
  <2>2. n \in Nat /\ j <= n + 1 /\ n <= m /\ Depth(s, i, n) # Depth(s, i, j - 1) + Depth(s, j, n)
    OBVIOUS
  <2>3. CASE j = n + 1
    <3>1. Depth(s, j, n) = 0
      BY <2>2, <2>3, DepthOfNone
    <3>2. j - 1 = n
      BY <2>2, <2>3
    <3> QED
      BY <1>0, <2>2, <3>1, <3>2
  <2>4. CASE j # n + 1
    <3> DEFINE before == n - 1
    <3>1. i <= n /\ j <= n
      BY <2>2, <2>4
    <3>2. /\ Depth(s, i, n) = Depth(s, i, before) + Weight(s[n])
          /\ Depth(s, j, n) = Depth(s, j, before) + Weight(s[n])
          /\ Depth(s, j, before) \in Int /\ Depth(s, i, before) \in Int
      BY <2>2, <3>1, DepthStep
    <3>3. CASE n = 0
      <4>1. j = 0 /\ i = 0
        BY <3>1, <3>3
      <4>2. Depth(s, j, before) = 0 /\ Depth(s, i, j - 1) = 0
        BY <3>3, <4>1, DepthOfNone
      <4>3. i = j
        BY <4>1
      <4> QED
        BY <2>2, <3>2, <4>2, <4>3 DEF Weight
    <3>4. CASE n # 0
      <4>1. before \in Nat /\ before < n /\ j <= before + 1 /\ before <= m
        BY <2>2, <3>1, <3>4
      <4>2. before \notin bad
        BY <2>1, <4>1
      <4>3. Depth(s, i, before) = Depth(s, i, j - 1) + Depth(s, j, before)
        BY <4>1, <4>2
      <4> HIDE DEF before, bad
      <4>4. Weight(s[n]) \in Int
        BY DEF Weight
      <4> QED
        BY <1>0, <2>2, <3>2, <4>3, <4>4
    <3> QED
      BY <3>3, <3>4
  <2> QED
    BY <2>3, <2>4
<1> QED
  BY <1>1

-----------------------------------------------------------------------------
(* The end of a value                                                      *)

\* The least member of a set of numbers.
LEMMA MinIsLeast ==
  ASSUME NEW S, S \subseteq Nat, NEW m \in S, \A n \in S : m <= n
  PROVE  Min(S) = m
<1>1. Min(S) \in S /\ \A n \in S : Min(S) <= n
  BY MinIs
<1>2. Min(S) <= m /\ m <= Min(S) /\ m \in Nat /\ Min(S) \in Nat
  BY <1>1
<1> QED
  BY <1>2

\* Where brackets are first balanced, and where a literal stops.
BalancedAt(s, i, hi) == {j \in i .. hi - 1 : Depth(s, i, j) = 0}
EndsLiteral(t) == t \in {",", "}", "]"}
StopsAt(s, i, hi) == {j \in i .. hi : j = hi \/ EndsLiteral(s[j])}

\* The end of a value, by what the value begins with.
LEMMA ValueIs ==
  ASSUME NEW s, NEW i, NEW hi
  PROVE  ConsumeValue(s, i, hi) =
           IF i >= hi THEN 0
           ELSE IF s[i] \in Opening
           THEN IF BalancedAt(s, i, hi) = {} THEN 0 ELSE Min(BalancedAt(s, i, hi)) + 1
           ELSE IF IsString(s[i]) THEN i + 1
           ELSE IF Min(StopsAt(s, i, hi)) > i THEN Min(StopsAt(s, i, hi)) ELSE 0
  BY DEF ConsumeValue, BalancedAt, StopsAt, EndsLiteral

\* A value in brackets ends where the last of them is closed.
LEMMA BracketsEnd ==
  ASSUME NEW s, NEW i \in Nat, NEW hi \in Nat, s[i] \in Opening, ConsumeValue(s, i, hi) # 0
  PROVE  /\ i < hi /\ ConsumeValue(s, i, hi) \in Nat
         /\ ConsumeValue(s, i, hi) - 1 \in i .. hi - 1
         /\ Depth(s, i, ConsumeValue(s, i, hi) - 1) = 0
         /\ \A j \in Nat : i <= j /\ j < ConsumeValue(s, i, hi) - 1 => Depth(s, i, j) # 0
<1> DEFINE B == BalancedAt(s, i, hi)
           b == Min(B)
<1>1. i < hi /\ B # {} /\ ConsumeValue(s, i, hi) = b + 1
  BY ValueIs
<1>2. B \subseteq Nat
  BY DEF BalancedAt
<1> HIDE DEF B
<1>3. b \in B /\ \A j \in B : b <= j
  BY <1>1, <1>2, MinIs
<1> HIDE DEF b
<1>4. b \in i .. hi - 1 /\ Depth(s, i, b) = 0
  BY <1>3 DEF B, BalancedAt
<1>5. \A j \in Nat : i <= j /\ j < b => Depth(s, i, j) # 0
  <2> SUFFICES ASSUME NEW j \in Nat, i <= j, j < b, Depth(s, i, j) = 0 PROVE FALSE
    OBVIOUS
  <2>1. j \in i .. hi - 1
    BY <1>4
  <2>2. j \in B
    BY <2>1 DEF B, BalancedAt
  <2> QED
    BY <1>3, <1>4, <2>2
<1>6. (b + 1) - 1 = b /\ b + 1 \in Nat
  BY <1>4
<1> QED
  BY <1>1, <1>4, <1>5, <1>6

\* The converse: the first place where all brackets are closed ends the value.
LEMMA BracketsEndAt ==
  ASSUME NEW s, NEW i \in Nat, NEW hi \in Nat, s[i] \in Opening,
         NEW b \in i .. hi - 1, Depth(s, i, b) = 0,
         \A j \in Nat : i <= j /\ j < b => Depth(s, i, j) # 0
  PROVE  ConsumeValue(s, i, hi) = b + 1
<1> DEFINE B == BalancedAt(s, i, hi)
<1>1. b \in B /\ B \subseteq Nat
  BY DEF BalancedAt
<1>2. \A j \in B : b <= j
  BY DEF BalancedAt
<1> HIDE DEF B
<1>3. Min(B) = b /\ B # {}
  BY <1>1, <1>2, MinIsLeast
<1>4. ~(i >= hi)
  OBVIOUS
<1> QED
  BY <1>3, <1>4, ValueIs DEF B

\* A literal ends at the first token that ends literals.
LEMMA LiteralEndsAt ==
  ASSUME NEW s, NEW i \in Nat, NEW hi \in Nat, s[i] \notin Opening, ~IsString(s[i]),
         NEW b \in i + 1 .. hi, b = hi \/ EndsLiteral(s[b]),
         \A j \in Nat : i <= j /\ j < b => ~EndsLiteral(s[j])
  PROVE  ConsumeValue(s, i, hi) = b
<1> DEFINE B == StopsAt(s, i, hi)
<1>1. b \in B /\ B \subseteq Nat
  BY DEF StopsAt
<1>2. \A j \in B : b <= j
  BY DEF StopsAt
<1> HIDE DEF B
<1>3. Min(B) = b
  BY <1>1, <1>2, MinIsLeast
<1>4. ~(i >= hi) /\ b > i
  OBVIOUS
<1> QED
  BY <1>3, <1>4, ValueIs DEF B

\* Up to the end of a literal there is no such token.
LEMMA LiteralEnd ==
  ASSUME NEW s, NEW i \in Nat, NEW hi \in Nat, s[i] \notin Opening, ~IsString(s[i]),
         ConsumeValue(s, i, hi) # 0
  PROVE  /\ ConsumeValue(s, i, hi) \in i + 1 .. hi
         /\ ConsumeValue(s, i, hi) = hi \/ EndsLiteral(s[ConsumeValue(s, i, hi)])
         /\ \A j \in Nat : i <= j /\ j < ConsumeValue(s, i, hi) => ~EndsLiteral(s[j])
<1> DEFINE B == StopsAt(s, i, hi)
           b == Min(B)
<1>1. i < hi /\ b > i /\ ConsumeValue(s, i, hi) = b
  BY ValueIs
<1>2. B \subseteq Nat /\ hi \in B
  BY <1>1 DEF StopsAt
<1> HIDE DEF B
<1>3. b \in B /\ \A j \in B : b <= j
  BY <1>2, MinIs
<1> HIDE DEF b
<1>4. b \in i + 1 .. hi /\ (b = hi \/ EndsLiteral(s[b]))
  BY <1>1, <1>3 DEF B, StopsAt
<1>5. \A j \in Nat : i <= j /\ j < b => ~EndsLiteral(s[j])
  <2> SUFFICES ASSUME NEW j \in Nat, i <= j, j < b, EndsLiteral(s[j]) PROVE FALSE
    OBVIOUS
  <2>1. j \in i .. hi
    BY <1>4
  <2>2. j \in B
    BY <2>1 DEF B, StopsAt
  <2> QED
    BY <1>3, <1>4, <2>2
<1> QED
  BY <1>1, <1>4, <1>5

\* A value is read the same where its tokens are the same and so is the one
\* behind it.
LEMMA SameValue ==
  ASSUME NEW s, NEW t, NEW d \in Int, NEW i \in Nat, NEW first \in Nat, Further(i, d, first),
         NEW hi \in Nat, NEW end \in Nat, NEW n \in Nat,
         Same(s, t, d, i, n),
         ConsumeValue(s, i, hi) # 0,
         \/ ConsumeValue(s, i, hi) < n /\ n <= hi /\ n + d <= end
         \/ n = hi /\ Further(hi, d, end)
  PROVE  ConsumeValue(t, first, end) = ConsumeValue(s, i, hi) + d
<1> DEFINE v == ConsumeValue(s, i, hi)
<1>0. first = i + d
  BY DEF Further
<1>1. v \in Nat /\ i < v /\ v <= hi
  BY ValueEnds
<1>2. i < n /\ n <= hi /\ n + d <= end /\ v <= n /\ (v < n \/ (n = hi /\ end = hi + d))
  BY <1>1 DEF Further
<1>3. t[first] = s[i] /\ first < end /\ first \in Nat
  BY <1>0, <1>1, <1>2 DEF Same
<1>4. CASE s[i] \in Opening
  <2> DEFINE b == v - 1
             c == b + d
  <2>1. /\ b \in i .. hi - 1 /\ Depth(s, i, b) = 0
        /\ \A j \in Nat : i <= j /\ j < b => Depth(s, i, j) # 0
    BY <1>4, BracketsEnd
  <2>2. b \in Nat /\ b < n
    BY <1>1, <1>2
  <2>3. c \in first .. end - 1
    BY <1>0, <1>1, <1>2, <2>1
  <2>9. b = v - 1
    OBVIOUS
  <2> HIDE DEF b
  <2>4. Depth(t, first, c) = 0
    <3>1. b \in Nat /\ b < n /\ b + d = c /\ c \in Nat /\ Further(b, d, c)
      BY <1>3, <2>2, <2>3 DEF Further
    <3> HIDE DEF v, c
    <3>2. Depth(t, first, c) = Depth(s, i, b)
      BY <3>1, DepthMoves
    <3> QED
      BY <2>1, <3>2
  <2>5. ASSUME NEW j \in Nat, first <= j, j < c PROVE Depth(t, first, j) # 0
    <3> DEFINE k == j - d
    <3>1. k \in Nat /\ i <= k /\ k < b /\ Further(k, d, j)
      BY <1>0, <2>2, <2>5 DEF Further
    <3> HIDE DEF k
    <3>2. Depth(t, first, j) = Depth(s, i, k)
      BY <1>3, <2>2, <3>1, DepthMoves
    <3> QED
      BY <2>1, <3>1, <3>2
  <2>6. c + 1 = v + d
    BY <1>1, <2>9
  <2> HIDE DEF b, c, v
  <2>7. ConsumeValue(t, first, end) = c + 1
    BY <1>3, <1>4, <2>3, <2>4, <2>5, BracketsEndAt
  <2> QED
    BY <2>6, <2>7 DEF v
<1>5. CASE s[i] \notin Opening /\ IsString(s[i])
  <2>1. v = i + 1
    BY <1>1, <1>5, ValueIs
  <2>2. ConsumeValue(t, first, end) = first + 1
    BY <1>3, <1>5, ValueIs
  <2> QED
    BY <1>0, <1>1, <2>1, <2>2
<1>6. CASE s[i] \notin Opening /\ ~IsString(s[i])
  <2> DEFINE c == v + d
  <2>1. /\ v \in i + 1 .. hi
        /\ v = hi \/ EndsLiteral(s[v])
        /\ \A j \in Nat : i <= j /\ j < v => ~EndsLiteral(s[j])
    BY <1>6, LiteralEnd
  <2>2. c \in first + 1 .. end
    BY <1>0, <1>1, <1>2
  <2>3. c = end \/ EndsLiteral(t[c])
    <3>1. CASE v < n
      <4>1. EndsLiteral(s[v])
        BY <1>2, <2>1, <3>1
      <4> QED
        BY <1>1, <3>1, <4>1 DEF Same
    <3>2. CASE v = n /\ n = hi /\ end = hi + d
      BY <3>2
    <3> QED
      BY <1>1, <1>2, <3>1, <3>2
  <2>4. ASSUME NEW j \in Nat, first <= j, j < c PROVE ~EndsLiteral(t[j])
    <3> DEFINE k == j - d
    <3>1. k \in Nat /\ i <= k /\ k < v /\ k + d = j /\ k < n
      BY <1>0, <1>1, <1>2, <2>4
    <3> HIDE DEF k
    <3>2. t[k + d] = s[k]
      BY <3>1 DEF Same
    <3> QED
      BY <2>1, <3>1, <3>2
  <2> HIDE DEF c, v
  <2>5. ConsumeValue(t, first, end) = c
    BY <1>3, <1>6, <2>2, <2>3, <2>4, LiteralEndsAt
  <2> QED
    BY <2>5 DEF c, v
<1> QED
  BY <1>4, <1>5, <1>6

-----------------------------------------------------------------------------
(* The pairs of an object, one behind the other                            *)

\* A function that holds, from a position on, what the walk reads from each.
Walks(f, s, lo, hi) == \A i \in lo .. hi : f[i] = MembersAt(s, hi, f, i)

\* Walks that begin at different places agree where both are.
LEMMA OneWalk ==
  ASSUME NEW s, NEW hi \in Nat, NEW a \in Nat, NEW b \in Nat, a <= b, NEW f, NEW g,
         Walks(f, s, a, hi), Walks(g, s, b, hi)
  PROVE  \A i \in b .. hi : f[i] = g[i]
<1> DEFINE bad == {k \in Nat : \E i \in b .. hi : k = hi - i /\ f[i] # g[i]}
<1>1. bad = {}
  <2> SUFFICES ASSUME bad # {} PROVE FALSE
    OBVIOUS
  <2>1. PICK m \in bad : \A k \in Nat : k < m => k \notin bad
    <3>1. bad \subseteq Nat
      OBVIOUS
    <3> HIDE DEF bad
    <3> QED
      BY <3>1, LeastNat
  <2>2. PICK i \in b .. hi : m = hi - i /\ f[i] # g[i]
    BY <2>1
  <2>3. i \in Nat /\ i \in a .. hi /\ i \in b .. hi
    BY <2>2
  <2>4. \A j \in Nat : i < j /\ j <= hi => f[j] = g[j]
    <3> SUFFICES ASSUME NEW j \in Nat, i < j, j <= hi PROVE f[j] = g[j]
      OBVIOUS
    <3>1. hi - j \in Nat /\ hi - j < m /\ j \in b .. hi
      BY <2>2
    <3>2. hi - j \notin bad
      BY <2>1, <3>1
    <3> QED
      BY <3>1, <3>2
  <2> HIDE DEF bad
  <2>5. MembersAt(s, hi, f, i) = MembersAt(s, hi, g, i)
    BY <2>3, <2>4, MembersLookAhead
  <2>6. f[i] = MembersAt(s, hi, f, i) /\ g[i] = MembersAt(s, hi, g, i)
    BY <2>3 DEF Walks
  <2> QED
    BY <2>2, <2>5, <2>6
<1>2. ASSUME NEW i \in b .. hi PROVE f[i] = g[i]
  <2>1. hi - i \in Nat
    OBVIOUS
  <2>2. hi - i \notin bad
    BY <1>1
  <2> QED
    BY <2>1, <2>2
<1> QED
  BY <1>2

\* One step of the walk, and then the walk from there.
LEMMA MembersUnfold ==
  ASSUME NEW s, NEW hi \in Nat, NEW i \in Nat, i <= hi
  PROVE  MembersFrom(s, i, hi) = MembersAt(s, hi, [j \in i .. hi |-> MembersFrom(s, j, hi)], i)
<1> DEFINE W(j) == CHOOSE f : f = [k \in j .. hi |-> MembersAt(s, hi, f, k)]
           rest == [j \in i .. hi |-> MembersFrom(s, j, hi)]
<1>1. ASSUME NEW j \in Nat, j <= hi
      PROVE  W(j) = [k \in j .. hi |-> MembersAt(s, hi, W(j), k)] /\ MembersFrom(s, j, hi) = W(j)[j]
  <2>1. \E f : f = [k \in j .. hi |-> MembersAt(s, hi, f, k)]
    BY <1>1, MembersLoop
  <2>2. MembersFrom(s, j, hi) = W(j)[j]
    BY DEF MembersFrom, MembersAt
  <2> QED
    BY <2>1, <2>2
<1> HIDE DEF W
<1>2. ASSUME NEW j \in Nat, i < j, j <= hi PROVE W(i)[j] = rest[j]
  <2>1. \A k \in j .. hi : W(i)[k] = W(j)[k]
    <3> DEFINE f == W(i)
               g == W(j)
    <3>1. f = [k \in i .. hi |-> MembersAt(s, hi, f, k)] /\ g = [k \in j .. hi |-> MembersAt(s, hi, g, k)]
      BY <1>1, <1>2
    <3> HIDE DEF f, g
    <3>3. Walks(f, s, i, hi) /\ Walks(g, s, j, hi)
      BY <3>1 DEF Walks
    <3>2. \A k \in j .. hi : f[k] = g[k]
      BY <1>2, <3>3, OneWalk
    <3> QED
      BY <3>2 DEF f, g
  <2>2. j \in j .. hi /\ j \in i .. hi
    BY <1>2
  <2>3. MembersFrom(s, j, hi) = W(j)[j]
    BY <1>1, <1>2
  <2> QED
    BY <2>1, <2>2, <2>3
<1> DEFINE f == W(i)
<1> HIDE DEF rest
<1>3. MembersAt(s, hi, f, i) = MembersAt(s, hi, rest, i)
  <2>1. \A j \in Nat : i < j /\ j <= hi => f[j] = rest[j]
    BY <1>2
  <2> HIDE DEF f
  <2> QED
    BY <2>1, MembersLookAhead
<1>4. MembersFrom(s, i, hi) = f[i] /\ f = [k \in i .. hi |-> MembersAt(s, hi, f, k)] /\ i \in i .. hi
  BY <1>1
<1> HIDE DEF f
<1>5. f[i] = MembersAt(s, hi, f, i)
  BY <1>4
<1>6. MembersFrom(s, i, hi) = MembersAt(s, hi, rest, i)
  BY <1>3, <1>4, <1>5
<1> QED
  BY <1>6 DEF rest

\* The first pair of a key is the first one, or lies in what follows it.
LEMMA LocatedFirst ==
  ASSUME NEW X, NEW p, NEW rest \in Seq(X), NEW key
  PROVE  Located(<<p>> \o rest, key) = IF p.key = key THEN p ELSE Located(rest, key)
<1> DEFINE all == <<p>> \o rest
           in == {n \in DOMAIN all : all[n].key = key}
           later == {n \in DOMAIN rest : rest[n].key = key}
<1>1. /\ Len(rest) \in Nat /\ DOMAIN all = 1 .. Len(rest) + 1 /\ DOMAIN rest = 1 .. Len(rest)
      /\ all[1] = p /\ \A n \in 1 .. Len(rest) : all[n + 1] = rest[n]
  <2>1. rest \in Seq(X \cup {p}) /\ <<p>> \in Seq(X \cup {p})
    OBVIOUS
  <2>2. Len(<<p>>) = 1 /\ <<p>>[1] = p
    OBVIOUS
  <2>3. Len(all) = Len(rest) + 1 /\ all \in Seq(X \cup {p})
    BY <2>1, <2>2
  <2> QED
    BY <2>1, <2>2, <2>3
<1> HIDE DEF all
<1>2. Located(all, key) = IF in = {} THEN NotThere ELSE all[Min(in)]
  BY DEF Located
<1>3. Located(rest, key) = IF later = {} THEN NotThere ELSE rest[Min(later)]
  BY DEF Located
<1>4. in \subseteq Nat /\ later \subseteq Nat
  BY <1>1
<1>5. CASE p.key = key
  <2>1. 1 \in in
    BY <1>1, <1>5
  <2>2. \A n \in in : 1 <= n
    BY <1>1
  <2> HIDE DEF in
  <2>3. Min(in) = 1
    BY <1>4, <2>1, <2>2, MinIsLeast
  <2> QED
    BY <1>1, <1>2, <1>5, <2>1, <2>3 DEF all
<1>6. CASE p.key # key
  <2>1. ASSUME NEW n \in in PROVE n - 1 \in later
    <3>1. n # 1 /\ n \in 1 .. Len(rest) + 1
      BY <1>1, <1>6
    <3> DEFINE k == n - 1
    <3>2. k \in 1 .. Len(rest) /\ k + 1 = n
      BY <1>1, <3>1
    <3> HIDE DEF k
    <3>3. all[n] = rest[k]
      BY <1>1, <3>2
    <3>4. k \in later
      BY <1>1, <3>2, <3>3
    <3> QED
      BY <3>4 DEF k
  <2>2. ASSUME NEW n \in later PROVE n + 1 \in in
    <3>1. n \in 1 .. Len(rest) /\ n + 1 \in 1 .. Len(rest) + 1
      BY <1>1
    <3>2. all[n + 1] = rest[n]
      BY <1>1, <3>1
    <3> QED
      BY <1>1, <3>1, <3>2
  <2>3. CASE later = {}
    <3>1. in = {}
      BY <2>1, <2>3
    <3> QED
      BY <1>2, <1>3, <1>6, <2>3, <3>1 DEF all
  <2>4. CASE later # {}
    <3> DEFINE m == Min(later)
    <3> HIDE DEF later
    <3>1. m \in later /\ \A n \in later : m <= n
      BY <1>4, <2>4, MinIs
    <3> HIDE DEF m
    <3>2. m \in Nat /\ m + 1 \in in
      BY <1>4, <2>2, <3>1
    <3>3. ASSUME NEW n \in in PROVE m + 1 <= n
      <4>1. m <= n - 1 /\ n \in Nat
        BY <1>4, <2>1, <3>1
      <4> QED
        BY <3>2, <4>1
    <3> HIDE DEF in
    <3>4. Min(in) = m + 1 /\ in # {}
      BY <1>4, <3>2, <3>3, MinIsLeast
    <3>5. m \in 1 .. Len(rest)
      BY <1>1, <3>1 DEF later
    <3>6. all[m + 1] = rest[m]
      BY <1>1, <3>5
    <3> QED
      BY <1>2, <1>3, <1>6, <2>4, <3>4, <3>6 DEF all, m
  <2> QED
    BY <2>3, <2>4
<1> QED
  BY <1>5, <1>6

\* The place of a field among the pairs that begin at a position.
FieldFrom(s, i, hi, key) == Located(MembersFrom(s, i, hi).read, key)

\* What is found from a pair on: this pair, or what is found behind it.
LEMMA FieldFromIs ==
  ASSUME NEW s, NEW hi \in Nat, NEW i \in Nat, i <= hi, NEW key
  PROVE  FieldFrom(s, i, hi, key) =
           IF ~Keyed(s, i, hi) \/ ConsumeValue(s, i + 2, hi) = 0 THEN NotThere
           ELSE IF s[i] = key THEN [key |-> key, pairLo |-> i, lo |-> i + 2, hi |-> ConsumeValue(s, i + 2, hi)]
           ELSE IF ConsumeValue(s, i + 2, hi) < hi /\ s[ConsumeValue(s, i + 2, hi)] = ","
           THEN FieldFrom(s, ConsumeValue(s, i + 2, hi) + 1, hi, key)
           ELSE NotThere
<1> DEFINE end == ConsumeValue(s, i + 2, hi)
           p == [key |-> s[i], pairLo |-> i, lo |-> i + 2, hi |-> end]
           rest == [j \in i .. hi |-> MembersFrom(s, j, hi)]
           w == MembersFrom(s, i, hi)
           ended == end < hi /\ s[end] = "}"
           next == rest[end + 1]
<1>1. w = IF Keyed(s, i, hi)
          THEN IF end = 0 THEN [read |-> <<>>, closed |-> FALSE]
               ELSE IF end < hi /\ s[end] = "," THEN [next EXCEPT !.read = <<p>> \o @]
               ELSE [read |-> <<p>>, closed |-> ended]
          ELSE [read |-> <<>>, closed |-> i < hi /\ s[i] = "}"]
  BY MembersUnfold DEF MembersAt
<1>2. end = 0 \/ (end \in Nat /\ i + 2 < end /\ end <= hi)
  BY ValueEnds
<1>3. Located(<<>>, key) = NotThere
  <2>1. {n \in DOMAIN <<>> : <<>>[n].key = key} = {}
    OBVIOUS
  <2> QED
    BY <2>1 DEF Located
<1>4. p.key = s[i] /\ (s[i] = key => p = [key |-> key, pairLo |-> i, lo |-> i + 2, hi |-> end])
  OBVIOUS
<1>5. FieldFrom(s, i, hi, key) = Located(w.read, key)
  BY DEF FieldFrom
<1> HIDE DEF end, p, w, ended
<1>6. CASE ~Keyed(s, i, hi) \/ end = 0
  <2>1. w.read = <<>>
    BY <1>1, <1>6
  <2> QED
    BY <1>3, <1>5, <1>6, <2>1 DEF end
<1>7. CASE Keyed(s, i, hi) /\ end # 0 /\ end < hi /\ s[end] = ","
  <2>0. end # 0 /\ end < hi
    BY ONLY <1>7
  <2> DEFINE k == end + 1
  <2>1. k \in Nat /\ k <= hi /\ k \in i .. hi
    BY <1>2, <2>0
  <2>2. next = MembersFrom(s, k, hi)
    BY <2>1
  <2> HIDE DEF k
  <2>3. Walk(MembersFrom(s, k, hi), s, k, hi)
    BY <2>1, MembersAreWalk
  <2> DEFINE r == MembersFrom(s, k, hi).read
             c == MembersFrom(s, k, hi).closed
             X == Pairs(s, k, hi)
  <2>4. MembersFrom(s, k, hi) = [read |-> r, closed |-> c] /\ r \in Seq(X)
    BY <2>3 DEF Walk
  <2>5. w = [next EXCEPT !.read = <<p>> \o @]
    BY <1>1, <1>7
  <2>6. FieldFrom(s, k, hi, key) = Located(r, key)
    BY DEF FieldFrom
  <2> HIDE DEF next, r, c, X
  <2>7. next = [read |-> r, closed |-> c]
    BY <2>2, <2>4
  <2>8. w.read = <<p>> \o r
    BY <2>5, <2>7
  <2>9. Located(w.read, key) = IF p.key = key THEN p ELSE Located(r, key)
    BY <2>4, <2>8, LocatedFirst
  <2>10. FieldFrom(s, i, hi, key) = IF s[i] = key THEN p ELSE FieldFrom(s, k, hi, key)
    BY <1>4, <1>5, <2>6, <2>9
  <2> QED
    BY <1>4, <1>7, <2>10 DEF k, end
<1>8. CASE Keyed(s, i, hi) /\ end # 0 /\ ~(end < hi /\ s[end] = ",")
  <2>1. w.read = <<p>>
    BY <1>1, <1>8
  <2> DEFINE none == <<>>
  <2>2. <<p>> = <<p>> \o none /\ none \in Seq({})
    OBVIOUS
  <2>5. Located(none, key) = NotThere
    BY <1>3
  <2> HIDE DEF none
  <2>6. Located(<<p>> \o none, key) = IF p.key = key THEN p ELSE Located(none, key)
    BY <2>2, LocatedFirst
  <2>3. Located(<<p>>, key) = IF p.key = key THEN p ELSE NotThere
    BY <2>2, <2>5, <2>6
  <2>4. FieldFrom(s, i, hi, key) = IF s[i] = key THEN p ELSE NotThere
    BY <1>4, <1>5, <2>1, <2>3
  <2> QED
    BY <1>4, <1>8, <2>4 DEF end
<1> QED
  BY <1>6, <1>7, <1>8

-----------------------------------------------------------------------------
(* A field is read the same in texts that agree                            *)

\* A value is read the same in the last parts of two texts that end the same.
LEMMA SameLastValue ==
  ASSUME NEW s, NEW t, NEW d \in Int, NEW i \in Nat, NEW first \in Nat, Further(i, d, first),
         NEW hi \in Nat, NEW end \in Nat, Further(hi, d, end), Same(s, t, d, i, hi)
  PROVE  /\ ConsumeValue(s, i, hi) = 0 => ConsumeValue(t, first, end) = 0
         /\ ConsumeValue(s, i, hi) # 0 => ConsumeValue(t, first, end) = ConsumeValue(s, i, hi) + d
<1>1. ConsumeValue(s, i, hi) # 0 => ConsumeValue(t, first, end) = ConsumeValue(s, i, hi) + d
  BY SameValue
<1>2. ASSUME ConsumeValue(t, first, end) # 0 PROVE ConsumeValue(s, i, hi) # 0
  <2> DEFINE e == 0 - d
             v == ConsumeValue(t, first, end)
  <2>1. e \in Int /\ Further(first, e, i) /\ Further(end, e, hi)
    BY DEF Further
  <2>2. Same(t, s, e, first, end)
    <3> SUFFICES ASSUME NEW q \in Nat, first <= q, q < end PROVE s[q + e] = t[q]
      BY DEF Same
    <3> DEFINE k == q + e
    <3>1. k \in Nat /\ i <= k /\ k < hi /\ k + d = q
      BY DEF Further
    <3> HIDE DEF k
    <3>2. t[k + d] = s[k]
      BY <3>1 DEF Same
    <3> QED
      BY <3>1, <3>2 DEF k
  <2> HIDE DEF e
  <2>3. ConsumeValue(s, i, hi) = v + e
    BY <1>2, <2>1, <2>2, SameValue
  <2>4. v \in Nat /\ first < v
    BY <1>2, ValueEnds
  <2> QED
    BY <2>1, <2>3, <2>4 DEF Further
<1> QED
  BY <1>1, <1>2

\* So is a string that a pair holds.
LEMMA SameString ==
  ASSUME NEW s, NEW t, NEW d \in Int, NEW lo \in Nat, NEW hi \in Nat, lo # 0, lo + d \in Nat, lo + d # 0,
         t[lo + d] = s[lo], NEW k, NEW a, NEW b
  PROVE  StringAt(t, [key |-> k, pairLo |-> b, lo |-> lo + d, hi |-> hi + d]) =
           StringAt(s, [key |-> k, pairLo |-> a, lo |-> lo, hi |-> hi])
<1> DEFINE p == [key |-> k, pairLo |-> a, lo |-> lo, hi |-> hi]
           q == [key |-> k, pairLo |-> b, lo |-> lo + d, hi |-> hi + d]
<1>1. p.lo = lo /\ p.hi = hi /\ q.lo = lo + d /\ q.hi = hi + d
  OBVIOUS
<1> HIDE DEF p, q
<1>2. Present(p) /\ Present(q)
  BY <1>1 DEF Present
<1>3. p.hi = p.lo + 1 <=> q.hi = q.lo + 1
  BY <1>1
<1>4. t[q.lo] = s[p.lo]
  BY <1>1
<1>5. StringAt(t, q) = StringAt(s, p)
  BY <1>2, <1>3, <1>4 DEF StringAt
<1> QED
  BY <1>5 DEF p, q

\* And so is a field.
LEMMA SameLastField ==
  ASSUME NEW s, NEW t, NEW d \in Int, NEW lo \in Nat, lo + d \in Nat,
         NEW hi \in Nat, NEW end \in Nat, Further(hi, d, end), Same(s, t, d, lo, hi), NEW key
  PROVE  \A i \in lo .. hi : StringAt(t, FieldFrom(t, i + d, end, key)) = StringAt(s, FieldFrom(s, i, hi, key))
<1> DEFINE Read(i) == StringAt(s, FieldFrom(s, i, hi, key))
           ReadToo(i) == StringAt(t, FieldFrom(t, i + d, end, key))
           bad == {k \in Nat : \E i \in lo .. hi : k = hi - i /\ ReadToo(i) # Read(i)}
<1>1. bad = {}
  <2> SUFFICES ASSUME bad # {} PROVE FALSE
    OBVIOUS
  <2>1. PICK m \in bad : \A k \in Nat : k < m => k \notin bad
    <3>1. bad \subseteq Nat
      OBVIOUS
    <3> HIDE DEF bad
    <3> QED
      BY <3>1, LeastNat
  <2>2. PICK i \in lo .. hi : m = hi - i /\ ReadToo(i) # Read(i)
    BY <2>1
  <2>3. i \in Nat /\ lo <= i /\ i <= hi
    BY <2>2
  <2>4. ASSUME NEW j \in lo .. hi, i < j PROVE ReadToo(j) = Read(j)
    <3>1. hi - j \in Nat /\ hi - j < m
      BY <2>2, <2>3, <2>4
    <3>2. hi - j \notin bad
      BY <2>1, <3>1
    <3> QED
      BY <3>1, <3>2
  <2> HIDE DEF bad
  <2> DEFINE f == i + d
             v == ConsumeValue(s, i + 2, hi)
             w == ConsumeValue(t, f + 2, end)
             p == [key |-> key, pairLo |-> i, lo |-> i + 2, hi |-> v]
             q == [key |-> key, pairLo |-> f, lo |-> f + 2, hi |-> w]
             more == v < hi /\ s[v] = ","
             moreToo == w < end /\ t[w] = ","
  <2>5. f \in Nat /\ f <= end
    BY <2>3 DEF Further
  <2>6. i < hi => t[f] = s[i]
    BY <2>3 DEF Same
  <2>7. Keyed(t, f, end) <=> Keyed(s, i, hi)
    <3>1. f + 1 < end <=> i + 1 < hi
      BY <2>3 DEF Further
    <3>2. i + 1 < hi => t[f + 1] = s[i + 1]
      <4> SUFFICES ASSUME i + 1 < hi PROVE t[f + 1] = s[i + 1]
        OBVIOUS
      <4> DEFINE k == i + 1
      <4>1. k \in Nat /\ lo <= k /\ k < hi /\ k + d = f + 1
        BY <2>3
      <4> HIDE DEF k
      <4>2. t[k + d] = s[k]
        BY <4>1 DEF Same
      <4> QED
        BY <4>1, <4>2 DEF k
    <3> HIDE DEF f
    <3> QED
      BY <2>3, <2>6, <3>1, <3>2 DEF Keyed
  <2>8. /\ v = 0 => w = 0
        /\ v # 0 => w = v + d
    <3> DEFINE a == i + 2
               b == f + 2
    <3>1. a \in Nat /\ b \in Nat /\ Further(a, d, b) /\ lo <= a /\ Further(hi, d, end)
      BY <2>3, <2>5 DEF Further
    <3> HIDE DEF a, b, f
    <3>2. Same(s, t, d, a, hi)
      BY <3>1 DEF Same
    <3>3. /\ ConsumeValue(s, a, hi) = 0 => ConsumeValue(t, b, end) = 0
          /\ ConsumeValue(s, a, hi) # 0 => ConsumeValue(t, b, end) = ConsumeValue(s, a, hi) + d
      BY <3>1, <3>2, SameLastValue
    <3> QED
      BY <3>3 DEF a, b
  <2>9. v = 0 \/ (v \in Nat /\ i + 2 < v /\ v <= hi)
    BY <2>3, ValueEnds
  <2> HIDE DEF f
  <2>10. FieldFrom(s, i, hi, key) = IF ~Keyed(s, i, hi) \/ v = 0 THEN NotThere
                                    ELSE IF s[i] = key THEN p
                                    ELSE IF more THEN FieldFrom(s, v + 1, hi, key) ELSE NotThere
    BY <2>3, FieldFromIs
  <2>11. FieldFrom(t, f, end, key) = IF ~Keyed(t, f, end) \/ w = 0 THEN NotThere
                                     ELSE IF t[f] = key THEN q
                                     ELSE IF moreToo THEN FieldFrom(t, w + 1, end, key) ELSE NotThere
    BY <2>5, FieldFromIs
  <2>12. StringAt(s, NotThere) = "" /\ StringAt(t, NotThere) = ""
    BY DEF StringAt, NotThere, Present
  <2>13. CASE ~Keyed(s, i, hi) \/ v = 0
    <3>1. ~Keyed(t, f, end) \/ w = 0
      BY <2>7, <2>8, <2>13
    <3>2. FieldFrom(s, i, hi, key) = NotThere /\ FieldFrom(t, f, end, key) = NotThere
      BY <2>10, <2>11, <2>13, <3>1
    <3> QED
      BY <2>2, <2>12, <3>2 DEF f
  <2>14. CASE Keyed(s, i, hi) /\ v # 0
    <3>1. Keyed(t, f, end) /\ w = v + d /\ v \in Nat /\ i + 2 < v /\ v <= hi /\ i < hi
      BY <2>3, <2>7, <2>8, <2>9, <2>14
    <3>2. w # 0 /\ w \in Nat
      BY <2>5, <3>1
    <3>3. t[f] = s[i]
      BY <2>6, <3>1
    <3>4. CASE s[i] = key
      <4>1. FieldFrom(s, i, hi, key) = p /\ FieldFrom(t, f, end, key) = q
        BY <2>10, <2>11, <2>14, <3>1, <3>2, <3>3, <3>4
      <4> DEFINE a == i + 2
      <4>2. a \in Nat /\ a # 0 /\ a + d \in Nat /\ a + d # 0 /\ f + 2 = a + d /\ lo <= a /\ a < hi
        BY <2>3, <2>5, <3>1 DEF f
      <4> HIDE DEF a, f, v
      <4>3. t[a + d] = s[a]
        BY <4>2 DEF Same
      <4>4. StringAt(t, [key |-> key, pairLo |-> f, lo |-> a + d, hi |-> v + d]) =
              StringAt(s, [key |-> key, pairLo |-> i, lo |-> a, hi |-> v])
        BY <3>1, <4>2, <4>3, SameString
      <4>5. StringAt(t, q) = StringAt(s, p)
        BY <3>1, <4>2, <4>4 DEF a
      <4> HIDE DEF p, q
      <4> QED
        BY <2>2, <4>1, <4>5 DEF f
    <3>5. CASE s[i] # key
      <4>1. moreToo <=> more
        <5>1. w < end <=> v < hi
          BY <3>1 DEF Further
        <5>2. v < hi => t[v + d] = s[v]
          BY <2>3, <3>1 DEF Same
        <5> QED
          BY <3>1, <5>1, <5>2
      <4>2. CASE more
        <5> DEFINE k == v + 1
        <5>0. v < hi
          BY <4>2
        <5>1. k \in lo .. hi /\ i < k /\ k + d = w + 1
          BY <2>3, <3>1, <5>0
        <5>2. FieldFrom(s, i, hi, key) = FieldFrom(s, k, hi, key)
          BY <2>10, <2>14, <3>5, <4>2
        <5>3. FieldFrom(t, f, end, key) = FieldFrom(t, w + 1, end, key)
          BY <2>11, <3>1, <3>2, <3>3, <3>5, <4>1, <4>2
        <5> HIDE DEF k, w, f
        <5>4. ReadToo(k) = Read(k)
          BY <2>4, <5>1
        <5> QED
          BY <2>2, <5>1, <5>2, <5>3, <5>4 DEF f
      <4>3. CASE ~more
        <5>1. FieldFrom(s, i, hi, key) = NotThere /\ FieldFrom(t, f, end, key) = NotThere
          BY <2>10, <2>11, <2>14, <3>1, <3>2, <3>3, <3>5, <4>1, <4>3
        <5> QED
          BY <2>2, <2>12, <5>1 DEF f
      <4> QED
        BY <4>2, <4>3
    <3> QED
      BY <3>4, <3>5
  <2> QED
    BY <2>13, <2>14
<1>2. ASSUME NEW i \in lo .. hi PROVE ReadToo(i) = Read(i)
  <2>1. hi - i \in Nat
    OBVIOUS
  <2>2. hi - i \notin bad
    BY <1>1
  <2> QED
    BY <2>1, <2>2
<1> QED
  BY <1>2

\* A field that is found lies behind the place where the search began, and is
\* one value.
LEMMA FieldFromIsValue ==
  ASSUME NEW s, NEW hi \in Nat, NEW key, NEW lo \in Nat
  PROVE  \A i \in lo .. hi : Present(FieldFrom(s, i, hi, key)) =>
           /\ FieldFrom(s, i, hi, key).lo \in Nat /\ FieldFrom(s, i, hi, key).hi \in Nat
           /\ i + 2 <= FieldFrom(s, i, hi, key).lo
           /\ FieldFrom(s, i, hi, key).lo < FieldFrom(s, i, hi, key).hi
           /\ FieldFrom(s, i, hi, key).hi <= hi
           /\ FieldFrom(s, i, hi, key).hi = ConsumeValue(s, FieldFrom(s, i, hi, key).lo, hi)
<1> DEFINE Fine(i, loc) == /\ loc.lo \in Nat /\ loc.hi \in Nat
                           /\ i + 2 <= loc.lo /\ loc.lo < loc.hi /\ loc.hi <= hi
                           /\ loc.hi = ConsumeValue(s, loc.lo, hi)
           bad == {k \in Nat : \E i \in lo .. hi : /\ k = hi - i /\ Present(FieldFrom(s, i, hi, key))
                                                   /\ ~Fine(i, FieldFrom(s, i, hi, key))}
<1>1. bad = {}
  <2> SUFFICES ASSUME bad # {} PROVE FALSE
    OBVIOUS
  <2>1. PICK m \in bad : \A k \in Nat : k < m => k \notin bad
    <3>1. bad \subseteq Nat
      OBVIOUS
    <3> HIDE DEF bad
    <3> QED
      BY <3>1, LeastNat
  <2>2. PICK i \in lo .. hi : /\ m = hi - i /\ Present(FieldFrom(s, i, hi, key))
                              /\ ~Fine(i, FieldFrom(s, i, hi, key))
    BY <2>1
  <2>3. i \in Nat /\ lo <= i /\ i <= hi
    BY <2>2
  <2>4. ASSUME NEW j \in lo .. hi, i < j, Present(FieldFrom(s, j, hi, key)) PROVE Fine(j, FieldFrom(s, j, hi, key))
    <3>1. hi - j \in Nat /\ hi - j < m
      BY <2>2, <2>3, <2>4
    <3>2. hi - j \notin bad
      BY <2>1, <3>1
    <3> QED
      BY <2>4, <3>1, <3>2
  <2> HIDE DEF bad
  <2> DEFINE v == ConsumeValue(s, i + 2, hi)
             p == [key |-> key, pairLo |-> i, lo |-> i + 2, hi |-> v]
             more == v < hi /\ s[v] = ","
             loc == FieldFrom(s, i, hi, key)
  <2>5. v = 0 \/ (v \in Nat /\ i + 2 < v /\ v <= hi)
    BY <2>3, ValueEnds
  <2>6. loc = IF ~Keyed(s, i, hi) \/ v = 0 THEN NotThere
              ELSE IF s[i] = key THEN p
              ELSE IF more THEN FieldFrom(s, v + 1, hi, key) ELSE NotThere
    BY <2>3, FieldFromIs
  <2>7. ~Present(NotThere)
    BY DEF NotThere, Present
  <2>8. v # 0 => Fine(i, p)
    <3>1. p.lo = i + 2 /\ p.hi = v
      OBVIOUS
    <3> HIDE DEF p
    <3> QED
      BY <2>3, <2>5, <3>1
  <2>9. ASSUME v # 0, more PROVE Present(FieldFrom(s, v + 1, hi, key)) => Fine(i, FieldFrom(s, v + 1, hi, key))
    <3> DEFINE k == v + 1
               next == FieldFrom(s, k, hi, key)
    <3>0. v < hi /\ v # 0
      BY <2>9
    <3>1. k \in lo .. hi /\ i < k /\ k \in Nat
      BY <2>3, <2>5, <3>0
    <3> HIDE DEF k
    <3>2. Present(next) => Fine(k, next)
      BY <2>4, <3>1
    <3> HIDE DEF next
    <3>3. Present(next) => Fine(i, next)
      BY <2>3, <3>1, <3>2
    <3> QED
      BY <3>3 DEF next, k
  <2> HIDE DEF p, v, Fine, more
  <2> QED
    BY <2>2, <2>6, <2>7, <2>8, <2>9
<1>2. ASSUME NEW i \in lo .. hi, Present(FieldFrom(s, i, hi, key)) PROVE Fine(i, FieldFrom(s, i, hi, key))
  <2>1. hi - i \in Nat
    OBVIOUS
  <2>2. hi - i \notin bad
    BY <1>1
  <2> QED
    BY <1>2, <2>1, <2>2
<1> QED
  BY <1>2

\* An object's first pairs are read the same from texts that begin the same.
LEMMA SameKeyed ==
  ASSUME NEW s, NEW t, NEW i \in Nat, NEW n \in Nat, Same(s, t, 0, i, n), i + 1 < n,
         NEW hi \in Nat, NEW end \in Nat, n <= hi, n <= end
  PROVE  (Keyed(t, i, end) <=> Keyed(s, i, hi)) /\ t[i] = s[i]
<1> DEFINE j == i + 1
<1>1. j \in Nat /\ i < n /\ j < n /\ i <= j /\ i + 0 = i /\ j + 0 = j
  OBVIOUS
<1>2. t[i] = s[i]
  BY <1>1 DEF Same
<1>3. t[j + 0] = s[j]
  BY <1>1 DEF Same
<1>4. j < hi /\ j < end
  BY <1>1
<1> QED
  BY <1>1, <1>2, <1>3, <1>4 DEF Keyed

\* A value that ends in front of position n ends there in both texts.
LEMMA SameFirstValue ==
  ASSUME NEW s, NEW t, NEW i \in Nat, NEW n \in Nat, Same(s, t, 0, i, n),
         NEW hi \in Nat, NEW end \in Nat, n <= hi, n <= end,
         ConsumeValue(s, i, hi) # 0,
         ConsumeValue(s, i, hi) < n \/ (IsString(s[i]) /\ ConsumeValue(s, i, hi) <= n)
  PROVE  ConsumeValue(t, i, end) = ConsumeValue(s, i, hi)
<1>1. Further(i, 0, i) /\ n + 0 <= end /\ 0 \in Int
  BY DEF Further
<1>2. ConsumeValue(s, i, hi) \in Nat /\ i < ConsumeValue(s, i, hi)
  BY ValueEnds
<1>3. CASE ConsumeValue(s, i, hi) < n
  <2>1. ConsumeValue(t, i, end) = ConsumeValue(s, i, hi) + 0
    BY <1>1, <1>3, SameValue
  <2> QED
    BY <1>2, <2>1
<1>4. CASE IsString(s[i]) /\ ConsumeValue(s, i, hi) <= n
  <2>1. i < n /\ i < hi /\ i < end
    BY <1>2, <1>4
  <2>2. t[i] = s[i]
    BY <1>1, <2>1 DEF Same
  <2>3. s[i] \notin Opening
    BY <1>4 DEF IsString
  <2>4. ConsumeValue(s, i, hi) = i + 1 /\ ConsumeValue(t, i, end) = i + 1
    BY <1>4, <2>1, <2>2, <2>3, ValueIs
  <2> QED
    BY <2>4
<1> QED
  BY <1>3, <1>4

\* Text t has what text s has in front of position n, behind the string loc.
AlikeUpTo(s, t, lo, n, hi, end, loc) ==
  /\ lo \in Nat /\ n \in Nat /\ Same(s, t, 0, lo, n) /\ hi \in Nat /\ end \in Nat /\ n <= hi /\ n <= end
  /\ Present(loc) /\ IsString(s[loc.lo]) /\ loc.hi <= n

\* A string is found at the same place in a text that is the same as far as it.
LEMMA SameFirstField ==
  ASSUME NEW s, NEW t, NEW lo, NEW n, NEW hi, NEW end, NEW loc, AlikeUpTo(s, t, lo, n, hi, end, loc), NEW key
  PROVE  \A i \in lo .. hi : FieldFrom(s, i, hi, key) = loc => FieldFrom(t, i, end, key) = loc
<1> SUFFICES ASSUME lo \in Nat, n \in Nat, Same(s, t, 0, lo, n), hi \in Nat, end \in Nat, n <= hi, n <= end,
                    Present(loc), IsString(s[loc.lo]), loc.hi <= n
             PROVE  \A i \in lo .. hi : FieldFrom(s, i, hi, key) = loc => FieldFrom(t, i, end, key) = loc
  BY DEF AlikeUpTo
<1> DEFINE bad == {k \in Nat : \E i \in lo .. hi : /\ k = hi - i /\ FieldFrom(s, i, hi, key) = loc
                                                   /\ FieldFrom(t, i, end, key) # loc}
<1>1. bad = {}
  <2> SUFFICES ASSUME bad # {} PROVE FALSE
    OBVIOUS
  <2>1. PICK m \in bad : \A k \in Nat : k < m => k \notin bad
    <3>1. bad \subseteq Nat
      OBVIOUS
    <3> HIDE DEF bad
    <3> QED
      BY <3>1, LeastNat
  <2>2. PICK i \in lo .. hi : /\ m = hi - i /\ FieldFrom(s, i, hi, key) = loc
                              /\ FieldFrom(t, i, end, key) # loc
    BY <2>1
  <2>3. i \in Nat /\ lo <= i /\ i <= hi
    BY <2>2
  <2>4. ASSUME NEW j \in lo .. hi, i < j, FieldFrom(s, j, hi, key) = loc PROVE FieldFrom(t, j, end, key) = loc
    <3>1. hi - j \in Nat /\ hi - j < m
      BY <2>2, <2>3, <2>4
    <3>2. hi - j \notin bad
      BY <2>1, <3>1
    <3> QED
      BY <2>4, <3>1, <3>2
  <2> HIDE DEF bad
  <2> DEFINE a == i + 2
             v == ConsumeValue(s, a, hi)
             p == [key |-> key, pairLo |-> i, lo |-> a, hi |-> v]
             more == v < hi /\ s[v] = ","
  <2>5. /\ loc.lo \in Nat /\ loc.hi \in Nat
        /\ a <= loc.lo /\ loc.lo < loc.hi /\ loc.hi <= hi
    BY <2>2, FieldFromIsValue
  <2>6. loc = IF ~Keyed(s, i, hi) \/ v = 0 THEN NotThere
              ELSE IF s[i] = key THEN p
              ELSE IF more THEN FieldFrom(s, v + 1, hi, key) ELSE NotThere
    <3>1. FieldFrom(s, i, hi, key) = IF ~Keyed(s, i, hi) \/ v = 0 THEN NotThere
                                     ELSE IF s[i] = key THEN p
                                     ELSE IF more THEN FieldFrom(s, v + 1, hi, key) ELSE NotThere
      BY <2>3, FieldFromIs
    <3> QED
      BY <2>2, <3>1
  <2>7. ~Present(NotThere)
    BY DEF NotThere, Present
  <2>8. Keyed(s, i, hi) /\ v # 0
    BY <2>6, <2>7
  <2>9. a \in Nat /\ i + 1 < n /\ v \in Nat /\ a < v /\ v <= hi /\ a + 0 = a
    BY <2>3, <2>5, <2>8, ValueEnds
  <2>10. Same(s, t, 0, i, n) /\ Same(s, t, 0, a, n)
    BY <2>3 DEF Same
  <2>11. i <= end
    BY <2>3, <2>9
  <2> HIDE DEF a
  <2>12. Keyed(t, i, end) /\ t[i] = s[i]
    BY <2>3, <2>8, <2>9, <2>10, SameKeyed
  <2>13. v < n \/ (s[i] = key /\ IsString(s[a]) /\ v <= n)
    <3>1. CASE s[i] = key
      <4>1. p.lo = a /\ p.hi = v
        OBVIOUS
      <4> HIDE DEF p
      <4>2. loc = p
        BY <2>6, <2>8, <3>1
      <4> QED
        BY <3>1, <4>1, <4>2
    <3>2. CASE s[i] # key
      <4>0. more
        BY <2>6, <2>7, <2>8, <3>2
      <4>1. loc = FieldFrom(s, v + 1, hi, key)
        BY <2>6, <2>8, <3>2, <4>0
      <4> DEFINE k == v + 1
      <4>6. v < hi
        BY <4>0
      <4>2. k \in lo .. hi /\ v < k
        BY <2>3, <2>9, <4>6 DEF a
      <4>3. loc = FieldFrom(s, k, hi, key)
        BY <4>1
      <4> HIDE DEF k
      <4>4. k + 2 <= loc.lo
        BY <4>2, <4>3, FieldFromIsValue
      <4>5. k \in Nat
        BY <4>2
      <4> QED
        BY <2>5, <2>9, <4>2, <4>4, <4>5
    <3> QED
      BY <3>1, <3>2
  <2>14. ConsumeValue(t, a, end) = v
    BY <2>8, <2>9, <2>10, <2>13, SameFirstValue
  <2>15. FieldFrom(t, i, end, key) = IF t[i] = key THEN p
                                     ELSE IF v < end /\ t[v] = "," THEN FieldFrom(t, v + 1, end, key)
                                     ELSE NotThere
    <3>1. ConsumeValue(t, i + 2, end) = v
      BY <2>14 DEF a
    <3>2. FieldFrom(t, i, end, key) =
            IF ~Keyed(t, i, end) \/ ConsumeValue(t, i + 2, end) = 0 THEN NotThere
            ELSE IF t[i] = key
            THEN [key |-> key, pairLo |-> i, lo |-> i + 2, hi |-> ConsumeValue(t, i + 2, end)]
            ELSE IF ConsumeValue(t, i + 2, end) < end /\ t[ConsumeValue(t, i + 2, end)] = ","
            THEN FieldFrom(t, ConsumeValue(t, i + 2, end) + 1, end, key)
            ELSE NotThere
      BY <2>3, <2>11, FieldFromIs
    <3> HIDE DEF v
    <3> QED
      BY <2>8, <2>12, <3>1, <3>2 DEF a
  <2>16. CASE s[i] = key
    <3>1. loc = p
      BY <2>6, <2>8, <2>16
    <3> QED
      BY <2>2, <2>12, <2>15, <2>16, <3>1
  <2>17. CASE s[i] # key
    <3>0. more
      BY <2>6, <2>7, <2>8, <2>17
    <3> DEFINE k == v + 1
    <3>1. loc = FieldFrom(s, k, hi, key)
      BY <2>6, <2>8, <2>17, <3>0
    <3>7. v < hi
      BY <3>0
    <3>2. k \in lo .. hi /\ i < k
      BY <2>3, <2>9, <3>7 DEF a
    <3>3. FieldFrom(t, k, end, key) = loc
      BY <2>4, <3>1, <3>2
    <3>4. v < n /\ v < end
      BY <2>9, <2>13, <2>17
    <3>5. t[v] = s[v]
      <4>1. a <= v /\ v + 0 = v
        BY <2>9
      <4> QED
        BY <2>9, <2>10, <3>4, <4>1 DEF Same
    <3>6. FieldFrom(t, i, end, key) = FieldFrom(t, k, end, key)
      BY <2>12, <2>15, <2>17, <3>0, <3>4, <3>5
    <3> QED
      BY <2>2, <3>3, <3>6
  <2> QED
    BY <2>16, <2>17
<1>2. ASSUME NEW i \in lo .. hi, FieldFrom(s, i, hi, key) = loc PROVE FieldFrom(t, i, end, key) = loc
  <2>1. hi - i \in Nat
    OBVIOUS
  <2>2. hi - i \notin bad
    BY <1>1
  <2> QED
    BY <1>2, <2>1, <2>2
<1> QED
  BY <1>2

\* Text t is text s with another value where the pair mark has its own.
Around(s, t, d, lo, hi, end, mark) ==
  /\ d \in Int /\ lo \in Nat /\ hi \in Nat /\ end \in Nat /\ Further(hi, d, end)
  /\ Present(mark) /\ mark.lo \in Nat /\ mark.hi \in Nat /\ mark.lo < mark.hi /\ mark.hi <= hi
  /\ Same(s, t, 0, lo, mark.lo + 1) /\ Same(s, t, d, mark.hi, hi)
  /\ mark.lo < mark.hi + d /\ ConsumeValue(t, mark.lo, end) = mark.hi + d

\* A string is read the same although the value of another field is another
\* one, longer or shorter.
LEMMA SameFieldAround ==
  ASSUME NEW s, NEW t, NEW d, NEW lo, NEW hi, NEW end, NEW mark, Around(s, t, d, lo, hi, end, mark),
         NEW other, NEW key, key # other
  PROVE  \A i \in lo .. hi : FieldFrom(s, i, hi, other) = mark =>
            StringAt(t, FieldFrom(t, i, end, key)) = StringAt(s, FieldFrom(s, i, hi, key))
<1> SUFFICES ASSUME d \in Int, lo \in Nat, hi \in Nat, end \in Nat, Further(hi, d, end),
                    Present(mark), mark.lo \in Nat, mark.hi \in Nat, mark.lo < mark.hi, mark.hi <= hi,
                    Same(s, t, 0, lo, mark.lo + 1), Same(s, t, d, mark.hi, hi),
                    mark.lo < mark.hi + d, ConsumeValue(t, mark.lo, end) = mark.hi + d
             PROVE  \A i \in lo .. hi : FieldFrom(s, i, hi, other) = mark =>
                       StringAt(t, FieldFrom(t, i, end, key)) = StringAt(s, FieldFrom(s, i, hi, key))
  BY DEF Around
<1> DEFINE Read(i) == StringAt(s, FieldFrom(s, i, hi, key))
           ReadToo(i) == StringAt(t, FieldFrom(t, i, end, key))
           bad == {k \in Nat : \E i \in lo .. hi : /\ k = hi - i /\ FieldFrom(s, i, hi, other) = mark
                                                   /\ ReadToo(i) # Read(i)}
           n == mark.lo + 1
           e == mark.hi
           f == e + d
<1>0. n \in Nat /\ e \in Nat /\ f \in Nat /\ n <= hi /\ n <= end /\ n <= f /\ mark.lo < n
  BY DEF Further
<1>1. bad = {}
  <2> SUFFICES ASSUME bad # {} PROVE FALSE
    OBVIOUS
  <2>1. PICK m \in bad : \A k \in Nat : k < m => k \notin bad
    <3>1. bad \subseteq Nat
      OBVIOUS
    <3> HIDE DEF bad
    <3> QED
      BY <3>1, LeastNat
  <2>2. PICK i \in lo .. hi : /\ m = hi - i /\ FieldFrom(s, i, hi, other) = mark
                              /\ ReadToo(i) # Read(i)
    BY <2>1
  <2>3. i \in Nat /\ lo <= i /\ i <= hi
    BY <2>2
  <2>4. ASSUME NEW j \in lo .. hi, i < j, FieldFrom(s, j, hi, other) = mark PROVE ReadToo(j) = Read(j)
    <3>1. hi - j \in Nat /\ hi - j < m
      BY <2>2, <2>3, <2>4
    <3>2. hi - j \notin bad
      BY <2>1, <3>1
    <3> QED
      BY <2>4, <3>1, <3>2
  <2> HIDE DEF bad
  <2> DEFINE a == i + 2
             v == ConsumeValue(s, a, hi)
             w == ConsumeValue(t, a, end)
             P(k, h) == [key |-> k, pairLo |-> i, lo |-> a, hi |-> h]
             more == v < hi /\ s[v] = ","
             moreToo == w < end /\ t[w] = ","
  <2>5. a <= mark.lo
    BY <2>2, FieldFromIsValue
  <2>6. \A k : FieldFrom(s, i, hi, k) = IF ~Keyed(s, i, hi) \/ v = 0 THEN NotThere
                                        ELSE IF s[i] = k THEN P(k, v)
                                        ELSE IF more THEN FieldFrom(s, v + 1, hi, k) ELSE NotThere
    BY <2>3, FieldFromIs
  <2>7. ~Present(NotThere)
    BY DEF NotThere, Present
  <2>8. Keyed(s, i, hi) /\ v # 0
    <3>1. ~Keyed(s, i, hi) \/ v = 0 => FieldFrom(s, i, hi, other) = NotThere
      BY <2>6
    <3> QED
      BY <2>2, <2>7, <3>1
  <2>9. a \in Nat /\ i + 1 < n /\ i < n /\ v \in Nat /\ a < v /\ v <= hi /\ a + 0 = a /\ a # 0 /\ a < n
    BY <1>0, <2>3, <2>5, <2>8, ValueEnds
  <2>10. Same(s, t, 0, i, n) /\ Same(s, t, 0, a, n)
    BY <2>3 DEF Same
  <2>11. i <= end
    BY <1>0, <2>3, <2>9
  <2>12. Keyed(t, i, end) /\ t[i] = s[i]
    <3> HIDE DEF a, n
    <3> QED
      BY <1>0, <2>3, <2>8, <2>9, <2>10, SameKeyed
  <2>13. FieldFrom(t, i, end, key) = IF ~Keyed(t, i, end) \/ w = 0 THEN NotThere
                                     ELSE IF t[i] = key THEN P(key, w)
                                     ELSE IF moreToo THEN FieldFrom(t, w + 1, end, key) ELSE NotThere
    BY <2>3, <2>11, FieldFromIs
  <2>14. StringAt(s, NotThere) = "" /\ StringAt(t, NotThere) = ""
    BY DEF StringAt, NotThere, Present
  <2> HIDE DEF n
  <2>15. CASE s[i] = other
    <3>1. mark = P(other, v)
      BY <2>2, <2>6, <2>8, <2>15
    <3>2. mark.lo = a /\ mark.hi = v
      BY <3>1
    <3>3. w = f /\ v = e
      BY <3>2
    <3>4. w # 0
      BY <1>0, <2>9, <3>3
    <3> HIDE DEF a, e, P
    <3>5. CASE more
      <4>0. v < hi
        BY <3>5
      <4>6. s[v] = ","
        BY <3>5
      <4> DEFINE k == v + 1
                 g == w + 1
      <4>1. k \in e .. hi /\ k \in lo .. hi /\ k + d = g
        BY <1>0, <2>3, <2>9, <3>3, <4>0 DEF a, f
      <4>2. moreToo
        <5>1. t[v + d] = s[v]
          BY <2>9, <3>3, <4>0 DEF Same, e
        <5>2. v + d = w /\ w < end
          BY <3>3, <4>0, <2>9 DEF f, Further
        <5> QED
          BY <4>6, <5>1, <5>2
      <4>3. FieldFrom(s, i, hi, key) = FieldFrom(s, k, hi, key)
        BY <2>6, <2>8, <2>15, <3>5
      <4>4. FieldFrom(t, i, end, key) = FieldFrom(t, g, end, key)
        BY <2>12, <2>13, <2>15, <3>4, <4>2
      <4> HIDE DEF k, g
      <4>5. StringAt(t, FieldFrom(t, k + d, end, key)) = StringAt(s, FieldFrom(s, k, hi, key))
        <5>1. Same(s, t, d, e, hi) /\ e + d \in Nat
          BY <1>0 DEF e, f
        <5> QED
          BY <1>0, <4>1, <5>1, SameLastField
      <4> QED
        BY <2>2, <4>1, <4>3, <4>4, <4>5
    <3>6. CASE ~more
      <4>1. ~moreToo
        <5>1. v < hi => t[v + d] = s[v]
          BY <2>9, <3>3 DEF Same, e
        <5>2. v + d = w /\ (w < end <=> v < hi)
          BY <3>3, <2>9 DEF f, Further
        <5> QED
          BY <3>6, <5>1, <5>2
      <4>2. FieldFrom(s, i, hi, key) = NotThere
        BY <2>6, <2>8, <2>15, <3>6
      <4>3. FieldFrom(t, i, end, key) = NotThere
        BY <2>12, <2>13, <2>15, <3>4, <4>1
      <4> QED
        BY <2>2, <2>14, <4>2, <4>3
    <3> QED
      BY <3>5, <3>6
  <2>16. CASE s[i] # other
    <3>0. more
      <4>1. ~more => FieldFrom(s, i, hi, other) = NotThere
        BY <2>6, <2>8, <2>16
      <4> QED
        BY <2>2, <2>7, <4>1
    <3> DEFINE k == v + 1
    <3>1. mark = FieldFrom(s, k, hi, other)
      BY <2>2, <2>6, <2>8, <2>16, <3>0
    <3>2. v < hi
      BY <3>0
    <3>3. k \in lo .. hi /\ i < k /\ k \in Nat /\ v < k
      BY <2>3, <2>9, <3>2
    <3>4. k + 2 <= mark.lo
      <4> HIDE DEF k
      <4> QED
        BY <3>1, <3>3, FieldFromIsValue
    <3>5. v < n /\ v < end
      BY <1>0, <2>9, <3>4
    <3> HIDE DEF a
    <3>6. w = v
      BY <1>0, <2>8, <2>9, <2>10, <3>5, SameFirstValue
    <3>7. t[v] = s[v] /\ t[a] = s[a]
      <4>1. a <= v /\ v + 0 = v
        BY <2>9
      <4> HIDE DEF v
      <4> QED
        BY <2>9, <2>10, <3>5, <4>1 DEF Same
    <3>8. CASE s[i] = key
      <4>1. FieldFrom(s, i, hi, key) = P(key, v) /\ FieldFrom(t, i, end, key) = P(key, v)
        BY <2>6, <2>8, <2>9, <2>12, <2>13, <3>6, <3>8
      <4>2. StringAt(t, [key |-> key, pairLo |-> i, lo |-> a + 0, hi |-> v + 0]) =
              StringAt(s, [key |-> key, pairLo |-> i, lo |-> a, hi |-> v])
        <5>1. 0 \in Int /\ a + 0 \in Nat /\ a + 0 # 0 /\ t[a + 0] = s[a]
          BY <2>9, <3>7
        <5> HIDE DEF v
        <5> QED
          BY <2>9, <5>1, SameString
      <4>3. a + 0 = a /\ v + 0 = v
        BY <2>9
      <4> QED
        BY <2>2, <4>1, <4>2, <4>3
    <3>9. CASE s[i] # key
      <4>1. moreToo
        BY <3>0, <3>5, <3>6, <3>7
      <4>2. FieldFrom(s, i, hi, key) = FieldFrom(s, k, hi, key)
        BY <2>6, <2>8, <3>0, <3>9
      <4>3. FieldFrom(t, i, end, key) = FieldFrom(t, k, end, key)
        BY <2>8, <2>12, <2>13, <3>6, <3>9, <4>1
      <4>4. ReadToo(k) = Read(k)
        BY <2>4, <3>1, <3>3
      <4> QED
        BY <2>2, <4>2, <4>3, <4>4
    <3> QED
      BY <3>8, <3>9
  <2> QED
    BY <2>15, <2>16
<1>2. ASSUME NEW i \in lo .. hi, FieldFrom(s, i, hi, other) = mark PROVE ReadToo(i) = Read(i)
  <2>1. hi - i \in Nat
    OBVIOUS
  <2>2. hi - i \notin bad
    BY <1>1
  <2> QED
    BY <1>2, <2>1, <2>2
<1> QED
  BY <1>2

-----------------------------------------------------------------------------
(* The elements of an array, one behind the other                          *)

\* Ranges of which each is a value with its comma behind it, from a position on.
Linked(s, hi, ranges, n) == /\ s[ranges[n].hi] = ","
                            /\ ranges[n + 1].lo = ranges[n].hi + 1
Joins(s, end, rest) == Len(rest) > 0 => s[end] = ","
IsValue(s, hi, range) == range.hi = ConsumeValue(s, range.lo, hi)
Chain(s, hi, ranges, lo) ==
  /\ ranges \in Seq([lo : Nat, hi : Nat])
  /\ Len(ranges) > 0 => ranges[1].lo = lo
  /\ \A n \in 1 .. Len(ranges) : IsValue(s, hi, ranges[n])
  /\ \A n \in 1 .. Len(ranges) : n < Len(ranges) => Linked(s, hi, ranges, n)

\* One more value in front of a chain.
LEMMA LongerChain ==
  ASSUME NEW s, NEW rest, NEW i \in Nat, NEW end \in Nat, NEW hi \in Nat,
         IsValue(s, hi, [lo |-> i, hi |-> end]),
         Chain(s, hi, rest, end + 1), Joins(s, end, rest)
  PROVE  Chain(s, hi, <<[lo |-> i, hi |-> end]>> \o rest, i)
<1> DEFINE Span == [lo : Nat, hi : Nat]
           first == [lo |-> i, hi |-> end]
           all == <<first>> \o rest
<1>1. rest \in Seq(Span)
  BY DEF Chain
<1>2. first \in Span
  OBVIOUS
<1>9. first.lo = i /\ first.hi = end /\ IsValue(s, hi, first)
  OBVIOUS
<1> HIDE DEF Span, first
<1>4. /\ all \in Seq(Span) /\ Len(all) = Len(rest) + 1 /\ Len(rest) \in Nat /\ all[1] = first
      /\ \A n \in 1 .. Len(rest) : all[n + 1] = rest[n]
  BY <1>1, <1>2
<1> HIDE DEF all
<1>7. ASSUME NEW n \in 1 .. Len(all) PROVE IsValue(s, hi, all[n])
  <2>1. CASE n = 1
    BY <1>4, <1>9, <2>1
  <2>2. CASE n # 1
    <3> DEFINE k == n - 1
    <3>1. k \in 1 .. Len(rest) /\ n = k + 1
      BY <1>4, <2>2
    <3> HIDE DEF k
    <3>2. IsValue(s, hi, rest[k])
      BY <3>1 DEF Chain
    <3> QED
      BY <1>4, <3>1, <3>2
  <2> QED
    BY <2>1, <2>2
<1>8. ASSUME NEW n \in 1 .. Len(all), n < Len(all) PROVE Linked(s, hi, all, n)
  <2>1. CASE n = 1
    <3>1. 1 \in 1 .. Len(rest) /\ Len(rest) > 0
      BY <1>4, <1>8, <2>1
    <3>2. all[1 + 1] = rest[1]
      BY <1>4, <3>1
    <3>3. rest[1].lo = end + 1
      BY <3>1 DEF Chain
    <3>4. s[end] = ","
      BY <3>1 DEF Joins
    <3> QED
      BY <1>4, <1>9, <2>1, <3>2, <3>3, <3>4 DEF Linked
  <2>2. CASE n # 1
    <3> DEFINE k == n - 1
    <3>1. k \in 1 .. Len(rest) /\ n = k + 1 /\ k < Len(rest) /\ n \in 1 .. Len(rest)
      BY <1>4, <1>8, <2>2
    <3> HIDE DEF k
    <3>2. Linked(s, hi, rest, k)
      BY <3>1 DEF Chain
    <3>3. all[n] = rest[k] /\ all[n + 1] = rest[k + 1]
      BY <1>4, <3>1
    <3> QED
      BY <3>2, <3>3 DEF Linked
  <2> QED
    BY <2>1, <2>2
<1>10. Chain(s, hi, all, i)
  BY <1>4, <1>7, <1>8, <1>9 DEF Chain, Span
<1> QED
  BY <1>10 DEF all, first

\* The elements of an array are such a chain.
LEMMA ElementsAreChain ==
  ASSUME NEW s, NEW lo \in Nat, NEW hi \in Nat, ArrayElements(s, lo, hi) # Broken
  PROVE  Chain(s, hi, ArrayElements(s, lo, hi), lo + 1)
<1> DEFINE first == lo + 1
           from == CHOOSE f : f = [i \in first .. hi |-> ElementsAt(s, hi, f, i)]
           bad == {k \in Nat : \E i \in first .. hi :
                                  k = hi - i /\ from[i] # Broken /\ ~Chain(s, hi, from[i], i)}
<1>1. lo < hi /\ ArrayElements(s, lo, hi) = ElementsFrom(s, first, hi)
  BY DEF ArrayElements
<1>2. ElementsFrom(s, first, hi) = from[first]
  BY DEF ElementsFrom, ElementsAt
<1>3. first \in Nat /\ first <= hi
  BY <1>1
<1> HIDE DEF first
<1>4. from = [i \in first .. hi |-> ElementsAt(s, hi, from, i)]
  BY <1>3, ElementsLoop
<1> HIDE DEF from
<1>5. bad = {}
  <2> SUFFICES ASSUME bad # {} PROVE FALSE
    OBVIOUS
  <2>1. PICK m \in bad : \A k \in Nat : k < m => k \notin bad
    <3>1. bad \subseteq Nat
      OBVIOUS
    <3> HIDE DEF bad
    <3> QED
      BY <3>1, LeastNat
  <2>2. PICK i \in first .. hi : m = hi - i /\ from[i] # Broken /\ ~Chain(s, hi, from[i], i)
    BY <2>1
  <2>3. i \in Nat /\ from[i] = ElementsAt(s, hi, from, i)
    <3>1. i \in first .. hi
      BY <2>2
    <3>2. i \in Nat
      BY <1>3, <3>1
    <3>3. from[i] = ElementsAt(s, hi, from, i)
      BY <1>4, <3>1
    <3> QED
      BY <3>2, <3>3
  <2>4. ASSUME NEW j \in first .. hi, i < j, from[j] # Broken PROVE Chain(s, hi, from[j], j)
    <3>1. hi - j \in Nat /\ hi - j < m
      BY <1>3, <2>2, <2>4
    <3>2. hi - j \notin bad
      BY <2>1, <3>1
    <3> QED
      BY <2>4, <3>1, <3>2
  <2> HIDE DEF bad
  <2> DEFINE end == ConsumeValue(s, i, hi)
             rest == IF s[end] = "]" THEN <<>> ELSE from[end + 1]
  <2>5. end = 0 \/ (end \in Nat /\ i < end)
    BY <2>3, ValueEnds
  <2>6. from[i] = IF i < hi /\ s[i] = "]" THEN <<>>
                  ELSE IF end = 0 \/ end >= hi \/ ~(s[end] = "," \/ s[end] = "]") THEN Broken
                  ELSE IF rest = Broken THEN Broken ELSE <<[lo |-> i, hi |-> end]>> \o rest
    BY <2>3 DEF ElementsAt
  <2>10. IsValue(s, hi, [lo |-> i, hi |-> end])
    BY DEF IsValue
  <2>11. rest = <<>> \/ s[end] # "]"
    OBVIOUS
  <2> HIDE DEF end, rest
  <2>7. \A n \in Nat : Chain(s, hi, <<>>, n)
    BY DEF Chain
  <2>8. CASE from[i] = <<>>
    BY <2>2, <2>3, <2>7, <2>8
  <2>9. CASE from[i] # <<>>
    <3>1. /\ end # 0 /\ ~(end >= hi) /\ rest # Broken /\ (s[end] = "," \/ s[end] = "]")
          /\ from[i] = <<[lo |-> i, hi |-> end]>> \o rest
      BY ONLY <2>2, <2>6, <2>9
    <3>6. end # 0 /\ ~(end >= hi)
      BY <3>1
    <3>2. end \in Nat /\ i < end /\ end < hi
      BY <2>5, <3>6
    <3>3. Chain(s, hi, rest, end + 1)
      <4> USE DEF rest
      <4>1. CASE s[end] = "]"
        BY <2>7, <3>2, <4>1
      <4>2. CASE s[end] # "]"
        <5>1. end + 1 \in first .. hi /\ i < end + 1
          BY <1>3, <2>2, <3>2
        <5> QED
          BY <2>4, <3>1, <4>2, <5>1
      <4> QED
        BY <4>1, <4>2
    <3>5. Joins(s, end, rest)
      <4>1. CASE rest = <<>>
        <5>1. ~(Len(rest) > 0)
          BY <4>1
        <5> QED
          BY <5>1 DEF Joins
      <4>2. CASE rest # <<>>
        BY <2>11, <3>1, <4>2 DEF Joins
      <4> QED
        BY <4>1, <4>2
    <3>4. Chain(s, hi, from[i], i)
      BY <2>3, <2>10, <3>5, <3>1, <3>2, <3>3, LongerChain
    <3> QED
      BY <2>2, <3>4
  <2> QED
    BY <2>8, <2>9
<1>6. from[first] # Broken /\ first \in first .. hi /\ hi - first \in Nat
  BY <1>1, <1>2, <1>3
<1>7. Chain(s, hi, from[first], first)
  BY <1>5, <1>6
<1> QED
  BY <1>1, <1>2, <1>7 DEF first

-----------------------------------------------------------------------------
(* Ranges that close the brackets they open                                *)

\* A field is looked for behind the bracket of an object.
LEMMA FieldIsFrom ==
  ASSUME NEW s, NEW lo \in Nat, NEW hi \in Nat, NEW key
  PROVE  /\ lo < hi /\ s[lo] = "{" => FieldLocation(s, lo, hi, key) = FieldFrom(s, lo + 1, hi, key)
         /\ ~(lo < hi /\ s[lo] = "{") => ~Present(FieldLocation(s, lo, hi, key))
<1>1. CASE lo < hi /\ s[lo] = "{"
  BY <1>1 DEF FieldLocation, Members, FieldFrom
<1>2. CASE ~(lo < hi /\ s[lo] = "{")
  <2>1. Members(s, lo, hi).read = <<>>
    BY <1>2 DEF Members
  <2>2. Located(<<>>, key) = NotThere
    <3>1. {n \in DOMAIN <<>> : <<>>[n].key = key} = {}
      OBVIOUS
    <3> QED
      BY <3>1 DEF Located
  <2>3. ~Present(NotThere)
    BY DEF NotThere, Present
  <2> QED
    BY <1>2, <2>1, <2>2, <2>3 DEF FieldLocation
<1> QED
  BY <1>1, <1>2

\* Before a position as many brackets are closed as were opened since another.
Closes(s, lo, hi) == Depth(s, lo, hi - 1) = 0

\* Ranges that close their brackets, one behind the other, close them together.
LEMMA ClosesOn ==
  ASSUME NEW s, NEW lo \in Nat, NEW m \in Nat, NEW hi \in Nat, lo < m, m <= hi,
         Closes(s, lo, m), Closes(s, m, hi)
  PROVE  Closes(s, lo, hi)
<1> DEFINE last == hi - 1
<1>1. last \in Nat /\ m <= last + 1 /\ lo <= m
  OBVIOUS
<1> HIDE DEF last
<1>2. Depth(s, lo, last) = Depth(s, lo, m - 1) + Depth(s, m, last)
  BY <1>1, DepthAdds
<1>3. Depth(s, lo, m - 1) = 0 /\ Depth(s, m, last) = 0
  BY DEF Closes, last
<1>4. Depth(s, lo, last) = 0
  BY <1>2, <1>3
<1> QED
  BY <1>4 DEF Closes, last

IsComma(t) == t = ","

\* A comma opens nothing.
LEMMA CommaCloses ==
  ASSUME NEW s, NEW i \in Nat, IsComma(s[i]), NEW j \in Nat, Further(i, 1, j)
  PROVE  Closes(s, i, j)
<1> DEFINE k == i - 1
<1>1. Weight(s[i]) = 0
  BY DEF Weight, Opening, Closing, IsComma
<1>2. Depth(s, i, i) = Depth(s, i, k) + Weight(s[i])
  BY DepthStep
<1>3. k \in Int /\ k < i /\ i \in Int
  OBVIOUS
<1> HIDE DEF k
<1>4. Depth(s, i, k) = 0
  BY <1>3, DepthOfNone
<1>5. Depth(s, i, i) = 0
  BY <1>1, <1>2, <1>4
<1>6. j - 1 = i
  BY DEF Further
<1> QED
  BY <1>5, <1>6 DEF Closes

\* A value closes the brackets it opens.
LEMMA BracketsClose ==
  ASSUME NEW s, NEW lo \in Nat, NEW hi \in Nat, s[lo] \in Opening, ConsumeValue(s, lo, hi) # 0
  PROVE  Closes(s, lo, ConsumeValue(s, lo, hi))
  BY BracketsEnd DEF Closes

\* A run of elements and the commas between them.
EachCloses(s, els, indexes) == \A k \in indexes : Closes(s, els[k].lo, els[k].hi)

\* A run of elements closes its brackets, the commas between them too.
LEMMA RunCloses ==
  ASSUME NEW s, NEW els, NEW lo \in Nat, NEW hi \in Nat, Row(els, lo, hi), Chain(s, hi, els, lo),
         NEW indexes, EachCloses(s, els, indexes), indexes \subseteq 1 .. Len(els),
         NEW a \in 1 .. Len(els), NEW b \in 1 .. Len(els), a <= b, a .. b \subseteq indexes
  PROVE  Closes(s, els[a].lo, els[b].hi)
<1> DEFINE N == Len(els)
           bad == {k \in Nat : a <= k /\ k <= b /\ ~Closes(s, els[a].lo, els[k].hi)}
<1>0. N \in Nat /\ a \in Nat /\ b \in Nat
  BY DEF Row
<1>1. ASSUME NEW n \in 1 .. N
      PROVE  els[n].lo \in Nat /\ els[n].hi \in Nat /\ els[n].lo < els[n].hi
  <2> DEFINE Span == [lo : Nat, hi : Nat]
  <2>1. els \in Seq(Span)
    BY DEF Row
  <2> HIDE DEF Span
  <2>2. els[n] \in Span
    BY <2>1
  <2>3. els[n].lo \in Nat /\ els[n].hi \in Nat
    BY <2>2 DEF Span
  <2> QED
    BY <2>3 DEF Row
<1>2. ASSUME NEW n \in 1 .. N, a <= n, n <= b PROVE Closes(s, els[n].lo, els[n].hi)
  <2>1. n \in indexes
    BY <1>0, <1>2
  <2> QED
    BY <2>1 DEF EachCloses
<1>3. bad = {}
  <2> SUFFICES ASSUME bad # {} PROVE FALSE
    OBVIOUS
  <2>1. PICK m \in bad : \A k \in Nat : k < m => k \notin bad
    <3>1. bad \subseteq Nat
      OBVIOUS
    <3> HIDE DEF bad
    <3> QED
      BY <3>1, LeastNat
  <2>2. m \in Nat /\ a <= m /\ m <= b /\ ~Closes(s, els[a].lo, els[m].hi)
    OBVIOUS
  <2>3. CASE m = a
    BY <1>0, <1>2, <2>2, <2>3
  <2>4. CASE m # a
    <3> DEFINE k == m - 1
    <3>1. k \in 1 .. N /\ k \in Nat /\ k < m /\ a <= k /\ k <= b /\ k < N /\ k + 1 = m /\ m \in 1 .. N
      BY <1>0, <2>2, <2>4
    <3>2. k \notin bad
      BY <2>1, <3>1
    <3>3. Closes(s, els[a].lo, els[k].hi)
      BY <3>1, <3>2
    <3> HIDE DEF k, bad, N
    <3>4. Linked(s, hi, els, k)
      BY <3>1 DEF Chain, N
    <3> DEFINE c == els[k].hi
               d == els[m].lo
               e == els[m].hi
               f == els[a].lo
    <3>5. IsComma(s[c]) /\ Further(c, 1, d)
      BY <3>1, <3>4 DEF Linked, IsComma, Further
    <3>6. c \in Nat /\ d \in Nat /\ e \in Nat /\ f \in Nat /\ d < e
      BY <1>1, <3>1 DEF N
    <3>7. f < c
      <4>1. a = k => f < c
        BY <1>1, <3>1
      <4>2. a < k => els[a].hi < els[k].lo
        BY <3>1 DEF Row, N
      <4>3. /\ els[a].hi \in Nat /\ els[k].lo \in Nat /\ els[k].lo < els[k].hi /\ els[a].lo < els[a].hi
        BY <1>1, <3>1 DEF N
      <4>4. a = k \/ a < k
        BY <1>0, <3>1
      <4>5. a < k => f < c
        <5> SUFFICES ASSUME a < k PROVE els[a].lo < els[k].hi
          OBVIOUS
        <5> DEFINE g == els[a].lo
                   h == els[a].hi
                   i == els[k].lo
                   j == els[k].hi
        <5>1. g \in Nat /\ h \in Nat /\ i \in Nat /\ j \in Nat /\ g < h /\ h < i /\ i < j
          BY <3>6, <4>2, <4>3
        <5> HIDE DEF g, h, i, j
        <5>2. g < j
          BY <5>1
        <5> QED
          BY <5>2 DEF g, j
      <4> QED
        BY <4>1, <4>4, <4>5
    <3>8. Closes(s, f, c) /\ Closes(s, d, e)
      BY <1>2, <2>2, <3>1, <3>3
    <3> HIDE DEF c, d, e, f
    <3>12. c < d /\ f < d /\ d <= e /\ c <= d
      BY <3>5, <3>6, <3>7 DEF Further
    <3>9. Closes(s, c, d)
      BY <3>5, <3>6, CommaCloses
    <3>10. Closes(s, f, d)
      BY <3>6, <3>7, <3>8, <3>9, <3>12, ClosesOn
    <3>11. Closes(s, f, e)
      BY <3>6, <3>8, <3>10, <3>12, ClosesOn
    <3> QED
      BY <2>2, <3>11 DEF e, f
  <2> QED
    BY <2>3, <2>4
<1>4. b \notin bad
  BY <1>3
<1> QED
  BY <1>0, <1>4

\* So does what is cut out with them.
LEMMA CutCloses ==
  ASSUME NEW s, NEW els, NEW lo \in Nat, NEW hi \in Nat, Row(els, lo, hi), Chain(s, hi, els, lo),
         NEW indexes, EachCloses(s, els, indexes), indexes \subseteq 1 .. Len(els), indexes # 1 .. Len(els),
         NEW c \in RangesForRemoving(indexes, els)
  PROVE  Closes(s, c.lo, c.hi)
<1> DEFINE N == Len(els)
           Run(a, b) == /\ a..b \subseteq indexes
                        /\ a - 1 \notin indexes /\ b + 1 \notin indexes
           Cut(a, b) == IF a = 1 THEN [lo |-> els[a].lo, hi |-> els[b + 1].lo]
                        ELSE [lo |-> els[a - 1].hi, hi |-> els[b].hi]
<1>1. N \in Nat
  BY DEF Row
<1>2. ASSUME NEW n \in 1 .. N
      PROVE  els[n].lo \in Nat /\ els[n].hi \in Nat /\ els[n].lo < els[n].hi
  <2> DEFINE Span == [lo : Nat, hi : Nat]
  <2>1. els \in Seq(Span)
    BY DEF Row
  <2> HIDE DEF Span
  <2>2. els[n] \in Span
    BY <2>1
  <2>3. els[n].lo \in Nat /\ els[n].hi \in Nat
    BY <2>2 DEF Span
  <2> QED
    BY <2>3 DEF Row
<1>3. PICK a \in 1 .. N, b \in 1 .. N : a <= b /\ Run(a, b) /\ c = Cut(a, b)
  <2>1. PICK r \in {q \in indexes \X indexes : q[1] <= q[2] /\ Run(q[1], q[2])} : c = Cut(r[1], r[2])
    BY DEF RangesForRemoving
  <2>2. r[1] \in 1 .. N /\ r[2] \in 1 .. N
    BY <2>1
  <2> QED
    BY <2>1, <2>2
<1>4. a .. b \subseteq indexes /\ b + 1 \notin indexes /\ a \in Nat /\ b \in Nat
  BY <1>3
<1>5. Closes(s, els[a].lo, els[b].hi)
  BY <1>3, <1>4, RunCloses
<1>6. els[a].lo < els[b].hi
  <2>1. a < b => els[a].hi < els[b].lo
    BY <1>3 DEF Row
  <2>2. /\ els[a].lo \in Nat /\ els[a].hi \in Nat /\ els[b].lo \in Nat /\ els[b].hi \in Nat
        /\ els[a].lo < els[a].hi /\ els[b].lo < els[b].hi
    BY <1>2, <1>3
  <2>3. a = b \/ a < b
    BY <1>3, <1>4
  <2> QED
    BY <2>1, <2>2, <2>3
<1>7. CASE a = 1
  <2>1. b # N
    <3> SUFFICES ASSUME b = N PROVE FALSE
      OBVIOUS
    <3>1. 1 .. N \subseteq indexes
      BY <1>4, <1>7
    <3> QED
      BY <3>1
  <2>2. b < N
    BY <1>1, <1>3, <2>1
  <2>3. Linked(s, hi, els, b)
    BY <1>3, <2>2 DEF Chain
  <2> DEFINE d == els[b].hi
             e == els[b + 1].lo
             f == els[a].lo
  <2>4. c.lo = f /\ c.hi = e
    BY <1>3, <1>7
  <2>5. IsComma(s[d]) /\ Further(d, 1, e)
    BY <2>3 DEF Linked, IsComma, Further
  <2>6. d \in Nat /\ f \in Nat /\ f < d /\ Closes(s, f, d)
    BY <1>2, <1>3, <1>5, <1>6
  <2> HIDE DEF d, e, f
  <2>7. e \in Nat /\ d <= e
    BY <2>5, <2>6 DEF Further
  <2>8. Closes(s, d, e)
    BY <2>5, <2>6, <2>7, CommaCloses
  <2>9. Closes(s, f, e)
    BY <2>6, <2>7, <2>8, ClosesOn
  <2> QED
    BY <2>4, <2>9
<1>8. CASE a # 1
  <2> DEFINE k == a - 1
  <2>1. k \in 1 .. N /\ k < N /\ k + 1 = a
    BY <1>1, <1>3, <1>8
  <2>2. Linked(s, hi, els, k)
    BY <2>1 DEF Chain
  <2> DEFINE d == els[k].hi
             e == els[b].hi
             f == els[a].lo
  <2>3. c.lo = d /\ c.hi = e
    BY <1>3, <1>8
  <2>4. IsComma(s[d]) /\ Further(d, 1, f)
    BY <2>1, <2>2 DEF Linked, IsComma, Further
  <2>5. d \in Nat /\ e \in Nat /\ f < e /\ Closes(s, f, e)
    <3>1. d \in Nat
      BY <1>2, <2>1
    <3> QED
      BY <1>2, <1>3, <1>5, <1>6, <3>1
  <2>9. f \in Nat
    BY <1>2, <1>3
  <2> HIDE DEF d, e, f, k
  <2>6. f \in Nat /\ d < f /\ f <= e
    BY <2>4, <2>5, <2>9 DEF Further
  <2>7. Closes(s, d, f)
    BY <2>4, <2>5, <2>6, CommaCloses
  <2>8. Closes(s, d, e)
    BY <2>5, <2>6, <2>7, ClosesOn
  <2> QED
    BY <2>3, <2>8
<1> QED
  BY <1>7, <1>8

\* A text that opens a bracket before it closes one, and closes all of them.
Balanced(text) ==
  /\ text \in Seq({text[k] : k \in DOMAIN text})
  /\ \A k \in 0 .. Len(text) : Depth(text, 1, k) \in Nat
  /\ Depth(text, 1, Len(text)) = 0

\* A sequence is one of its own members.
LEMMA SeqOfItsOwn ==
  ASSUME NEW X, NEW text \in Seq(X)
  PROVE  text \in Seq({text[k] : k \in DOMAIN text})
<1> DEFINE n == Len(text)
           T == {text[k] : k \in DOMAIN text}
<1>1. n \in Nat /\ DOMAIN text = 1 .. n /\ text = [k \in 1 .. n |-> text[k]]
  OBVIOUS
<1>2. \A k \in 1 .. n : text[k] \in T
  BY <1>1
<1> HIDE DEF T, n
<1>3. text \in [1 .. n -> T]
  BY <1>1, <1>2
<1>4. text \in Seq(T)
  BY <1>1, <1>3, SeqDef
<1> QED
  BY <1>4 DEF T

\* The text of a cut.
LEMMA NothingIsBalanced == Balanced(<<>>)
<1> DEFINE none == <<>>
<1>1. none \in Seq({none[k] : k \in DOMAIN none}) /\ Len(none) = 0
  OBVIOUS
<1> HIDE DEF none
<1>2. Depth(none, 1, 0) = 0
  BY DepthOfNone
<1>3. Balanced(none)
  BY <1>1, <1>2 DEF Balanced
<1> QED
  BY <1>3 DEF none

\* As long as the placeholder.
LEMMA ElevenTokens ==
  ASSUME NEW T, NEW a \in T, NEW b \in T, NEW c \in T, NEW d \in T, NEW e \in T, NEW f \in T,
         NEW g \in T, NEW h \in T, NEW i \in T, NEW j \in T, NEW k \in T
  PROVE  <<a, b, c, d, e, f, g, h, i, j, k>> \in Seq(T)
  OBVIOUS

\* The text that stands for an emptied content (thinking_sanitizer.go).
LEMMA PlaceholderIsBalanced == Balanced(EmptyContentPlaceholder)
<1> DEFINE p == EmptyContentPlaceholder
           T == {p[k] : k \in DOMAIN p}
           Used == {"[", "{", "type", ":", "text", ",", "...", "}", "]"}
           D(k) == Depth(p, 1, k)
<1>1. p \in Seq(T) /\ Len(p) = 11
  <2>1. p \in Seq(Used)
    <3>1. /\ "[" \in Used /\ "{" \in Used /\ "type" \in Used /\ ":" \in Used /\ "text" \in Used
          /\ "," \in Used /\ "..." \in Used /\ "}" \in Used /\ "]" \in Used
      OBVIOUS
    <3> HIDE DEF Used
    <3> QED
      BY <3>1, ElevenTokens DEF EmptyContentPlaceholder
  <2>3. Len(p) = 11
    BY DEF EmptyContentPlaceholder
  <2> HIDE DEF p, Used
  <2>2. p \in Seq(T)
    BY <2>1, SeqOfItsOwn
  <2> QED
    BY <2>2, <2>3
<1>2. /\ Weight(p[1]) = 1 /\ Weight(p[2]) = 1 /\ Weight(p[3]) = 0 /\ Weight(p[4]) = 0 /\ Weight(p[5]) = 0
      /\ Weight(p[6]) = 0 /\ Weight(p[7]) = 0 /\ Weight(p[8]) = 0 /\ Weight(p[9]) = 0
      /\ Weight(p[10]) = 0 - 1 /\ Weight(p[11]) = 0 - 1
  <2>1. /\ p[1] = "[" /\ p[2] = "{" /\ p[3] = "type" /\ p[4] = ":" /\ p[5] = "text"
        /\ p[6] = "," /\ p[7] = "text" /\ p[8] = ":" /\ p[9] = "..." /\ p[10] = "}" /\ p[11] = "]"
    BY DEF EmptyContentPlaceholder
  <2>2. Weight("[") = 1 /\ Weight("{") = 1 /\ Weight("}") = 0 - 1 /\ Weight("]") = 0 - 1
    BY DEF Weight, Opening, Closing
  <2>3. /\ Weight("type") = 0 /\ Weight(":") = 0 /\ Weight("text") = 0 /\ Weight(",") = 0 /\ Weight("...") = 0
    BY DEF Weight, Opening, Closing
  <2> HIDE DEF p
  <2> QED
    BY <2>1, <2>2, <2>3
<1> HIDE DEF p, T
<1>3. D(0) = 0
  BY DepthOfNone
<1>4. ASSUME NEW k \in Nat, 1 <= k PROVE D(k) = D(k - 1) + Weight(p[k])
  BY <1>4, DepthStep
<1> HIDE DEF D
<1>5. /\ D(1) = D(0) + Weight(p[1]) /\ D(2) = D(1) + Weight(p[2]) /\ D(3) = D(2) + Weight(p[3])
      /\ D(4) = D(3) + Weight(p[4]) /\ D(5) = D(4) + Weight(p[5]) /\ D(6) = D(5) + Weight(p[6])
      /\ D(7) = D(6) + Weight(p[7]) /\ D(8) = D(7) + Weight(p[8]) /\ D(9) = D(8) + Weight(p[9])
      /\ D(10) = D(9) + Weight(p[10]) /\ D(11) = D(10) + Weight(p[11])
  <2>1. /\ 1 \in Nat /\ 1 <= 1 /\ 1 - 1 = 0 /\ 2 \in Nat /\ 1 <= 2 /\ 2 - 1 = 1
        /\ 3 \in Nat /\ 1 <= 3 /\ 3 - 1 = 2 /\ 4 \in Nat /\ 1 <= 4 /\ 4 - 1 = 3
        /\ 5 \in Nat /\ 1 <= 5 /\ 5 - 1 = 4 /\ 6 \in Nat /\ 1 <= 6 /\ 6 - 1 = 5
        /\ 7 \in Nat /\ 1 <= 7 /\ 7 - 1 = 6 /\ 8 \in Nat /\ 1 <= 8 /\ 8 - 1 = 7
        /\ 9 \in Nat /\ 1 <= 9 /\ 9 - 1 = 8 /\ 10 \in Nat /\ 1 <= 10 /\ 10 - 1 = 9
        /\ 11 \in Nat /\ 1 <= 11 /\ 11 - 1 = 10
    OBVIOUS
  <2> QED
    BY <1>4, <2>1
<1>6. /\ D(0) = 0 /\ D(1) = 1 /\ D(2) = 2 /\ D(3) = 2 /\ D(4) = 2 /\ D(5) = 2 /\ D(6) = 2 /\ D(7) = 2
      /\ D(8) = 2 /\ D(9) = 2 /\ D(10) = 1 /\ D(11) = 0
  BY <1>2, <1>3, <1>5
<1>7. \A k \in 0 .. 11 : D(k) \in Nat
  <2> SUFFICES ASSUME NEW k \in 0 .. 11 PROVE D(k) \in Nat
    OBVIOUS
  <2>1. \/ k = 0 \/ k = 1 \/ k = 2 \/ k = 3 \/ k = 4 \/ k = 5 \/ k = 6 \/ k = 7 \/ k = 8
        \/ k = 9 \/ k = 10 \/ k = 11
    OBVIOUS
  <2> QED
    BY <1>6, <2>1
<1>8. Balanced(p)
  BY <1>1, <1>6, <1>7 DEF Balanced, D, T
<1> QED
  BY <1>8 DEF p

\* An edit after which as many brackets are open as before.
Harmless(s, e) == Closes(s, e.lo, e.hi) /\ Balanced(e.text)

\* What is given a type begins with a bracket.
LEMMA TypedOpens ==
  ASSUME NEW s, NEW lo \in Nat, NEW hi \in Nat, StringField(s, lo, hi, "type") \in Removable
  PROVE  s[lo] \in Opening
<1>1. "" \notin Removable
  BY DEF Removable
<1>2. Present(FieldLocation(s, lo, hi, "type"))
  BY <1>1 DEF StringField, StringAt
<1>3. s[lo] = "{"
  BY <1>2, FieldIsFrom
<1> QED
  BY <1>3 DEF Opening

\* What a message loses or gets instead leaves the brackets around it closed.
LEMMA MessageEditsHarmless ==
  ASSUME NEW s, NEW range, range.lo \in Nat, range.hi \in Nat,
         Present(MessageInfo(s, range).content),
         NEW e \in MessageEdits(s, MessageInfo(s, range))
  PROVE  Harmless(s, e)
<1> DEFINE info == MessageInfo(s, range)
           content == FieldLocation(s, range.lo, range.hi, "content")
           blocks == ArrayElements(s, content.lo, content.hi)
           Type(n) == StringField(s, blocks[n].lo, blocks[n].hi, "type")
           removable == {n \in DOMAIN info.types : info.types[n] \in Removable}
           whole == [lo |-> content.lo, hi |-> content.hi, text |-> EmptyContentPlaceholder]
           cuts == RangesForRemoving(removable, blocks)
           edits == MessageEdits(s, info)
<1>1. info.content = content
  BY DEF MessageInfo
<1>2. Present(content)
  <2>1. Present(info.content)
    OBVIOUS
  <2> HIDE DEF info, content
  <2> QED
    BY <1>1, <2>1
<1>3. info.types = IF blocks = Broken THEN <<>> ELSE [n \in DOMAIN blocks |-> Type(n)]
  BY <1>2 DEF MessageInfo, BlockTypes
<1>4. edits = IF removable = {} THEN {}
              ELSE IF removable = DOMAIN blocks THEN {whole}
              ELSE {[lo |-> c.lo, hi |-> c.hi, text |-> <<>>] : c \in cuts}
  BY <1>1 DEF MessageEdits
<1>5. /\ content.lo \in Nat /\ content.hi \in Nat
      /\ range.lo < content.lo /\ content.lo < content.hi /\ content.hi <= range.hi
  BY <1>2, FieldIsInside
<1>6. content.hi = ConsumeValue(s, content.lo, range.hi)
  <2> DEFINE first == range.lo + 1
             found == FieldFrom(s, first, range.hi, "content")
  <2>1. range.lo < range.hi
    BY <1>5
  <2>2. content = found
    BY <1>2, FieldIsFrom
  <2>3. first \in Nat /\ first \in first .. range.hi
    BY <2>1
  <2> HIDE DEF first
  <2>4. Present(found) => found.hi = ConsumeValue(s, found.lo, range.hi)
    BY ONLY <2>3, range.hi \in Nat, FieldFromIsValue, ZenonT(60)
  <2> HIDE DEF found, content
  <2> QED
    BY <1>2, <2>2, <2>4
<1>7. removable # {} => blocks # Broken
  BY <1>3
<1>8. blocks # Broken => \A n \in removable : n \in DOMAIN blocks /\ Type(n) \in Removable
  BY <1>3
<1>9. removable # {} /\ e \in edits
  <2>1. removable = {} => edits = {}
    BY <1>4
  <2>2. e \in edits
    OBVIOUS
  <2> HIDE DEF edits, removable
  <2> QED
    BY ONLY <2>1, <2>2
<1> HIDE DEF info, content, edits, Type, removable
<1>10. blocks # Broken
  BY <1>7, <1>9
<1>11. s[content.lo] \in Opening
  <2>1. s[content.lo] = "["
    BY <1>10 DEF ArrayElements
  <2> QED
    BY <2>1 DEF Opening
<1>12. CASE removable = DOMAIN blocks
  <2>1. e = whole
    BY <1>4, <1>9, <1>12
  <2>2. e.lo = content.lo /\ e.hi = content.hi /\ e.text = EmptyContentPlaceholder
    BY <2>1
  <2>3. ConsumeValue(s, content.lo, range.hi) # 0
    BY <1>5, <1>6
  <2>4. Closes(s, content.lo, content.hi)
    BY <1>5, <1>6, <1>11, <2>3, BracketsClose
  <2> QED
    BY <2>2, <2>4, PlaceholderIsBalanced DEF Harmless
<1>13. CASE removable # DOMAIN blocks
  <2> DEFINE first == content.lo + 1
             last == content.hi
  <2>1. Row(blocks, first, last) /\ Chain(s, last, blocks, first) /\ first \in Nat /\ last \in Nat
    BY <1>5, <1>10, ElementsAreRow, ElementsAreChain
  <2>2. \A n \in removable : n \in DOMAIN blocks /\ Type(n) \in Removable
    BY <1>8, <1>10
  <2> HIDE DEF first, last, blocks
  <2>3. DOMAIN blocks = 1 .. Len(blocks) /\ blocks \in Seq([lo : Nat, hi : Nat])
    BY <2>1 DEF Row
  <2>4. EachCloses(s, blocks, removable)
    <3> SUFFICES ASSUME NEW n \in removable PROVE Closes(s, blocks[n].lo, blocks[n].hi)
      BY DEF EachCloses
    <3>1. n \in 1 .. Len(blocks) /\ Type(n) \in Removable
      BY <2>2, <2>3
    <3> DEFINE Span == [lo : Nat, hi : Nat]
    <3>2. blocks \in Seq(Span)
      BY <2>3
    <3> HIDE DEF Span
    <3>3. blocks[n] \in Span
      BY <3>1, <3>2
    <3>4. blocks[n].lo \in Nat /\ blocks[n].hi \in Nat
      BY <3>3 DEF Span
    <3>5. blocks[n].lo < blocks[n].hi
      BY <2>1, <3>1 DEF Row
    <3>6. blocks[n].hi = ConsumeValue(s, blocks[n].lo, last)
      BY <2>1, <3>1 DEF Chain, IsValue
    <3>7. s[blocks[n].lo] \in Opening
      BY <3>1, <3>4, TypedOpens DEF Type
    <3>8. ConsumeValue(s, blocks[n].lo, last) # 0
      BY <3>4, <3>5, <3>6
    <3> QED
      BY <2>1, <3>4, <3>6, <3>7, <3>8, BracketsClose
  <2>5. PICK c \in cuts : e = [lo |-> c.lo, hi |-> c.hi, text |-> <<>>]
    BY <1>4, <1>9, <1>13
  <2>6. e.lo = c.lo /\ e.hi = c.hi /\ e.text = <<>>
    BY <2>5
  <2>7. removable \subseteq 1 .. Len(blocks) /\ removable # 1 .. Len(blocks)
    BY <1>13, <2>2, <2>3
  <2>8. Closes(s, c.lo, c.hi)
    BY <2>1, <2>4, <2>7, CutCloses
  <2> QED
    BY <2>6, <2>8, NothingIsBalanced DEF Harmless
<1> QED
  BY <1>12, <1>13

-----------------------------------------------------------------------------
(* Pieces joined to a text                                                 *)

\* What a fold over sequences has joined at each step.
Joined(f, seqs, n) == f = [i \in 1 .. n |-> IF i = 1 THEN seqs[i] ELSE f[i - 1] \o seqs[i]]

\* It exists: otherwise there were a shortest list without one.
LEMMA JoinLoop ==
  ASSUME NEW seqs, NEW n \in Nat
  PROVE  \E f : Joined(f, seqs, n)
<1> DEFINE without == {m \in Nat : ~\E f : Joined(f, seqs, m)}
<1>1. SUFFICES ASSUME without # {} PROVE FALSE
  OBVIOUS
<1>2. PICK m \in without : \A k \in Nat : k < m => k \notin without
  BY <1>1, LeastNat
<1>3. CASE m = 0
  <2> DEFINE f == [k \in 1 .. m |-> <<>>]
  <2>1. 1 .. m = {}
    BY <1>3
  <2>2. f = [i \in 1 .. m |-> IF i = 1 THEN seqs[i] ELSE f[i - 1] \o seqs[i]]
    BY <2>1
  <2> QED
    BY <1>2, <2>2 DEF Joined
<1>4. CASE m # 0
  <2>1. m - 1 \in Nat /\ m - 1 < m
    BY <1>2, <1>4
  <2>2. PICK g : Joined(g, seqs, m - 1)
    BY <1>2, <2>1
  <2> DEFINE f == [k \in 1 .. m |-> IF k = m THEN (IF m = 1 THEN seqs[1] ELSE g[m - 1] \o seqs[m]) ELSE g[k]]
  <2>3. \A k \in 1 .. m - 1 : g[k] = IF k = 1 THEN seqs[k] ELSE g[k - 1] \o seqs[k]
    BY <2>2 DEF Joined
  <2>4. \A k \in 1 .. m : f[k] = IF k = 1 THEN seqs[k] ELSE f[k - 1] \o seqs[k]
    BY <1>2, <1>4, <2>1, <2>3
  <2>5. f = [k \in 1 .. m |-> f[k]]
    OBVIOUS
  <2> HIDE DEF f
  <2>6. Joined(f, seqs, m)
    BY <2>4, <2>5 DEF Joined
  <2> QED
    BY <1>2, <2>6
<1> QED
  BY <1>3, <1>4

\* Where the pieces of a text lie: piece i behind the first at[i - 1] tokens.
Laid(t, seqs, n, at) ==
  /\ at[0] = 0 /\ at[n] = Len(t)
  /\ \A i \in 0 .. n : at[i] \in Nat
  /\ \A i \in 1 .. n : at[i] = at[i - 1] + Len(seqs[i])
  /\ \A i \in 1 .. n : \A k \in 1 .. Len(seqs[i]) : t[at[i - 1] + k] = seqs[i][k]

\* The same for what is joined of the first pieces.
LaysAt(text, at, piece, j) ==
  /\ at[j] \in Nat /\ at[j - 1] \in Nat /\ Len(piece) \in Nat
  /\ at[j] = at[j - 1] + Len(piece)
  /\ \A k \in 1 .. Len(piece) : text[at[j - 1] + k] = piece[k]
LaidUpTo(f, at, seqs, T, i) ==
  /\ f[i] \in Seq(T)
  /\ \A j \in 1 .. i : at[j] <= at[i] /\ LaysAt(f[i], at, seqs[j], j)

\* One more piece is laid behind the others.
LEMMA LaidNext ==
  ASSUME NEW f, NEW at, NEW seqs, NEW T, NEW h \in Nat, h # 0, NEW i \in Nat, Further(h, 1, i),
         LaidUpTo(f, at, seqs, T, h), seqs[i] \in Seq(T), f[i] = f[h] \o seqs[i],
         at[h] = Len(f[h]), at[i] = Len(f[i])
  PROVE  LaidUpTo(f, at, seqs, T, i)
<1>0. i - 1 = h /\ h < i /\ h \in 1 .. h
  BY DEF Further
<1> DEFINE a == f[h]
           p == seqs[i]
           b == f[i]
           m == at[h]
           n == at[i]
<1>1. a \in Seq(T) /\ p \in Seq(T) /\ b = a \o p
  BY DEF LaidUpTo
<1>2. m = Len(a) /\ n = Len(b)
  OBVIOUS
<1> HIDE DEF a, p, b, m, n
<1>3. /\ b \in Seq(T) /\ Len(b) = Len(a) + Len(p) /\ Len(a) \in Nat /\ Len(p) \in Nat
      /\ \A q \in 1 .. Len(a) : b[q] = a[q]
      /\ \A k \in 1 .. Len(p) : b[Len(a) + k] = p[k]
  BY <1>1
<1>4. m \in Nat /\ n \in Nat /\ n = m + Len(p) /\ m <= n /\ n <= n
  BY <1>2, <1>3
<1>5. LaysAt(b, at, p, i)
  BY <1>0, <1>2, <1>3, <1>4 DEF LaysAt, m, n
<1>6. ASSUME NEW j \in 1 .. h PROVE at[j] <= n /\ LaysAt(b, at, seqs[j], j)
  <2> DEFINE c == at[j]
             g == at[j - 1]
             r == seqs[j]
  <2>1. c <= m /\ LaysAt(a, at, r, j)
    BY DEF LaidUpTo, a, m
  <2>2. /\ c \in Nat /\ g \in Nat /\ Len(r) \in Nat /\ c = g + Len(r)
        /\ \A k \in 1 .. Len(r) : a[g + k] = r[k]
    BY <2>1 DEF LaysAt
  <2> HIDE DEF c, g, r
  <2>3. c <= n
    BY <1>4, <2>1, <2>2
  <2>4. ASSUME NEW k \in 1 .. Len(r) PROVE b[g + k] = r[k]
    <3> DEFINE q == g + k
    <3>1. q \in 1 .. Len(a)
      BY <1>2, <1>4, <2>1, <2>2
    <3>2. a[q] = r[k]
      BY <2>2
    <3> HIDE DEF q
    <3>3. b[q] = a[q]
      BY <1>3, <3>1
    <3> QED
      BY <3>2, <3>3 DEF q
  <2>5. LaysAt(b, at, r, j)
    BY <2>2, <2>4 DEF LaysAt, c, g
  <2> QED
    BY <2>3, <2>5 DEF c, r
<1>7. ASSUME NEW j \in 1 .. i PROVE at[j] <= n /\ LaysAt(b, at, seqs[j], j)
  <2>1. CASE j = i
    BY <1>4, <1>5, <2>1 DEF n, p
  <2>2. CASE j # i
    <3>1. j \in 1 .. h
      BY <2>2 DEF Further
    <3> QED
      BY <1>6, <3>1
  <2> QED
    BY <2>1, <2>2
<1> QED
  BY <1>3, <1>7 DEF LaidUpTo, b, n

\* Pieces that are joined lie one behind the other.
LEMMA FlattenLays ==
  ASSUME NEW T, NEW seqs, seqs \in Seq(Seq(T))
  PROVE  /\ FlattenSeq(seqs) \in Seq(T)
         /\ \E at : Laid(FlattenSeq(seqs), seqs, Len(seqs), at)
<1> DEFINE n == Len(seqs)
           t == FlattenSeq(seqs)
<1>1. n \in Nat /\ \A i \in 1 .. n : seqs[i] \in Seq(T)
  OBVIOUS
<1>2. CASE n = 0
  <2>1. t = <<>>
    BY <1>2 DEF FlattenSeq
  <2> DEFINE at == [i \in {0} |-> 0]
  <2>2. at[0] = 0 /\ Len(t) = 0 /\ (\A i \in 0 .. n : i = 0) /\ (\A i \in 1 .. n : FALSE) /\ 0 \in Nat
    BY <1>2, <2>1
  <2>3. t \in Seq(T)
    BY <2>1
  <2> HIDE DEF t, n, at
  <2>5. at[n] = 0
    BY <1>2, <2>2
  <2>4. Laid(t, seqs, n, at)
    BY <2>2, <2>5 DEF Laid
  <2> QED
    BY <2>3, <2>4 DEF t, n
<1>3. CASE n # 0
  <2> DEFINE f == CHOOSE f : f = [i \in 1 .. n |-> IF i = 1 THEN seqs[i] ELSE f[i - 1] \o seqs[i]]
             at == [i \in 0 .. n |-> IF i = 0 THEN 0 ELSE Len(f[i])]
             bad == {i \in Nat : i \in 1 .. n /\ ~LaidUpTo(f, at, seqs, T, i)}
  <2>1. t = f[n]
    BY <1>3, Zenon DEF FlattenSeq
  <2>2. Joined(f, seqs, n)
    BY <1>1, JoinLoop DEF Joined
  <2> HIDE DEF f, t, n
  <2>3. \A i \in 1 .. n : f[i] = IF i = 1 THEN seqs[i] ELSE f[i - 1] \o seqs[i]
    BY <2>2 DEF Joined
  <2>4. at[0] = 0 /\ \A i \in 1 .. n : at[i] = Len(f[i])
    BY <1>1
  <2> HIDE DEF at
  <2>5. bad = {}
    <3> SUFFICES ASSUME bad # {} PROVE FALSE
      OBVIOUS
    <3>1. PICK i \in bad : \A k \in Nat : k < i => k \notin bad
      <4>1. bad \subseteq Nat
        OBVIOUS
      <4> HIDE DEF bad
      <4> QED
        BY <4>1, LeastNat
    <3>2. i \in Nat /\ i \in 1 .. n /\ ~LaidUpTo(f, at, seqs, T, i)
      OBVIOUS
    <3>3. CASE i = 1
      <4> DEFINE p == seqs[1]
      <4>1. f[1] = p /\ p \in Seq(T) /\ at[1] = Len(f[1])
        BY <1>1, <2>3, <2>4, <3>2, <3>3
      <4> HIDE DEF p
      <4>2. /\ Len(p) \in Nat /\ at[1] = Len(p) /\ at[1] = 0 + Len(p) /\ at[1] <= at[1] /\ at[1] \in Nat
            /\ \A k \in 1 .. Len(p) : p[0 + k] = p[k]
        BY <4>1
      <4>3. LaysAt(p, at, p, 1)
        <5>1. 1 - 1 = 0 /\ 0 \in Nat
          OBVIOUS
        <5> QED
          BY <2>4, <4>2, <5>1 DEF LaysAt
      <4>4. \A j \in 1 .. 1 : j = 1
        OBVIOUS
      <4>5. LaidUpTo(f, at, seqs, T, 1)
        BY <4>1, <4>2, <4>3, <4>4 DEF LaidUpTo, p
      <4> QED
        BY <3>2, <3>3, <4>5
    <3>4. CASE i # 1
      <4> DEFINE h == i - 1
      <4>1. h \in 1 .. n /\ h \in Nat /\ h < i /\ h # 0 /\ Further(h, 1, i)
        BY <1>1, <3>2, <3>4 DEF Further
      <4>2. h \notin bad
        BY <3>1, <4>1
      <4>3. LaidUpTo(f, at, seqs, T, h)
        BY <4>1, <4>2
      <4>4. f[i] = f[h] \o seqs[i] /\ seqs[i] \in Seq(T)
        BY <1>1, <2>3, <3>2, <3>4
      <4>5. at[h] = Len(f[h]) /\ at[i] = Len(f[i])
        BY <2>4, <3>2, <4>1
      <4> HIDE DEF bad, h
      <4>6. LaidUpTo(f, at, seqs, T, i)
        BY <3>2, <4>1, <4>3, <4>4, <4>5, LaidNext
      <4> QED
        BY <3>2, <4>6
    <3> QED
      BY <3>3, <3>4
  <2>6. n \in Nat /\ n \in 1 .. n
    BY <1>1, <1>3
  <2>7. LaidUpTo(f, at, seqs, T, n)
    <3>1. n \notin bad
      BY <2>5
    <3> QED
      BY <2>6, <3>1
  <2> HIDE DEF bad
  <2>8. at[n] = Len(t) /\ at[0] = 0
    BY <2>1, <2>4, <2>6
  <2>9. \A i \in 0 .. n : at[i] \in Nat
    <3> SUFFICES ASSUME NEW i \in 0 .. n PROVE at[i] \in Nat
      OBVIOUS
    <3>1. i = 0 \/ i \in 1 .. n
      BY <2>6
    <3>2. i \in 1 .. n => at[i] \in Nat
      BY <2>7 DEF LaidUpTo, LaysAt
    <3> QED
      BY <2>8, <3>1, <3>2
  <2>10. Laid(t, seqs, n, at)
    BY <2>1, <2>7, <2>8, <2>9 DEF Laid, LaidUpTo, LaysAt
  <2>11. t \in Seq(T)
    BY <2>1, <2>7 DEF LaidUpTo
  <2> QED
    BY <2>10, <2>11 DEF t, n
<1> QED
  BY <1>2, <1>3

-----------------------------------------------------------------------------
(* The text that edits leave                                               *)

\* What an edited text has in place of one token of the text, or behind them.
SpliceAt(s, edits, p) ==
  LET here == {e \in edits : e.lo = p}
      in == {e \in edits : e.lo <= p /\ p < e.hi}
  IN  (IF here = {} THEN <<>> ELSE (CHOOSE e \in here : TRUE).text)
      \o (IF p > Len(s) \/ in # {} THEN <<>> ELSE <<s[p]>>)
Pieces(s, edits) == [p \in 1 .. Len(s) + 1 |-> SpliceAt(s, edits, p)]
Begun(edits, p) == \E e \in edits : e.lo = p
Within(edits, p) == \E e \in edits : e.lo <= p /\ p < e.hi

\* The texts of edits and the text they change have these tokens.
Writes(edits, T) == \A e \in edits : e.text \in Seq(T)
TokensIn(s, T) == \A q \in 1 .. Len(s) : s[q] \in T

\* Nothing joined to a text.
LEMMA NothingJoined ==
  ASSUME NEW T, NEW p \in Seq(T)
  PROVE  p \o <<>> = p /\ <<>> \o p = p
  BY ConcatEmptySeq

\* What is laid down for a position is a text.
LEMMA PieceIsText ==
  ASSUME NEW s, Len(s) \in Nat, NEW edits, NEW T, Writes(edits, T), TokensIn(s, T),
         NEW p \in 1 .. Len(s) + 1
  PROVE  SpliceAt(s, edits, p) \in Seq(T)
<1> DEFINE here == {e \in edits : e.lo = p}
           in == {e \in edits : e.lo <= p /\ p < e.hi}
           a == IF here = {} THEN <<>> ELSE (CHOOSE e \in here : TRUE).text
           b == IF p > Len(s) \/ in # {} THEN <<>> ELSE <<s[p]>>
<1>1. SpliceAt(s, edits, p) = a \o b
  BY DEF SpliceAt
<1>2. a \in Seq(T)
  <2>1. CASE here = {}
    BY <2>1
  <2>2. CASE here # {}
    <3>1. (CHOOSE e \in here : TRUE) \in edits
      BY <2>2
    <3>2. (CHOOSE e \in here : TRUE).text \in Seq(T)
      BY <3>1 DEF Writes
    <3> QED
      BY <2>2, <3>2
  <2> QED
    BY <2>1, <2>2
<1>3. b \in Seq(T)
  <2>1. CASE p > Len(s) \/ in # {}
    BY <2>1
  <2>2. CASE ~(p > Len(s) \/ in # {})
    <3>1. p \in 1 .. Len(s)
      BY <2>2
    <3>2. s[p] \in T
      BY <3>1 DEF TokensIn
    <3> QED
      BY <2>2, <3>2
  <2> QED
    BY <2>1, <2>2
<1> HIDE DEF a, b
<1>4. a \o b \in Seq(T)
  BY <1>2, <1>3
<1> QED
  BY <1>1, <1>4

\* A spliced text lies there piece by piece (ApplyReplacements).
LEMMA SpliceLays ==
  ASSUME NEW s, Len(s) \in Nat, NEW edits, NEW T, Writes(edits, T), TokensIn(s, T)
  PROVE  /\ Splice(s, edits) \in Seq(T)
         /\ \E at : Laid(Splice(s, edits), Pieces(s, edits), Len(s) + 1, at)
<1> DEFINE n == Len(s) + 1
           pieces == Pieces(s, edits)
<1>1. Splice(s, edits) = FlattenSeq(pieces)
  BY DEF Splice, Pieces, SpliceAt
<1>2. n \in Nat /\ pieces = [p \in 1 .. n |-> SpliceAt(s, edits, p)]
  BY DEF Pieces
<1>3. \A p \in 1 .. n : SpliceAt(s, edits, p) \in Seq(T)
  BY PieceIsText
<1> DEFINE U == Seq(T)
<1> HIDE DEF n, pieces
<1>4. pieces \in Seq(U) /\ Len(pieces) = n
  <2>1. \A p \in 1 .. n : SpliceAt(s, edits, p) \in U
    BY <1>3
  <2> HIDE DEF U
  <2>2. pieces \in [1 .. n -> U]
    BY <1>2, <2>1
  <2>3. pieces \in Seq(U)
    BY <1>2, <2>2, SeqDef
  <2> QED
    BY <1>2, <2>2, <2>3
<1>5. FlattenSeq(pieces) \in Seq(T) /\ \E at : Laid(FlattenSeq(pieces), pieces, Len(pieces), at)
  BY <1>4, FlattenLays
<1> QED
  BY <1>1, <1>4, <1>5 DEF n, pieces

\* A token outside the edits is itself.
LEMMA PieceKept ==
  ASSUME NEW s, Len(s) \in Nat, NEW edits, NEW p \in 1 .. Len(s), ~Begun(edits, p), ~Within(edits, p)
  PROVE  SpliceAt(s, edits, p) = <<s[p]>>
<1> DEFINE here == {e \in edits : e.lo = p}
           in == {e \in edits : e.lo <= p /\ p < e.hi}
<1>1. here = {}
  BY DEF Begun
<1>2. in = {}
  BY DEF Within
<1>3. ~(p > Len(s))
  OBVIOUS
<1>4. SpliceAt(s, edits, p) = (IF here = {} THEN <<>> ELSE (CHOOSE e \in here : TRUE).text)
                              \o (IF p > Len(s) \/ in # {} THEN <<>> ELSE <<s[p]>>)
  BY DEF SpliceAt
<1> HIDE DEF here, in
<1>5. SpliceAt(s, edits, p) = <<>> \o <<s[p]>>
  BY <1>1, <1>2, <1>3, <1>4
<1>6. <<s[p]>> \in Seq({s[p]})
  OBVIOUS
<1> QED
  BY <1>5, <1>6, NothingJoined

\* Behind the last token there is nothing.
LEMMA PieceBehind ==
  ASSUME NEW s, Len(s) \in Nat, NEW edits, ~Begun(edits, Len(s) + 1)
  PROVE  SpliceAt(s, edits, Len(s) + 1) = <<>>
<1> DEFINE p == Len(s) + 1
           here == {e \in edits : e.lo = p}
           in == {e \in edits : e.lo <= p /\ p < e.hi}
<1>1. here = {}
  BY DEF Begun
<1>3. p > Len(s)
  OBVIOUS
<1>4. SpliceAt(s, edits, p) = (IF here = {} THEN <<>> ELSE (CHOOSE e \in here : TRUE).text)
                              \o (IF p > Len(s) \/ in # {} THEN <<>> ELSE <<s[p]>>)
  BY DEF SpliceAt
<1> HIDE DEF here, in, p
<1>5. SpliceAt(s, edits, p) = <<>> \o <<>>
  BY <1>1, <1>3, <1>4
<1>6. <<>> \in Seq({})
  OBVIOUS
<1>7. SpliceAt(s, edits, p) = <<>>
  BY <1>5, <1>6, NothingJoined
<1> QED
  BY <1>7 DEF p

\* Where an edit begins its text is, and nothing where it goes on.
LEMMA PieceEdited ==
  ASSUME NEW s, NEW edits, NEW lo, NEW hi, InPlace(edits, lo, hi), NEW T, Writes(edits, T),
         NEW e \in edits
  PROVE  /\ SpliceAt(s, edits, e.lo) = e.text
         /\ \A p \in Nat : e.lo < p /\ p < e.hi => SpliceAt(s, edits, p) = <<>>
<1>1. e.lo \in Nat /\ e.hi \in Nat /\ e.lo < e.hi /\ e.lo <= e.lo
  BY DEF InPlace
<1>2. ASSUME NEW g \in edits, NEW p \in Nat, e.lo <= p, p < e.hi, g.lo <= p, p < g.hi PROVE g = e
  <2> SUFFICES ASSUME g # e PROVE FALSE
    OBVIOUS
  <2>1. g.lo \in Nat /\ g.hi \in Nat /\ (g.hi <= e.lo \/ e.hi <= g.lo)
    BY DEF InPlace
  <2> QED
    BY <1>1, <1>2, <2>1
<1>3. \A g \in edits : g.lo \in Nat /\ g.hi \in Nat /\ g.lo < g.hi /\ g.lo <= g.lo
  BY DEF InPlace
<1> DEFINE Here(p) == {g \in edits : g.lo = p}
           In(p) == {g \in edits : g.lo <= p /\ p < g.hi}
<1>4. \A p : SpliceAt(s, edits, p) = (IF Here(p) = {} THEN <<>> ELSE (CHOOSE g \in Here(p) : TRUE).text)
                                     \o (IF p > Len(s) \/ In(p) # {} THEN <<>> ELSE <<s[p]>>)
  BY DEF SpliceAt
<1>5. Here(e.lo) = {e} /\ In(e.lo) # {}
  <2>1. ASSUME NEW g \in edits, g.lo = e.lo PROVE g = e
    <3>1. g.lo <= e.lo /\ e.lo < g.hi
      BY <1>3, <2>1
    <3> QED
      BY <1>1, <1>2, <3>1
  <2>2. e \in In(e.lo)
    BY <1>1
  <2> QED
    BY <2>1, <2>2
<1>6. ASSUME NEW p \in Nat, e.lo < p, p < e.hi PROVE Here(p) = {} /\ In(p) # {}
  <2>0. e.lo <= p
    BY <1>1, <1>6
  <2>1. ASSUME NEW g \in edits, g.lo = p PROVE FALSE
    <3>1. g.lo <= p /\ p < g.hi
      BY <1>3, <2>1
    <3>2. g = e
      BY <1>2, <1>6, <2>0, <3>1
    <3> QED
      BY <1>1, <1>6, <2>1, <3>2
  <2>2. e \in In(p)
    BY <1>6, <2>0
  <2> QED
    BY <2>1, <2>2
<1> HIDE DEF Here, In
<1>7. SpliceAt(s, edits, e.lo) = e.text \o <<>>
  <2>1. (CHOOSE g \in Here(e.lo) : TRUE) = e
    BY <1>5
  <2> QED
    BY <1>4, <1>5, <2>1
<1>8. e.text \in Seq(T)
  BY DEF Writes
<1>9. e.text \o <<>> = e.text
  BY <1>8, NothingJoined
<1>10. <<>> \o <<>> = <<>>
  <2>1. <<>> \in Seq({})
    OBVIOUS
  <2> QED
    BY <2>1, NothingJoined
<1>11. ASSUME NEW p \in Nat, e.lo < p, p < e.hi PROVE SpliceAt(s, edits, p) = <<>>
  BY <1>4, <1>6, <1>10, <1>11
<1> QED
  BY <1>7, <1>9, <1>11

\* A text as its edits leave it, and where each of its tokens came to lie.
Edited(s, edits, t, at) == Laid(t, Pieces(s, edits), Len(s) + 1, at)

\* Where the piece of a position lies.
LEMMA PieceLies ==
  ASSUME NEW s, Len(s) \in Nat, NEW edits, NEW t, NEW at, Edited(s, edits, t, at),
         NEW p \in 1 .. Len(s) + 1, NEW piece, SpliceAt(s, edits, p) = piece
  PROVE  /\ at[p - 1] \in Nat /\ at[p] \in Nat
         /\ at[p] = at[p - 1] + Len(piece)
         /\ \A k \in 1 .. Len(piece) : t[at[p - 1] + k] = piece[k]
<1> DEFINE n == Len(s) + 1
<1>1. p - 1 \in 0 .. n /\ p \in 0 .. n /\ p \in 1 .. n
  OBVIOUS
<1>2. Pieces(s, edits)[p] = piece
  BY DEF Pieces
<1>3. Laid(t, Pieces(s, edits), n, at)
  BY DEF Edited
<1> HIDE DEF n
<1> QED
  BY <1>1, <1>2, <1>3 DEF Laid

\* The piece of a token that no edit touches.
LEMMA LaidKept ==
  ASSUME NEW s, Len(s) \in Nat, NEW edits, NEW t, NEW at, Edited(s, edits, t, at),
         NEW p \in 1 .. Len(s), ~Begun(edits, p), ~Within(edits, p)
  PROVE  /\ at[p - 1] \in Nat /\ at[p] \in Nat
         /\ at[p] = at[p - 1] + 1
         /\ t[at[p]] = s[p]
<1> DEFINE piece == <<s[p]>>
<1>1. SpliceAt(s, edits, p) = piece
  BY PieceKept
<1>2. Len(piece) = 1 /\ piece[1] = s[p]
  OBVIOUS
<1>3. p \in 1 .. Len(s) + 1
  OBVIOUS
<1> HIDE DEF piece
<1>4. /\ at[p - 1] \in Nat /\ at[p] \in Nat
      /\ at[p] = at[p - 1] + Len(piece)
      /\ \A k \in 1 .. Len(piece) : t[at[p - 1] + k] = piece[k]
  BY <1>1, <1>3, PieceLies
<1> QED
  BY <1>2, <1>4

\* The text of an edit, and nothing of the range it replaces.
LEMMA LaidEdited ==
  ASSUME NEW s, Len(s) \in Nat, NEW edits, NEW t, NEW at, Edited(s, edits, t, at),
         NEW lo, NEW hi \in Nat, hi <= Len(s) + 1, 1 <= lo, lo \in Nat,
         InPlace(edits, lo, hi), NEW T, Writes(edits, T), NEW e \in edits
  PROVE  /\ at[e.lo - 1] \in Nat /\ at[e.lo] \in Nat /\ Len(e.text) \in Nat
         /\ at[e.lo] = at[e.lo - 1] + Len(e.text)
         /\ Same(e.text, t, at[e.lo - 1], 1, Len(e.text) + 1)
         /\ \A p \in Nat : e.lo < p /\ p < e.hi => at[p] = at[p - 1]
<1> DEFINE a == e.lo
           b == e.hi
           text == e.text
<1>1. a \in Nat /\ b \in Nat /\ lo <= a /\ a < b /\ b <= hi
  BY DEF InPlace
<1>2. text \in Seq(T)
  BY DEF Writes
<1>3. /\ SpliceAt(s, edits, a) = text
      /\ \A p \in Nat : a < p /\ p < b => SpliceAt(s, edits, p) = <<>>
  BY PieceEdited
<1> HIDE DEF a, b, text
<1>4. a \in 1 .. Len(s) + 1 /\ \A p \in Nat : a < p /\ p < b => p \in 1 .. Len(s) + 1
  BY <1>1
<1>5. /\ at[a - 1] \in Nat /\ at[a] \in Nat
      /\ at[a] = at[a - 1] + Len(text)
      /\ \A k \in 1 .. Len(text) : t[at[a - 1] + k] = text[k]
  BY <1>3, <1>4, PieceLies
<1>6. Len(text) \in Nat
  BY <1>2
<1>7. Same(text, t, at[a - 1], 1, Len(text) + 1)
  <2> DEFINE m == at[a - 1]
  <2> SUFFICES ASSUME NEW q \in Nat, 1 <= q, q < Len(text) + 1 PROVE t[q + m] = text[q]
    BY DEF Same
  <2>1. q \in 1 .. Len(text)
    BY <1>6
  <2>2. m \in Nat
    BY <1>5
  <2>3. t[m + q] = text[q]
    BY <1>5, <2>1
  <2> HIDE DEF m
  <2>4. m + q = q + m
    BY <2>2
  <2> QED
    BY <2>3, <2>4
<1>8. ASSUME NEW p \in Nat, a < p, p < b PROVE at[p] = at[p - 1]
  <2>1. /\ at[p - 1] \in Nat /\ at[p] \in Nat
        /\ at[p] = at[p - 1] + Len(<<>>)
    BY <1>3, <1>4, <1>8, PieceLies
  <2>2. Len(<<>>) = 0
    OBVIOUS
  <2> QED
    BY <2>1, <2>2
<1> QED
  BY <1>5, <1>6, <1>7, <1>8 DEF a, b, text

\* Where an edited text ends.
LEMMA LaidBehind ==
  ASSUME NEW s, Len(s) \in Nat, NEW edits, NEW t, NEW at, Edited(s, edits, t, at), ~Begun(edits, Len(s) + 1)
  PROVE  at[0] = 0 /\ Len(t) = at[Len(s)] /\ Len(t) \in Nat
<1> DEFINE n == Len(s) + 1
           N == Len(s)
<1>1. at[0] = 0 /\ at[n] = Len(t)
  BY DEF Edited, Laid
<1>2. n \in 1 .. Len(s) + 1 /\ n - 1 = N
  OBVIOUS
<1>3. SpliceAt(s, edits, n) = <<>>
  BY PieceBehind
<1> HIDE DEF n, N
<1>4. /\ at[n - 1] \in Nat /\ at[n] \in Nat
      /\ at[n] = at[n - 1] + Len(<<>>)
  BY <1>2, <1>3, PieceLies
<1>5. Len(<<>>) = 0
  OBVIOUS
<1>6. at[n] = at[N] /\ at[n] \in Nat
  BY <1>2, <1>4, <1>5
<1> QED
  BY <1>1, <1>6 DEF N

\* A part that no edit touches is there as it is.
Clear(edits, i, n) == \A p \in Nat : i <= p /\ p < n => ~Begun(edits, p) /\ ~Within(edits, p)

\* Tokens that no edit touches keep their order and distance.
LEMMA KeptPart ==
  ASSUME NEW s, Len(s) \in Nat, NEW edits, NEW t, NEW at, Edited(s, edits, t, at),
         NEW i \in Nat, 1 <= i, NEW n \in Nat, n <= Len(s) + 1, Clear(edits, i, n),
         NEW d \in Int, Further(i - 1, d, at[i - 1])
  PROVE  /\ Same(s, t, d, i, n)
         /\ \A p \in Nat : i - 1 <= p /\ p < n => at[p] = p + d
<1> DEFINE bad == {p \in Nat : i - 1 <= p /\ p < n /\ at[p] # p + d}
<1>1. ASSUME NEW p \in Nat, i <= p, p < n
      PROVE  /\ at[p - 1] \in Nat /\ at[p] \in Nat
             /\ at[p] = at[p - 1] + 1
             /\ t[at[p]] = s[p]
  <2>1. p \in 1 .. Len(s) /\ ~Begun(edits, p) /\ ~Within(edits, p)
    BY <1>1 DEF Clear
  <2> QED
    BY <2>1, LaidKept
<1>2. bad = {}
  <2> SUFFICES ASSUME bad # {} PROVE FALSE
    OBVIOUS
  <2>1. PICK p \in bad : \A k \in Nat : k < p => k \notin bad
    <3>1. bad \subseteq Nat
      OBVIOUS
    <3> HIDE DEF bad
    <3> QED
      BY <3>1, LeastNat
  <2>2. p \in Nat /\ i - 1 <= p /\ p < n /\ at[p] # p + d
    OBVIOUS
  <2>3. CASE p = i - 1
    BY <2>2, <2>3 DEF Further
  <2>4. CASE p # i - 1
    <3> DEFINE k == p - 1
    <3>1. k \in Nat /\ k < p /\ i - 1 <= k /\ k < n /\ i <= p
      BY <2>2, <2>4
    <3>2. k \notin bad
      BY <2>1, <3>1
    <3>3. at[k] = k + d
      BY <3>1, <3>2
    <3>4. at[p] = at[k] + 1
      BY <1>1, <2>2, <3>1
    <3>5. at[p] = p + d
      BY <2>2, <3>3, <3>4
    <3> QED
      BY <2>2, <3>5
  <2> QED
    BY <2>3, <2>4
<1>3. \A p \in Nat : i - 1 <= p /\ p < n => at[p] = p + d
  BY <1>2
<1> HIDE DEF bad
<1>4. ASSUME NEW p \in Nat, i <= p, p < n PROVE t[p + d] = s[p]
  <2>1. i - 1 <= p
    BY <1>4
  <2>2. at[p] = p + d
    BY <1>3, <1>4, <2>1
  <2>3. t[at[p]] = s[p]
    BY <1>1, <1>4
  <2> QED
    BY <2>2, <2>3
<1> QED
  BY <1>3, <1>4 DEF Same

-----------------------------------------------------------------------------
(* How many brackets are open in an edited text                            *)

\* Until its end a bracket is open.
LEMMA OpenWithin ==
  ASSUME NEW s, NEW lo \in Nat, NEW last \in Nat, s[lo] \in Opening,
         \A j \in Nat : lo <= j /\ j < last => Depth(s, lo, j) # 0
  PROVE  \A j \in Nat : lo <= j /\ j < last => Depth(s, lo, j) >= 1
<1> DEFINE bad == {j \in Nat : lo <= j /\ j < last /\ ~(Depth(s, lo, j) >= 1)}
<1>1. bad = {}
  <2> SUFFICES ASSUME bad # {} PROVE FALSE
    OBVIOUS
  <2>1. PICK j \in bad : \A k \in Nat : k < j => k \notin bad
    <3>1. bad \subseteq Nat
      OBVIOUS
    <3> HIDE DEF bad
    <3> QED
      BY <3>1, LeastNat
  <2>2. j \in Nat /\ lo <= j /\ j < last /\ ~(Depth(s, lo, j) >= 1)
    OBVIOUS
  <2> DEFINE k == j - 1
  <2>3. Depth(s, lo, j) = Depth(s, lo, k) + Weight(s[j]) /\ Depth(s, lo, k) \in Int
    BY <2>2, DepthStep
  <2>4. CASE j = lo
    <3>1. Weight(s[lo]) = 1
      BY DEF Weight
    <3>2. k \in Int /\ k < lo /\ lo \in Int
      BY <2>2, <2>4
    <3>5. Depth(s, lo, k) = 0
      <4> HIDE DEF k
      <4> QED
        BY <3>2, DepthOfNone
    <3> HIDE DEF k
    <3>3. Depth(s, lo, lo) = 0 + 1
      BY <2>3, <2>4, <3>1, <3>5
    <3>4. Depth(s, lo, j) >= 1
      BY <2>4, <3>3
    <3> QED
      BY <2>2, <3>4
  <2>5. CASE j # lo
    <3>1. k \in Nat /\ lo <= k /\ k < j /\ k < last
      BY <2>2, <2>5
    <3>2. k \notin bad
      BY <2>1, <3>1
    <3>3. Depth(s, lo, k) >= 1
      BY <3>1, <3>2
    <3>4. Depth(s, lo, j) # 0
      BY <2>2
    <3>5. Weight(s[j]) \in {0 - 1, 0, 1}
      BY DEF Weight
    <3> HIDE DEF k, bad
    <3>6. Depth(s, lo, j) >= 1
      BY <2>3, <3>3, <3>4, <3>5
    <3> QED
      BY <2>2, <3>6
  <2> QED
    BY <2>4, <2>5
<1> QED
  BY <1>1

\* How many brackets an edited text has open where the first tokens of the
\* text came to an end: as many as the text has, or had where the edit began.
Grown(s, edits, t, at, lo, p) ==
  /\ at[p] \in Nat /\ lo <= at[p]
  /\ ~Within(edits, p) => Depth(t, lo, at[p]) = Depth(s, lo, p)
  /\ \A e \in edits : e.lo <= p /\ p < e.hi => Depth(t, lo, at[p]) = Depth(s, lo, e.lo - 1)
  /\ \A q \in Nat : lo <= q /\ q <= at[p] => Depth(t, lo, q) >= 1

\* Behind an edit they are as many again.
LEMMA DepthBehind ==
  ASSUME NEW s, NEW edits, NEW t, NEW at, NEW lo \in Nat, NEW k \in Nat, lo <= k,
         Grown(s, edits, t, at, lo, k),
         \A e \in edits : e.lo \in Nat /\ lo < e.lo /\ Harmless(s, e),
         \A e \in edits : e.lo <= k /\ k < e.hi => e.hi = k + 1
  PROVE  Depth(t, lo, at[k]) = Depth(s, lo, k)
<1>1. CASE ~Within(edits, k)
  BY <1>1 DEF Grown
<1>2. CASE Within(edits, k)
  <2>1. PICK e \in edits : e.lo <= k /\ k < e.hi
    BY <1>2 DEF Within
  <2>2. Depth(t, lo, at[k]) = Depth(s, lo, e.lo - 1)
    BY <2>1 DEF Grown
  <2>3. e.hi = k + 1
    BY <2>1
  <2>4. (k + 1) - 1 = k
    OBVIOUS
  <2>5. Depth(s, e.lo, e.hi - 1) = 0
    BY DEF Harmless, Closes
  <2>6. Depth(s, e.lo, k) = 0
    BY <2>3, <2>4, <2>5
  <2> DEFINE a == e.lo
  <2>7. a \in Nat /\ lo <= a /\ a <= k + 1
    BY <2>1
  <2> HIDE DEF a
  <2>8. Depth(s, lo, k) = Depth(s, lo, a - 1) + Depth(s, a, k)
    BY <2>7, DepthAdds
  <2>9. Depth(s, lo, a - 1) \in Int
    BY <2>7, DepthStep
  <2> QED
    BY <2>2, <2>6, <2>8, <2>9 DEF a
<1> QED
  BY <1>1, <1>2

\* One more token that no edit touches.
LEMMA GrowKept ==
  ASSUME NEW s, NEW edits, NEW t, NEW at, NEW lo \in Nat, NEW k \in Nat, lo <= k, NEW p \in Nat, Further(k, 1, p),
         Grown(s, edits, t, at, lo, k), Depth(t, lo, at[k]) = Depth(s, lo, k),
         NEW m \in Nat, Further(at[k], 1, m), at[p] = m, t[m] = s[p]
  PROVE  /\ Depth(t, lo, m) = Depth(s, lo, p)
         /\ ~Within(edits, p) /\ Depth(s, lo, p) >= 1 => Grown(s, edits, t, at, lo, p)
<1> DEFINE a == at[k]
<1>1. /\ a \in Nat /\ lo <= a
      /\ \A q \in Nat : lo <= q /\ q <= a => Depth(t, lo, q) >= 1
  BY DEF Grown
<1>2. Depth(t, lo, a) = Depth(s, lo, k) /\ Further(a, 1, m)
  OBVIOUS
<1> HIDE DEF a
<1>3. m - 1 = a /\ p - 1 = k /\ lo <= m /\ lo <= p
  BY <1>1, <1>2 DEF Further
<1>4. /\ Depth(t, lo, m) = Depth(t, lo, m - 1) + Weight(t[m])
      /\ Depth(s, lo, p) = Depth(s, lo, p - 1) + Weight(s[p])
  BY <1>3, DepthStep
<1>5. Depth(t, lo, m) = Depth(s, lo, p)
  BY <1>2, <1>3, <1>4
<1>6. ASSUME ~Within(edits, p), Depth(s, lo, p) >= 1 PROVE Grown(s, edits, t, at, lo, p)
  <2>1. ASSUME NEW q \in Nat, lo <= q, q <= m PROVE Depth(t, lo, q) >= 1
    <3>1. q = m \/ q <= a
      BY <1>1, <1>2, <2>1 DEF Further
    <3>2. CASE q = m
      BY <1>5, <1>6, <3>2
    <3>3. CASE q <= a
      BY <1>1, <2>1, <3>3
    <3> QED
      BY <3>1, <3>2, <3>3
  <2>2. \A e \in edits : ~(e.lo <= p /\ p < e.hi)
    BY <1>6 DEF Within
  <2> QED
    BY <1>3, <1>5, <2>1, <2>2 DEF Grown
<1> QED
  BY <1>5, <1>6

\* The text of an edit.
LEMMA GrowEdited ==
  ASSUME NEW t, NEW lo \in Nat, NEW a \in Nat, lo <= a, NEW n, Depth(t, lo, a) = n, n \in Nat, n >= 1,
         \A q \in Nat : lo <= q /\ q <= a => Depth(t, lo, q) >= 1,
         NEW text, Balanced(text), Len(text) \in Nat, Same(text, t, a, 1, Len(text) + 1),
         NEW m \in Nat, Further(a, Len(text), m)
  PROVE  /\ Depth(t, lo, m) = n
         /\ \A q \in Nat : lo <= q /\ q <= m => Depth(t, lo, q) >= 1
<1> DEFINE L == Len(text)
           first == a + 1
<1>1. \A k \in 0 .. L : Depth(text, 1, k) \in Nat
  BY DEF Balanced
<1>2. Depth(text, 1, L) = 0
  BY DEF Balanced
<1>3. L \in Nat /\ first \in Nat /\ Further(a, 1, first)
  BY DEF Further
<1>4. Same(text, t, a, 1, L + 1) /\ Further(a, L, m)
  OBVIOUS
<1> HIDE DEF L, first
<1>5. ASSUME NEW k \in 0 .. L, NEW q \in Nat, Further(a, k, q)
      PROVE  Depth(t, lo, q) = n + Depth(text, 1, k)
  <2>1. k \in Nat /\ k < L + 1 /\ Further(1, a, first) /\ Further(k, a, q) /\ first <= q + 1 /\ lo <= first
    BY <1>3, <1>5 DEF Further
  <2> DEFINE last == L + 1
  <2>2. last \in Nat /\ k < last
    BY <1>3, <2>1
  <2>3. Same(text, t, a, 1, last)
    BY <1>4
  <2> HIDE DEF last
  <2>4. Depth(t, first, q) = Depth(text, 1, k)
    BY <1>3, <2>1, <2>2, <2>3, DepthMoves
  <2>5. Depth(t, lo, q) = Depth(t, lo, first - 1) + Depth(t, first, q)
    BY <1>3, <2>1, DepthAdds
  <2>6. first - 1 = a
    BY <1>3 DEF Further
  <2> QED
    BY <2>4, <2>5, <2>6
<1>6. Depth(t, lo, m) = n
  <2>1. L \in 0 .. L
    BY <1>3
  <2>2. Depth(t, lo, m) = n + Depth(text, 1, L)
    BY <1>4, <1>5, <2>1
  <2> QED
    BY <1>2, <2>2
<1>7. ASSUME NEW q \in Nat, lo <= q, q <= m PROVE Depth(t, lo, q) >= 1
  <2>1. CASE q <= a
    BY <1>7, <2>1
  <2>2. CASE ~(q <= a)
    <3> DEFINE k == q - a
    <3>1. k \in 0 .. L /\ Further(a, k, q)
      BY <1>3, <1>4, <1>7, <2>2 DEF Further
    <3> HIDE DEF k
    <3>2. Depth(t, lo, q) = n + Depth(text, 1, k)
      BY <1>5, <3>1
    <3>3. Depth(text, 1, k) \in Nat
      BY <1>1, <3>1
    <3> QED
      BY <3>2, <3>3
  <2> QED
    BY <2>1, <2>2
<1> QED
  BY <1>6, <1>7

\* Edits inside a value, between its brackets, that leave the brackets closed.
Inner(s, edits, lo, last) ==
  /\ \A e \in edits : /\ e.lo \in Nat /\ e.hi \in Nat /\ lo < e.lo /\ e.lo < e.hi /\ e.hi <= last
                      /\ Harmless(s, e)
  /\ \A d, e \in edits : d # e => d.hi <= e.lo \/ e.hi <= d.lo

\* Such edits lie in their place.
LEMMA InnerInPlace ==
  ASSUME NEW s, NEW edits, NEW lo \in Nat, NEW last \in Nat, Inner(s, edits, lo, last)
  PROVE  InPlace(edits, lo + 1, last)
<1>1. ASSUME NEW e \in edits
      PROVE  e.lo \in Nat /\ e.hi \in Nat /\ lo + 1 <= e.lo /\ e.lo < e.hi /\ e.hi <= last
  <2>1. e.lo \in Nat /\ e.hi \in Nat /\ lo < e.lo /\ e.lo < e.hi /\ e.hi <= last
    BY DEF Inner
  <2> QED
    BY <2>1
<1>2. \A d, e \in edits : d # e => d.hi <= e.lo \/ e.hi <= d.lo
  BY DEF Inner
<1> QED
  BY <1>1, <1>2 DEF InPlace

\* One more token, whether an edit touches it or not.
LEMMA GrowStep ==
  ASSUME NEW s, Len(s) \in Nat, NEW edits, NEW t, NEW at, Edited(s, edits, t, at),
         NEW lo \in Nat, 1 <= lo, NEW last \in Nat, last <= Len(s), Inner(s, edits, lo, last),
         \A j \in Nat : lo <= j /\ j < last => Depth(s, lo, j) >= 1,
         NEW T, Writes(edits, T),
         NEW k \in Nat, lo <= k, NEW p \in Nat, Further(k, 1, p), p < last, Grown(s, edits, t, at, lo, k)
  PROVE  Grown(s, edits, t, at, lo, p)
<1> DEFINE a == at[k]
           m == at[p]
           first == lo + 1
<1>1. a \in Nat /\ lo <= a /\ \A q \in Nat : lo <= q /\ q <= a => Depth(t, lo, q) >= 1
  BY DEF Grown
<1>2. p - 1 = k /\ k < p /\ lo <= p /\ p \in 1 .. Len(s) /\ k < last /\ k + 1 = p /\ lo < p
  BY DEF Further
<1>3. \A e \in edits : e.lo \in Nat /\ e.hi \in Nat /\ lo < e.lo /\ e.lo < e.hi /\ e.hi <= last /\ Harmless(s, e)
  BY DEF Inner
<1>4. ASSUME \A e \in edits : e.lo <= k /\ k < e.hi => e.hi = k + 1
      PROVE  Depth(t, lo, a) = Depth(s, lo, k)
  BY <1>3, <1>4, DepthBehind
<1>5. Depth(s, lo, k) \in Int /\ Depth(s, lo, k) >= 1 /\ Depth(s, lo, p) >= 1
  <2>1. Depth(s, lo, k) \in Int
    BY DepthStep
  <2> QED
    BY <1>2, <2>1
<1>6. InPlace(edits, first, last) /\ first \in Nat /\ 1 <= first
  BY InnerInPlace
<1> HIDE DEF first
<1>7. CASE ~Within(edits, p)
  <2>1. ~Begun(edits, p)
    <3> SUFFICES ASSUME NEW e \in edits, e.lo = p PROVE FALSE
      BY DEF Begun
    <3>1. e.lo <= p /\ p < e.hi
      BY <1>3
    <3> QED
      BY <1>7, <3>1 DEF Within
  <2>2. m = a + 1 /\ m \in Nat /\ t[m] = s[p]
    BY <1>2, <1>7, <2>1, LaidKept
  <2>3. ASSUME NEW e \in edits, e.lo <= k, k < e.hi PROVE e.hi = k + 1
    <3>1. e.lo \in Nat /\ e.hi \in Nat
      BY <1>3
    <3>2. ~(e.lo <= p /\ p < e.hi)
      BY <1>7 DEF Within
    <3> QED
      BY <1>2, <2>3, <3>1, <3>2
  <2>4. Depth(t, lo, a) = Depth(s, lo, k)
    BY <1>4, <2>3
  <2>5. Further(a, 1, m)
    BY <2>2 DEF Further
  <2> HIDE DEF m
  <2>6. at[p] = m
    BY DEF m
  <2> QED
    BY <1>5, <1>7, <2>2, <2>4, <2>5, <2>6, GrowKept
<1>8. CASE Within(edits, p)
  <2>1. ASSUME NEW e \in edits, e.lo <= p, p < e.hi
        PROVE  /\ m \in Nat /\ lo <= m
               /\ Depth(t, lo, m) = Depth(s, lo, e.lo - 1)
               /\ \A q \in Nat : lo <= q /\ q <= m => Depth(t, lo, q) >= 1
    <3> DEFINE text == e.text
    <3>0. e.lo \in Nat /\ e.hi \in Nat
      BY <1>3
    <3>1. /\ at[e.lo - 1] \in Nat /\ at[e.lo] \in Nat /\ Len(text) \in Nat
          /\ at[e.lo] = at[e.lo - 1] + Len(text)
          /\ Same(text, t, at[e.lo - 1], 1, Len(text) + 1)
          /\ \A q \in Nat : e.lo < q /\ q < e.hi => at[q] = at[q - 1]
      <4>1. last <= Len(s) + 1
        OBVIOUS
      <4> HIDE DEF text
      <4> QED
        BY <1>6, <4>1, LaidEdited DEF text
    <3>2. CASE e.lo = p
      <4>1. /\ m \in Nat /\ Len(text) \in Nat /\ m = a + Len(text)
            /\ Same(text, t, a, 1, Len(text) + 1)
        <5>1. e.lo - 1 = k
          BY <1>2, <3>2
        <5> QED
          BY <3>1, <3>2, <5>1
      <4>2. ASSUME NEW g \in edits, g.lo <= k, k < g.hi PROVE g.hi = k + 1
        <5>1. g.lo \in Nat /\ g.hi \in Nat
          BY <1>3
        <5>2. g # e
          BY <1>2, <3>2, <4>2, <5>1
        <5>3. g.hi <= e.lo \/ e.hi <= g.lo
          BY <5>2 DEF Inner
        <5> QED
          BY <1>2, <2>1, <3>0, <3>2, <4>2, <5>1, <5>3
      <4>3. Depth(t, lo, a) = Depth(s, lo, k)
        BY <1>4, <4>2
      <4>4. Balanced(text)
        BY <1>3 DEF Harmless
      <4>5. Further(a, Len(text), m) /\ lo <= m
        BY <1>1, <4>1 DEF Further
      <4> DEFINE n == Depth(s, lo, k)
      <4>6. n \in Nat /\ n >= 1 /\ Depth(t, lo, a) = n
        BY <1>5, <4>3
      <4> HIDE DEF m, a, n, text
      <4>7. /\ Depth(t, lo, m) = n
            /\ \A q \in Nat : lo <= q /\ q <= m => Depth(t, lo, q) >= 1
        BY <1>1, <4>1, <4>4, <4>5, <4>6, GrowEdited
      <4>8. e.lo - 1 = k
        BY <1>2, <3>2
      <4> QED
        BY <4>1, <4>5, <4>7, <4>8 DEF n
    <3>3. CASE e.lo # p
      <4>1. e.lo < p /\ e.lo <= k /\ k < e.hi
        BY <1>2, <2>1, <3>0, <3>3
      <4>2. m = a
        BY <1>2, <2>1, <3>1, <4>1
      <4>3. Depth(t, lo, a) = Depth(s, lo, e.lo - 1)
        BY <4>1 DEF Grown
      <4> QED
        BY <1>1, <4>2, <4>3
    <3> QED
      BY <3>2, <3>3
  <2>2. PICK e \in edits : e.lo <= p /\ p < e.hi
    BY <1>8 DEF Within
  <2>3. m \in Nat /\ lo <= m /\ \A q \in Nat : lo <= q /\ q <= m => Depth(t, lo, q) >= 1
    BY <2>1, <2>2
  <2>4. \A g \in edits : g.lo <= p /\ p < g.hi => Depth(t, lo, m) = Depth(s, lo, g.lo - 1)
    BY <2>1
  <2> QED
    BY <1>8, <2>3, <2>4 DEF Grown
<1> QED
  BY <1>7, <1>8

\* A bracket counts one.
LEMMA OpeningCounts ==
  ASSUME NEW s, NEW lo \in Nat, s[lo] \in Opening
  PROVE  Depth(s, lo, lo) = 1
<1> DEFINE k == lo - 1
<1>1. k \in Int /\ k < lo
  OBVIOUS
<1> HIDE DEF k
<1>2. Depth(s, lo, k) = 0
  BY <1>1, DepthOfNone
<1>3. Depth(s, lo, lo) = Depth(s, lo, lo - 1) + Weight(s[lo])
  BY DepthStep
<1>4. Weight(s[lo]) = 1
  BY DEF Weight
<1>5. Depth(s, lo, lo - 1) = 0
  BY <1>2 DEF k
<1> QED
  BY <1>3, <1>4, <1>5

\* Up to the end of a bracket an edited text has as many open as the text.
LEMMA GrowsAll ==
  ASSUME NEW s, Len(s) \in Nat, NEW edits, NEW t, NEW at, Edited(s, edits, t, at),
         NEW lo \in Nat, 1 <= lo, NEW last \in Nat, last <= Len(s), Inner(s, edits, lo, last),
         \A j \in Nat : lo <= j /\ j < last => Depth(s, lo, j) >= 1,
         NEW T, Writes(edits, T), Grown(s, edits, t, at, lo, lo)
  PROVE  \A k \in Nat : lo <= k /\ k < last => Grown(s, edits, t, at, lo, k)
<1> DEFINE bad == {k \in Nat : lo <= k /\ k < last /\ ~Grown(s, edits, t, at, lo, k)}
<1>1. bad = {}
  <2> SUFFICES ASSUME bad # {} PROVE FALSE
    OBVIOUS
  <2>1. PICK p \in bad : \A k \in Nat : k < p => k \notin bad
    <3>1. bad \subseteq Nat
      OBVIOUS
    <3> HIDE DEF bad
    <3> QED
      BY <3>1, LeastNat
  <2>2. p \in Nat /\ lo <= p /\ p < last /\ ~Grown(s, edits, t, at, lo, p)
    OBVIOUS
  <2>3. p # lo
    BY <2>2
  <2> DEFINE k == p - 1
  <2>4. k \in Nat /\ k < p /\ lo <= k /\ k < last /\ Further(k, 1, p)
    BY <2>2, <2>3 DEF Further
  <2>5. k \notin bad
    BY <2>1, <2>4
  <2>6. Grown(s, edits, t, at, lo, k)
    BY <2>4, <2>5
  <2> HIDE DEF k, bad
  <2>7. Grown(s, edits, t, at, lo, p)
    BY <2>2, <2>4, <2>6, GrowStep
  <2> QED
    BY <2>2, <2>7
<1> QED
  BY <1>1

\* The scanner finds the end of the value at lo, and finds it there.
EndsAt(s, lo, end, hi) == ConsumeValue(s, lo, end) = hi /\ hi # 0

\* A bracketed value that is edited inside is a value again, and what stands
\* behind it stands behind it still, nearer or further.
LEMMA ValueEdited ==
  ASSUME NEW s, Len(s) \in Nat, NEW edits, NEW t, NEW at, Edited(s, edits, t, at),
         NEW lo \in Nat, 1 <= lo, s[lo] \in Opening, NEW end \in Nat, Further(Len(s), 1, end),
         NEW hi \in Nat, EndsAt(s, lo, end, hi),
         NEW last \in Nat, Further(last, 1, hi), Inner(s, edits, lo, last),
         NEW T, Writes(edits, T)
  PROVE  /\ Same(s, t, 0, 1, lo + 1)
         /\ \E d \in Int : /\ Same(s, t, d, hi, end)
                           /\ Further(Len(s), d, Len(t)) /\ Len(t) \in Nat
                           /\ lo < hi + d
                           /\ ConsumeValue(t, lo, Len(t) + 1) = hi + d
<1> DEFINE k == last - 1
           m == at[last]
           d == m - last
           n == Len(s)
<1>1. /\ lo < end /\ last \in lo .. end - 1 /\ Depth(s, lo, last) = 0
      /\ \A j \in Nat : lo <= j /\ j < last => Depth(s, lo, j) # 0
  <2> DEFINE h == ConsumeValue(s, lo, end)
  <2>1. h = hi /\ h # 0
    BY DEF EndsAt
  <2>2. /\ lo < end /\ h - 1 \in lo .. end - 1 /\ Depth(s, lo, h - 1) = 0
        /\ \A j \in Nat : lo <= j /\ j < h - 1 => Depth(s, lo, j) # 0
    BY <2>1, BracketsEnd
  <2>3. h - 1 = last
    BY <2>1 DEF Further
  <2> HIDE DEF h
  <2> QED
    BY <2>2, <2>3
<1>2. last # lo
  <2>1. Depth(s, lo, lo) = 1
    BY OpeningCounts
  <2> QED
    BY <1>1, <2>1
<1>3. n \in Nat /\ last <= n /\ lo < last /\ lo <= n /\ n + 1 = end /\ n < end /\ hi = last + 1 /\ hi <= end
  BY <1>1, <1>2 DEF Further
<1>4. \A e \in edits : e.lo \in Nat /\ e.hi \in Nat /\ lo < e.lo /\ e.lo < e.hi /\ e.hi <= last /\ Harmless(s, e)
  BY DEF Inner
<1>5. \A j \in Nat : lo <= j /\ j < last => Depth(s, lo, j) >= 1
  BY <1>1, OpenWithin
<1>6. /\ Same(s, t, 0, 1, lo + 1)
      /\ at[lo] = lo
  <2> DEFINE f == lo + 1
  <2>1. Clear(edits, 1, f)
    <3> SUFFICES ASSUME NEW p \in Nat, 1 <= p, p < f, NEW e \in edits, e.lo = p \/ (e.lo <= p /\ p < e.hi)
                 PROVE  FALSE
      BY DEF Clear, Begun, Within
    <3>1. e.lo \in Nat /\ lo < e.lo
      BY <1>4
    <3> QED
      BY <3>1
  <2>2. at[0] = 0
    BY DEF Edited, Laid
  <2>3. Further(1 - 1, 0, at[1 - 1])
    BY <2>2 DEF Further
  <2>4. f \in Nat /\ f <= Len(s) + 1 /\ 1 - 1 <= lo /\ lo < f
    BY <1>3
  <2> HIDE DEF f, n
  <2>5. /\ Same(s, t, 0, 1, f)
        /\ \A p \in Nat : 1 - 1 <= p /\ p < f => at[p] = p + 0
    BY <2>1, <2>3, <2>4, KeptPart
  <2>6. at[lo] = lo + 0
    BY <2>4, <2>5
  <2> QED
    BY <2>5, <2>6 DEF f
<1>7. t[lo] = s[lo]
  <2>1. t[lo + 0] = s[lo]
    BY <1>6 DEF Same
  <2> QED
    BY <2>1
<1>8. Grown(s, edits, t, at, lo, lo)
  <2>1. Depth(s, lo, lo) = 1 /\ Depth(t, lo, lo) = 1
    BY <1>7, OpeningCounts
  <2>2. \A e \in edits : ~(e.lo <= lo)
    BY <1>4
  <2>3. \A q \in Nat : lo <= q /\ q <= at[lo] => Depth(t, lo, q) >= 1
    <3> SUFFICES ASSUME NEW q \in Nat, lo <= q, q <= at[lo] PROVE Depth(t, lo, q) >= 1
      OBVIOUS
    <3>1. q = lo
      BY <1>6
    <3> QED
      BY <2>1, <3>1
  <2> QED
    BY <1>6, <2>1, <2>2, <2>3 DEF Grown
<1>9. k \in Nat /\ lo <= k /\ k < last /\ k + 1 = last /\ Further(k, 1, last)
  BY <1>3 DEF Further
<1> HIDE DEF k
<1>10. Grown(s, edits, t, at, lo, k)
  BY <1>3, <1>5, <1>8, <1>9, GrowsAll
<1>11. Depth(t, lo, at[k]) = Depth(s, lo, k)
  <2>1. \A e \in edits : e.lo <= k /\ k < e.hi => e.hi = k + 1
    BY <1>4, <1>9
  <2> QED
    BY <1>4, <1>9, <1>10, <2>1, DepthBehind
<1>12. ASSUME NEW p \in Nat, last <= p PROVE ~Begun(edits, p) /\ ~Within(edits, p)
  <2>1. \A e \in edits : e.lo # p /\ ~(p < e.hi)
    BY <1>4, <1>12
  <2> QED
    BY <2>1 DEF Begun, Within
<1>13. /\ at[k] \in Nat /\ m \in Nat /\ m = at[k] + 1 /\ t[m] = s[last]
  <2>1. last \in 1 .. Len(s) /\ ~Begun(edits, last) /\ ~Within(edits, last)
    BY <1>3, <1>12
  <2>2. last - 1 = k
    BY <1>9
  <2> QED
    BY <2>1, <2>2, LaidKept
<1>14. Depth(t, lo, m) = 0
  <2>1. Further(at[k], 1, m)
    BY <1>13 DEF Further
  <2> HIDE DEF m
  <2>2. at[last] = m
    BY DEF m
  <2>3. k \in Nat /\ lo <= k /\ Further(k, 1, last)
    BY <1>9
  <2>4. m \in Nat /\ t[m] = s[last]
    BY <1>13
  <2>5. Depth(t, lo, m) = Depth(s, lo, last)
    <3>1. lo \in Nat /\ last \in Nat
      OBVIOUS
    <3> QED
      BY ONLY <1>10, <1>11, <2>1, <2>2, <2>3, <2>4, <3>1, GrowKept
  <2> QED
    BY <1>1, <2>5
<1>15. lo <= m /\ \A q \in Nat : lo <= q /\ q < m => Depth(t, lo, q) # 0
  <2> DEFINE a == at[k]
  <2>1. lo <= a /\ \A q \in Nat : lo <= q /\ q <= a => Depth(t, lo, q) >= 1
    BY <1>10 DEF Grown
  <2>2. a \in Nat /\ m \in Nat /\ m = a + 1
    BY <1>13
  <2> HIDE DEF a, m
  <2> SUFFICES ASSUME NEW q \in Nat, lo <= q, q < m PROVE Depth(t, lo, q) # 0
    BY <2>1, <2>2
  <2>3. q <= a
    BY <2>2
  <2>4. Depth(t, lo, q) >= 1
    BY <2>1, <2>3
  <2> QED
    BY <2>4
<1>16. d \in Int /\ m = last + d
  BY <1>13
<1> HIDE DEF d
<1>17. /\ Same(s, t, d, hi, end)
       /\ \A p \in Nat : hi - 1 <= p /\ p < end => at[p] = p + d
  <2>1. Clear(edits, hi, end)
    BY <1>3, <1>12 DEF Clear
  <2>2. hi - 1 = last /\ 1 <= hi /\ end <= Len(s) + 1
    BY <1>3
  <2>3. Further(hi - 1, d, at[hi - 1])
    BY <1>16, <2>2 DEF Further
  <2> QED
    BY <1>16, <2>1, <2>2, <2>3, KeptPart
<1>18. Len(t) = at[n] /\ Len(t) \in Nat
  <2>1. ~Begun(edits, Len(s) + 1)
    BY <1>3, <1>12
  <2> QED
    BY <2>1, LaidBehind
<1>19. at[n] = n + d
  <2>1. hi - 1 <= n /\ n < end
    BY <1>3
  <2> QED
    BY <1>3, <1>17, <2>1
<1>20. m + 1 = hi + d /\ lo < hi + d
  <2>1. hi \in Nat /\ last \in Nat /\ hi = last + 1 /\ m + 1 = (last + d) + 1
    BY <1>3, <1>13, <1>16
  <2>2. d \in Int /\ lo <= m /\ m \in Nat /\ m = last + d
    BY <1>13, <1>15, <1>16
  <2> HIDE DEF m
  <2> QED
    BY ONLY lo \in Nat, <2>1, <2>2
<1> DEFINE w == Len(t) + 1
<1>21. w \in Nat /\ m \in lo .. w - 1
  BY <1>3, <1>13, <1>15, <1>16, <1>18, <1>19
<1>22. ConsumeValue(t, lo, w) = m + 1
  <2> HIDE DEF w, m
  <2>1. t[lo] \in Opening
    BY <1>7
  <2> QED
    BY <1>14, <1>15, <1>21, <2>1, BracketsEndAt
<1>23. Further(Len(s), d, Len(t))
  BY <1>18, <1>19 DEF Further
<1> QED
  BY <1>6, <1>16, <1>17, <1>18, <1>20, <1>22, <1>23

-----------------------------------------------------------------------------
(* What the edits of a conversation leave                                  *)

\* The edits of a conversation lie inside the list of its messages.
LEMMA EditsAreInner ==
  ASSUME NEW s, Len(s) \in Nat, NEW field, field = FieldLocation(s, 1, Len(s) + 1, "messages"),
         ThinkingEdits(s) # {}
  PROVE  /\ Present(field) /\ s[field.lo] \in Opening
         /\ Inner(s, ThinkingEdits(s), field.lo, field.hi - 1)
<1> DEFINE end == Len(s) + 1
           messages == ArrayElements(s, field.lo, field.hi)
           infos == [n \in DOMAIN messages |-> MessageInfo(s, messages[n])]
           preserve == PreservedTurn(infos, LatestAssistantWithToolResults(infos))
           edited == {n \in DOMAIN infos : /\ infos[n].role = "assistant"
                                           /\ n # preserve
                                           /\ Present(infos[n].content)}
           edits == ThinkingEdits(s)
<1>1. edits = IF Present(field)
              THEN IF messages = Broken THEN {} ELSE UNION {MessageEdits(s, infos[n]) : n \in edited}
              ELSE {}
  BY DEF ThinkingEdits
<1>2. Present(field) /\ messages # Broken
  BY <1>1
<1>3. edits = UNION {MessageEdits(s, infos[n]) : n \in edited}
  BY <1>1, <1>2
<1>4. end \in Nat /\ 1 \in Nat
  OBVIOUS
<1>5. InPlace(edits, 1, end)
  BY EditsAreApart
<1> HIDE DEF end
<1>6. field.lo \in Nat /\ field.hi \in Nat /\ 1 < field.lo /\ field.lo < field.hi /\ field.hi <= end
  BY <1>2, <1>4, FieldIsInside DEF end
<1>7. s[field.lo] = "["
  BY <1>2 DEF ArrayElements
<1> DEFINE lo == field.lo
           last == field.hi
           first == lo + 1
           N == Len(messages)
<1>8. Row(messages, first, last)
  BY <1>2, <1>6, ElementsAreRow
<1>9. lo \in Nat /\ first \in Nat /\ last \in Nat /\ lo < first
  BY <1>6
<1> HIDE DEF first, last, lo
<1>10. DOMAIN messages = 1 .. N /\ N \in Nat
  BY <1>8 DEF Row
<1>11. ASSUME NEW n \in 1 .. N
       PROVE  /\ messages[n].lo \in Nat /\ messages[n].hi \in Nat
              /\ first <= messages[n].lo /\ messages[n].hi < last
  <2> DEFINE Span == [lo : Nat, hi : Nat]
  <2>1. messages \in Seq(Span)
    BY <1>8 DEF Row
  <2> HIDE DEF Span, messages
  <2>2. messages[n] \in Span
    BY <2>1
  <2>3. messages[n].lo \in Nat /\ messages[n].hi \in Nat
    BY <2>2 DEF Span
  <2> QED
    BY <1>8, <2>3 DEF Row
<1>12. \A n \in edited : n \in 1 .. N /\ infos[n] = MessageInfo(s, messages[n]) /\ Present(infos[n].content)
  BY <1>10
<1> HIDE DEF edited, infos, messages, N
<1>13. ASSUME NEW n \in edited
       PROVE  /\ InPlace(MessageEdits(s, infos[n]), messages[n].lo, messages[n].hi)
              /\ \A e \in MessageEdits(s, infos[n]) : Harmless(s, e)
  <2>1. /\ messages[n].lo \in Nat /\ messages[n].hi \in Nat /\ Present(infos[n].content)
        /\ infos[n] = MessageInfo(s, messages[n])
    BY <1>11, <1>12
  <2>2. InPlace(MessageEdits(s, infos[n]), messages[n].lo, messages[n].hi)
    BY <2>1, MessageEditsInPlace
  <2>3. \A e \in MessageEdits(s, infos[n]) : Harmless(s, e)
    BY <2>1, MessageEditsHarmless
  <2> QED
    BY <2>2, <2>3
<1>14. ASSUME NEW e \in edits
       PROVE  \E n \in edited : e \in MessageEdits(s, infos[n])
  BY <1>3
<1> HIDE DEF edits
<1>15. ASSUME NEW e \in edits
       PROVE  /\ e.lo \in Nat /\ e.hi \in Nat /\ lo < e.lo /\ e.lo < e.hi /\ e.hi <= last - 1
              /\ Harmless(s, e)
  <2>1. PICK n \in edited : e \in MessageEdits(s, infos[n])
    BY <1>14
  <2>2. /\ e.lo \in Nat /\ e.hi \in Nat
        /\ messages[n].lo <= e.lo /\ e.lo < e.hi /\ e.hi <= messages[n].hi
    BY <1>13, <2>1 DEF InPlace
  <2>3. Harmless(s, e)
    BY <1>13, <2>1
  <2>4. /\ messages[n].lo \in Nat /\ messages[n].hi \in Nat
        /\ first <= messages[n].lo /\ messages[n].hi < last
    BY <1>11, <1>12
  <2>5. lo < e.lo
    BY <1>9, <2>2, <2>4
  <2>6. e.hi <= last - 1
    BY <1>9, <2>2, <2>4
  <2> QED
    BY <2>2, <2>3, <2>5, <2>6
<1>16. \A d, e \in edits : d # e => d.hi <= e.lo \/ e.hi <= d.lo
  BY <1>5 DEF InPlace
<1>17. Inner(s, edits, lo, last - 1)
  BY <1>15, <1>16 DEF Inner
<1>18. s[lo] \in Opening
  BY <1>7 DEF Opening, lo
<1> QED
  BY <1>2, <1>17, <1>18 DEF edits, lo, last

\* A sequence of some is a sequence of more.
LEMMA SeqWithin ==
  ASSUME NEW A, NEW B, A \subseteq B, NEW x \in Seq(A)
  PROVE  x \in Seq(B)
<1> DEFINE n == Len(x)
<1>1. n \in Nat /\ x \in [1 .. n -> A]
  OBVIOUS
<1> HIDE DEF n
<1>2. x \in [1 .. n -> B]
  BY <1>1
<1> QED
  BY <1>1, <1>2, SeqDef

\* A field of the whole text is read from the second token on.
LEMMA FieldOfText ==
  ASSUME NEW s, NEW end \in Nat, NEW key
  PROVE  StringField(s, 1, end, key) = IF 1 < end /\ s[1] = "{" THEN StringAt(s, FieldFrom(s, 2, end, key)) ELSE ""
<1> DEFINE loc == FieldLocation(s, 1, end, key)
<1>1. StringField(s, 1, end, key) = StringAt(s, loc)
  BY DEF StringField
<1>2. 1 \in Nat /\ 1 + 1 = 2
  OBVIOUS
<1>3. CASE 1 < end /\ s[1] = "{"
  <2>1. loc = FieldFrom(s, 1 + 1, end, key)
    BY <1>2, <1>3, FieldIsFrom
  <2>2. loc = FieldFrom(s, 2, end, key)
    BY <1>2, <2>1
  <2> HIDE DEF loc
  <2> QED
    BY <1>1, <1>3, <2>2
<1>4. CASE ~(1 < end /\ s[1] = "{")
  <2>1. ~Present(loc)
    BY <1>2, <1>4, FieldIsFrom
  <2> HIDE DEF loc
  <2>2. StringAt(s, loc) = ""
    BY <2>1 DEF StringAt
  <2> QED
    BY <1>1, <1>4, <2>2
<1> QED
  BY <1>3, <1>4

\* The same tokens are read the same.
LEMMA SameTextReads ==
  ASSUME NEW s, NEW t, NEW end \in Nat, Same(s, t, 0, 1, end), NEW key
  PROVE  StringField(t, 1, end, key) = StringField(s, 1, end, key)
<1>1. CASE ~(1 < end)
  <2>1. StringField(t, 1, end, key) = "" /\ StringField(s, 1, end, key) = ""
    BY <1>1, FieldOfText
  <2> QED
    BY <2>1
<1>2. CASE 1 < end
  <2>1. t[1] = s[1]
    <3>1. t[1 + 0] = s[1]
      BY <1>2 DEF Same
    <3> QED
      BY <3>1
  <2> DEFINE lo == 2
             z == 0
  <2>2. Same(s, t, z, lo, end)
    BY DEF Same
  <2>3. z \in Int /\ lo \in Nat /\ lo + z \in Nat /\ lo \in lo .. end /\ Further(end, z, end)
    BY <1>2 DEF Further
  <2>4. lo + z = 2
    OBVIOUS
  <2> HIDE DEF lo, z
  <2>5. \A i \in lo .. end : StringAt(t, FieldFrom(t, i + z, end, key)) = StringAt(s, FieldFrom(s, i, end, key))
    BY <2>2, <2>3, SameLastField
  <2>6. StringAt(t, FieldFrom(t, lo + z, end, key)) = StringAt(s, FieldFrom(s, lo, end, key))
    BY <2>3, <2>5
  <2>7. StringAt(t, FieldFrom(t, 2, end, key)) = StringAt(s, FieldFrom(s, 2, end, key))
    BY <2>4, <2>6 DEF lo
  <2>8. CASE s[1] = "{"
    <3>1. /\ StringField(t, 1, end, key) = StringAt(t, FieldFrom(t, 2, end, key))
          /\ StringField(s, 1, end, key) = StringAt(s, FieldFrom(s, 2, end, key))
      BY <1>2, <2>1, <2>8, FieldOfText
    <3> QED
      BY <2>7, <3>1
  <2>9. CASE s[1] # "{"
    <3>1. StringField(t, 1, end, key) = "" /\ StringField(s, 1, end, key) = ""
      BY <2>1, <2>9, FieldOfText
    <3> QED
      BY <3>1
  <2> QED
    BY <2>8, <2>9
<1> QED
  BY <1>1, <1>2

\* No edit, no change.
LEMMA NothingEdited ==
  ASSUME NEW s, Len(s) \in Nat, NEW t, NEW at, Edited(s, {}, t, at)
  PROVE  Len(t) = Len(s) /\ Same(s, t, 0, 1, Len(s) + 1)
<1> DEFINE n == Len(s)
           end == n + 1
           none == {}
<1>1. end \in Nat /\ n \in Nat /\ end <= Len(s) + 1 /\ 1 - 1 <= n /\ n < end
  OBVIOUS
<1>2. Clear(none, 1, end) /\ ~Begun(none, Len(s) + 1)
  BY DEF Clear, Begun, Within
<1>3. at[0] = 0
  BY DEF Edited, Laid
<1>4. Further(1 - 1, 0, at[1 - 1])
  BY <1>3 DEF Further
<1> HIDE DEF end, none, n
<1>5. Edited(s, none, t, at)
  BY DEF none
<1>6. /\ Same(s, t, 0, 1, end)
      /\ \A p \in Nat : 1 - 1 <= p /\ p < end => at[p] = p + 0
  BY <1>1, <1>2, <1>4, <1>5, KeptPart
<1>7. at[n] = n + 0
  BY <1>1, <1>6
<1>8. Len(t) = at[Len(s)]
  BY <1>2, <1>5, LaidBehind
<1> QED
  BY <1>1, <1>6, <1>7, <1>8 DEF end, n

\* The sanitized text is the text with its pieces laid out one after the other.
LEMMA SanitizedIsLaid ==
  ASSUME NEW s, Len(s) \in Nat
  PROVE  \E T : /\ Writes(ThinkingEdits(s), T)
                /\ SanitizeThinkingBlocks(s) \in Seq(T)
                /\ \E at : Edited(s, ThinkingEdits(s), SanitizeThinkingBlocks(s), at)
<1> DEFINE edits == ThinkingEdits(s)
           Own(e) == {e.text[k] : k \in DOMAIN e.text}
           T == {s[q] : q \in 1 .. Len(s)} \cup UNION {Own(e) : e \in edits}
<1>1. TokensIn(s, T)
  BY DEF TokensIn
<1>2. ASSUME NEW e \in edits PROVE e.text \in Seq(T)
  <2>1. Inner(s, edits, FieldLocation(s, 1, Len(s) + 1, "messages").lo,
              FieldLocation(s, 1, Len(s) + 1, "messages").hi - 1)
    BY <1>2, EditsAreInner
  <2>2. Harmless(s, e)
    BY <2>1 DEF Inner
  <2>3. e.text \in Seq(Own(e))
    BY <2>2 DEF Harmless, Balanced
  <2>4. Own(e) \subseteq T
    OBVIOUS
  <2> HIDE DEF T, Own
  <2> QED
    BY <2>3, <2>4, SeqWithin
<1>3. Writes(edits, T)
  BY <1>2 DEF Writes
<1> HIDE DEF T, edits
<1>4. /\ Splice(s, edits) \in Seq(T)
      /\ \E at : Laid(Splice(s, edits), Pieces(s, edits), Len(s) + 1, at)
  BY <1>1, <1>3, SpliceLays
<1>5. SanitizeThinkingBlocks(s) = Splice(s, edits)
  BY DEF SanitizeThinkingBlocks, edits
<1>6. \E at : Edited(s, edits, Splice(s, edits), at)
  BY <1>4 DEF Edited
<1> QED
  BY <1>3, <1>4, <1>5, <1>6 DEF edits

\* Where a field of the whole text is found.
LEMMA PresentFrom ==
  ASSUME NEW s, NEW end \in Nat, NEW key, Present(FieldLocation(s, 1, end, key))
  PROVE  1 < end /\ s[1] = "{" /\ FieldLocation(s, 1, end, key) = FieldFrom(s, 2, end, key)
<1>1. 1 \in Nat /\ 1 + 1 = 2
  OBVIOUS
<1>2. 1 < end /\ s[1] = "{"
  BY <1>1, FieldIsFrom
<1>3. FieldLocation(s, 1, end, key) = FieldFrom(s, 1 + 1, end, key)
  BY <1>1, <1>2, FieldIsFrom
<1> QED
  BY <1>1, <1>2, <1>3

\* The proxy removes the thinking of a conversation from the text of a request
\* by the positions its scanner finds (thinking_sanitizer.go): every string the
\* request holds beside its messages is read from the new text as it was from
\* the old one.
THEOREM SanitizerKeepsFields ==
  ASSUME NEW s, Len(s) \in Nat, NEW key, key # "messages"
  PROVE  /\ Len(SanitizeThinkingBlocks(s)) \in Nat
         /\ StringField(SanitizeThinkingBlocks(s), 1, Len(SanitizeThinkingBlocks(s)) + 1, key)
              = StringField(s, 1, Len(s) + 1, key)
<1> DEFINE t == SanitizeThinkingBlocks(s)
           edits == ThinkingEdits(s)
           end == Len(s) + 1
           far == Len(t) + 1
           other == "messages"
           field == FieldLocation(s, 1, end, other)
<1>1. PICK T : Writes(edits, T) /\ t \in Seq(T) /\ \E at : Edited(s, edits, t, at)
  BY SanitizedIsLaid
<1>2. PICK at : Edited(s, edits, t, at)
  BY <1>1
<1>3. Len(t) \in Nat /\ far \in Nat /\ end \in Nat
  BY <1>1
<1>4. CASE edits = {}
  <2> HIDE DEF t, edits
  <2>1. Edited(s, {}, t, at)
    BY <1>2, <1>4
  <2>2. Len(t) = Len(s) /\ Same(s, t, 0, 1, Len(s) + 1)
    BY <2>1, NothingEdited
  <2>3. far = end
    BY <2>2
  <2> HIDE DEF end, far
  <2>4. Same(s, t, 0, 1, end)
    BY <2>2 DEF end
  <2>5. StringField(t, 1, end, key) = StringField(s, 1, end, key)
    BY <1>3, <2>4, SameTextReads
  <2> QED
    BY <1>3, <2>3, <2>5 DEF end, far, t
<1>5. CASE edits # {}
  <2>1. Present(field) /\ s[field.lo] \in Opening /\ Inner(s, edits, field.lo, field.hi - 1)
    BY <1>5, EditsAreInner
  <2>2. 1 < end /\ s[1] = "{" /\ field = FieldFrom(s, 2, end, other)
    <3> HIDE DEF end, other
    <3> QED
      BY <1>3, <2>1, PresentFrom
  <2>21. 1 < end
    BY <2>2
  <2>22. field = FieldFrom(s, 2, end, other)
    BY <2>2
  <2>3. key # other
    OBVIOUS
  <2>4. Further(Len(s), 1, end) /\ Further(Len(t), 1, far)
    BY DEF Further
  <2>5. 2 \in 2 .. end /\ 2 \in Nat
    BY <1>3, <2>21
  <2> HIDE DEF t, edits, end, far, other, field
  <2>6. /\ field.lo \in Nat /\ field.hi \in Nat
        /\ 2 + 2 <= field.lo /\ field.lo < field.hi /\ field.hi <= end
        /\ field.hi = ConsumeValue(s, field.lo, end)
    <3> DEFINE two == 2
    <3>1. two \in Nat /\ two \in two .. end /\ Present(FieldFrom(s, two, end, other)) /\ FieldFrom(s, two, end, other) = field
      BY <2>1, <2>5, <2>22
    <3> HIDE DEF two
    <3>2. \A i \in two .. end : Present(FieldFrom(s, i, end, other)) =>
             /\ FieldFrom(s, i, end, other).lo \in Nat /\ FieldFrom(s, i, end, other).hi \in Nat
             /\ i + 2 <= FieldFrom(s, i, end, other).lo
             /\ FieldFrom(s, i, end, other).lo < FieldFrom(s, i, end, other).hi
             /\ FieldFrom(s, i, end, other).hi <= end
             /\ FieldFrom(s, i, end, other).hi = ConsumeValue(s, FieldFrom(s, i, end, other).lo, end)
      BY <1>3, <3>1, FieldFromIsValue
    <3>3. /\ field.lo \in Nat /\ field.hi \in Nat
          /\ two + 2 <= field.lo /\ field.lo < field.hi /\ field.hi <= end
          /\ field.hi = ConsumeValue(s, field.lo, end)
      BY <3>1, <3>2
    <3> QED
      BY <3>3 DEF two
  <2> DEFINE lo == field.lo
             hi == field.hi
             last == hi - 1
  <2>7. lo \in Nat /\ hi \in Nat /\ 1 <= lo /\ 2 <= lo /\ lo < hi /\ hi <= end /\ last \in Nat /\ Further(last, 1, hi)
    BY <2>6 DEF Further
  <2>8. EndsAt(s, lo, end, hi) /\ s[lo] \in Opening
    BY <2>1, <2>6, <2>7 DEF EndsAt
  <2>9. Inner(s, edits, lo, last)
    BY <2>1
  <2> HIDE DEF lo, hi, last
  <2>10. /\ Same(s, t, 0, 1, lo + 1)
         /\ \E d \in Int : /\ Same(s, t, d, hi, end)
                           /\ Further(Len(s), d, Len(t)) /\ Len(t) \in Nat
                           /\ lo < hi + d
                           /\ ConsumeValue(t, lo, Len(t) + 1) = hi + d
    BY <1>1, <1>2, <1>3, <2>4, <2>7, <2>8, <2>9, ValueEdited
  <2>11. PICK d \in Int : /\ Same(s, t, d, hi, end)
                          /\ Further(Len(s), d, Len(t))
                          /\ lo < hi + d
                          /\ ConsumeValue(t, lo, far) = hi + d
    BY <2>10 DEF far
  <2>12. Further(end, d, far)
    BY <1>3, <2>4, <2>11 DEF Further
  <2>13. t[1] = s[1]
    <3>1. t[1 + 0] = s[1]
      BY <2>7, <2>10 DEF Same
    <3> QED
      BY <3>1
  <2>14. Same(s, t, 0, 2, lo + 1)
    BY <2>7, <2>10 DEF Same
  <2>15. Present(field) /\ field.lo \in Nat /\ field.hi \in Nat /\ field.lo < field.hi /\ field.hi <= end
    BY <2>1, <2>6
  <2>16. /\ Same(s, t, 0, 2, field.lo + 1) /\ Same(s, t, d, field.hi, end)
         /\ field.lo < field.hi + d /\ ConsumeValue(t, field.lo, far) = field.hi + d
    BY <2>11, <2>14 DEF lo, hi
  <2>17. StringAt(t, FieldFrom(t, 2, far, key)) = StringAt(s, FieldFrom(s, 2, end, key))
    <3> DEFINE two == 2
    <3>1. /\ two \in Nat /\ two \in two .. end /\ FieldFrom(s, two, end, other) = field
          /\ Same(s, t, 0, two, field.lo + 1)
      BY <2>5, <2>16, <2>22
    <3> HIDE DEF two
    <3>2. \A i \in two .. end : FieldFrom(s, i, end, other) = field =>
             StringAt(t, FieldFrom(t, i, far, key)) = StringAt(s, FieldFrom(s, i, end, key))
      <4>1. end \in Nat /\ far \in Nat /\ d \in Int /\ two \in Nat
        BY <1>3, <3>1
      <4>2. Same(s, t, 0, two, field.lo + 1)
        BY <3>1
      <4>3. Around(s, t, d, two, end, far, field)
        BY ONLY <2>12, <2>15, <2>16, <4>1, <4>2 DEF Around
      <4> QED
        BY ONLY <2>3, <4>3, SameFieldAround
    <3>3. StringAt(t, FieldFrom(t, two, far, key)) = StringAt(s, FieldFrom(s, two, end, key))
      BY <3>1, <3>2
    <3> QED
      BY <3>3 DEF two
  <2>18. 1 < far
    BY <1>3, <2>4, <2>7, <2>11, <2>12 DEF Further
  <2>19. StringField(t, 1, far, key) = StringField(s, 1, end, key)
    <3>1. StringField(t, 1, far, key) = StringAt(t, FieldFrom(t, 2, far, key))
      <4>1. t[1] = "{"
        BY <2>2, <2>13
      <4> QED
        BY <1>3, <2>18, <4>1, FieldOfText
    <3>2. StringField(s, 1, end, key) = StringAt(s, FieldFrom(s, 2, end, key))
      <4>1. s[1] = "{"
        BY <2>2
      <4> QED
        BY <1>3, <2>21, <4>1, FieldOfText
    <3> QED
      BY <2>17, <3>1, <3>2
  <2> QED
    BY <1>3, <2>19 DEF t, end, far
<1> QED
  BY <1>4, <1>5

-----------------------------------------------------------------------------
(* An edit behind a field, and the model of what goes to the backend       *)

\* A text that is laid out ends no earlier than any of its pieces.
LEMMA LaidGrows ==
  ASSUME NEW s, Len(s) \in Nat, NEW edits, NEW T, Writes(edits, T), TokensIn(s, T),
         NEW t, NEW at, Edited(s, edits, t, at), NEW i \in 0 .. Len(s) + 1
  PROVE  at[i] \in Nat /\ at[i] <= Len(t)
<1> DEFINE n == Len(s) + 1
           bad == {k \in Nat : k <= n /\ i <= k /\ ~(at[i] <= at[k])}
<1>1. /\ at[n] = Len(t) /\ \A k \in 0 .. n : at[k] \in Nat
      /\ \A k \in 1 .. n : at[k] = at[k - 1] + Len(Pieces(s, edits)[k])
  BY DEF Edited, Laid
<1>2. ASSUME NEW k \in 1 .. n PROVE Len(Pieces(s, edits)[k]) \in Nat
  <2>1. Pieces(s, edits)[k] = SpliceAt(s, edits, k)
    BY DEF Pieces
  <2>2. SpliceAt(s, edits, k) \in Seq(T)
    BY PieceIsText
  <2> QED
    BY <2>1, <2>2
<1>3. n \in Nat /\ i \in Nat /\ i <= n
  OBVIOUS
<1> HIDE DEF n
<1>4. bad = {}
  <2> SUFFICES ASSUME bad # {} PROVE FALSE
    OBVIOUS
  <2>1. PICK p \in bad : \A k \in Nat : k < p => k \notin bad
    <3>1. bad \subseteq Nat
      OBVIOUS
    <3> HIDE DEF bad
    <3> QED
      BY <3>1, LeastNat
  <2>2. p \in Nat /\ p <= n /\ i <= p /\ ~(at[i] <= at[p])
    OBVIOUS
  <2>3. at[i] \in Nat /\ at[p] \in Nat
    BY <1>1, <1>3, <2>2
  <2>4. p # i
    BY <2>2, <2>3
  <2> DEFINE k == p - 1
  <2>5. k \in Nat /\ k < p /\ k <= n /\ i <= k /\ p \in 1 .. n /\ k \in 0 .. n
    BY <1>3, <2>2, <2>4
  <2>6. k \notin bad
    BY <2>1, <2>5
  <2>7. at[i] <= at[k]
    BY <2>5, <2>6
  <2>8. at[p] = at[k] + Len(Pieces(s, edits)[p]) /\ at[k] \in Nat
    BY <1>1, <2>5
  <2>9. Len(Pieces(s, edits)[p]) \in Nat
    BY <1>2, <2>5
  <2> HIDE DEF k, bad
  <2>10. at[i] <= at[p]
    BY <2>3, <2>7, <2>8, <2>9
  <2> QED
    BY <2>2, <2>10
<1>5. at[i] <= at[n]
  BY <1>3, <1>4
<1> QED
  BY <1>1, <1>3, <1>5 DEF n

\* A string that stands in front of an edit is read as before.
LEMMA EditBehindKeeps ==
  ASSUME NEW s, Len(s) \in Nat, NEW edits, NEW T, Writes(edits, T), TokensIn(s, T), NEW key,
         NEW loc, loc = FieldLocation(s, 1, Len(s) + 1, key), Present(loc), IsString(s[loc.lo]),
         Clear(edits, 1, loc.hi)
  PROVE  /\ Len(Splice(s, edits)) \in Nat
         /\ StringField(Splice(s, edits), 1, Len(Splice(s, edits)) + 1, key) = StringField(s, 1, Len(s) + 1, key)
<1> DEFINE t == Splice(s, edits)
           end == Len(s) + 1
           far == Len(t) + 1
<1>1. t \in Seq(T) /\ \E at : Edited(s, edits, t, at)
  BY SpliceLays DEF Edited
<1>2. PICK at : Edited(s, edits, t, at)
  BY <1>1
<1>3. Len(t) \in Nat /\ far \in Nat /\ end \in Nat
  BY <1>1
<1>4. 1 < end /\ s[1] = "{" /\ loc = FieldFrom(s, 2, end, key)
  <2> HIDE DEF end
  <2> QED
    BY <1>3, PresentFrom DEF end
<1>5. 1 < end
  BY <1>4
<1>6. loc = FieldFrom(s, 2, end, key)
  BY <1>4
<1> DEFINE two == 2
<1>7. two \in Nat /\ two \in two .. end /\ 1 < two
  BY <1>3, <1>5
<1>8. FieldFrom(s, two, end, key) = loc
  BY <1>6
<1> HIDE DEF end, far, t, two
<1>9. /\ loc.lo \in Nat /\ loc.hi \in Nat /\ two + 2 <= loc.lo /\ loc.lo < loc.hi /\ loc.hi <= end
  <2>1. \A i \in two .. end : Present(FieldFrom(s, i, end, key)) =>
           /\ FieldFrom(s, i, end, key).lo \in Nat /\ FieldFrom(s, i, end, key).hi \in Nat
           /\ i + 2 <= FieldFrom(s, i, end, key).lo
           /\ FieldFrom(s, i, end, key).lo < FieldFrom(s, i, end, key).hi
           /\ FieldFrom(s, i, end, key).hi <= end
           /\ FieldFrom(s, i, end, key).hi = ConsumeValue(s, FieldFrom(s, i, end, key).lo, end)
    BY <1>3, <1>7, FieldFromIsValue
  <2> QED
    BY <1>7, <1>8, <2>1
<1> DEFINE n == loc.hi
           k == n - 1
<1>10. n \in Nat /\ 1 <= n /\ n <= end /\ 1 < n /\ loc.lo < n /\ loc.hi <= n /\ k \in Nat /\ k < n /\ 1 - 1 <= k /\ k \in 0 .. end
  BY <1>3, <1>7, <1>9
<1>11. Clear(edits, 1, n)
  OBVIOUS
<1> HIDE DEF n, k
<1>12. /\ Same(s, t, 0, 1, n)
       /\ \A p \in Nat : 1 - 1 <= p /\ p < n => at[p] = p + 0
  <2>1. at[0] = 0
    BY <1>2 DEF Edited, Laid
  <2>2. Further(1 - 1, 0, at[1 - 1])
    BY <2>1 DEF Further
  <2>3. n <= Len(s) + 1
    BY <1>10 DEF end
  <2> QED
    BY <1>2, <1>10, <1>11, <2>2, <2>3, KeptPart
<1>13. n <= far
  <2>1. at[k] = k
    <3>1. at[k] = k + 0
      BY <1>10, <1>12
    <3> QED
      BY <1>10, <3>1
  <2>2. k \in 0 .. Len(s) + 1
    BY <1>10 DEF end
  <2>3. at[k] <= Len(t)
    BY <1>2, <2>2, LaidGrows
  <2>4. k <= Len(t)
    BY <2>1, <2>3
  <2> QED
    BY <1>3, <1>10, <2>4 DEF k, far
<1>14. Same(s, t, 0, two, n)
  BY <1>7, <1>12 DEF Same
<1>15. FieldFrom(t, two, far, key) = loc
  <2>1. \A i \in two .. end : FieldFrom(s, i, end, key) = loc => FieldFrom(t, i, far, key) = loc
    <3>1. AlikeUpTo(s, t, two, n, end, far, loc)
      BY <1>3, <1>7, <1>10, <1>13, <1>14 DEF AlikeUpTo
    <3> QED
      BY ONLY <3>1, SameFirstField
  <2> QED
    BY <1>7, <1>8, <2>1
<1>16. t[loc.lo] = s[loc.lo] /\ t[1] = s[1]
  <2>1. ASSUME NEW p \in Nat, 1 <= p, p < n PROVE t[p] = s[p]
    <3>1. t[p + 0] = s[p]
      BY <1>12, <2>1 DEF Same
    <3> QED
      BY <3>1
  <2>2. 1 <= loc.lo /\ loc.lo \in Nat
    BY <1>7, <1>9
  <2> QED
    BY <1>10, <2>1, <2>2
<1>17. StringAt(t, loc) = StringAt(s, loc)
  BY <1>16 DEF StringAt
<1>18. 1 < far
  BY <1>3, <1>10, <1>13
<1>19. StringField(t, 1, far, key) = StringAt(t, loc)
  <2>1. t[1] = "{"
    BY <1>4, <1>16
  <2>2. StringField(t, 1, far, key) = StringAt(t, FieldFrom(t, 2, far, key))
    BY <1>3, <1>18, <2>1, FieldOfText
  <2>3. FieldFrom(t, 2, far, key) = loc
    BY <1>15 DEF two
  <2> QED
    BY <2>2, <2>3
<1>20. StringField(s, 1, end, key) = StringAt(s, loc)
  BY DEF StringField, end
<1> QED
  BY <1>3, <1>17, <1>19, <1>20 DEF t, end, far

\* The model a request is routed by.
ModelIn(s) == InspectRequestJSONFields(s).model
ModelField(s) == StringField(s, 1, Len(s) + 1, "model")

\* The model is the string of the field, or nothing if the walk broke before.
LEMMA ModelRead ==
  ASSUME NEW s
  PROVE  /\ ModelIn(s) = "" \/ ModelIn(s) = ModelField(s)
         /\ ModelIn(s) # "" => /\ InspectRequestJSONFields(s).modelLoc = FieldLocation(s, 1, Len(s) + 1, "model")
                               /\ ModelField(s) = StringAt(s, FieldLocation(s, 1, Len(s) + 1, "model"))
<1> DEFINE end == Len(s) + 1
           walk == Members(s, 1, end)
           found == FieldLocations(s, 1, end, RoutingInspectionKeys)
           loc == FieldLocation(s, 1, end, "model")
           fields == InspectRequestJSONFields(s)
<1>1. loc = Located(walk.read, "model")
  BY DEF FieldLocation
<1>2. found = AllLocated(walk, RoutingInspectionKeys)
  BY DEF FieldLocations
<1> HIDE DEF walk
<1>3. "model" \in RoutingInspectionKeys
  BY DEF RoutingInspectionKeys
<1>4. found.at["model"] = loc
  <2>1. found.at = [k \in RoutingInspectionKeys |-> Located(walk.read, k)]
    BY <1>2 DEF AllLocated
  <2> HIDE DEF loc, found
  <2> QED
    BY <1>1, <1>3, <2>1
<1>5. CASE found.ok
  <2>1. fields.model = StringAt(s, found.at["model"]) /\ fields.modelLoc = found.at["model"]
    BY <1>5 DEF InspectRequestJSONFields
  <2>2. ModelField(s) = StringAt(s, loc)
    BY DEF ModelField, StringField
  <2> HIDE DEF found, loc, fields
  <2>3. fields.model = ModelField(s) /\ fields.modelLoc = loc
    BY <1>4, <2>1, <2>2
  <2> QED
    BY <2>2, <2>3 DEF ModelIn, fields, loc, end
<1>6. CASE ~found.ok
  <2>1. fields.model = ""
    BY <1>6 DEF InspectRequestJSONFields
  <2> QED
    BY <2>1 DEF ModelIn
<1> QED
  BY <1>5, <1>6

\* As long as the tier that is added.
LEMMA FourTokens ==
  ASSUME NEW T, NEW a \in T, NEW b \in T, NEW c \in T, NEW d \in T
  PROVE  <<a, b, c, d>> \in Seq(T)
  OBVIOUS

\* The edit for the fast mode stands behind the model and leaves it.
LEMMA FastModeKeepsModel ==
  ASSUME NEW s, Len(s) \in Nat, NEW path, NEW fields, fields = InspectRequestJSONFields(s),
         HasFastMode(fields.model), NEW t, t # s, t = ProcessOpenAIFastMode(s, path, fields)
  PROVE  Len(t) \in Nat /\ ModelField(t) = ModelField(s)
<1> DEFINE end == Len(s) + 1
           key == "model"
           loc == FieldLocation(s, 1, end, key)
           Added == {",", "service_tier", ":", "priority"}
           text == <<",", "service_tier", ":", "priority">>
           e == [lo |-> loc.hi, hi |-> loc.hi, text |-> text]
           T == {s[q] : q \in 1 .. Len(s)} \cup Added
<1>1. ModelIn(s) # "" /\ ModelIn(s) = fields.model
  BY DEF HasFastMode, ModelIn
<1>2. fields.modelLoc = loc /\ ModelField(s) = StringAt(s, loc) /\ ModelField(s) # ""
  BY <1>1, ModelRead
<1>3. Present(loc) /\ IsString(s[loc.lo])
  BY <1>2 DEF StringAt
<1>4. t = Splice(s, {e})
  BY <1>2 DEF ProcessOpenAIFastMode
<1>5. Writes({e}, T)
  <2>1. text \in Seq(Added)
    <3>1. "," \in Added /\ "service_tier" \in Added /\ ":" \in Added /\ "priority" \in Added
      OBVIOUS
    <3> HIDE DEF Added
    <3> QED
      BY <3>1, FourTokens
  <2>2. Added \subseteq T
    OBVIOUS
  <2> HIDE DEF Added, text, T
  <2>3. text \in Seq(T)
    BY <2>1, <2>2, SeqWithin
  <2>4. e.text = text
    OBVIOUS
  <2> HIDE DEF e
  <2> QED
    BY <2>3, <2>4 DEF Writes
<1>6. TokensIn(s, T)
  BY DEF TokensIn
<1>7. e.lo = loc.hi /\ e.hi = loc.hi
  OBVIOUS
<1> HIDE DEF T, Added, text, e
<1>8. Clear({e}, 1, loc.hi)
  <2>0. loc.hi \in Nat
    <3> HIDE DEF loc, key
    <3>1. end \in Nat /\ 1 \in Nat
      OBVIOUS
    <3> HIDE DEF end
    <3> QED
      BY <1>3, <3>1, FieldIsInside DEF loc
  <2> SUFFICES ASSUME NEW p \in Nat, 1 <= p, p < loc.hi, e.lo = p \/ (e.lo <= p /\ p < e.hi)
               PROVE  FALSE
    BY DEF Clear, Begun, Within
  <2> QED
    BY <1>7, <2>0
<1> DEFINE edits == {e}
<1> HIDE DEF edits, loc, key
<1>9. /\ Len(Splice(s, edits)) \in Nat
      /\ StringField(Splice(s, edits), 1, Len(Splice(s, edits)) + 1, key) = StringField(s, 1, Len(s) + 1, key)
  BY <1>3, <1>5, <1>6, <1>8, EditBehindKeeps DEF edits, loc
<1> QED
  BY <1>4, <1>9 DEF edits, key, ModelField

\* The text that goes to the backend names Meta's model only when the text
\* that was inspected does: the edits are for other models, and leave theirs.
LEMMA BackendTextKeepsMeta ==
  ASSUME NEW s, Len(s) \in Nat, NEW path, NEW fields, fields = InspectRequestJSONFields(s),
         IsMetaModel(ModelIn(BackendText(s, path, fields)))
  PROVE  IsMetaModel(fields.model)
<1> DEFINE fast == ProcessOpenAIFastMode(s, path, fields)
           t == SanitizeClaude(fast, InspectRequestJSONFields(fast))
<1>1. BackendText(s, path, fields) = t
  BY DEF BackendText
<1>2. fields.model = ModelIn(s)
  BY DEF ModelIn
<1>3. CASE fast = s /\ t = fast
  BY <1>1, <1>2, <1>3
<1>4. fast # s => HasFastMode(fields.model)
  BY DEF ProcessOpenAIFastMode
<1>5. Len(fast) \in Nat
  <2>1. CASE fast = s
    BY <2>1
  <2>2. CASE fast # s
    <3> HIDE DEF fast
    <3> QED
      BY <1>4, <2>2, FastModeKeepsModel DEF fast
  <2> QED
    BY <2>1, <2>2
<1>6. fast # s => ModelField(fast) = ModelField(s) /\ ModelField(s) = "gpt-6-sol"
  <2> SUFFICES ASSUME fast # s PROVE ModelField(fast) = ModelField(s) /\ ModelField(s) = "gpt-6-sol"
    OBVIOUS
  <2>1. ModelField(fast) = ModelField(s)
    <3> HIDE DEF fast
    <3> QED
      BY <1>4, FastModeKeepsModel DEF fast
  <2>2. ModelIn(s) = "gpt-6-sol"
    BY <1>2, <1>4 DEF HasFastMode
  <2>3. ModelIn(s) = "" \/ ModelIn(s) = ModelField(s)
    BY ModelRead
  <2> QED
    BY <2>1, <2>2, <2>3
<1> HIDE DEF fast
<1>7. t # fast => /\ IsClaudeModel(ModelIn(fast))
                  /\ t = SanitizeThinkingBlocks(fast)
  BY DEF SanitizeClaude, ModelIn
<1>8. t # fast => ModelField(t) = ModelField(fast) /\ IsClaudeModel(ModelField(fast))
  <2> SUFFICES ASSUME t # fast PROVE ModelField(t) = ModelField(fast) /\ IsClaudeModel(ModelField(fast))
    OBVIOUS
  <2>1. t = SanitizeThinkingBlocks(fast)
    BY <1>7
  <2> DEFINE key == "model"
  <2>2. key # "messages"
    OBVIOUS
  <2> HIDE DEF key, t
  <2>3. StringField(SanitizeThinkingBlocks(fast), 1, Len(SanitizeThinkingBlocks(fast)) + 1, key)
              = StringField(fast, 1, Len(fast) + 1, key)
    BY <1>5, <2>2, SanitizerKeepsFields
  <2>4. ModelField(t) = ModelField(fast)
    BY <2>1, <2>3 DEF ModelField, key
  <2>5. IsClaudeModel(ModelIn(fast)) /\ (ModelIn(fast) = "" \/ ModelIn(fast) = ModelField(fast))
    BY <1>7, ModelRead
  <2>6. ~IsClaudeModel("")
    BY DEF IsClaudeModel
  <2> QED
    BY <2>4, <2>5, <2>6
<1> HIDE DEF t
<1>9. CASE t # fast
  <2>1. ModelIn(t) = "" \/ IsClaudeModel(ModelIn(t))
    BY <1>8, <1>9, ModelRead
  <2>2. IsMetaModel(ModelIn(t))
    BY <1>1
  <2> QED
    BY <2>1, <2>2 DEF IsMetaModel, IsClaudeModel
<1>10. CASE fast # s /\ t = fast
  <2>1. ModelIn(t) = "" \/ ModelIn(t) = "gpt-6-sol"
    BY <1>6, <1>10, ModelRead
  <2>2. IsMetaModel(ModelIn(t))
    BY <1>1
  <2> QED
    BY <2>1, <2>2 DEF IsMetaModel
<1> QED
  BY <1>3, <1>9, <1>10

-----------------------------------------------------------------------------
(* The body of a request is a text                                         *)

\* The documents a client sends are texts: sequences of tokens.
Written(T) ==
  /\ "{" \in T /\ "}" \in T /\ "[" \in T /\ "]" \in T /\ ":" \in T /\ "," \in T
  /\ "model" \in T /\ "messages" \in T /\ "thinking" \in T /\ "type" \in T /\ "service_tier" \in T
  /\ "flex" \in T /\ "priority" \in T /\ "role" \in T /\ "content" \in T /\ "hello" \in T
  /\ "signature" \in T /\ "s" \in T /\ "text" \in T /\ "1" \in T
Pair(T) == T \X Seq(T)

\* Sequences of one, of two, joined, empty, and of many.
LEMMA OneIn == ASSUME NEW T, NEW a \in T PROVE <<a>> \in Seq(T)
  OBVIOUS
LEMMA TwoIn == ASSUME NEW T, NEW a \in T, NEW b \in T PROVE <<a, b>> \in Seq(T)
  OBVIOUS
LEMMA Together == ASSUME NEW T, NEW p \in Seq(T), NEW q \in Seq(T) PROVE p \o q \in Seq(T)
  OBVIOUS
LEMMA NoneIn == ASSUME NEW T PROVE <<>> \in Seq(T)
  OBVIOUS
LEMMA ManyIn ==
  ASSUME NEW T, NEW n \in Nat, NEW f, f = [k \in 1 .. n |-> f[k]], \A k \in 1 .. n : f[k] \in T
  PROVE  f \in Seq(T)
<1>1. f \in [1 .. n -> T]
  OBVIOUS
<1> QED
  BY <1>1, SeqDef

\* Strings, literals and pairs.
LEMMA StrIn == ASSUME NEW T, NEW v \in T PROVE Str(v) \in Seq(T)
  BY OneIn DEF Str
LEMMA LitIn == ASSUME NEW T, NEW v \in T PROVE Lit(v) \in Seq(T)
  BY OneIn DEF Lit
LEMMA PairIn == ASSUME NEW T, NEW key \in T, NEW doc \in Seq(T) PROVE <<key, doc>> \in Pair(T)
  BY DEF Pair

\* Texts with commas between them, in brackets, and pairs in braces.
LEMMA ListedIn ==
  ASSUME NEW T, Written(T), NEW parts \in Seq(Seq(T))
  PROVE  Listed(parts) \in Seq(T)
<1> DEFINE n == Len(parts)
           U == Seq(T)
           comma == <<",">>
           list == [k \in 1 .. n |-> (IF k = 1 THEN <<>> ELSE comma) \o parts[k]]
<1>1. n \in Nat /\ DOMAIN parts = 1 .. n /\ \A k \in 1 .. n : parts[k] \in U
  OBVIOUS
<1>2. comma \in U
  BY OneIn DEF Written
<1>3. <<>> \in U
  BY NoneIn
<1>4. Listed(parts) = FlattenSeq(list)
  <2>1. Listed(parts) = FlattenSeq([k \in DOMAIN parts |-> (IF k = 1 THEN <<>> ELSE comma) \o parts[k]])
    BY DEF Listed
  <2> HIDE DEF n
  <2>2. [k \in DOMAIN parts |-> (IF k = 1 THEN <<>> ELSE comma) \o parts[k]] = list
    BY <1>1
  <2> QED
    BY <2>1, <2>2
<1> HIDE DEF comma
<1>5. ASSUME NEW k \in 1 .. n PROVE (IF k = 1 THEN <<>> ELSE comma) \o parts[k] \in U
  <2>1. parts[k] \in Seq(T) /\ comma \in Seq(T) /\ <<>> \in Seq(T)
    BY <1>1, <1>2, <1>3
  <2>2. CASE k = 1
    BY <2>1, <2>2, Together
  <2>3. CASE k # 1
    BY <2>1, <2>3, Together
  <2> QED
    BY <2>2, <2>3
<1>6. list = [k \in 1 .. n |-> list[k]] /\ \A k \in 1 .. n : list[k] \in U
  BY <1>5
<1> HIDE DEF list, n, U
<1>7. list \in Seq(U)
  BY <1>1, <1>6, ManyIn
<1>8. list \in Seq(Seq(T))
  BY <1>7 DEF U
<1> QED
  BY <1>4, <1>8, FlattenLays

\* An array is a text.
LEMMA ArrIn ==
  ASSUME NEW T, Written(T), NEW elements \in Seq(Seq(T))
  PROVE  Arr(elements) \in Seq(T)
<1> DEFINE opens == <<"[">>
           closes == <<"]">>
           list == Listed(elements)
<1>1. opens \in Seq(T) /\ closes \in Seq(T)
  BY OneIn DEF Written
<1>2. list \in Seq(T)
  BY ListedIn
<1>3. Arr(elements) = opens \o list \o closes
  BY DEF Arr
<1> HIDE DEF opens, closes, list
<1>4. opens \o list \in Seq(T)
  BY <1>1, <1>2, Together
<1>5. opens \o list \o closes \in Seq(T)
  BY <1>1, <1>4, Together
<1> QED
  BY <1>3, <1>5

\* An object is a text.
LEMMA ObjIn ==
  ASSUME NEW T, Written(T), NEW members \in Seq(Pair(T))
  PROVE  Obj(members) \in Seq(T)
<1> DEFINE opens == <<"{">>
           closes == <<"}">>
           colon == ":"
           n == Len(members)
           U == Seq(T)
           parts == [k \in 1 .. n |-> <<members[k][1], colon>> \o members[k][2]]
           list == Listed(parts)
<1>1. opens \in Seq(T) /\ closes \in Seq(T) /\ colon \in T
  BY OneIn DEF Written
<1>2. n \in Nat /\ DOMAIN members = 1 .. n /\ \A k \in 1 .. n : members[k] \in Pair(T)
  OBVIOUS
<1>3. Obj(members) = opens \o list \o closes
  <2>1. Obj(members) = opens \o Listed([k \in DOMAIN members |-> <<members[k][1], colon>> \o members[k][2]]) \o closes
    BY DEF Obj
  <2> HIDE DEF n
  <2>2. [k \in DOMAIN members |-> <<members[k][1], colon>> \o members[k][2]] = parts
    BY <1>2
  <2> QED
    BY <2>1, <2>2
<1> HIDE DEF opens, closes, colon
<1>4. ASSUME NEW k \in 1 .. n PROVE <<members[k][1], colon>> \o members[k][2] \in U
  <2> DEFINE a == members[k][1]
             b == members[k][2]
  <2>1. a \in T /\ b \in Seq(T)
    BY <1>2 DEF Pair
  <2> HIDE DEF a, b
  <2>2. <<a, colon>> \in Seq(T)
    BY <1>1, <2>1, TwoIn
  <2>3. <<a, colon>> \o b \in Seq(T)
    BY <2>1, <2>2, Together
  <2> QED
    BY <2>3 DEF a, b
<1>5. parts = [k \in 1 .. n |-> parts[k]] /\ \A k \in 1 .. n : parts[k] \in U
  BY <1>4
<1> HIDE DEF n, parts, U, list
<1>6. parts \in Seq(U)
  BY <1>2, <1>5, ManyIn
<1>7. parts \in Seq(Seq(T))
  BY <1>6 DEF U
<1>8. list \in Seq(T)
  BY <1>7, ListedIn DEF list
<1>9. opens \o list \in Seq(T)
  BY <1>1, <1>8, Together
<1>10. opens \o list \o closes \in Seq(T)
  BY <1>1, <1>9, Together
<1> QED
  BY <1>3, <1>10

\* The positions of a sequence.
LEMMA Positions ==
  ASSUME NEW x, IsSequence(x)
  PROVE  Len(x) \in Nat /\ DOMAIN x = 1 .. Len(x)
<1> DEFINE n == Len(x)
<1>1. n \in Nat /\ x = [k \in 1 .. n |-> x[k]]
  BY DEF IsSequence
<1> HIDE DEF n
<1>2. DOMAIN x = 1 .. n
  BY <1>1
<1> QED
  BY <1>1, <1>2 DEF n

\* A block, a message and the whole document.
LEMMA BlockIn ==
  ASSUME NEW T, Written(T), NEW type \in T
  PROVE  Block(type) \in Seq(T)
<1> DEFINE P == Pair(T)
           none == <<>>
           one == Lit("1")
           inner == Obj(none)
           list == <<one, inner>>
           first == <<"signature", Str("s")>>
           kind == <<"type", Str(type)>>
           text == <<"text", Arr(list)>>
<1>1. /\ "signature" \in T /\ "s" \in T /\ "type" \in T /\ "text" \in T /\ "1" \in T
  BY DEF Written
<1>2. first \in P /\ kind \in P
  <2>1. Str("s") \in Seq(T) /\ Str(type) \in Seq(T)
    BY <1>1, StrIn
  <2> QED
    BY <1>1, <2>1, PairIn
<1>3. text \in P
  <2>1. one \in Seq(T)
    BY <1>1, LitIn
  <2>2. none \in Seq(P)
    BY NoneIn
  <2> HIDE DEF none, one, P
  <2>3. inner \in Seq(T)
    BY <2>2, ObjIn DEF P
  <2> HIDE DEF inner
  <2> DEFINE U == Seq(T)
  <2>4. one \in U /\ inner \in U
    BY <2>1, <2>3
  <2> HIDE DEF U
  <2>5. list \in Seq(U)
    BY <2>4, TwoIn
  <2> HIDE DEF list
  <2>6. Arr(list) \in Seq(T)
    BY <2>5, ArrIn DEF U
  <2> QED
    BY <1>1, <2>6, PairIn DEF P
<1>4. \/ Block(type) = Obj(<<first, kind>>)
      \/ Block(type) = Obj(<<kind, text>>)
  BY DEF Block
<1> HIDE DEF first, kind, text, P
<1>5. <<first, kind>> \in Seq(P) /\ <<kind, text>> \in Seq(P)
  BY <1>2, <1>3, TwoIn
<1> QED
  BY <1>4, <1>5, ObjIn DEF P

\* A message is a text.
LEMMA MessageIn ==
  ASSUME NEW T, Written(T), NEW turn, turn.role \in T, IsSequence(turn.types),
         \A n \in 1 .. Len(turn.types) : turn.types[n] \in T
  PROVE  Message(turn) \in Seq(T)
<1> DEFINE P == Pair(T)
           U == Seq(T)
           types == turn.types
           n == Len(types)
           blocks == [k \in DOMAIN types |-> Block(types[k])]
           hello == Str("hello")
           content == IF turn.plain THEN hello ELSE Arr(blocks)
           role == <<"role", Str(turn.role)>>
           said == <<"content", content>>
<1>1. "role" \in T /\ "content" \in T /\ "hello" \in T
  BY DEF Written
<1>2. n \in Nat /\ DOMAIN types = 1 .. n
  BY Positions
<1>3. \A k \in 1 .. n : types[k] \in T
  OBVIOUS
<1> HIDE DEF types, n
<1>4. Arr(blocks) \in Seq(T)
  <2>1. ASSUME NEW k \in 1 .. n PROVE Block(types[k]) \in U
    BY <1>3, BlockIn
  <2>2. blocks = [k \in 1 .. n |-> blocks[k]] /\ \A k \in 1 .. n : blocks[k] \in U
    BY <1>2, <2>1
  <2> HIDE DEF blocks, U
  <2>3. blocks \in Seq(U)
    BY <1>2, <2>2, ManyIn
  <2> QED
    BY <2>3, ArrIn DEF U
<1>5. hello \in Seq(T)
  BY <1>1, StrIn
<1>6. content \in Seq(T)
  BY <1>4, <1>5
<1>7. role \in P /\ said \in P
  <2>1. Str(turn.role) \in Seq(T)
    BY StrIn
  <2> HIDE DEF content
  <2> QED
    BY <1>1, <1>6, <2>1, PairIn
<1>8. Message(turn) = Obj(<<role, said>>)
  BY DEF Message, types
<1> HIDE DEF role, said, P
<1>9. <<role, said>> \in Seq(P)
  BY <1>7, TwoIn
<1> QED
  BY <1>8, <1>9, ObjIn DEF P

\* The tokens of the document of a request.
Words(r) ==
  {"{", "}", "[", "]", ":", ",", "model", "messages", "thinking", "type", "service_tier", "flex", "priority",
   "role", "content", "hello", "signature", "s", "text", "1"}
  \cup {r.model, r.thinking} \cup {r.turns[n].role : n \in DOMAIN r.turns}
  \cup UNION {{r.turns[n].types[k] : k \in DOMAIN r.turns[n].types} : n \in DOMAIN r.turns}

\* The body a client sends is a text.
LEMMA DocIn ==
  ASSUME NEW r \in Requests
  PROVE  Doc(r) \in Seq(Words(r))
<1> DEFINE T == Words(r)
           P == Pair(T)
           U == Seq(T)
           turns == r.turns
           n == Len(turns)
           messages == [k \in DOMAIN turns |-> Message(turns[k])]
           model == <<"model", Str(r.model)>>
           list == <<"messages", Arr(messages)>>
           type == <<"type", Str(r.thinking)>>
           thinking == <<"thinking", Obj(<<type>>)>>
           tier == <<"service_tier", Str("flex")>>
           none == <<>>
           first == <<model>> \o none
           some == IF r.thinking = "" THEN none ELSE <<thinking>>
           more == IF r.tier THEN <<tier>> ELSE none
           others == <<list>> \o some \o more
<1>1. Written(T)
  BY DEF Written, Words
<1>2. /\ "model" \in T /\ "messages" \in T /\ "thinking" \in T /\ "type" \in T /\ "service_tier" \in T
      /\ "flex" \in T
  BY <1>1 DEF Written
<1>3. r.model \in T /\ r.thinking \in T
  BY DEF Words
<1>4. n \in Nat /\ DOMAIN turns = 1 .. n /\ \A k \in 1 .. n : IsSequence(turns[k].types)
  <2>1. IsSequence(turns) /\ \A k \in DOMAIN turns : IsSequence(turns[k].types)
    BY RequestsAssumption
  <2>2. n \in Nat /\ DOMAIN turns = 1 .. n
    BY <2>1, Positions
  <2> QED
    BY <2>1, <2>2
<1>5. ASSUME NEW k \in 1 .. n PROVE Message(turns[k]) \in U
  <2> DEFINE turn == turns[k]
             types == turn.types
             m == Len(types)
  <2>1. k \in DOMAIN turns
    BY <1>4
  <2>2. turn.role \in T
    BY <2>1 DEF Words
  <2>3. IsSequence(types)
    BY <1>4
  <2>4. \A j \in 1 .. m : types[j] \in T
    <3>1. DOMAIN types = 1 .. m
      BY <2>3, Positions
    <3> HIDE DEF m
    <3> SUFFICES ASSUME NEW j \in 1 .. m PROVE types[j] \in T
      OBVIOUS
    <3>2. j \in DOMAIN types
      BY <3>1
    <3> DEFINE Kinds(i) == {r.turns[i].types[h] : h \in DOMAIN r.turns[i].types}
               all == {Kinds(i) : i \in DOMAIN r.turns}
    <3>3. types[j] \in Kinds(k)
      BY <3>2
    <3>4. Kinds(k) \in all
      BY <2>1
    <3>5. UNION all \subseteq T
      BY DEF Words
    <3> HIDE DEF all, Kinds, T, types
    <3> QED
      BY <3>3, <3>4, <3>5
  <2> HIDE DEF T, turns, n, turn
  <2> QED
    BY <1>1, <2>2, <2>3, <2>4, MessageIn DEF turn
<1> HIDE DEF T, turns, n
<1>6. Arr(messages) \in Seq(T)
  <2>1. messages = [k \in 1 .. n |-> messages[k]] /\ \A k \in 1 .. n : messages[k] \in U
    BY <1>4, <1>5
  <2> HIDE DEF messages, U
  <2>2. messages \in Seq(U)
    BY <1>4, <2>1, ManyIn
  <2> QED
    BY <1>1, <2>2, ArrIn DEF U
<1> HIDE DEF messages
<1>7. model \in P /\ list \in P /\ type \in P /\ tier \in P
  <2>1. Str(r.model) \in Seq(T) /\ Str(r.thinking) \in Seq(T) /\ Str("flex") \in Seq(T)
    BY <1>2, <1>3, StrIn
  <2> QED
    BY <1>2, <1>6, <2>1, PairIn
<1>8. thinking \in P
  <2> HIDE DEF type, P
  <2>1. <<type>> \in Seq(P)
    BY <1>7, OneIn
  <2> DEFINE pairs == <<type>>
  <2> HIDE DEF pairs
  <2>2. Obj(pairs) \in Seq(T)
    BY <1>1, <2>1, ObjIn DEF P, pairs
  <2> QED
    BY <1>2, <2>2, PairIn DEF P, pairs
<1> HIDE DEF model, list, type, thinking, tier, P
<1>9. none \in Seq(P)
  BY NoneIn
<1> HIDE DEF none
<1>10. first \in Seq(P) /\ some \in Seq(P) /\ more \in Seq(P) /\ <<list>> \in Seq(P)
  <2>1. <<model>> \in Seq(P) /\ <<thinking>> \in Seq(P) /\ <<tier>> \in Seq(P) /\ <<list>> \in Seq(P)
    BY <1>7, <1>8, OneIn
  <2>2. first \in Seq(P)
    BY <1>9, <2>1, Together
  <2> QED
    BY <1>9, <2>1, <2>2
<1>11. Doc(r) = Obj(IF r.modelLast THEN others \o first ELSE first \o others)
  BY DEF Doc, DocOf, messages, model, list, thinking, type, tier, none, turns
<1> HIDE DEF some, more, first
<1> DEFINE head == <<list>>
<1> HIDE DEF head
<1>12. others \in Seq(P)
  <2>1. head \in Seq(P)
    BY <1>10 DEF head
  <2>2. head \o some \in Seq(P)
    BY <1>10, <2>1, Together
  <2>3. head \o some \o more \in Seq(P)
    BY <1>10, <2>2, Together
  <2> QED
    BY <2>3 DEF head
<1> HIDE DEF others
<1>13. (IF r.modelLast THEN others \o first ELSE first \o others) \in Seq(P)
  <2>1. others \o first \in Seq(P) /\ first \o others \in Seq(P)
    BY <1>10, <1>12, Together
  <2> QED
    BY <2>1
<1> QED
  BY <1>1, <1>11, <1>13, ObjIn DEF P, T

-----------------------------------------------------------------------------
(* What the backend gets                                                   *)

\* What was read of a body is a text.
BodyRead == Len(body) \in Nat

\* It stays one.
LEMMA BodyStep == Ordering /\ BodyRead /\ [RequestNext]_requestVars => BodyRead'
<1> SUFFICES ASSUME Ordering, BodyRead, [RequestNext]_requestVars PROVE BodyRead'
  OBVIOUS
<1>1. ASSUME body' = body PROVE BodyRead'
  BY <1>1 DEF BodyRead
<1>2. Bytes \in Seq(Words(request))
  BY DocIn DEF Bytes, Ordering
<1>3. CASE ReadHeader
  <2> DEFINE bytes == Bytes
  <2>1. PICK n \in {0, Len(bytes) \div 2, Len(bytes) - 1, Len(bytes)} : body' = SubSeq(bytes, 1, n)
    BY <1>3 DEF ReadHeader
  <2>2. bytes \in Seq(Words(request)) /\ Len(bytes) \in Nat
    BY <1>2
  <2> HIDE DEF bytes
  <2>3. n \in Int /\ n <= Len(bytes)
    BY <2>1, <2>2
  <2>4. Len(SubSeq(bytes, 1, n)) \in Nat
    <3>1. CASE n < 1
      <4>1. SubSeq(bytes, 1, n) = <<>>
        BY <2>2, <2>3, <3>1, SubSeqProperties
      <4> QED
        BY <4>1
    <3>2. CASE 1 <= n
      BY <2>2, <2>3, <3>2
    <3> QED
      BY <2>3, <3>1, <3>2
  <2> QED
    BY <2>1, <2>4 DEF BodyRead
<1>4. CASE ReadBody
  <2> DEFINE bytes == Bytes
  <2>1. Len(bytes) \in Nat
    BY <1>2
  <2>2. body' = bytes
    BY <1>4 DEF ReadBody
  <2> HIDE DEF bytes
  <2> QED
    BY <2>1, <2>2 DEF BodyRead
<1>5. CASE ClientHalfCloses
  BY <1>1, <1>5 DEF ClientHalfCloses
<1>6. CASE Processed
  BY <1>1, <1>6, ProcessedIs
<1>7. CASE Resolved
  BY <1>1, <1>7, ResolvedIs
<1>8. CASE Relays
  BY <1>8, RelaysIs, <1>1
<1>9. CASE UNCHANGED conn
  BY <1>1, <1>9 DEF conn
<1> QED
  BY <1>3, <1>4, <1>5, <1>6, <1>7, <1>8, <1>9, MeanwhileIs DEF Arrives

\* A posted text is one too, its alias replaced.
LEMMA PostedIsText ==
  ASSUME BodyRead, NEW text \in Posted
  PROVE  Len(text) \in Nat
<1> DEFINE fields == InspectRequestJSONFields(body)
           name == Aliases[fields.model]
           one == <<name>>
           e == [lo |-> fields.modelLoc.lo, hi |-> fields.modelLoc.hi, text |-> one]
           T == {body[q] : q \in 1 .. Len(body)} \cup {name}
<1>1. text = RewriteAntigravityModelAlias(body, fields)
  BY DEF Posted, Aliased
<1>2. text = body \/ text = Splice(body, {e})
  BY <1>1 DEF RewriteAntigravityModelAlias
<1>3. Writes({e}, T)
  <2>1. e.text = one
    OBVIOUS
  <2>2. name \in T
    OBVIOUS
  <2> HIDE DEF T, name
  <2>3. one \in Seq(T)
    BY <2>2, OneIn
  <2> HIDE DEF e, one
  <2> QED
    BY <2>1, <2>3 DEF Writes
<1>4. TokensIn(body, T)
  BY DEF TokensIn
<1> DEFINE edits == {e}
<1> HIDE DEF T, edits, e
<1>5. Splice(body, edits) \in Seq(T)
  BY <1>3, <1>4, SpliceLays DEF BodyRead, edits
<1> QED
  BY <1>2, <1>5 DEF BodyRead, edits

\* The backend gets a request for Meta's model only from a proxy that serves it.
BackendShut ==
  sent.dest = "backend" /\ request.method = "POST" /\ IsMetaModel(ModelIn(sent.text)) => "meta" \in everOn

\* It stays so.
LEMMA BackendStep == Ordering /\ Gate /\ BodyRead /\ BackendShut /\ [RequestNext]_requestVars => BackendShut'
<1> SUFFICES ASSUME Ordering, Gate, BodyRead, BackendShut, [RequestNext]_requestVars PROVE BackendShut'
  OBVIOUS
<1> USE DEF env
<1>1. ASSUME request' = request, sent'.dest = sent.dest, sent'.text = sent.text, everOn \subseteq everOn'
      PROVE  BackendShut'
  BY <1>1 DEF BackendShut, ModelIn
<1>2. CASE Arrives
  BY <1>1, <1>2, ArrivesIs
<1>3. CASE ProcessGrok
  <2>1. PICK text : \E fields \in {InspectRequestJSONFields(text)} :
             IF settings.grok
             THEN /\ sent' = [Unsent EXCEPT !.dest = UpstreamHost(fields.model),
                                            !.path = NormalizeUpstreamPath(request.path),
                                            !.text = text,
                                            !.grok = GrokBody]
             ELSE RefuseRequest(400) /\ UNCHANGED sent
    BY <1>3 DEF ProcessGrok
  <2> DEFINE host == UpstreamHost(InspectRequestJSONFields(text).model)
             path == NormalizeUpstreamPath(request.path)
             grok == GrokBody
  <2>2. host # "backend"
    BY DEF UpstreamHost
  <2>3. CASE settings.grok
    <3>1. sent' = [Unsent EXCEPT !.dest = host, !.path = path, !.text = text, !.grok = grok]
      BY <2>1, <2>3
    <3> HIDE DEF host, path, grok
    <3>2. sent'.dest = host
      BY <3>1 DEF Unsent
    <3> QED
      BY <2>2, <3>2 DEF BackendShut
  <2>4. CASE ~settings.grok
    <3>1. RefuseRequest(400) /\ sent' = sent
      BY <2>1, <2>4
    <3> QED
      BY <1>1, <3>1 DEF RefuseRequest
  <2> QED
    BY <2>3, <2>4
<1>4. CASE ProcessMeta
  <2>1. PICK text :
             IF settings.meta
             THEN /\ sent' = [Unsent EXCEPT !.dest = "api.meta.ai",
                                            !.path = NormalizeUpstreamPath(request.path),
                                            !.text = text]
             ELSE RefuseRequest(400) /\ UNCHANGED sent
    BY <1>4 DEF ProcessMeta
  <2> DEFINE path == NormalizeUpstreamPath(request.path)
  <2>2. CASE settings.meta
    <3>1. sent' = [Unsent EXCEPT !.dest = "api.meta.ai", !.path = path, !.text = text]
      BY <2>1, <2>2
    <3> HIDE DEF path
    <3>2. sent'.dest = "api.meta.ai"
      BY <3>1 DEF Unsent
    <3> QED
      BY <3>2 DEF BackendShut
  <2>3. CASE ~settings.meta
    <3>1. RefuseRequest(400) /\ sent' = sent
      BY <2>1, <2>3
    <3> QED
      BY <1>1, <3>1 DEF RefuseRequest
  <2> QED
    BY <2>2, <2>3
<1>5. CASE ProcessBackend
  <2>1. CASE request.method # "POST" /\ ForwardToBackend(body)
    BY <2>1 DEF ForwardToBackend, BackendShut
  <2>2. CASE \E text \in Posted : \E fields \in {InspectRequestJSONFields(text)} :
               /\ ~IsGrokModel(fields.model)
               /\ IsMetaModel(fields.model) => settings.meta /\ ~ShouldTLSForward(fields.model, request.path)
               /\ \E edited \in {BackendText(text, request.path, fields)} : ForwardToBackend(edited)
    <3>1. PICK text \in Posted :
             /\ IsMetaModel(InspectRequestJSONFields(text).model) => settings.meta
             /\ ForwardToBackend(BackendText(text, request.path, InspectRequestJSONFields(text)))
      BY <2>2
    <3> DEFINE fields == InspectRequestJSONFields(text)
               edited == BackendText(text, request.path, fields)
    <3>2. Len(text) \in Nat
      BY PostedIsText
    <3>3. IsMetaModel(ModelIn(edited)) => IsMetaModel(fields.model)
      <4> SUFFICES ASSUME IsMetaModel(ModelIn(edited)) PROVE IsMetaModel(fields.model)
        OBVIOUS
      <4> DEFINE path == request.path
      <4>1. IsMetaModel(ModelIn(BackendText(text, path, fields)))
        OBVIOUS
      <4> HIDE DEF path, fields
      <4> QED
        BY <3>2, <4>1, BackendTextKeepsMeta DEF fields
    <3>4. IsMetaModel(ModelIn(edited)) => "meta" \in everOn
      <4>1. IsMetaModel(fields.model) => settings.meta
        BY <3>1
      <4>2. settings["meta"] => "meta" \in everOn
        BY DEF Gate
      <4> QED
        BY <3>3, <4>1, <4>2
    <3>5. ForwardToBackend(edited)
      BY <3>1
    <3> HIDE DEF edited, fields
    <3>6. PICK path, betas :
             /\ sent' = [Unsent EXCEPT !.dest = "backend", !.path = path, !.betas = betas, !.text = edited]
             /\ UNCHANGED env
      BY <3>5 DEF ForwardToBackend
    <3>7. sent' = [dest |-> "backend", path |-> path, betas |-> betas, text |-> edited, grok |-> NoBody, key |-> 0]
      BY <3>6 DEF Unsent
    <3>8. sent'.text = edited /\ everOn' = everOn
      BY <3>6, <3>7
    <3> QED
      BY <3>4, <3>8 DEF BackendShut, ModelIn
  <2> QED
    BY <1>5, <2>1, <2>2 DEF ProcessBackend
<1>6. CASE Resolved
  <2>1. request' = request /\ UNCHANGED env /\ sent' = [sent EXCEPT !.key = sent'.key]
    BY <1>6, ResolvedIs
  <2> DEFINE key == sent'.key
  <2>2. sent' = [sent EXCEPT !.key = key]
    BY <2>1
  <2> HIDE DEF key
  <2>3. sent'.dest = sent.dest /\ sent'.text = sent.text
    BY <2>2 DEF Ordering
  <2> QED
    BY <1>1, <2>1, <2>3
<1>7. CASE Relays
  BY <1>1, <1>7, RelaysIs
<1>8. CASE SwitchProvider /\ UNCHANGED conn
  <2>1. everOn \subseteq everOn'
    BY <1>8 DEF SwitchProvider
  <2> QED
    BY <1>1, <1>8, <2>1 DEF conn
<1>9. CASE (AccountEnds \/ UNCHANGED requestVars) /\ UNCHANGED conn
  <2>1. everOn' = everOn
    BY <1>9 DEF AccountEnds, requestVars
  <2> QED
    BY <1>1, <1>9, <2>1 DEF conn
<1> QED
  BY <1>2, <1>3, <1>4, <1>5, <1>6, <1>7, <1>8, <1>9, MeanwhileIs DEF Processed

\* A provider that was disabled all the time since a request came gets nothing
\* of it, neither from the proxy nor through the backend, whatever the body
\* is: the edits of the text (process.go, json.go, thinking_sanitizer.go)
\* never make one for Meta of one that is not.
THEOREM DisabledGetsNothing == RequestSpec => []DisabledStaysOut
<1>1. RequestInit => BodyRead /\ BackendShut
  <2> SUFFICES ASSUME RequestInit PROVE BodyRead /\ BackendShut
    OBVIOUS
  <2>1. Len(body) = 0 /\ sent.dest = "none"
    BY DEF RequestInit, Unsent
  <2> QED
    BY <2>1 DEF BodyRead, BackendShut
<1>2. Gate /\ BackendShut => DisabledStaysOut
  BY DEF Gate, BackendShut, ModelIn, DisabledStaysOut
<1> QED
  BY <1>1, <1>2, GateAlways, BodyStep, BackendStep, Ordered, PTL DEF RequestSpec
-----------------------------------------------------------------------------
(* What the repair does to the arguments of a call                         *)

\* A text that an alias holds is the value found in its place.
LEMMA AliasFound ==
  ASSUME NEW args, NEW n \in Nat, NEW aliases, DOMAIN aliases = 1 .. n
  PROVE  /\ \A v \in FirstAlias(args, aliases) : v # <<>> /\ v \notin NotText
         /\ (\E i \in 1 .. n : CommandString(args, aliases[i]) # <<>>) => FirstAlias(args, aliases) # {}
<1> DEFINE held == {i \in DOMAIN aliases : CommandString(args, aliases[i]) # <<>>}
           m == Min(held)
<1>1. FirstAlias(args, aliases) = IF held = {} THEN {} ELSE {args[aliases[m]]}
  BY DEF FirstAlias
<1>2. held \subseteq Nat
  OBVIOUS
<1>3. held # {} => m \in held
  <2> HIDE DEF held
  <2> QED
    BY <1>2, MinIs
<1>4. ASSUME held # {} PROVE args[aliases[m]] # <<>> /\ args[aliases[m]] \notin NotText
  <2>1. CommandString(args, aliases[m]) # <<>>
    BY <1>3, <1>4
  <2> HIDE DEF m, held
  <2> QED
    BY <2>1 DEF CommandString
<1>5. (\E i \in 1 .. n : CommandString(args, aliases[i]) # <<>>) => held # {}
  OBVIOUS
<1> HIDE DEF held, m
<1> QED
  BY <1>1, <1>4, <1>5

\* A tool with one argument it cannot do without keeps it, and gets it from an
\* alias if it can (repairRead, repairGrep).
LEMMA AliasRepaired ==
  ASSUME NEW args, NEW key, NEW n \in Nat, NEW aliases, DOMAIN aliases = 1 .. n,
         NEW c \in RepairAlias(args, key, aliases)
  PROVE  /\ CommandString(args, key) # <<>> => c = args
         /\ (\E i \in 1 .. n : CommandString(args, aliases[i]) # <<>>) => CommandString(c, key) # <<>>
<1> DEFINE F == FirstAlias(args, aliases)
<1>1. CASE CommandString(args, key) # <<>>
  BY <1>1 DEF RepairAlias
<1>2. CASE CommandString(args, key) = <<>> /\ F # {}
  <2>1. PICK v \in F : c = With(args, key, v)
    BY <1>2 DEF RepairAlias
  <2>2. v # <<>> /\ v \notin NotText
    BY <2>1, AliasFound
  <2>3. CommandString(With(args, key, v), key) = v
    <3> DEFINE w == With(args, key, v)
    <3>1. key \in DOMAIN w /\ w[key] = v
      BY DEF With
    <3> HIDE DEF w
    <3>2. CommandString(w, key) = v
      BY <2>2, <3>1 DEF CommandString
    <3> QED
      BY <3>2 DEF w
  <2> QED
    BY <1>2, <2>1, <2>2, <2>3
<1>3. CASE CommandString(args, key) = <<>> /\ F = {}
  <2>1. ~\E i \in 1 .. n : CommandString(args, aliases[i]) # <<>>
    BY <1>3, AliasFound
  <2> QED
    BY <1>3, <2>1
<1> QED
  BY <1>1, <1>2, <1>3

\* A shell tool keeps its command, and gets one from an alias if it can
\* (repairExecute).
LEMMA ExecuteRepaired ==
  ASSUME NEW args, NEW text, NEW c \in RepairExecute(args, text)
  PROVE  /\ CommandString(args, "command") # <<>> => c = args
         /\ (\E k \in {"cmd", "shell", "bash", "script", "input"} : CommandString(args, k) # <<>>)
              => CommandString(c, "command") # <<>>
<1> DEFINE aliases == <<"cmd", "shell", "bash", "script", "input">>
           sources == CommandSources(args, text)
           found == {n \in DOMAIN sources : sources[n] # {}}
           F == FirstAlias(args, aliases)
           key == "command"
           some == \E k \in {"cmd", "shell", "bash", "script", "input"} : CommandString(args, k) # <<>>
<1>1. CASE CommandString(args, "command") # <<>>
  BY <1>1 DEF RepairExecute
<1>2. ASSUME CommandString(args, "command") = <<>>, some PROVE CommandString(c, "command") # <<>>
  <2>1. DOMAIN aliases = 1 .. 5 /\ \E i \in 1 .. 5 : CommandString(args, aliases[i]) # <<>>
    <3>1. /\ aliases[1] = "cmd" /\ aliases[2] = "shell" /\ aliases[3] = "bash"
          /\ aliases[4] = "script" /\ aliases[5] = "input" /\ DOMAIN aliases = 1 .. 5
      OBVIOUS
    <3> QED
      BY <1>2, <3>1
  <2> HIDE DEF aliases
  <2>2. F # {} /\ \A v \in F : v # <<>> /\ v \notin NotText
    <3> DEFINE n == 5
    <3>1. n \in Nat /\ DOMAIN aliases = 1 .. n /\ \E i \in 1 .. n : CommandString(args, aliases[i]) # <<>>
      BY <2>1
    <3> HIDE DEF n
    <3> QED
      BY <3>1, AliasFound
  <2>3. DOMAIN sources = 1 .. 5 /\ sources[1] = F
    BY DEF CommandSources, aliases
  <2> HIDE DEF F, sources
  <2>4. found \subseteq Nat /\ 1 \in found /\ found \subseteq 1 .. 5
    BY <2>2, <2>3
  <2> HIDE DEF found
  <2>5. Min(found) = 1
    <3>1. Min(found) \in found /\ \A n \in found : Min(found) <= n
      BY <2>4, MinIs
    <3> DEFINE m == Min(found)
    <3>2. m <= 1 /\ m \in 1 .. 5
      BY <2>4, <3>1
    <3> HIDE DEF m
    <3>3. m = 1
      BY <3>2
    <3> QED
      BY <3>3 DEF m
  <2>6. PICK v \in F : c = With(args, key, v)
    <3>1. sources[Min(found)] = F /\ found # {}
      BY <2>3, <2>4, <2>5
    <3>2. c \in IF sources[Min(found)] = {} THEN {args} ELSE {With(args, key, v) : v \in sources[Min(found)]}
      BY <1>2, <3>1 DEF RepairExecute, found, sources
    <3> QED
      BY <2>2, <3>1, <3>2
  <2>7. v # <<>> /\ v \notin NotText
    BY <2>2, <2>6
  <2> DEFINE w == With(args, key, v)
  <2>8. key \in DOMAIN w /\ w[key] = v
    BY DEF With
  <2> HIDE DEF w
  <2>9. CommandString(w, key) = v
    BY <2>7, <2>8 DEF CommandString
  <2> QED
    BY <2>6, <2>7, <2>9 DEF w
<1> QED
  BY <1>1, <1>2

\* EndFeatureRun has a handoff that is no text and a verdict that is none
\* afterwards, and nothing else changes if it had them (RepairToolCall).
LEMMA EndFeatureRunRepaired ==
  ASSUME NEW name \in EndFeatureRunToolNames, NEW args
  PROVE  /\ Usable([name |-> name, args |-> args]) => RepairEndFeatureRun(args) = args
         /\ Usable([name |-> name, args |-> RepairEndFeatureRun(args)])
<1> DEFINE verdict == "validatorsPassed"
           state == "successState"
           handoff == "handoff"
           v == CoerceVerdict(args)
           fields == DOMAIN args \cap HandoffFields
           h == FoldHandoff(v, fields)
           c == RepairEndFeatureRun(args)
           Good(a) == /\ handoff \in DOMAIN a /\ a[handoff] # <<"{object}">>
                      /\ CommandString(a, verdict) = <<>>
                      /\ CommandString(a, state) = <<"success">> => verdict \in DOMAIN a
<1>1. \A a : Usable([name |-> name, args |-> a]) <=> Good(a)
  BY DEF Usable, EndFeatureRunToolNames, ExecuteToolNames
<1>2. c = IF CommandString(args, state) = <<"success">> /\ verdict \notin DOMAIN args
          THEN With(h, verdict, <<"true">>) ELSE h
  BY DEF RepairEndFeatureRun
<1>3. ASSUME Good(args) PROVE c = args
  <2>1. v = args
    BY <1>3 DEF CoerceVerdict
  <2>2. h = args
    BY <1>3, <2>1 DEF FoldHandoff
  <2> QED
    BY <1>2, <1>3, <2>2
<1>4. /\ DOMAIN v = DOMAIN args
      /\ CommandString(v, verdict) = <<>>
      /\ CommandString(v, state) = CommandString(args, state)
  <2>1. CASE CommandString(args, verdict) = <<>>
    BY <2>1 DEF CoerceVerdict
  <2>2. CASE CommandString(args, verdict) # <<>>
    <3> DEFINE told == IF args[verdict][1] = "true" THEN <<"true">> ELSE <<"false">>
               w == [args EXCEPT ![verdict] = told]
    <3>1. v = w
      BY <2>2 DEF CoerceVerdict
    <3>2. told \in NotText
      BY DEF NotText
    <3> HIDE DEF told
    <3>3. verdict \in DOMAIN args
      BY <2>2 DEF CommandString
    <3>4. DOMAIN w = DOMAIN args /\ w[verdict] = told /\ \A k \in DOMAIN args : k # verdict => w[k] = args[k]
      BY <3>3
    <3> HIDE DEF w
    <3>5. state # verdict
      OBVIOUS
    <3>6. CommandString(w, verdict) = <<>> /\ CommandString(w, state) = CommandString(args, state)
      BY <3>2, <3>4, <3>5 DEF CommandString
    <3> QED
      BY <3>1, <3>4, <3>6
  <2> QED
    BY <2>1, <2>2
<1> HIDE DEF v
<1>5. /\ handoff \in DOMAIN h /\ h[handoff] # <<"{object}">>
      /\ (DOMAIN v \ {handoff}) \ HandoffFields \subseteq DOMAIN h
      /\ \A k \in DOMAIN h : k # handoff => k \in DOMAIN v /\ h[k] = v[k]
  <2>1. CASE handoff \in DOMAIN v /\ v[handoff] # <<"{object}">>
    BY <2>1 DEF FoldHandoff
  <2>2. CASE handoff \in DOMAIN v /\ v[handoff] = <<"{object}">>
    <3> DEFINE given == <<"object">>
    <3>1. h = With(v, handoff, given)
      BY <2>2 DEF FoldHandoff
    <3>2. given # <<"{object}">>
      OBVIOUS
    <3> HIDE DEF given
    <3> QED
      BY <3>1, <3>2 DEF With
  <2>3. CASE handoff \notin DOMAIN v
    <3> DEFINE rest == Restrict(v, DOMAIN v \ fields)
               given == IF fields = {} THEN <<"stub">> ELSE <<"object">>
    <3>1. h = With(rest, handoff, given)
      BY <2>3 DEF FoldHandoff
    <3>2. given # <<"{object}">>
      OBVIOUS
    <3> HIDE DEF given
    <3>3. DOMAIN rest = DOMAIN v \ fields /\ \A k \in DOMAIN v \ fields : rest[k] = v[k]
      BY DEF Restrict
    <3> HIDE DEF rest
    <3> QED
      BY <2>3, <3>1, <3>2, <3>3 DEF With
  <2> QED
    BY <2>1, <2>2, <2>3
<1>6. verdict \notin HandoffFields /\ state \notin HandoffFields /\ verdict # handoff /\ state # handoff /\ state # verdict
  BY DEF HandoffFields
<1> HIDE DEF h, verdict, state, handoff
<1>7. /\ CommandString(h, verdict) = <<>>
      /\ CommandString(h, state) = CommandString(args, state)
      /\ verdict \in DOMAIN h <=> verdict \in DOMAIN args
  BY <1>4, <1>5, <1>6 DEF CommandString
<1>8. Good(c)
  <2>1. CASE CommandString(args, state) = <<"success">> => verdict \in DOMAIN args
    <3>1. c = h
      BY <1>2, <2>1
    <3> QED
      BY <1>5, <1>7, <2>1, <3>1
  <2>2. CASE c = With(h, verdict, <<"true">>)
    <3>1. <<"true">> \in NotText
      BY DEF NotText
    <3>2. /\ CommandString(c, verdict) = <<>> /\ CommandString(c, state) = CommandString(h, state)
          /\ verdict \in DOMAIN c /\ handoff \in DOMAIN c /\ c[handoff] = h[handoff]
      BY <1>5, <1>6, <2>2, <3>1 DEF With, CommandString
    <3> QED
      BY <1>5, <3>2
  <2> QED
    BY <1>2, <2>1, <2>2
<1> HIDE DEF c, Good
<1> QED
  BY <1>1, <1>3, <1>8 DEF c

\* Repair keeps what is fine and makes usable what can be saved, whatever the
\* tool and its arguments are, and wherever else a command may stand
\* (RepairToolCall).
THEOREM RepairDelivers ==
  ASSUME NEW name, NEW args, NEW text, NEW c \in RepairToolCall(name, args, text)
  PROVE  DeliveredAs([name |-> name, args |-> c], [name |-> name, args |-> args])
<1> DEFINE was == [name |-> name, args |-> args]
           got == [name |-> name, args |-> c]
<1>1. was.name = name /\ was.args = args /\ got.name = name /\ got.args = c
  OBVIOUS
<1> HIDE DEF was, got
<1>2. SUFFICES /\ Usable(was) => c = args
               /\ Recoverable(was) => Usable(got)
  BY <1>1 DEF DeliveredAs, was, got
<1>0. /\ "Read" \notin ExecuteToolNames \cup EndFeatureRunToolNames
      /\ "Grep" \notin ExecuteToolNames \cup EndFeatureRunToolNames
      /\ \A m \in ExecuteToolNames : m \notin EndFeatureRunToolNames
      /\ "Read" # "Grep"
  BY DEF ExecuteToolNames, EndFeatureRunToolNames
<1>3. CASE name \in ExecuteToolNames
  <2>1. c \in RepairExecute(args, text)
    BY <1>0, <1>3 DEF RepairToolCall
  <2>2. Usable(was) <=> CommandString(args, "command") # <<>>
    BY <1>0, <1>1, <1>3 DEF Usable
  <2>3. Usable(got) <=> CommandString(c, "command") # <<>>
    BY <1>0, <1>1, <1>3 DEF Usable
  <2>4. Recoverable(was) <=> \E k \in {"cmd", "shell", "bash", "script", "input"} : CommandString(args, k) # <<>>
    BY <1>0, <1>1, <1>3 DEF Recoverable
  <2> QED
    BY <2>1, <2>2, <2>3, <2>4, ExecuteRepaired
<1>4. CASE name = "Read"
  <2> DEFINE aliases == <<"path", "file", "filename">>
             key == "file_path"
             n == 3
  <2>1. name \notin ExecuteToolNames
    BY <1>4 DEF ExecuteToolNames
  <2>2. c \in RepairAlias(args, key, aliases)
    BY <1>0, <1>4, <2>1 DEF RepairToolCall
  <2>3. Usable(was) <=> CommandString(args, key) # <<>>
    BY <1>0, <1>1, <1>4, <2>1 DEF Usable
  <2>4. Usable(got) <=> CommandString(c, key) # <<>>
    BY <1>0, <1>1, <1>4, <2>1 DEF Usable
  <2>5. Recoverable(was) => \E k \in {"path", "file", "filename"} : CommandString(args, k) # <<>>
    BY <1>0, <1>1, <1>4, <2>1 DEF Recoverable
  <2>6. /\ n \in Nat /\ DOMAIN aliases = 1 .. n
        /\ Recoverable(was) => \E i \in 1 .. n : CommandString(args, aliases[i]) # <<>>
    <3>1. aliases[1] = "path" /\ aliases[2] = "file" /\ aliases[3] = "filename" /\ DOMAIN aliases = 1 .. 3
      OBVIOUS
    <3> HIDE DEF aliases
    <3> QED
      BY <2>5, <3>1
  <2> HIDE DEF aliases, key, n
  <2> QED
    BY <2>2, <2>3, <2>4, <2>6, AliasRepaired
<1>5. CASE name = "Grep"
  <2> DEFINE aliases == <<"regex", "query", "search">>
             key == "pattern"
             n == 3
  <2>1. name \notin ExecuteToolNames
    BY <1>5 DEF ExecuteToolNames
  <2>2. c \in RepairAlias(args, key, aliases)
    BY <1>0, <1>5, <2>1 DEF RepairToolCall
  <2>3. Usable(was) <=> CommandString(args, key) # <<>>
    BY <1>0, <1>1, <1>5, <2>1 DEF Usable
  <2>4. Usable(got) <=> CommandString(c, key) # <<>>
    BY <1>0, <1>1, <1>5, <2>1 DEF Usable
  <2>5. Recoverable(was) => \E k \in {"regex", "query", "search"} : CommandString(args, k) # <<>>
    BY <1>0, <1>1, <1>5, <2>1 DEF Recoverable
  <2>6. /\ n \in Nat /\ DOMAIN aliases = 1 .. n
        /\ Recoverable(was) => \E i \in 1 .. n : CommandString(args, aliases[i]) # <<>>
    <3>1. aliases[1] = "regex" /\ aliases[2] = "query" /\ aliases[3] = "search" /\ DOMAIN aliases = 1 .. 3
      OBVIOUS
    <3> HIDE DEF aliases
    <3> QED
      BY <2>5, <3>1
  <2> HIDE DEF aliases, key, n
  <2> QED
    BY <2>2, <2>3, <2>4, <2>6, AliasRepaired
<1>6. CASE name \in EndFeatureRunToolNames
  <2>1. name = "EndFeatureRun"
    BY <1>6 DEF EndFeatureRunToolNames
  <2>2. c = RepairEndFeatureRun(args)
    BY <2>1 DEF RepairToolCall, ExecuteToolNames, EndFeatureRunToolNames
  <2> QED
    BY <1>6, <2>2, EndFeatureRunRepaired DEF was, got
<1>7. CASE name \notin ExecuteToolNames /\ name # "Read" /\ name # "Grep" /\ name \notin EndFeatureRunToolNames
  <2>1. c = args
    BY <1>0, <1>7 DEF RepairToolCall
  <2>2. ~Recoverable(was)
    BY <1>0, <1>1, <1>7 DEF Recoverable
  <2> QED
    BY <2>1, <2>2
<1> QED
  BY <1>3, <1>4, <1>5, <1>6, <1>7

-----------------------------------------------------------------------------
(* What the repair does to an answer                                       *)

\* What each event of an answer may become, so does each of their sequence.
Repaired(out, events, text, n) ==
  /\ out = [k \in 1 .. n |-> out[k]] /\ Len(out) = n
  /\ \A k \in 1 .. n : out[k] \in RepairPayload(events[k], text)

\* The recursive function of Repairings.
LongerBy(befores, e, text) == {Append(before, last) : before \in befores, last \in RepairPayload(e, text)}
RepairLoop(f, events, text, n) ==
  f = [k \in 0 .. n |-> IF k = 0 THEN {<<>>} ELSE LongerBy(f[k - 1], events[k], text)]

\* It exists.
LEMMA RepairLoops ==
  ASSUME NEW events, NEW text, NEW n \in Nat
  PROVE  \E f : RepairLoop(f, events, text, n)
<1> DEFINE without == {m \in Nat : ~\E f : RepairLoop(f, events, text, m)}
<1>1. SUFFICES ASSUME without # {} PROVE FALSE
  OBVIOUS
<1>2. PICK m \in without : \A k \in Nat : k < m => k \notin without
  BY <1>1, LeastNat
<1>3. CASE m = 0
  <2> DEFINE f == [k \in 0 .. m |-> {<<>>}]
  <2>1. RepairLoop(f, events, text, m)
    BY <1>3 DEF RepairLoop
  <2> QED
    BY <1>2, <2>1
<1>4. CASE m # 0
  <2> DEFINE h == m - 1
             More(g, k) == LongerBy(g[k - 1], events[k], text)
  <2>1. h \in Nat /\ h < m
    BY <1>2, <1>4
  <2>2. PICK g : RepairLoop(g, events, text, h)
    BY <1>2, <2>1
  <2> DEFINE f == [k \in 0 .. m |-> IF k = m THEN More(g, m) ELSE g[k]]
  <2>3. \A k \in 0 .. h : g[k] = IF k = 0 THEN {<<>>} ELSE More(g, k)
    BY <2>2 DEF RepairLoop
  <2>4. \A k \in 1 .. m : f[k - 1] = g[k - 1]
    BY <1>2, <1>4
  <2>5. \A k \in 0 .. m : f[k] = IF k = 0 THEN {<<>>} ELSE More(f, k)
    <3> SUFFICES ASSUME NEW k \in 0 .. m PROVE f[k] = IF k = 0 THEN {<<>>} ELSE More(f, k)
      OBVIOUS
    <3>1. CASE k = 0
      BY <1>2, <1>4, <2>1, <2>3, <3>1
    <3>2. CASE k # 0 /\ k # m
      <4>1. k \in 0 .. h /\ k \in 1 .. m
        BY <1>2, <3>2
      <4>2. f[k] = g[k] /\ f[k - 1] = g[k - 1]
        BY <2>4, <3>2, <4>1
      <4> HIDE DEF f
      <4> QED
        BY <2>3, <3>2, <4>1, <4>2
    <3>3. CASE k = m
      <4>1. k \in 1 .. m
        BY <1>2, <1>4, <3>3
      <4>2. f[k] = More(g, k) /\ f[k - 1] = g[k - 1]
        BY <2>4, <3>3, <4>1
      <4> HIDE DEF f
      <4> QED
        BY <1>4, <3>3, <4>2
    <3> QED
      BY <3>1, <3>2, <3>3
  <2>6. f = [k \in 0 .. m |-> f[k]]
    OBVIOUS
  <2> HIDE DEF f
  <2>7. RepairLoop(f, events, text, m)
    BY <2>5, <2>6, Zenon DEF RepairLoop
  <2> QED
    BY <1>2, <2>7
<1> QED
  BY <1>3, <1>4

\* Each way to repair a sequence repairs its events one by one (repairToolCalls).
LEMMA RepairingsAre ==
  ASSUME NEW events, Len(events) \in Nat, NEW text, NEW out \in Repairings(events, text)
  PROVE  Repaired(out, events, text, Len(events))
<1> DEFINE n == Len(events)
           f == CHOOSE f : RepairLoop(f, events, text, n)
           bad == {m \in Nat : m <= n /\ ~\A x \in f[m] : Repaired(x, events, text, m)}
<1>1. RepairLoop(f, events, text, n)
  BY RepairLoops
<1>2. out \in f[n]
  BY DEF Repairings, RepairLoop, LongerBy
<1> HIDE DEF f
<1>3. n \in Nat /\ \A k \in 0 .. n :
        f[k] = IF k = 0 THEN {<<>>} ELSE LongerBy(f[k - 1], events[k], text)
  BY <1>1 DEF RepairLoop
<1> HIDE DEF n
<1>4. SUFFICES ASSUME bad # {} PROVE FALSE
  BY <1>2, <1>3 DEF n
<1>5. PICK m \in bad : \A k \in Nat : k < m => k \notin bad
  <2>1. bad \subseteq Nat
    OBVIOUS
  <2> HIDE DEF bad
  <2> QED
    BY <1>4, <2>1, LeastNat
<1>6. m \in Nat /\ m <= n /\ m \in 0 .. n
  BY <1>3
<1>7. PICK x \in f[m] : ~Repaired(x, events, text, m)
  OBVIOUS
<1>8. CASE m = 0
  <2>1. x = <<>>
    BY <1>3, <1>6, <1>7, <1>8
  <2>2. Repaired(<<>>, events, text, 0)
    BY DEF Repaired
  <2> QED
    BY <1>7, <1>8, <2>1, <2>2
<1>9. CASE m # 0
  <2> DEFINE h == m - 1
  <2>1. h \in Nat /\ h < m /\ h <= n /\ Further(h, 1, m)
    BY <1>3, <1>6, <1>9 DEF Further
  <2>2. \A y \in f[h] : Repaired(y, events, text, h)
    BY <1>5, <2>1
  <2>3. PICK before \in f[h], last \in RepairPayload(events[m], text) : x = Append(before, last)
    <3>1. f[m] = LongerBy(f[m - 1], events[m], text)
      BY <1>3, <1>6, <1>9
    <3>2. x \in LongerBy(f[h], events[m], text)
      BY <1>7, <3>1
    <3> QED
      BY <3>2 DEF LongerBy
  <2> HIDE DEF h, bad
  <2>4. Repaired(before, events, text, h)
    BY <2>2, <2>3
  <2> DEFINE S == {before[k] : k \in 1 .. h} \cup {last}
  <2>5. before \in Seq(S) /\ last \in S /\ Len(before) = h
    <3>1. before = [k \in 1 .. h |-> before[k]] /\ Len(before) = h
      BY <2>4 DEF Repaired
    <3>2. \A k \in 1 .. h : before[k] \in S
      OBVIOUS
    <3> HIDE DEF S
    <3>3. before \in [1 .. h -> S]
      BY <3>1, <3>2
    <3>4. last \in S
      BY DEF S
    <3> QED
      BY <2>1, <3>1, <3>3, <3>4
  <2> HIDE DEF S
  <2>6. /\ Len(x) = h + 1 /\ x \in Seq(S)
        /\ \A k \in 1 .. h : x[k] = before[k]
        /\ x[h + 1] = last
    BY <2>3, <2>5, AppendProperties
  <2>7. h + 1 = m
    BY <2>1 DEF Further
  <2>8. Len(x) = m /\ x[m] = last
    BY <2>6, <2>7
  <2>9. x = [k \in 1 .. m |-> x[k]]
    BY <2>6, <2>8
  <2>10. \A k \in 1 .. m : x[k] \in RepairPayload(events[k], text)
    <3> SUFFICES ASSUME NEW k \in 1 .. m PROVE x[k] \in RepairPayload(events[k], text)
      OBVIOUS
    <3>1. CASE k = m
      BY <2>3, <2>8, <3>1
    <3>2. CASE k # m
      <4>1. k \in 1 .. h
        BY <1>6, <2>1, <2>7, <3>2
      <4> QED
        BY <2>4, <2>6, <4>1 DEF Repaired
    <3> QED
      BY <3>1, <3>2
  <2>11. Repaired(x, events, text, m)
    BY <2>8, <2>9, <2>10 DEF Repaired
  <2> QED
    BY <1>7, <2>11
<1> QED
  BY <1>8, <1>9

\* The events of an answer that are sent on when a call was repaired.
Staying(events) == {events[n] : n \in {m \in 1 .. Len(events) : events[m].ev # "delta"}}
Alone(events) == [n \in DOMAIN events |-> IF events[n].ev = "delta" THEN <<>> ELSE <<events[n]>>]

\* They lie one behind the other (RepairSSE).
LEMMA DeltasDropped ==
  ASSUME NEW events, IsSequence(events)
  PROVE  /\ WithoutDeltas(events) \in Seq(Staying(events))
         /\ \E at : Laid(WithoutDeltas(events), Alone(events), Len(events), at)
<1> DEFINE n == Len(events)
           T == Staying(events)
           seqs == Alone(events)
<1>1. n \in Nat /\ DOMAIN events = 1 .. n
  BY DEF IsSequence
<1>2. \A k \in 1 .. n : seqs[k] \in Seq(T)
  <2> SUFFICES ASSUME NEW k \in 1 .. n PROVE seqs[k] \in Seq(T)
    OBVIOUS
  <2>1. CASE events[k].ev = "delta"
    <3>1. seqs[k] = <<>>
      BY <1>1, <2>1 DEF Alone
    <3> HIDE DEF seqs, T
    <3> QED
      BY <3>1
  <2>2. CASE events[k].ev # "delta"
    <3>1. seqs[k] = <<events[k]>>
      BY <1>1, <2>2 DEF Alone
    <3>2. events[k] \in T
      BY <2>2 DEF Staying
    <3> HIDE DEF seqs, T
    <3> QED
      BY <3>1, <3>2
  <2> QED
    BY <2>1, <2>2
<1>3. seqs = [k \in 1 .. n |-> seqs[k]]
  BY <1>1 DEF Alone
<1> HIDE DEF seqs, n, T
<1>4. seqs \in [1 .. n -> Seq(T)]
  BY <1>2, <1>3
<1>5. seqs \in Seq(Seq(T)) /\ Len(seqs) = n
  BY <1>1, <1>4
<1>6. /\ FlattenSeq(seqs) \in Seq(T)
      /\ \E at : Laid(FlattenSeq(seqs), seqs, n, at)
  BY <1>5, FlattenLays
<1>7. WithoutDeltas(events) = FlattenSeq(seqs)
  BY DEF WithoutDeltas, Alone, seqs
<1> QED
  BY <1>6, <1>7 DEF n, T, seqs

\* An answer without any is sent on as it is.
LEMMA NothingDropped ==
  ASSUME NEW events, IsSequence(events), \A n \in DOMAIN events : events[n].ev # "delta"
  PROVE  WithoutDeltas(events) = events
<1> DEFINE n == Len(events)
           t == WithoutDeltas(events)
           seqs == Alone(events)
<1>1. n \in Nat /\ DOMAIN events = 1 .. n /\ events = [k \in 1 .. n |-> events[k]]
  BY DEF IsSequence
<1>2. t \in Seq(Staying(events)) /\ \E at : Laid(t, seqs, n, at)
  BY DeltasDropped
<1>3. PICK at : Laid(t, seqs, n, at)
  BY <1>2
<1>4. \A k \in 1 .. n : Len(seqs[k]) = 1 /\ seqs[k][1] = events[k]
  <2> SUFFICES ASSUME NEW k \in 1 .. n PROVE Len(seqs[k]) = 1 /\ seqs[k][1] = events[k]
    OBVIOUS
  <2>1. seqs[k] = <<events[k]>>
    BY <1>1 DEF Alone
  <2> QED
    BY <2>1
<1> HIDE DEF n, t, seqs
<1> DEFINE bad == {m \in Nat : m <= n /\ at[m] # m}
<1>5. bad = {}
  <2> SUFFICES ASSUME bad # {} PROVE FALSE
    OBVIOUS
  <2>1. PICK m \in bad : \A k \in Nat : k < m => k \notin bad
    <3>1. bad \subseteq Nat
      OBVIOUS
    <3> HIDE DEF bad
    <3> QED
      BY <3>1, LeastNat
  <2>2. m \in Nat /\ m <= n /\ at[m] # m /\ at[0] = 0
    BY <1>3 DEF Laid
  <2>3. m # 0 /\ m - 1 \in Nat /\ m - 1 < m /\ m - 1 <= n /\ m \in 1 .. n
    BY <1>1, <2>2
  <2>4. at[m - 1] = m - 1
    BY <2>1, <2>3
  <2>5. at[m] = at[m - 1] + Len(seqs[m])
    BY <1>3, <2>3 DEF Laid
  <2>6. at[m] = (m - 1) + 1
    BY <1>4, <2>3, <2>4, <2>5
  <2> QED
    BY <2>2, <2>6
<1>6. \A m \in 0 .. n : at[m] = m
  BY <1>1, <1>5
<1>7. Len(t) = n
  BY <1>1, <1>3, <1>6 DEF Laid
<1>8. \A k \in 1 .. n : t[k] = events[k]
  <2> SUFFICES ASSUME NEW k \in 1 .. n PROVE t[k] = events[k]
    OBVIOUS
  <2>1. 1 \in 1 .. Len(seqs[k])
    BY <1>4
  <2>2. t[at[k - 1] + 1] = seqs[k][1]
    BY <1>3, <2>1 DEF Laid
  <2>3. k - 1 \in 0 .. n /\ (k - 1) + 1 = k
    BY <1>1
  <2>4. at[k - 1] = k - 1
    BY <1>6, <2>3
  <2> QED
    BY <1>4, <2>2, <2>3, <2>4
<1>9. t = [k \in 1 .. n |-> t[k]]
  BY <1>2, <1>7
<1> QED
  BY <1>1, <1>8, <1>9 DEF t

\* An event with the arguments of its call in another form.
WithArgs(e, a) == [e EXCEPT !.call.args = a]
LEMMA EventRepaired ==
  ASSUME NEW e, IsEvent(e), NEW a
  PROVE  /\ WithArgs(e, a).ev = e.ev /\ WithArgs(e, a).text = e.text
         /\ WithArgs(e, a).call = [name |-> e.call.name, args |-> a]
         /\ WithArgs(e, a) = e => a = e.call.args
<1>1. /\ e = [ev |-> e.ev, text |-> e.text, call |-> e.call]
      /\ e.call = [name |-> e.call.name, args |-> e.call.args]
  BY DEF IsEvent, Event
<1> DEFINE c == [e.call EXCEPT !.args = a]
           x == [e EXCEPT !.call = c]
<1>2. WithArgs(e, a) = x
  BY DEF WithArgs
<1>3. c = [name |-> e.call.name, args |-> a]
  BY <1>1
<1> HIDE DEF c
<1>4. x = [ev |-> e.ev, text |-> e.text, call |-> c]
  BY <1>1
<1>5. x.ev = e.ev /\ x.text = e.text /\ x.call = c /\ c.args = a
  BY <1>3, <1>4
<1> HIDE DEF x
<1> QED
  BY <1>2, <1>3, <1>5

\* What the repair may make of an event (repairPayload).
LEMMA PayloadIs ==
  ASSUME NEW e, NEW text, NEW x \in RepairPayload(e, text)
  PROVE  /\ e.ev \notin {"call", "item", "done"} => x = e
         /\ e.ev \in {"call", "item"} =>
                \E a \in RepairToolCall(e.call.name, e.call.args, text) : x = WithArgs(e, a)
         /\ e.ev = "done" =>
                \E a \in IF RepairToolCall(e.call.name, e.call.args, text) # {e.call.args}
                         THEN RepairToolCall(e.call.name, e.call.args, text)
                         ELSE RepairToolCall(InferredName(e.call.args), e.call.args, text) :
                    x = WithArgs(e, a)
<1>1. "done" \notin {"call", "item"}
  OBVIOUS
<1>2. CASE e.ev \notin {"call", "item", "done"}
  BY <1>2, Zenon DEF RepairPayload
<1>3. CASE e.ev \in {"call", "item"}
  <2>1. e.ev \in {"call", "item", "done"} /\ e.ev # "done"
    BY <1>1, <1>3
  <2> QED
    BY <1>3, <2>1, Zenon DEF RepairPayload, WithArgs
<1>4. CASE e.ev = "done"
  <2>1. e.ev \in {"call", "item", "done"} /\ e.ev \notin {"call", "item"}
    BY <1>1, <1>4
  <2> QED
    BY <1>4, <2>1, Zenon DEF RepairPayload, WithArgs
<1> QED
  BY <1>2, <1>3, <1>4

\* No tool, no repair.
LEMMA NoneRepaired ==
  ASSUME NEW args, NEW text
  PROVE  RepairToolCall("none", args, text) = {args}
<1>1. /\ "none" \notin ExecuteToolNames /\ "none" \notin EndFeatureRunToolNames
      /\ "none" # "Read" /\ "none" # "Grep"
  BY DEF ExecuteToolNames, EndFeatureRunToolNames
<1> QED
  BY <1>1 DEF RepairToolCall

\* A copy of a call says afterwards what the call may say, if the tools it
\* can be taken for agree on that (repairPayload, inferEventToolName).
LEMMA CopyRepaired ==
  ASSUME NEW e, IsEvent(e), e.ev \in CopyEvents, NEW item, IsEvent(item), item.ev = "item",
         IsCopy(e, item), ~Doubtful(item.call), NEW x \in RepairPayload(e, <<>>),
         e.ev = "delta" => item \in RepairPayload(item, <<>>)
  PROVE  /\ x.ev = e.ev /\ x.text = e.text
         /\ x.call.args \in RepairToolCall(item.call.name, item.call.args, <<>>)
<1> DEFINE args == item.call.args
           A == RepairToolCall(item.call.name, args, <<>>)
           B == RepairToolCall(InferredName(args), args, <<>>)
<1>1. B = A
  BY DEF Doubtful
<1>2. e.call.args = args
  BY DEF IsCopy
<1>3. CASE e.ev = "item"
  <2>1. e.call.name = item.call.name
    BY <1>3 DEF IsCopy
  <2>2. PICK a \in A : x = WithArgs(e, a)
    <3>1. e.ev \in {"call", "item"}
      BY <1>3
    <3>2. \E a \in RepairToolCall(e.call.name, e.call.args, <<>>) : x = WithArgs(e, a)
      BY <3>1, PayloadIs
    <3> QED
      BY <1>2, <2>1, <3>2
  <2>3. x.ev = e.ev /\ x.text = e.text /\ x.call = [name |-> e.call.name, args |-> a]
    BY <2>2, EventRepaired
  <2> QED
    BY <2>2, <2>3
<1>4. CASE e.ev = "done"
  <2> DEFINE R == RepairToolCall(e.call.name, e.call.args, <<>>)
  <2>1. PICK a \in IF R # {e.call.args} THEN R
                   ELSE RepairToolCall(InferredName(e.call.args), e.call.args, <<>>) : x = WithArgs(e, a)
    BY <1>4, PayloadIs
  <2>2. e.call.name = item.call.name \/ e.call.name = "none"
    BY DEF IsCopy
  <2>3. R = A \/ R = {args}
    BY <1>2, <2>2, NoneRepaired
  <2>4. a \in A
    <3>1. a \in IF R # {args} THEN R ELSE B
      BY <1>2, <2>1
    <3> HIDE DEF R, A, B
    <3> QED
      BY <1>1, <2>3, <3>1
  <2>5. x.ev = e.ev /\ x.text = e.text /\ x.call = [name |-> e.call.name, args |-> a]
    BY <2>1, EventRepaired
  <2> QED
    BY <2>4, <2>5
<1>5. CASE e.ev = "delta"
  <2>1. "delta" \notin {"call", "item", "done"}
    OBVIOUS
  <2>2. x = e
    BY <1>5, <2>1, PayloadIs
  <2>3. PICK a \in A : item = WithArgs(item, a)
    <3>1. item.ev \in {"call", "item"} /\ item \in RepairPayload(item, <<>>)
      BY <1>5
    <3> QED
      BY <3>1, PayloadIs
  <2>4. a = args
    BY <2>3, EventRepaired
  <2> QED
    BY <1>2, <2>2, <2>3, <2>4
<1> QED
  BY <1>3, <1>4, <1>5 DEF CopyEvents

\* Nothing in a stream has to be repaired.
AsSent(events) == \A n \in DOMAIN events : events[n] \in RepairPayload(events[n], <<>>)

\* All events are sent on, each repaired; or all but the deltas.
HasDelta(events) == \E n \in DOMAIN events : events[n].ev = "delta"
AllSentOn(out, answer) ==
  \E text : /\ Repaired(out, answer.events, text, Len(answer.events))
            /\ answer.kind # "json" =>
                   text = <<>> /\ (HasDelta(answer.events) => AsSent(answer.events))
DeltasCut(out, answer) ==
  /\ answer.kind # "json" /\ HasDelta(answer.events)
  /\ \E kept \in Seq(Staying(answer.events)) : Repaired(out, kept, <<>>, Len(kept))

\* Events that need no rewriting are repaired one by one, those that are sent
\* on (RewriteHTTPResponse): all of them, unless a delta is among them.
LEMMA RepairedInPlace ==
  ASSUME NEW answer, IsSequence(answer.events), answer.status = 200,
         (\E n \in DOMAIN answer.events : answer.events[n].ev = "call")
         \/ ~(\E n \in DOMAIN answer.events : answer.events[n].ev = "content"),
         NEW out \in RewriteHTTPResponse(answer, answer.events, TRUE)
  PROVE  AllSentOn(out, answer) \/ DeltasCut(out, answer)
<1> DEFINE events == answer.events
<1>1. RewriteBody(events) = events
  BY DEF RewriteBody
<1>2. Len(events) \in Nat
  BY DEF IsSequence
<1>3. out \in IF answer.kind = "json" THEN Repairings(events, Content(events)) ELSE RepairSSE(events)
  <2>1. ~(answer.status # 200 \/ (answer.kind = "json" /\ ~TRUE))
    OBVIOUS
  <2> HIDE DEF events
  <2> QED
    BY <1>1, <2>1 DEF RewriteHTTPResponse, events
<1> HIDE DEF events
<1>4. CASE answer.kind = "json"
  <2>1. Repaired(out, events, Content(events), Len(events))
    BY <1>2, <1>3, <1>4, RepairingsAre
  <2> QED
    BY <1>4, <2>1 DEF events, AllSentOn
<1>5. CASE answer.kind # "json"
  <2> DEFINE kept == WithoutDeltas(events)
             none == <<>>
  <2>1. kept \in Seq(Staying(events)) /\ Len(kept) \in Nat
    <3>1. kept \in Seq(Staying(events))
      BY DeltasDropped DEF events
    <3> HIDE DEF kept
    <3> QED
      BY <3>1
  <2>2. (\A n \in DOMAIN events : events[n].ev # "delta") => kept = events
    BY NothingDropped DEF events
  <2>3. out \in Repairings(kept, none) \/ (out \in Repairings(events, none) /\ AsSent(events))
    BY <1>3, <1>5 DEF RepairSSE, AsSent
  <2> HIDE DEF kept, none
  <2>4. \/ Repaired(out, kept, none, Len(kept))
        \/ Repaired(out, events, none, Len(events)) /\ AsSent(events)
    BY <1>2, <2>1, <2>3, RepairingsAre
  <2>5. CASE ~HasDelta(events)
    <3>1. Repaired(out, events, none, Len(events))
      BY <2>2, <2>4, <2>5 DEF HasDelta
    <3> QED
      BY <1>5, <2>5, <3>1 DEF events, none, AllSentOn
  <2>6. CASE HasDelta(events)
    BY <1>5, <2>1, <2>4, <2>6 DEF events, none, AllSentOn, DeltasCut
  <2> QED
    BY <2>5, <2>6
<1> QED
  BY <1>4, <1>5

\* Of an answer with calls of its own, only the arguments of calls change.
LEMMA CallsAreKept ==
  ASSUME NEW r \in Requests, r.answer.status = 200, r.answer.kind # "responses",
         \E n \in DOMAIN r.answer.events : r.answer.events[n].ev = "call",
         NEW out \in RewriteHTTPResponse(r.answer, r.answer.events, TRUE)
  PROVE  /\ Len(out) = Len(r.answer.events)
         /\ \A n \in DOMAIN r.answer.events :
                IF r.answer.events[n].ev # "call" THEN out[n] = r.answer.events[n]
                ELSE /\ out[n] = [r.answer.events[n] EXCEPT !.call.args = out[n].call.args]
                     /\ DeliveredAs(out[n].call, r.answer.events[n].call)
<1> DEFINE events == r.answer.events
           answer == r.answer
<1>1. /\ IsSequence(events) /\ DOMAIN events = 1 .. Len(events)
      /\ \A n \in DOMAIN events : IsEvent(events[n]) /\ events[n].ev \notin CopyEvents
  BY RequestsAssumption DEF IsSequence, OfOneAPI
<1>2. PICK text : Repaired(out, events, text, Len(events))
  <2>1. ~HasDelta(events)
    BY <1>1 DEF CopyEvents, HasDelta
  <2>2. IsSequence(answer.events) /\ answer.status = 200 /\ answer.events = events
        /\ \E n \in DOMAIN answer.events : answer.events[n].ev = "call"
    BY <1>1
  <2>3. out \in RewriteHTTPResponse(answer, answer.events, TRUE)
    OBVIOUS
  <2> HIDE DEF events, answer
  <2>4. AllSentOn(out, answer)
    BY <2>1, <2>2, <2>3, RepairedInPlace DEF DeltasCut
  <2> QED
    BY <2>2, <2>4 DEF AllSentOn
<1> HIDE DEF events, answer
<1>3. ASSUME NEW n \in DOMAIN events
      PROVE  IF events[n].ev # "call" THEN out[n] = events[n]
             ELSE /\ out[n] = [events[n] EXCEPT !.call.args = out[n].call.args]
                  /\ DeliveredAs(out[n].call, events[n].call)
  <2> DEFINE e == events[n]
             x == out[n]
  <2>1. x \in RepairPayload(e, text)
    BY <1>1, <1>2 DEF Repaired
  <2>2. IsEvent(e) /\ e.ev \notin {"item", "done"}
    BY <1>1 DEF CopyEvents
  <2> HIDE DEF e, x
  <2>3. CASE e.ev # "call"
    <3>1. x = e
      BY <2>1, <2>2, <2>3, PayloadIs
    <3> QED
      BY <2>3, <3>1 DEF e, x
  <2>4. CASE e.ev = "call"
    <3>1. PICK a \in RepairToolCall(e.call.name, e.call.args, text) : x = WithArgs(e, a)
      BY <2>1, <2>4, PayloadIs
    <3>2. x.call = [name |-> e.call.name, args |-> a]
      BY <2>2, <3>1, EventRepaired
    <3>3. e.call = [name |-> e.call.name, args |-> e.call.args]
      BY <2>2 DEF IsEvent
    <3> DEFINE name == e.call.name
               args == e.call.args
    <3> HIDE DEF name, args
    <3>4. DeliveredAs([name |-> name, args |-> a], [name |-> name, args |-> args])
      BY <3>1, RepairDelivers DEF name, args
    <3>5. DeliveredAs(x.call, e.call)
      BY <3>2, <3>3, <3>4 DEF name, args
    <3>6. x.call.args = a
      BY <3>2
    <3>7. x = WithArgs(e, x.call.args)
      BY <3>1, <3>6
    <3> QED
      BY <2>4, <3>5, <3>7 DEF e, x, WithArgs
  <2> QED
    BY <2>3, <2>4
<1> QED
  BY <1>2, <1>3 DEF events, Repaired

\* What a copy of a call came out as, where no call is doubtful.
Repairs(x, e, events) ==
  /\ x \in RepairPayload(e, <<>>) /\ \E n \in DOMAIN events : e = events[n]
  /\ e.ev = "delta" => AsSent(events)

NoneDoubtful(events) == \A n \in DOMAIN events : events[n].ev = "item" => ~Doubtful(events[n].call)
LEMMA CopiesAreKept ==
  ASSUME NEW r \in Requests, r.answer.kind = "responses", NoneDoubtful(r.answer.events),
         NEW a, NEW b, NEW d, NEW e, Repairs(a, d, r.answer.events), Repairs(b, e, r.answer.events),
         a.text = b.text, a.ev \in CopyEvents, b.ev \in CopyEvents
  PROVE  a.call.args = b.call.args
<1> DEFINE events == r.answer.events
<1>1. /\ \A n \in DOMAIN events : IsEvent(events[n])
      /\ \A n \in DOMAIN events : events[n].ev \in CopyEvents =>
             /\ ItemsOf(events, events[n]) # {}
             /\ \A m \in ItemsOf(events, events[n]) : IsCopy(events[n], events[m])
  BY RequestsAssumption DEF OfOneAPI
<1> HIDE DEF events
<1>2. ASSUME NEW x, NEW c, Repairs(x, c, events), x.ev \in CopyEvents
      PROVE  /\ c.ev = x.ev /\ c.text = x.text
             /\ ItemsOf(events, c) # {}
             /\ \A m \in ItemsOf(events, c) :
                    x.call.args \in RepairToolCall(events[m].call.name, events[m].call.args, <<>>)
  <2>1. PICK n \in DOMAIN events : c = events[n]
    BY <1>2 DEF Repairs
  <2>2. IsEvent(c)
    BY <1>1, <2>1
  <2>3. c.ev = x.ev /\ c.text = x.text
    <3>1. CASE c.ev \notin {"call", "item", "done"}
      <4>1. x = c
        BY <1>2, <3>1, PayloadIs DEF Repairs
      <4> QED
        BY <4>1
    <3>2. CASE c.ev \in {"call", "item"}
      <4>1. PICK k : x = WithArgs(c, k)
        BY <1>2, <3>2, PayloadIs DEF Repairs
      <4> QED
        BY ONLY <2>2, <4>1, EventRepaired
    <3>3. CASE c.ev = "done"
      <4>1. PICK k : x = WithArgs(c, k)
        BY <1>2, <3>3, PayloadIs DEF Repairs
      <4> QED
        BY ONLY <2>2, <4>1, EventRepaired
    <3> QED
      BY <3>1, <3>2, <3>3
  <2>4. ItemsOf(events, c) # {} /\ \A m \in ItemsOf(events, c) : IsCopy(c, events[m])
    BY <1>1, <1>2, <2>1, <2>3
  <2>5. ASSUME NEW m \in ItemsOf(events, c)
        PROVE  x.call.args \in RepairToolCall(events[m].call.name, events[m].call.args, <<>>)
    <3> DEFINE item == events[m]
    <3>1. m \in DOMAIN events /\ item.ev = "item"
      BY DEF ItemsOf
    <3>2. IsEvent(item) /\ ~Doubtful(item.call) /\ IsCopy(c, item)
      BY <1>1, <2>4, <3>1 DEF events, NoneDoubtful
    <3>3. c.ev = "delta" => item \in RepairPayload(item, <<>>)
      BY <1>2, <3>1 DEF Repairs, AsSent
    <3>4. x \in RepairPayload(c, <<>>) /\ c.ev \in CopyEvents
      BY <1>2, <2>3 DEF Repairs
    <3> HIDE DEF item
    <3>5. x.call.args \in RepairToolCall(item.call.name, item.call.args, <<>>)
      BY <2>2, <3>1, <3>2, <3>3, <3>4, CopyRepaired
    <3> QED
      BY <3>5 DEF item
  <2> QED
    BY <2>3, <2>4, <2>5
<1>3. PICK m \in ItemsOf(events, d) : TRUE
  BY <1>2 DEF events
<1>4. m \in ItemsOf(events, e)
  BY <1>2 DEF events, ItemsOf
<1> DEFINE A == RepairToolCall(events[m].call.name, events[m].call.args, <<>>)
<1>5. a.call.args \in A /\ b.call.args \in A
  BY <1>2, <1>3, <1>4 DEF events
<1>6. ~Doubtful(events[m].call)
  BY <1>3 DEF events, ItemsOf, NoneDoubtful
<1>7. \A x, y \in A : x = y
  BY <1>6 DEF Doubtful
<1> QED
  BY <1>5, <1>7

\* Each event of a rewritten stream comes of one that was sent.
LEMMA EachIsRepaired ==
  ASSUME NEW r \in Requests, r.answer.status = 200, r.answer.kind = "responses",
         NEW out \in RewriteHTTPResponse(r.answer, r.answer.events, TRUE), NEW i \in DOMAIN out
  PROVE  \E e : Repairs(out[i], e, r.answer.events)
<1> DEFINE events == r.answer.events
           answer == r.answer
<1>1. /\ IsSequence(events) /\ DOMAIN events = 1 .. Len(events)
      /\ \A n \in DOMAIN events : events[n].ev \notin {"content", "call"}
  BY RequestsAssumption DEF IsSequence, OfOneAPI
<1>2. AllSentOn(out, answer) \/ DeltasCut(out, answer)
  <2>1. /\ IsSequence(answer.events) /\ answer.status = 200 /\ answer.events = events
        /\ ~\E n \in DOMAIN answer.events : answer.events[n].ev = "content"
        /\ answer.kind # "json" /\ out \in RewriteHTTPResponse(answer, answer.events, TRUE)
    BY <1>1
  <2> HIDE DEF events, answer
  <2> QED
    BY <2>1, RepairedInPlace
<1> DEFINE none == <<>>
<1>3. CASE AllSentOn(out, answer)
  <2>0. Repaired(out, events, none, Len(events)) /\ (HasDelta(events) => AsSent(events))
    BY <1>3 DEF AllSentOn, answer, events
  <2> HIDE DEF events, answer, none
  <2>1. DOMAIN out = DOMAIN events /\ \A k \in DOMAIN events : out[k] \in RepairPayload(events[k], none)
    BY <1>1, <2>0 DEF Repaired
  <2>2. CASE events[i].ev # "delta"
    BY <2>1, <2>2 DEF Repairs, none, events
  <2>3. CASE events[i].ev = "delta"
    BY <2>0, <2>1, <2>3 DEF Repairs, HasDelta, none, events
  <2> QED
    BY <2>2, <2>3
<1>4. CASE DeltasCut(out, answer)
  <2> HIDE DEF none
  <2> DEFINE T == Staying(events)
  <2>1. PICK kept \in Seq(T) : Repaired(out, kept, none, Len(kept))
    BY <1>4 DEF DeltasCut, answer, events, none
  <2>2. i \in 1 .. Len(kept) /\ out[i] \in RepairPayload(kept[i], none)
    <3>1. DOMAIN out = 1 .. Len(kept)
      BY <2>1 DEF Repaired
    <3> QED
      BY <2>1, <3>1 DEF Repaired
  <2>3. kept[i] \in T
    <3> HIDE DEF T
    <3> QED
      BY <2>2
  <2>4. PICK n \in DOMAIN events : kept[i] = events[n] /\ events[n].ev # "delta"
    BY <1>1, <2>3 DEF Staying
  <2> QED
    BY <2>2, <2>4 DEF Repairs, none, events
<1> QED
  BY <1>2, <1>3, <1>4

-----------------------------------------------------------------------------
(* Answers that are repaired                                               *)

\* An answer that is rewritten was collected whole.
RewrittenWhole ==
  Whole /\ Rewritable =>
    \/ \E out \in RewriteHTTPResponse(request.answer, AnswerEvents, TRUE) : client.events = <<>> \o out
    \/ client.events = <<>> /\ AnswerEvents = <<>>

LEMMA RewrittenEnds ==
  ASSUME Flow, SendFails \/ UpstreamEnds \/ WriteFails, Ordering
  PROVE  RewrittenWhole'
<1> SUFFICES ASSUME Whole', Rewritable'
             PROVE  \/ \E out \in RewriteHTTPResponse(request'.answer, AnswerEvents', TRUE) :
                           client'.events = <<>> \o out
                    \/ client'.events = <<>> /\ AnswerEvents' = <<>>
  BY DEF RewrittenWhole
<1>1. /\ left' = <<>> /\ ~cut' /\ left' = left /\ request' = request /\ sent' = sent
      /\ stage \in {"relay", "stream"}
  BY DEF Whole, SendFails, UpstreamEnds, WriteFails
<1>2. Collected /\ Len(AnswerEvents) <= BufferLimit /\ AnswerEvents' = AnswerEvents
  BY <1>1 DEF Rewritable, Collected, AnswerEvents
<1> DEFINE s == client.events
           S == Chunks
<1>3. /\ s \in Seq(S) /\ acc \in Seq(S) /\ (s \o acc) \o <<>> = AnswerEvents
  BY <1>1 DEF Flow
<1>4. AnswerEvents \in Seq(S) /\ Len(AnswerEvents) \in Nat
  <2>1. AnswerEvents \in Seq(S)
    BY AnswerIs
  <2> HIDE DEF S
  <2> QED
    BY <2>1
<1>5. stage = "relay" /\ s = <<>>
  <2>1. ~(Len(AnswerEvents) > BufferLimit)
    BY <1>2, <1>4, LimitAssumption
  <2> QED
    BY <1>1, <1>2, <2>1 DEF Flow
<1>6. acc = AnswerEvents
  <2>1. (<<>> \o acc) \o <<>> = AnswerEvents
    BY <1>3, <1>5
  <2> HIDE DEF s, S
  <2>2. <<>> \o acc = acc /\ acc \o <<>> = acc
    BY <1>3, ConcatEmptySeq
  <2> QED
    BY <2>1, <2>2
<1>7. CASE SendFails
  BY <1>1, <1>2, <1>5, <1>7 DEF SendFails, AnswerEvents
<1>8. CASE UpstreamEnds /\ acc = <<>>
  BY <1>2, <1>5, <1>6, <1>8 DEF UpstreamEnds
<1>9. CASE UpstreamEnds /\ acc # <<>>
  <2>1. PICK out \in RewriteHTTPResponse(request.answer, acc, left = <<>>) : client' = Got(out)
    BY <1>9 DEF UpstreamEnds
  <2>2. (left = <<>>) = TRUE
    BY <1>1
  <2>3. out \in RewriteHTTPResponse(request.answer, AnswerEvents, TRUE)
    BY <1>6, <2>1, <2>2
  <2>4. client'.events = <<>> \o out
    BY <1>5, <2>1 DEF Got
  <2> QED
    BY <1>1, <1>2, <2>3, <2>4
<1>10. CASE WriteFails
  BY <1>1, <1>10 DEF WriteFails
<1> QED
  BY <1>7, <1>8, <1>9, <1>10

LEMMA RewrittenStep ==
  Ordering /\ Flow /\ RewrittenWhole /\ [RequestNext]_requestVars => RewrittenWhole'
<1> SUFFICES ASSUME Ordering, Flow, RewrittenWhole, [RequestNext]_requestVars
             PROVE  RewrittenWhole'
  OBVIOUS
<1>1. ASSUME stage' # "over" PROVE RewrittenWhole'
  BY <1>1 DEF RewrittenWhole, Whole
<1>2. ASSUME sent' = Unsent PROVE RewrittenWhole'
  BY <1>2 DEF RewrittenWhole, Whole, Unsent
<1>3. CASE Arrives
  <2>1. sent' = Unsent
    BY <1>3, ArrivesIs DEF Ordering
  <2> QED
    BY <1>2, <2>1
<1>4. CASE Processed
  <2>1. /\ stage \in Unread
        /\ (stage' = "over" /\ sent' = sent) \/ stage' \in {"token", "account", "dial"}
    BY <1>4, ProcessedIs
  <2> QED
    BY <1>1, <1>2, <2>1 DEF Ordering
<1>5. CASE Resolved
  <2>1. /\ left' = AnswerEvents /\ client'.events = <<>> /\ UNCHANGED request
    BY <1>5, ResolvedIs DEF Ordering
  <2>2. left' = <<>> => client'.events = <<>> /\ AnswerEvents' = <<>>
    BY <2>1 DEF AnswerEvents
  <2> QED
    BY <2>2 DEF RewrittenWhole, Whole
<1>6. CASE Relays
  <2>1. CASE PassOn \/ ReadMetaChunk \/ WriteMetaChunk
    <3>1. stage' # "over"
      BY <2>1 DEF PassOn, ReadMetaChunk, WriteMetaChunk
    <3> QED
      BY <1>1, <3>1
  <2>2. CASE Collect
    <3>1. stage' # "over"
      BY <2>2 DEF Collect
    <3> QED
      BY <1>1, <3>1
  <2>3. CASE SendFails \/ UpstreamEnds \/ WriteFails
    BY <2>3, RewrittenEnds
  <2> QED
    BY <1>6, <2>1, <2>2, <2>3 DEF Relays
<1>7. CASE UNCHANGED conn
  <2>1. UNCHANGED <<request, stage, sent, left, client, cut>>
    BY <1>7 DEF conn
  <2>2. (Whole' <=> Whole) /\ (Rewritable' <=> Rewritable) /\ AnswerEvents' = AnswerEvents
    BY <2>1 DEF Whole, Rewritable, Collected, AnswerEvents
  <2>3. request' = request /\ client' = client
    BY <2>1
  <2> QED
    BY <2>2, <2>3 DEF RewrittenWhole
<1> QED
  BY <1>3, <1>4, <1>5, <1>6, <1>7, MeanwhileIs

LEMMA RewrittenAlways == RequestSpec => []RewrittenWhole
<1>1. RequestInit => Flow /\ DeliveredUnchanged /\ RewrittenWhole
  <2> SUFFICES ASSUME RequestInit PROVE Flow /\ DeliveredUnchanged /\ RewrittenWhole
    OBVIOUS
  <2>1. stage = "reading"
    BY DEF RequestInit
  <2> QED
    BY <2>1 DEF Flow, DeliveredUnchanged, RewrittenWhole, Whole
<1> QED
  BY <1>1, FlowStep, RewrittenStep, Ordered, PTL DEF RequestSpec

\* What is left of an answer that needs no rewriting is a sequence again.
LEMMA RewrittenIsText ==
  ASSUME NEW r \in Requests, r.answer.status = 200,
         (\E n \in DOMAIN r.answer.events : r.answer.events[n].ev = "call")
         \/ ~(\E n \in DOMAIN r.answer.events : r.answer.events[n].ev = "content"),
         NEW out \in RewriteHTTPResponse(r.answer, r.answer.events, TRUE)
  PROVE  <<>> \o out = out
<1> DEFINE answer == r.answer
<1>1. IsSequence(answer.events) /\ Len(answer.events) \in Nat
  BY RequestsAssumption DEF IsSequence
<1>2. AllSentOn(out, answer) \/ DeltasCut(out, answer)
  <2>1. /\ answer.status = 200 /\ out \in RewriteHTTPResponse(answer, answer.events, TRUE)
        /\ (\E n \in DOMAIN answer.events : answer.events[n].ev = "call")
           \/ ~(\E n \in DOMAIN answer.events : answer.events[n].ev = "content")
    OBVIOUS
  <2> HIDE DEF answer
  <2> QED
    BY <1>1, <2>1, RepairedInPlace
<1>3. PICK events, text : Repaired(out, events, text, Len(events)) /\ Len(events) \in Nat
  <2>1. CASE AllSentOn(out, answer)
    BY <1>1, <2>1 DEF AllSentOn
  <2>2. CASE DeltasCut(out, answer)
    <3> DEFINE T == Staying(answer.events)
    <3>1. PICK kept \in Seq(T) : Repaired(out, kept, <<>>, Len(kept))
      BY <2>2 DEF DeltasCut
    <3>2. Len(kept) \in Nat
      <4> HIDE DEF T
      <4> QED
        OBVIOUS
    <3> QED
      BY <3>1, <3>2
  <2> QED
    BY <1>2, <2>1, <2>2
<1>4. out = [k \in 1 .. Len(events) |-> out[k]]
  BY <1>3 DEF Repaired
<1>5. PICK T : out \in Seq(T)
  <2> DEFINE n == Len(events)
             S == {out[k] : k \in 1 .. n}
  <2>1. \A k \in 1 .. n : out[k] \in S
    OBVIOUS
  <2>2. n \in Nat /\ out = [k \in 1 .. n |-> out[k]]
    BY <1>3, <1>4
  <2> HIDE DEF n, S
  <2>3. out \in [1 .. n -> S]
    BY <2>1, <2>2
  <2>4. out \in Seq(S)
    BY <2>2, <2>3
  <2> QED
    BY <2>4
<1> QED
  BY <1>5, NothingJoined

\* An answer with calls of its own reaches the client with each event in its
\* place, and nothing changed but the arguments of calls that could not be used
\* (RewriteHTTPResponse, repairPayload): the part CallsKept of AnswerAsMeant.
THEOREM NativeCallsReachTheClient == RequestSpec => []CallsKept
<1>1. Ordering /\ RewrittenWhole => CallsKept
  <2> DEFINE given == request.answer.events
             answer == request.answer
  <2> SUFFICES ASSUME Ordering, RewrittenWhole, Whole, Rewritable, answer.kind # "responses",
                      \E n \in DOMAIN given : given[n].ev = "call"
               PROVE  /\ Len(client.events) = Len(given)
                      /\ \A n \in DOMAIN given :
                             IF given[n].ev # "call" THEN client.events[n] = given[n]
                             ELSE /\ client.events[n] = [given[n] EXCEPT !.call.args = client.events[n].call.args]
                                  /\ DeliveredAs(client.events[n].call, given[n].call)
    BY DEF CallsKept
  <2>1. request \in Requests /\ answer.status = 200 /\ AnswerEvents = given
    BY DEF Ordering, Rewritable, AnswerEvents
  <2>2. given # <<>>
    OBVIOUS
  <2>3. PICK out \in RewriteHTTPResponse(answer, given, TRUE) : client.events = <<>> \o out
    BY <2>1, <2>2 DEF RewrittenWhole
  <2>4. client.events = out
    BY <2>1, <2>3, RewrittenIsText
  <2> QED
    BY <2>1, <2>4, CallsAreKept
<1> QED
  BY <1>1, Ordered, RewrittenAlways, PTL

\* The copies of a call that a Responses stream delivers say the same, unless
\* the call is doubtful (RepairSSE): the part CopiesAgree of AnswerAsMeant.
THEOREM CopiesReachTheClientAlike == RequestSpec => []CopiesAgree
<1>1. Ordering /\ RewrittenWhole => CopiesAgree
  <2> DEFINE given == request.answer.events
             answer == request.answer
  <2> SUFFICES ASSUME Ordering, RewrittenWhole, Whole, Rewritable, answer.kind = "responses",
                      \A n \in DOMAIN given : given[n].ev = "item" => ~Doubtful(given[n].call),
                      NEW i \in DOMAIN client.events, NEW j \in DOMAIN client.events,
                      client.events[i].text = client.events[j].text,
                      {client.events[i].ev, client.events[j].ev} \subseteq CopyEvents
               PROVE  client.events[i].call.args = client.events[j].call.args
    BY DEF CopiesAgree
  <2>1. request \in Requests /\ answer.status = 200 /\ AnswerEvents = given
    BY DEF Ordering, Rewritable, AnswerEvents
  <2>2. client.events # <<>>
    OBVIOUS
  <2>3. PICK out \in RewriteHTTPResponse(answer, given, TRUE) : client.events = <<>> \o out
    BY <2>1, <2>2 DEF RewrittenWhole
  <2>4. \A n \in DOMAIN given : given[n].ev \notin {"content", "call"}
    BY <2>1, RequestsAssumption DEF OfOneAPI
  <2>5. client.events = out
    BY <2>1, <2>3, <2>4, RewrittenIsText
  <2>6. PICK d : Repairs(out[i], d, given)
    BY <2>1, <2>5, EachIsRepaired
  <2>7. PICK e : Repairs(out[j], e, given)
    BY <2>1, <2>5, EachIsRepaired
  <2> DEFINE a == out[i]
             b == out[j]
  <2>8. /\ Repairs(a, d, answer.events) /\ Repairs(b, e, answer.events)
        /\ a.text = b.text /\ a.ev \in CopyEvents /\ b.ev \in CopyEvents
        /\ NoneDoubtful(answer.events)
    BY <2>5, <2>6, <2>7 DEF NoneDoubtful
  <2> HIDE DEF a, b
  <2>9. a.call.args = b.call.args
    BY <2>1, <2>8, CopiesAreKept
  <2> QED
    BY <2>5, <2>9 DEF a, b
<1> QED
  BY <1>1, Ordered, RewrittenAlways, PTL
=============================================================================
