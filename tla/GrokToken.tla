------------------------------- MODULE GrokToken -------------------------------
(***************************************************************************)
(* The Grok credentials of internal/grok: the file grok-cli.json and those *)
(* who use it.  Requests ask for an access token; when the stored one has  *)
(* expired, one of them refreshes it for all (EnsureValidAccessToken).     *)
(* Beside them a device login saves new credentials, the control API       *)
(* enables or removes the account, and the daemon may be killed.           *)
(*                                                                         *)
(* A credential is a pair of numbers, each naming the answer of xAI in     *)
(* which the token was issued.  Refresh tokens are rotated: a refresh      *)
(* spends the old one, unless the answer names no new one.                 *)
(***************************************************************************)
EXTENDS Integers

CONSTANTS
  Callers,   \* goroutines that call AccessToken
  MaxIssued  \* bound: answers with new tokens

ASSUME TokenAssumption ==
  /\ MaxIssued \in Nat \ {0}
  /\ "free" \notin Callers /\ "login" \notin Callers

VARIABLES
  issued,    \* answers with new tokens so far
  valid,     \* refresh tokens that xAI accepts
  revoked,   \* refresh tokens that xAI withdrew
  expired,   \* access tokens that are past their expiry, less the skew
  file,      \* grok-cli.json
  io,        \* holder of authIOMu
  read,      \* what the holder has read of the file
  inFlight,  \* refreshInFlight
  waiters,   \* refreshWaiters: callers that wait for the refresh under way
  answered,  \* callers whose channel holds an answer
  pc,        \* control point of each caller, or of the goroutine it waits for
  creds,     \* creds of EnsureValidAccessToken
  refreshed, \* what refreshAccessToken returned
  login,     \* approved device login that is not saved yet, or 0
  toggle,    \* what a ToggleAccountDisabled under way has read
  excused,   \* history: spent refresh tokens whose further use is explained
  refused    \* history: refresh tokens that xAI refused

serverVars  == <<issued, valid, revoked, expired>>
ioVars      == <<io, read>>
flightVars  == <<inFlight, waiters, answered>>
callerVars  == <<pc, creds, refreshed>>
historyVars == <<excused, refused>>
vars == <<serverVars, file, ioVars, flightVars, callerVars, login, toggle, historyVars>>

Absent == [access |-> 0, refresh |-> 0, disabled |-> FALSE]
None   == [access |-> 0, refresh |-> 0]
Tokens == 0..MaxIssued

File       == [access : Tokens, refresh : Tokens, disabled : BOOLEAN]
Credential == [access : Tokens, refresh : Tokens]

Leading == {"reread", "post", "save", "write", "quarantine", "disable", "deliver"}
PCs     == {"idle", "load", "slot", "wait"} \cup Leading
Leaders == {c \in Callers : pc[c] \in Leading}

\* Leaders that hold new tokens and have not saved them.
Savers == {c \in Callers : pc[c] \in {"save", "write"}}

ServerType ==
  /\ issued \in Tokens
  /\ valid \subseteq 1..issued /\ revoked \subseteq 1..issued
  /\ expired \subseteq 1..issued

FileType == file \in File /\ read \in File /\ toggle \in File

FlightType ==
  /\ inFlight \in BOOLEAN
  /\ waiters \subseteq Callers /\ answered \subseteq Callers

CallerType ==
  /\ pc \in [Callers -> PCs]
  /\ creds \in [Callers -> Credential] /\ refreshed \in [Callers -> Credential]
  /\ login \in Tokens

HistoryType == excused \subseteq Tokens /\ refused \subseteq Tokens

\* The lock is held exactly between the two halves of a read-modify-write.
LockType ==
  /\ io \in Callers \cup {"free", "login"}
  /\ \A c \in Callers : pc[c] \in {"write", "disable"} <=> io = c
  /\ io = "login" => login # 0

TypeOK ==
  ServerType /\ FileType /\ FlightType /\ CallerType /\ HistoryType /\ LockType

Init ==
  /\ issued = 1 /\ valid = {1} /\ revoked = {} /\ expired = {}
  /\ file = [access |-> 1, refresh |-> 1, disabled |-> FALSE]
  /\ io = "free" /\ read = Absent
  /\ inFlight = FALSE /\ waiters = {} /\ answered = {}
  /\ pc = [c \in Callers |-> "idle"]
  /\ creds = [c \in Callers |-> None] /\ refreshed = [c \in Callers |-> None]
  /\ login = 0 /\ toggle = Absent
  /\ excused = {} /\ refused = {} 

-----------------------------------------------------------------------------
(* Helpers                                                                 *)

\* LoadActiveCredentials finds the file: it exists and is enabled.
Active == file.access # 0 /\ ~file.disabled

Stored == [access |-> file.access, refresh |-> file.refresh]

\* Credentials k as Persist writes them over what it has read.
Merged(k) == [access |-> k.access, refresh |-> k.refresh, disabled |-> read.disabled]

Goto(c, l) == pc' = [pc EXCEPT ![c] = l]

\* c's call returns, and its variables with it.
Return(c) == Goto(c, "idle") /\ creds' = [creds EXCEPT ![c] = None]

\* c locks authIOMu and reads the file.
Acquire(c) == io = "free" /\ io' = c /\ read' = file

\* The later use of refresh token t is explained, if it is spent.
Excuse(t) == excused' = excused \cup ({t} \ valid)

Release == io' = "free" /\ read' = Absent

-----------------------------------------------------------------------------
(* EnsureValidAccessToken                                                  *)

Call(c) ==
  /\ pc[c] = "idle"
  /\ Goto(c, "load")
  /\ UNCHANGED <<serverVars, file, ioVars, flightVars, creds, refreshed, login, toggle,
                 historyVars>>

\* No credentials and fresh ones are answered at once.
Load(c) ==
  /\ pc[c] = "load" /\ io = "free"
  /\ \/ /\ Active /\ file.access \in expired
        /\ creds' = [creds EXCEPT ![c] = Stored] /\ Goto(c, "slot")
     \/ /\ ~(Active /\ file.access \in expired)
        /\ Return(c)
  /\ UNCHANGED <<serverVars, file, ioVars, flightVars, refreshed, login, toggle, historyVars>>

\* Mutant: nobody looks whether a refresh is under way.
TakeSlot_Unchecked(c) ==
  /\ pc[c] = "slot"
  /\ inFlight' = TRUE /\ Goto(c, "reread")
  /\ UNCHANGED <<serverVars, file, ioVars, waiters, answered, creds, refreshed, login,
                 toggle, historyVars>>

\* The critical section of refreshMu: wait for the refresh, or lead one.
TakeSlot(c) ==
  /\ pc[c] = "slot"
  /\ \/ inFlight /\ waiters' = waiters \cup {c} /\ Goto(c, "wait") /\ UNCHANGED inFlight
     \/ ~inFlight /\ inFlight' = TRUE /\ Goto(c, "reread") /\ UNCHANGED waiters
  /\ UNCHANGED <<serverVars, file, ioVars, answered, creds, refreshed, login, toggle,
                 historyVars>>

\* The leader reads again, and keeps what it had if there is nothing to read.
Reread(c) ==
  /\ pc[c] = "reread" /\ io = "free"
  /\ creds' = [creds EXCEPT ![c] = IF Active THEN Stored ELSE @]
  /\ Goto(c, IF creds'[c].access \in expired THEN "post" ELSE "deliver")
  /\ IF Active THEN UNCHANGED excused ELSE Excuse(creds[c].refresh)
  /\ UNCHANGED <<serverVars, file, ioVars, flightVars, refreshed, login, toggle, refused>>

-----------------------------------------------------------------------------
(* refreshAccessToken: what xAI does with the request and its answer       *)

\* A new access token; the refresh token is rotated, or kept if none is named.
Renew(c) ==
  LET n == issued + 1 IN
  /\ pc[c] = "post" /\ creds[c].refresh \in valid /\ issued < MaxIssued
  /\ issued' = n
  /\ \/ /\ valid' = (valid \ {creds[c].refresh}) \cup {n}
        /\ refreshed' = [refreshed EXCEPT ![c] = [access |-> n, refresh |-> n]]
     \/ /\ valid' = valid
        /\ refreshed' = [refreshed EXCEPT ![c] = [access |-> n, refresh |-> creds[c].refresh]]
  /\ Goto(c, "save")
  /\ UNCHANGED <<revoked, expired, file, ioVars, flightVars, creds, login, toggle, historyVars>>

\* A terminal failure (IsTerminalRefreshFailure).
Refuse(c) ==
  /\ pc[c] = "post" /\ creds[c].refresh \notin valid
  /\ refused' = refused \cup {creds[c].refresh}
  /\ Goto(c, "quarantine")
  /\ UNCHANGED <<serverVars, file, ioVars, flightVars, creds, refreshed, login, toggle,
                 excused>>

\* A network error, before the request reached xAI or after it was served:
\* then the token is spent and its successor lost.
NoAnswer(c) ==
  /\ pc[c] = "post"
  /\ \/ UNCHANGED <<valid, excused>>
     \/ /\ creds[c].refresh \in valid
        /\ valid' = valid \ {creds[c].refresh}
        /\ excused' = excused \cup {creds[c].refresh}
  /\ Goto(c, "deliver")
  /\ UNCHANGED <<issued, revoked, expired, file, ioVars, flightVars, creds, refreshed, login,
                 toggle, refused>>

-----------------------------------------------------------------------------
(* The end of a refresh: Persist or QuarantineCredentials, then deliver    *)

SaveRead(c) ==
  /\ pc[c] = "save" /\ Acquire(c) /\ Goto(c, "write")
  /\ UNCHANGED <<serverVars, file, flightVars, creds, refreshed, login, toggle, historyVars>>

\* Mutant: the prior refresh token is kept even if the answer names a new one.
SaveWrite_KeepsRefresh(c) ==
  /\ pc[c] = "write" /\ Release /\ Goto(c, "deliver")
  /\ file' = Merged([refreshed[c] EXCEPT !.refresh = creds[c].refresh])
  /\ refreshed' = [refreshed EXCEPT ![c] = None]
  /\ UNCHANGED <<serverVars, flightVars, creds, login, toggle, historyVars>>

SaveWrite(c) ==
  /\ pc[c] = "write" /\ Release /\ Goto(c, "deliver")
  /\ file' = Merged(refreshed[c])
  /\ refreshed' = [refreshed EXCEPT ![c] = None]
  /\ UNCHANGED <<serverVars, flightVars, creds, login, toggle, historyVars>>

\* The write fails: the callers get their token, its successor is lost.
SaveFails(c) ==
  /\ pc[c] = "write" /\ Release /\ Goto(c, "deliver")
  /\ Excuse(creds[c].refresh)
  /\ refreshed' = [refreshed EXCEPT ![c] = None]
  /\ UNCHANGED <<serverVars, file, flightVars, creds, login, toggle, refused>>

\* Mutant: the failure returns at once when there is no file to disable.
QuarantineRead_Returns(c) ==
  /\ pc[c] = "quarantine"
  /\ \/ file # Absent /\ Acquire(c) /\ Goto(c, "disable") /\ UNCHANGED creds
     \/ file = Absent /\ io = "free" /\ Return(c) /\ UNCHANGED ioVars
  /\ UNCHANGED <<serverVars, file, flightVars, refreshed, login, toggle, historyVars>>

QuarantineRead(c) ==
  /\ pc[c] = "quarantine"
  /\ \/ file # Absent /\ Acquire(c) /\ Goto(c, "disable")
     \/ file = Absent /\ io = "free" /\ Goto(c, "deliver") /\ UNCHANGED ioVars
  /\ UNCHANGED <<serverVars, file, flightVars, creds, refreshed, login, toggle, historyVars>>

\* Whatever was read is written back disabled, or the write fails.
Disable(c) ==
  /\ pc[c] = "disable" /\ Release /\ Goto(c, "deliver")
  /\ \/ file' = [read EXCEPT !.disabled = TRUE]
     \/ UNCHANGED file
  /\ UNCHANGED <<serverVars, flightVars, creds, refreshed, login, toggle, excused, refused>>

\* The leader and its waiters get the answer, each on a channel of its own.
Deliver(c) ==
  /\ pc[c] = "deliver" /\ Return(c)
  /\ inFlight' = FALSE /\ waiters' = {} /\ answered' = answered \cup waiters
  /\ UNCHANGED <<serverVars, file, ioVars, refreshed, login, toggle, historyVars>>

Receive(c) ==
  /\ pc[c] = "wait" /\ c \in answered
  /\ answered' = answered \ {c} /\ Return(c)
  /\ UNCHANGED <<serverVars, file, ioVars, inFlight, waiters, refreshed, login, toggle,
                 historyVars>>

-----------------------------------------------------------------------------
(* xAI and the clock                                                       *)

Expire(n) ==
  /\ n \in (1..issued) \ expired
  /\ expired' = expired \cup {n}
  /\ UNCHANGED <<issued, valid, revoked, file, ioVars, flightVars, callerVars, login, toggle,
                 historyVars>>

Revoke(n) ==
  /\ n \in valid
  /\ valid' = valid \ {n} /\ revoked' = revoked \cup {n}
  /\ UNCHANGED <<issued, expired, file, ioVars, flightVars, callerVars, login, toggle,
                 historyVars>>

-----------------------------------------------------------------------------
(* The device login                                                        *)

\* pollForToken gets the tokens the user has approved.
Approve ==
  /\ login = 0 /\ issued < MaxIssued
  /\ issued' = issued + 1 /\ login' = issued' /\ valid' = valid \cup {issued'}
  /\ UNCHANGED <<revoked, expired, file, ioVars, flightVars, callerVars, toggle, historyVars>>

LoginRead ==
  /\ login # 0 /\ Acquire("login")
  /\ UNCHANGED <<serverVars, file, flightVars, callerVars, login, toggle, historyVars>>

LoginWrite ==
  /\ io = "login" /\ Release /\ login' = 0
  /\ file' = Merged([access |-> login, refresh |-> login])
  /\ UNCHANGED <<serverVars, flightVars, callerVars, toggle, historyVars>>

LoginFails ==
  /\ io = "login" /\ Release /\ login' = 0
  /\ UNCHANGED <<serverVars, file, flightVars, callerVars, toggle, historyVars>>

-----------------------------------------------------------------------------
(* The account manager, which does not take authIOMu                       *)

\* The only account may be enabled, never disabled.
ToggleRead ==
  /\ toggle = Absent /\ file.disabled
  /\ toggle' = file
  /\ UNCHANGED <<serverVars, file, ioVars, flightVars, callerVars, login, historyVars>>

\* What was read is written back enabled, or the write fails.
ToggleWrite ==
  /\ toggle # Absent /\ toggle' = Absent
  /\ \/ /\ file' = [toggle EXCEPT !.disabled = FALSE]
        /\ Excuse(toggle.refresh)
     \/ UNCHANGED <<file, excused>>
  /\ UNCHANGED <<serverVars, ioVars, flightVars, callerVars, login, refused>>

\* removeAccount deletes the file at once if the backend has exited, even while the
\* proxy serves requests; else after stopServer, which a new start may follow.
DeleteAccount ==
  /\ file # Absent /\ file' = Absent
  /\ UNCHANGED <<serverVars, ioVars, flightVars, callerVars, login, toggle, historyVars>>

\* The daemon is killed and starts again: only the file is left.
Crash ==
  /\ file' = file
  /\ Release /\ inFlight' = FALSE /\ waiters' = {} /\ answered' = {}
  /\ pc' = [c \in Callers |-> "idle"]
  /\ creds' = [c \in Callers |-> None] /\ refreshed' = [c \in Callers |-> None]
  /\ login' = 0 /\ toggle' = Absent
  /\ excused' = excused \cup ({creds[c].refresh : c \in Savers} \ valid)
  /\ UNCHANGED <<serverVars, refused>>

-----------------------------------------------------------------------------
Refresh(c) == Renew(c) \/ Refuse(c) \/ NoAnswer(c)

\* Steps that wait for authIOMu.
Locking(c) == Load(c) \/ Reread(c) \/ SaveRead(c) \/ QuarantineRead(c)

Running(c) ==
  \/ TakeSlot(c) \/ Refresh(c)
  \/ SaveWrite(c) \/ SaveFails(c) \/ Disable(c)
  \/ Deliver(c) \/ Receive(c)

LoginEnds == LoginWrite \/ LoginFails

Next ==
  \/ \E c \in Callers : Call(c) \/ Locking(c) \/ Running(c)
  \/ \E n \in 1..issued : Expire(n) \/ Revoke(n)
  \/ Approve \/ LoginRead \/ LoginEnds
  \/ ToggleRead \/ ToggleWrite \/ DeleteAccount \/ Crash

Spec == Init /\ [][Next]_vars

\* Goroutines run, the mutex starves nobody, and HTTPClient ends a request after
\* 60 s.  Calls, logins, the user and xAI do as they like.
Fairness ==
  /\ \A c \in Callers : WF_vars(Running(c)) /\ SF_vars(Locking(c))
  /\ WF_vars(LoginEnds)

FairSpec == Spec /\ Fairness

-----------------------------------------------------------------------------
(* Properties                                                              *)

\* Refreshes are single-flighted: the flag is set exactly while one caller leads a
\* refresh, and never two do (refreshMu, grok_auth_flow.go:247-254).
SingleFlight ==
  /\ inFlight <=> Leaders # {}
  /\ \A c, d \in Leaders : c = d

\* A caller that waits is either on the list of a refresh under way or has its answer,
\* and not both; nobody else is on the list or is sent an answer (deliver).
OneAnswerDue ==
  /\ waiters \cap answered = {}
  /\ waiters \cup answered = {c \in Callers : pc[c] = "wait"}
  /\ waiters # {} => inFlight

\* Both, for concurrent requests that meet an expired token (grok_auth_flow.go:230-275):
\* one refresh at a time, and exactly one answer for each of them.
RefreshIsShared == SingleFlight /\ OneAnswerDue

\* The file never keeps a spent refresh token that would be used again, except while the
\* refresh that spent it has yet to save the successor, or when the successor was lost
\* to a failed answer, write or process, or undone by a concurrent toggle.
FileNeverSpent ==
  Active /\ file.refresh \notin valid =>
    \/ file.refresh \in revoked \cup excused
    \/ \E c \in Savers : file.refresh = creds[c].refresh

\* A refresh is refused only for a token that xAI withdrew or that was lost as above,
\* or when the account was disabled or removed under the caller: concurrent requests
\* never spend one token twice and see a spurious 401 (grok_auth_flow.go:243-246).
RefusedIsExplained == refused \subseteq revoked \cup excused

\* Every call of AccessToken returns: each path of the refresh reaches deliver.
EveryCallReturns == \A c \in Callers : pc[c] # "idle" ~> pc[c] = "idle"
=============================================================================
