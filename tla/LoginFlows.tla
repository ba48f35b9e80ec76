------------------------------ MODULE LoginFlows ------------------------------
(***************************************************************************)
(* The sign-ins a user starts from the settings page (daemon/calls.go):    *)
(* the Grok device login (startGrokLogin, cancelProviderAuth,              *)
(* grok.StartDeviceLogin), and the logins of the bundled command           *)
(* (runBundledLogin, Manager.RunAuthCommandAsync).                         *)
(*                                                                         *)
(* The daemon keeps one session, one user code and one in-flight flag for  *)
(* Grok under its lock; each login runs on a goroutine of its own and      *)
(* reports through callbacks. The session is stored only after             *)
(* StartDeviceLogin has returned, a completion clears the daemon's fields  *)
(* before it looks whether they were its own, and a cancel call clears     *)
(* them before it cancels the session it found there.                      *)
(*                                                                         *)
(* Abstracted: a login is a number, the code shown is the login it belongs *)
(* to, the answers of the authorization server are outcomes, and time is   *)
(* the deadline of a login, which passes.                                  *)
(***************************************************************************)
EXTENDS Naturals, FiniteSets

CONSTANTS
    MaxLogins,    \* bound: Grok logins started
    MaxCancels,   \* bound: cancel calls
    Callers       \* requests for a bundled login that may overlap

ASSUME LoginAssumption ==
    MaxLogins \in Nat /\ MaxCancels \in Nat

Logins == 1 .. MaxLogins

VARIABLES
    session,      \* Daemon.grokSession, 0 for nil
    code,         \* Daemon.grokUserCode: the login whose code is shown, or 0
    waiting,      \* Daemon.loginInFlight[Grok]
    logins,       \* login -> its goroutine and its LoginSession
    starting,     \* logins whose startGrokLogin has not stored the session yet
    dropping,     \* logins a cancel call has cleared and is about to cancel
    saved,        \* logins whose credentials were persisted
    told,         \* logins whose outcome was posted as a message
    cancels,      \* cancel calls so far
    muddled,      \* history: calls or completions of several logins crossed
    busy,         \* Daemon.loginInFlight of the bundled provider
    runs          \* caller -> the bundled login it waits for

grok == <<session, code, waiting, logins, starting, dropping, saved, told, cancels,
          muddled>>
vars == <<grok, busy, runs>>

-----------------------------------------------------------------------------
Init ==
    /\ session = 0 /\ code = 0 /\ waiting = FALSE
    /\ logins = [i \in Logins |-> [pc |-> "new", cancelled |-> "no", outcome |-> "none"]]
    /\ starting = {} /\ dropping = {} /\ saved = {} /\ told = {}
    /\ cancels = 0 /\ muddled = FALSE
    /\ busy = FALSE
    /\ runs = [r \in Callers |-> [pc |-> "idle", left |-> FALSE]]

Running(i) == logins[i].pc \notin {"new", "done"}
\* The logins that go on and that no cancel call has given up.
Live == {i \in Logins : Running(i) /\ logins[i].cancelled = "no" /\ i \notin dropping}

\* LoginSession.Cancel; a login past its last look at the flag does not see it.
Cancelled(i) ==
    [logins EXCEPT ![i].cancelled =
        IF @ # "no" THEN @
        ELSE IF logins[i].pc \in {"asking", "polling"} THEN "seen" ELSE "late"]

\* startGrokLogin up to the return of StartDeviceLogin: under the lock any
\* session is cancelled and the fields are reset; then the goroutine starts.
StartGrokLogin_KeepsOld(i) ==
    /\ logins[i].pc = "new" /\ \A j \in Logins : j < i => logins[j].pc # "new"
    /\ logins' = [logins EXCEPT ![i].pc = "asking"]
    /\ session' = 0 /\ code' = 0 /\ waiting' = TRUE
    /\ starting' = starting \cup {i}
    /\ muddled' = (muddled \/ starting # {})
    /\ UNCHANGED <<dropping, saved, told, cancels, busy, runs>>
StartGrokLogin(i) ==
    /\ logins[i].pc = "new" /\ \A j \in Logins : j < i => logins[j].pc # "new"
    /\ logins' = [(IF session = 0 THEN logins ELSE Cancelled(session)) EXCEPT ![i].pc = "asking"]
    /\ session' = 0 /\ code' = 0 /\ waiting' = TRUE
    /\ starting' = starting \cup {i}
    /\ muddled' = (muddled \/ starting # {})
    /\ UNCHANGED <<dropping, saved, told, cancels, busy, runs>>

\* The rest of it: the session is stored, whatever became of the login.
StoreSession(i) ==
    /\ i \in starting
    /\ starting' = starting \ {i}
    /\ session' = i
    /\ UNCHANGED <<code, waiting, logins, dropping, saved, told, cancels, muddled, busy,
                   runs>>

\* cancelProviderAuth under the lock: the fields are cleared; a login whose
\* session is not stored yet is not found.
CancelProviderAuth ==
    /\ cancels < MaxCancels
    /\ cancels' = cancels + 1
    /\ dropping' = dropping \cup ({session} \ {0})
    /\ session' = 0 /\ code' = 0 /\ waiting' = FALSE
    /\ muddled' = (muddled \/ starting # {})
    /\ UNCHANGED <<logins, starting, saved, told, busy, runs>>

\* After the unlock the session it found is cancelled.
CancelSession(i) ==
    /\ i \in dropping
    /\ dropping' = dropping \ {i}
    /\ logins' = Cancelled(i)
    /\ UNCHANGED <<session, code, waiting, starting, saved, told, cancels, muddled, busy,
                   runs>>

-----------------------------------------------------------------------------
(* The goroutine of one login.                                              *)

Ends(i, outcome) == logins' = [logins EXCEPT ![i].pc = "complete", ![i].outcome = outcome]

\* The device code request is answered; cancellation is looked at once more
\* before the browser is opened.
Asked(i) ==
    /\ logins[i].pc = "asking"
    /\ IF logins[i].cancelled # "no"
       THEN Ends(i, "cancelled")
       ELSE \/ Ends(i, "failed")
            \/ logins' = [logins EXCEPT ![i].pc = "prompt"]
    /\ UNCHANGED <<session, code, waiting, starting, dropping, saved, told, cancels, muddled,
                   busy, runs>>

\* onPrompt shows the code of whichever login calls it, given up or not.
Prompt(i) ==
    /\ logins[i].pc = "prompt"
    /\ logins' = [logins EXCEPT ![i].pc = "polling"]
    /\ code' = i
    /\ muddled' = (muddled \/ (i \notin Live /\ Live # {}))
    /\ UNCHANGED <<session, waiting, starting, dropping, saved, told, cancels, busy, runs>>

\* One answer to a poll: approved, refused, or nothing yet (then the login
\* polls again); a cancelled session throws the answer away.
Polled_Unchecked(i) ==
    /\ logins[i].pc = "polling"
    /\ \/ Ends(i, "failed")
       \/ logins' = [logins EXCEPT ![i].pc = "persist"]
    /\ UNCHANGED <<session, code, waiting, starting, dropping, saved, told, cancels, muddled,
                   busy, runs>>
Polled(i) ==
    /\ logins[i].pc = "polling"
    /\ IF logins[i].cancelled # "no"
       THEN Ends(i, "cancelled")
       ELSE \/ Ends(i, "failed")
            \/ logins' = [logins EXCEPT ![i].pc = "persist"]
    /\ UNCHANGED <<session, code, waiting, starting, dropping, saved, told, cancels, muddled,
                   busy, runs>>

\* The deadline of the device code: the loop looks at it after the flag.
Expires(i) ==
    /\ logins[i].pc = "polling"
    /\ logins[i].cancelled = "no"
    /\ Ends(i, "failed")
    /\ UNCHANGED <<session, code, waiting, starting, dropping, saved, told, cancels, muddled,
                   busy, runs>>

\* finish: credentials are persisted without another look at the flag.
Persist(i) ==
    /\ logins[i].pc = "persist"
    /\ \/ saved' = saved \cup {i} /\ Ends(i, "connected")
       \/ saved' = saved /\ Ends(i, "failed")
    /\ UNCHANGED <<session, code, waiting, starting, dropping, told, cancels, muddled, busy,
                   runs>>

\* What the callbacks of a login take for its session: startGrokLogin assigns
\* that variable without the lock, so until it has stored the session too the
\* callback may read nil (0) or the session.
OwnSession(i) == IF i \in starting THEN {0, i} ELSE {i}

\* The completion resets the daemon's fields, then compares the session it found
\* there with its own; nil and nil are equal. Only the current session's outcome
\* is told, and a cancellation never is.
Complete(i) ==
    /\ logins[i].pc = "complete"
    /\ logins' = [logins EXCEPT ![i].pc = "done"]
    /\ session' = 0 /\ code' = 0 /\ waiting' = FALSE
    /\ \E own \in OwnSession(i) :
          /\ told' = IF session = own /\ logins[i].outcome # "cancelled"
                     THEN told \cup {i} ELSE told
          /\ muddled' = (muddled \/ (session # own /\ (session # 0 \/ starting # {})))
    /\ UNCHANGED <<starting, dropping, saved, cancels, busy, runs>>

-----------------------------------------------------------------------------
(* A login of the bundled command.                                          *)

\* runBundledLogin takes the flag; while another call holds it, it is refused
\* and changes nothing. RunAuthCommandAsync starts the process, or reports at
\* once that it cannot.
RunBundledLogin(r) ==
    /\ runs[r].pc = "idle"
    /\ ~busy
    /\ busy' = TRUE
    /\ \E pc \in {"running", "settled"} : runs' = [runs EXCEPT ![r].pc = pc]
    /\ UNCHANGED grok

\* The process has ended early, with success or not, or it is still up after
\* the liveness delay, which counts as success.
CommandSettles(r) ==
    /\ runs[r].pc = "running"
    /\ runs' = [runs EXCEPT ![r].pc = "settled"]
    /\ UNCHANGED <<grok, busy>>

\* The client hangs up: the outcome will be posted as a message instead.
CallerLeaves(r) ==
    /\ runs[r].pc \in {"running", "settled"} /\ ~runs[r].left
    /\ runs' = [runs EXCEPT ![r].left = TRUE]
    /\ UNCHANGED <<grok, busy>>

FinishRun_OnlyAnswered(r) ==
    /\ runs[r].pc = "settled"
    /\ runs' = [runs EXCEPT ![r] = [pc |-> "idle", left |-> FALSE]]
    /\ busy' = runs[r].left
    /\ UNCHANGED grok
\* finish: the flag is given back before the outcome is answered or posted.
FinishRun(r) ==
    /\ runs[r].pc = "settled"
    /\ runs' = [runs EXCEPT ![r] = [pc |-> "idle", left |-> FALSE]]
    /\ busy' = FALSE
    /\ UNCHANGED grok

-----------------------------------------------------------------------------
Goroutine(i) == Asked(i) \/ Prompt(i) \/ Polled(i) \/ Expires(i) \/ Persist(i)
                \/ Complete(i)
Settles(r) == CommandSettles(r) \/ FinishRun(r)

Next ==
    \/ \E i \in Logins : StartGrokLogin(i) \/ StoreSession(i) \/ Goroutine(i)
    \/ CancelProviderAuth \/ \E i \in Logins : CancelSession(i)
    \/ \E r \in Callers : RunBundledLogin(r) \/ Settles(r) \/ CallerLeaves(r)

Spec == Init /\ [][Next]_vars

\* Requests are bounded by the client's timeout, the polling loop by the
\* deadline of the device code, the wait for the command by its timer; what a
\* user does is never owed.
Fairness ==
    /\ \A i \in Logins :
          WF_vars(StoreSession(i)) /\ WF_vars(CancelSession(i)) /\ WF_vars(Goroutine(i))
    /\ \A r \in Callers : WF_vars(Settles(r))

FairSpec == Spec /\ Fairness

-----------------------------------------------------------------------------
(* Properties.                                                              *)

LoginStates == [pc : {"new", "asking", "prompt", "polling", "persist", "complete", "done"},
                cancelled : {"no", "seen", "late"},
                outcome : {"none", "failed", "cancelled", "connected"}]

TypeOK ==
    /\ session \in 0 .. MaxLogins /\ code \in 0 .. MaxLogins /\ waiting \in BOOLEAN
    /\ logins \in [Logins -> LoginStates]
    /\ starting \subseteq Logins /\ dropping \subseteq Logins
    /\ saved \subseteq Logins /\ told \subseteq Logins
    /\ cancels \in 0 .. MaxCancels /\ muddled \in BOOLEAN
    /\ busy \in BOOLEAN
    /\ runs \in [Callers -> [pc : {"idle", "running", "settled"}, left : BOOLEAN]]

\* At most one login waits for the user, and while it waits the state shows
\* that it does, with its code: a new login cancels the one it replaces, and a
\* completion resets only what is its own (calls.go:444-502, state.go:56-97).
\* A login that a cancel call has taken off the state and is about to cancel
\* waits no more, though it may run on for a while beside its successor.
\* This lasts until a start has crossed another start, a cancel or the completion
\* of another login, or a login given up prompts while another one waits.
OneLoginShown ==
    \/ muddled
    \/ /\ \A i \in Live : /\ session = i \/ i \in starting
                         /\ waiting
                         /\ logins[i].pc = "polling" => code = i
       /\ \A i, j \in Live : i = j

\* A login ends the way the user asked. One cancelled while it waits for an
\* answer saves no credentials, even when the answer is an approval
\* (grok_auth_flow.go:170-190); one that was never cancelled reports its
\* outcome (calls.go:467-498), also when it ends before its session is stored,
\* unless its end crossed another call or read the session variable too early.
EndsAsAsked ==
    /\ \A i \in saved : logins[i].cancelled # "seen"
    /\ \A i \in Logins :
          logins[i].pc = "done" /\ logins[i].cancelled = "no" /\ i \notin dropping =>
             i \in told \/ muddled

\* The sign-in shown for Grok comes to an end, and so does the flag that
\* refuses a second bundled login, also when the caller has hung up
\* (calls.go:378-407). A session stored after its login has ended stays.
SignInEnds ==
    /\ (waiting \/ session # 0) ~>
          (~waiting /\ session = 0) \/ (session # 0 /\ logins[session].pc = "done")
    /\ busy ~> ~busy
=============================================================================
