---------------------------- MODULE ManagedSession ----------------------------
(***************************************************************************)
(* The session task of a managed WebSocket connection: run_managed_ws, the *)
(* run_session it calls once per connection, authentication, the control   *)
(* frames of the server, the reconnect window, and the panic handler that  *)
(* spawn_managed_ws wraps around all of it.                                *)
(*                                                                         *)
(* A step is what the task does between two suspension points, or between  *)
(* two writes that another thread can observe.  The server, the network,   *)
(* timers and signers appear as a free choice between the outcomes the     *)
(* code distinguishes.  Commands, subscriptions and inbound messages have  *)
(* modules of their own.                                                   *)
(***************************************************************************)
EXTENDS Naturals

CONSTANTS
    MaxReconnectAttempts,  \* config.max_reconnect_attempts, 0: retry forever
    AttemptMax,            \* u64::MAX, where the attempt counter saturates
    InitialDelay,          \* config.reconnect_delay
    MaximumDelay,          \* config.max_reconnect_delay
    StrikeLimit,           \* INVALID_SIGNATURE_STRIKE_LIMIT
    Vault,                 \* config.vault_pda().is_some()
    MaxEpoch               \* bound: connections that may be opened

ASSUME AttemptsAssumption ==
    /\ MaxReconnectAttempts \in Nat
    /\ AttemptMax \in Nat
    /\ MaxReconnectAttempts <= AttemptMax

ASSUME DelayAssumption ==
    /\ InitialDelay \in Nat \ {0}
    /\ MaximumDelay \in Nat
    /\ InitialDelay <= MaximumDelay

ASSUME SessionAssumption ==
    /\ StrikeLimit \in Nat \ {0}
    /\ Vault \in BOOLEAN
    /\ MaxEpoch \in Nat

VARIABLES
    phase,         \* where the task is suspended
    end,           \* how run_session ended, until run_managed_ws has acted on it
    kind,          \* variant of ManagedWsState in the watch channel
    stateEpoch,    \* the connection_epoch that variant carries, 0 if it has none
    reason,        \* reason carried by Closed
    epoch,         \* connection_epoch
    open,          \* connection_open, shared with the panic handler
    grant,         \* vault_auth watch: epoch whose grant it shows, 0 for None
    resume,        \* resume_session_id, 0 for None
    strikes,       \* invalid_signature_strikes
    rejection,     \* pending_auth_rejection.is_some()
    attempts,      \* ReconnectBackoff.attempts
    delay,         \* ReconnectBackoff.current
    shutdown,      \* the shutdown watch
    midPoll,       \* shutdown was requested after the poll in progress looked
    senders,       \* a handle still holds the command and cancel senders
    disconnects,   \* history: Disconnected events sent
    terminations,  \* history: Terminated events sent
    expired,       \* history: session ids the server has called expired
    consecutive    \* history: invalid_signature answers since the last success

taskVars == <<phase, end, epoch, resume, strikes, rejection, attempts, delay>>
watchVars == <<kind, stateEpoch, reason, open, grant>>
handleVars == <<shutdown, senders>>
historyVars == <<disconnects, terminations, expired, consecutive>>
vars == <<taskVars, watchVars, handleVars, midPoll, historyVars>>

AuthPhases == {"welcome", "resume", "start", "vault"}
LivePhases == AuthPhases \cup {"establish", "reconciled", "loop"}
PanicPhases == {"panicked", "announced"}
Phases == LivePhases \cup PanicPhases \cup
    {"connect", "closing", "ended", "retry", "window", "closed"}

SessionEnds == {"CloseRequested", "AuthenticationFailed", "InvalidSignature",
                "ServerTerminated", "Disconnected", "CredentialsExpired"}

Reasons == {"Requested", "ReconnectLimitReached", "InvalidSignature",
            "ServerTerminated", "SessionPanicked"}

Init ==
    /\ phase = "connect"
    /\ end = "none"
    /\ kind = "Connecting"
    /\ stateEpoch = 0
    /\ reason = "none"
    /\ epoch = 0
    /\ open = FALSE
    /\ grant = 0
    /\ resume = 0
    /\ strikes = 0
    /\ rejection = FALSE
    /\ attempts = 0
    /\ delay = InitialDelay
    /\ shutdown = FALSE
    /\ midPoll = FALSE
    /\ senders = TRUE
    /\ disconnects = 0
    /\ terminations = 0
    /\ expired = {}
    /\ consecutive = 0
------------------------------------------------------------------------------
(* Helpers *)

\* A biased select lets the shutdown branch win, unless the request arrived
\* after the poll in progress had already looked at that branch.
Proceed == ~shutdown \/ midPoll

\* The task moved on: its next poll sees every request made so far.
Polled == midPoll' = FALSE

\* transition_state, for the variants that carry a connection epoch.
Publish(k) ==
    /\ kind' = k
    /\ stateEpoch' = epoch
    /\ UNCHANGED reason

\* terminate: Closed is published, then Terminated is sent; the task returns.
Terminate(why) ==
    /\ phase' = "closed"
    /\ kind' = "Closed"
    /\ stateEpoch' = 0
    /\ reason' = why
    /\ terminations' = terminations + 1

\* The control frames of the server, one code per arm of classify_code and
\* classify: "SessionReplaced" also stands for the other terminal codes and
\* for VersionMismatch, "ServerShuttingDown" for VaultSessionInvalidated.
ControlCodes ==
    {"SessionReplaced", "InvalidSignature", "ServerShuttingDown", "SessionExpired"}

ErrorFrames == {"AuthError", "Error"} \X (ControlCodes \cup {"Unlisted"})

\* control::classify.  An AuthError ends the attempt whatever its code is.
classify(frame) ==
    CASE frame[2] = "SessionReplaced"    -> "Terminate"
      [] frame[2] = "InvalidSignature"   -> "TerminateInvalidSignature"
      [] frame[2] = "ServerShuttingDown" -> "Retry"
      [] frame[2] = "SessionExpired"     -> "ClearCredentials"
      [] frame[2] = "Unlisted" /\ frame[1] = "AuthError" -> "Retry"
      [] OTHER -> "None"

\* What the server says about the credentials, recorded for the properties.
Learn(failure) ==
    /\ expired' = IF failure = "ClearCredentials" /\ resume # 0
                  THEN expired \cup {resume} ELSE expired
    /\ consecutive' = IF failure = "TerminateInvalidSignature"
                      THEN consecutive + 1 ELSE consecutive

\* run_session has decided how it ends.  Awaiting the server's close frame and
\* closing the socket are bounded waits that do not look at the shutdown watch.
Finish(how) ==
    /\ phase' = "closing"
    /\ end' = how
------------------------------------------------------------------------------
(* run_managed_ws: connecting *)

ConnectShutdown ==
    /\ phase = "connect"
    /\ shutdown
    /\ Terminate("Requested")
    /\ Polled
    /\ UNCHANGED <<end, epoch, resume, strikes, rejection, attempts, delay,
                   open, grant, handleVars, disconnects, expired, consecutive>>

ConnectOk ==
    /\ phase = "connect"
    /\ Proceed
    /\ epoch < MaxEpoch
    /\ epoch' = epoch + 1
    /\ phase' = "welcome"
    /\ kind' = "Connected"
    /\ stateEpoch' = epoch + 1
    /\ open' = TRUE
    /\ Polled
    /\ UNCHANGED <<end, resume, strikes, rejection, attempts, delay,
                   reason, grant, handleVars, historyVars>>

ConnectErr ==
    /\ phase = "connect"
    /\ Proceed
    /\ phase' = "retry"
    /\ Polled
    /\ UNCHANGED <<end, epoch, resume, strikes, rejection, attempts, delay,
                   watchVars, handleVars, historyVars>>
------------------------------------------------------------------------------
(* run_session: authenticate, raced against shutdown and auth_timeout *)

AuthShutdown ==
    /\ phase \in AuthPhases
    /\ shutdown
    /\ Finish("CloseRequested")
    /\ Polled
    /\ UNCHANGED <<epoch, resume, strikes, rejection, attempts, delay,
                   watchVars, handleVars, historyVars>>

\* Welcome chooses the flow: a vault proves itself afresh, a maker resumes the
\* session it has an id for and starts a new one otherwise.
AuthWelcome ==
    /\ phase = "welcome"
    /\ Proceed
    /\ phase' = IF Vault THEN "vault" ELSE IF resume # 0 THEN "resume" ELSE "start"
    /\ Polled
    /\ UNCHANGED <<end, epoch, resume, strikes, rejection, attempts, delay,
                   watchVars, handleVars, historyVars>>

\* The server does not know the session any more: fall back to a full
\* challenge on the same connection (StartAuth, or the challenge it already sent).
ResumeExpired ==
    /\ phase = "resume"
    /\ Proceed
    /\ resume' = 0
    /\ expired' = expired \cup {resume}
    /\ phase' = "start"
    /\ Polled
    /\ UNCHANGED <<end, epoch, strikes, rejection, attempts, delay,
                   watchVars, handleVars, disconnects, terminations, consecutive>>

\* AuthSuccess carries the session id to resume with: the one presented, or the
\* one issued now, which is named after the epoch.  Vault auth issues none.
AuthAccepted ==
    /\ phase \in {"resume", "start", "vault"}
    /\ Proceed
    /\ IF phase = "vault"
       THEN grant' = epoch /\ UNCHANGED resume
       ELSE /\ \/ resume' = epoch
               \/ phase = "resume" /\ UNCHANGED resume
            /\ UNCHANGED grant
    /\ Publish("Authenticated")
    /\ phase' = "establish"
    /\ consecutive' = 0
    /\ Polled
    /\ UNCHANGED <<end, epoch, strikes, rejection, attempts, delay,
                   open, handleVars, disconnects, terminations, expired>>

\* A socket error, a write timeout, a signer that fails, auth_timeout, or a
\* maker session offered to a vault.
AuthFails ==
    /\ phase \in AuthPhases
    /\ Proceed
    /\ Finish("AuthenticationFailed")
    /\ Polled
    /\ UNCHANGED <<epoch, resume, strikes, rejection, attempts, delay,
                   watchVars, handleVars, historyVars>>

\* control_error.  An expired session is left to ResumeExpired where the
\* resume loop looks for it before it classifies.
AuthRejected ==
    /\ phase \in AuthPhases
    /\ Proceed
    /\ \E frame \in ErrorFrames :
          LET failure == classify(frame) IN
          /\ failure # "None"
          /\ ~(phase = "resume" /\ frame = <<"AuthError", "SessionExpired">>)
          /\ resume' = IF failure = "ClearCredentials" THEN 0 ELSE resume
          /\ Finish(CASE failure = "Terminate" -> "ServerTerminated"
                      [] failure = "TerminateInvalidSignature" -> "InvalidSignature"
                      [] OTHER -> "AuthenticationFailed")
          /\ Learn(failure)
    /\ Polled
    /\ UNCHANGED <<epoch, strikes, rejection, attempts, delay,
                   watchVars, handleVars, disconnects, terminations>>
------------------------------------------------------------------------------
(* run_session: the readiness barrier, raced against shutdown and a deadline *)

\* SessionFailure::from_control, then into_session_end.
EndOf(failure) ==
    CASE failure = "Terminate" -> "ServerTerminated"
      [] failure = "TerminateInvalidSignature" -> "InvalidSignature"
      [] failure = "ClearCredentials" -> "CredentialsExpired"
      [] OTHER -> "Disconnected"

EstablishShutdown ==
    /\ phase = "establish"
    /\ shutdown
    /\ Finish("CloseRequested")
    /\ Polled
    /\ UNCHANGED <<epoch, resume, strikes, rejection, attempts, delay,
                   watchVars, handleVars, historyVars>>

EstablishOk ==
    /\ phase = "establish"
    /\ Proceed
    /\ phase' = "reconciled"
    /\ Publish("Reconciled")
    /\ Polled
    /\ UNCHANGED <<end, epoch, resume, strikes, rejection, attempts, delay,
                   open, grant, handleVars, historyVars>>

\* Ready follows Reconciled without a suspension point in between; then the
\* writer is spawned and the select loop starts.
BecomeReady ==
    /\ phase = "reconciled"
    /\ phase' = "loop"
    /\ Publish("Ready")
    /\ Polled
    /\ UNCHANGED <<end, epoch, resume, strikes, rejection, attempts, delay,
                   open, grant, handleVars, historyVars>>

\* A retryable failure of a recovery read, or readiness_timeout.
EstablishFails ==
    /\ phase = "establish"
    /\ Proceed
    /\ Finish("Disconnected")
    /\ Polled
    /\ UNCHANGED <<epoch, resume, strikes, rejection, attempts, delay,
                   watchVars, handleVars, historyVars>>

EstablishRejected ==
    /\ phase = "establish"
    /\ Proceed
    /\ \E frame \in ErrorFrames :
          /\ classify(frame) # "None"
          /\ Finish(EndOf(classify(frame)))
          /\ Learn(classify(frame))
    /\ Polled
    /\ UNCHANGED <<epoch, resume, strikes, rejection, attempts, delay,
                   watchVars, handleVars, disconnects, terminations>>
------------------------------------------------------------------------------
(* run_session: the select loop, which is not biased.  Leaving it takes      *)
(* Ready and the vault grant back before anything is awaited.                *)

\* Mutant of LeaveLoop: Ready stays published while the session is torn down.
LeaveLoopStillReady(how) ==
    /\ phase = "loop"
    /\ Finish(how)
    /\ grant' = 0
    /\ Polled
    /\ UNCHANGED <<epoch, resume, strikes, rejection, attempts, delay,
                   kind, stateEpoch, reason, open, handleVars, disconnects, terminations>>

LeaveLoop(how) ==
    /\ phase = "loop"
    /\ Finish(how)
    /\ Publish("Connected")
    /\ grant' = 0
    /\ Polled
    /\ UNCHANGED <<epoch, resume, strikes, rejection, attempts, delay,
                   open, handleVars, disconnects, terminations>>

\* Mutant of LoopShutdown: the loop has no branch for the shutdown watch.
LoopShutdownUnwatched ==
    /\ ~senders
    /\ LeaveLoop("CloseRequested")
    /\ UNCHANGED <<expired, consecutive>>

\* The shutdown watch, or a command or cancel channel without senders.
LoopShutdown ==
    /\ shutdown \/ ~senders
    /\ LeaveLoop("CloseRequested")
    /\ UNCHANGED <<expired, consecutive>>

\* A gap signal, a dead writer, a missed acknowledgement or pong, a signer or
\* socket that fails.
LoopLost ==
    /\ LeaveLoop("Disconnected")
    /\ UNCHANGED <<expired, consecutive>>

LoopRejected ==
    \E frame \in ErrorFrames :
        /\ classify(frame) # "None"
        /\ LeaveLoop(EndOf(classify(frame)))
        /\ Learn(classify(frame))

\* A challenge the server sends again inside the loop, answered and accepted.
LoopReauthenticated ==
    /\ phase = "loop"
    /\ consecutive' = 0
    /\ Polled
    /\ UNCHANGED <<taskVars, watchVars, handleVars, disconnects, terminations, expired>>
------------------------------------------------------------------------------
(* run_managed_ws: after run_session has returned *)

\* Mutant of connection_ended: the flag is not consulted.
ConnectionEndedUnguarded ==
    /\ open' = FALSE
    /\ disconnects' = disconnects + 1

\* connection_ended: Disconnected is sent by whoever finds the flag set.
connection_ended ==
    /\ open' = FALSE
    /\ disconnects' = IF open THEN disconnects + 1 ELSE disconnects

\* Mutant of SessionOver: the grant is left in the watch channel.
SessionOverKeepsGrant ==
    /\ phase = "closing"
    /\ phase' = "ended"
    /\ connection_ended
    /\ Polled
    /\ UNCHANGED <<end, epoch, resume, strikes, rejection, attempts, delay, grant,
                   kind, stateEpoch, reason, handleVars, terminations, expired, consecutive>>

SessionOver ==
    /\ phase = "closing"
    /\ phase' = "ended"
    /\ grant' = 0
    /\ connection_ended
    /\ Polled
    /\ UNCHANGED <<end, epoch, resume, strikes, rejection, attempts, delay,
                   kind, stateEpoch, reason, handleVars, terminations, expired, consecutive>>

EndCloseRequested ==
    /\ phase = "ended"
    /\ end = "CloseRequested"
    /\ end' = "none"
    /\ Terminate("Requested")
    /\ Polled
    /\ UNCHANGED <<epoch, resume, strikes, rejection, attempts, delay,
                   open, grant, handleVars, disconnects, expired, consecutive>>

EndAuthenticationFailed ==
    /\ phase = "ended"
    /\ end = "AuthenticationFailed"
    /\ end' = "none"
    /\ phase' = "retry"
    /\ Polled
    /\ UNCHANGED <<epoch, resume, strikes, rejection, attempts, delay,
                   watchVars, handleVars, historyVars>>

EndTerminated ==
    /\ phase = "ended"
    /\ end = "ServerTerminated"
    /\ end' = "none"
    /\ Terminate("ServerTerminated")
    /\ Polled
    /\ UNCHANGED <<epoch, resume, strikes, rejection, attempts, delay,
                   open, grant, handleVars, disconnects, expired, consecutive>>

\* invalid_signature is retried until the strike limit; the rejection is kept
\* as the reason to report should the reconnect limit be reached first.
EndStrike ==
    /\ phase = "ended"
    /\ end = "InvalidSignature"
    /\ end' = "none"
    /\ strikes' = strikes + 1
    /\ IF strikes + 1 < StrikeLimit
       THEN /\ rejection' = TRUE
            /\ phase' = "retry"
            /\ UNCHANGED <<kind, stateEpoch, reason, terminations>>
       ELSE /\ Terminate("InvalidSignature")
            /\ UNCHANGED rejection
    /\ Polled
    /\ UNCHANGED <<epoch, resume, attempts, delay,
                   open, grant, handleVars, disconnects, expired, consecutive>>

\* Mutants of EndDisconnected: an expired session id is kept; only the attempt
\* counter is reset, not the delay; an expired session is not handled.
EndDisconnectedKeepsResume ==
    /\ phase = "ended"
    /\ end \in {"Disconnected", "CredentialsExpired"}
    /\ end' = "none"
    /\ phase' = "retry"
    /\ strikes' = 0
    /\ rejection' = FALSE
    /\ Polled
    /\ UNCHANGED <<epoch, resume, attempts, delay, watchVars, handleVars, historyVars>>

EndDisconnectedKeepsDelay ==
    /\ phase = "ended"
    /\ end \in {"Disconnected", "CredentialsExpired"}
    /\ end' = "none"
    /\ phase' = "retry"
    /\ strikes' = 0
    /\ rejection' = FALSE
    /\ resume' = IF end = "CredentialsExpired" THEN 0 ELSE resume
    /\ attempts' \in {0, attempts}
    /\ Polled
    /\ UNCHANGED <<epoch, delay, watchVars, handleVars, historyVars>>

EndDisconnectedMissesExpiry ==
    /\ end # "CredentialsExpired"
    /\ EndDisconnectedKeepsResume

\* An authenticated session ended.  Whether it lasted a full maximum-backoff
\* window (reset_after_stable_session) is the clock's choice.
EndDisconnected ==
    /\ phase = "ended"
    /\ end \in {"Disconnected", "CredentialsExpired"}
    /\ end' = "none"
    /\ phase' = "retry"
    /\ strikes' = 0
    /\ rejection' = FALSE
    /\ resume' = IF end = "CredentialsExpired" THEN 0 ELSE resume
    /\ \/ attempts' = 0 /\ delay' = InitialDelay
       \/ UNCHANGED <<attempts, delay>>
    /\ Polled
    /\ UNCHANGED <<epoch, watchVars, handleVars, historyVars>>
------------------------------------------------------------------------------
(* run_managed_ws: the reconnect limit and the reconnect window *)

\* Mutant of limit_reached: one attempt too many.
LimitReachedLate == MaxReconnectAttempts > 0 /\ attempts > MaxReconnectAttempts

limit_reached == MaxReconnectAttempts > 0 /\ attempts >= MaxReconnectAttempts

\* Mutant of next_reconnect_delay: no cap.
UncappedDelay(current, max) == 2 * current

next_reconnect_delay(current, max) == IF 2 * current > max THEN max ELSE 2 * current

\* Mutant of RetryLimitReached: a rejection that still stands is not reported.
RetryLimitHidesRejection ==
    /\ phase = "retry"
    /\ limit_reached
    /\ Terminate("ReconnectLimitReached")
    /\ Polled
    /\ UNCHANGED <<end, epoch, resume, strikes, rejection, attempts, delay,
                   open, grant, handleVars, disconnects, expired, consecutive>>

RetryLimitReached ==
    /\ phase = "retry"
    /\ limit_reached
    /\ rejection' = FALSE
    /\ Terminate(IF rejection THEN "InvalidSignature" ELSE "ReconnectLimitReached")
    /\ Polled
    /\ UNCHANGED <<end, epoch, resume, strikes, attempts, delay,
                   open, grant, handleVars, disconnects, expired, consecutive>>

\* next_attempt; the window announces the attempt it waits for.
RetryWindow ==
    /\ phase = "retry"
    /\ ~limit_reached
    /\ phase' = "window"
    /\ attempts' = IF attempts < AttemptMax THEN attempts + 1 ELSE attempts
    /\ delay' = next_reconnect_delay(delay, MaximumDelay)
    /\ kind' = "Reconnecting"
    /\ stateEpoch' = 0
    /\ Polled
    /\ UNCHANGED <<end, epoch, resume, strikes, rejection,
                   reason, open, grant, handleVars, historyVars>>

WindowShutdown ==
    /\ phase = "window"
    /\ shutdown \/ ~senders
    /\ Terminate("Requested")
    /\ Polled
    /\ UNCHANGED <<end, epoch, resume, strikes, rejection, attempts, delay,
                   open, grant, handleVars, disconnects, expired, consecutive>>

WindowElapsed ==
    /\ phase = "window"
    /\ Proceed
    /\ phase' = "connect"
    /\ Polled
    /\ UNCHANGED <<end, epoch, resume, strikes, rejection, attempts, delay,
                   watchVars, handleVars, historyVars>>
------------------------------------------------------------------------------
(* Around the task *)

\* The panic handler makes three writes that a handle can tell apart: it takes
\* the grant back, it announces the end of the connection if one was open, and
\* it publishes Closed.  Until the last of them the state watch keeps what the
\* task had published.
Panic ==
    /\ phase \notin PanicPhases \cup {"closed"}
    /\ phase' = "panicked"
    /\ end' = "none"
    /\ grant' = 0
    /\ Polled
    /\ UNCHANGED <<epoch, resume, strikes, rejection, attempts, delay,
                   kind, stateEpoch, reason, open, handleVars, historyVars>>

\* Mutant of PanicAnnounce: the end of the connection is not announced.
PanicUnannounced ==
    /\ phase = "panicked"
    /\ phase' = "announced"
    /\ Polled
    /\ UNCHANGED <<end, epoch, resume, strikes, rejection, attempts, delay,
                   watchVars, handleVars, historyVars>>

PanicAnnounce ==
    /\ phase = "panicked"
    /\ phase' = "announced"
    /\ connection_ended
    /\ Polled
    /\ UNCHANGED <<end, epoch, resume, strikes, rejection, attempts, delay,
                   kind, stateEpoch, reason, grant, handleVars, terminations, expired, consecutive>>

PanicTerminate ==
    /\ phase = "announced"
    /\ Terminate("SessionPanicked")
    /\ Polled
    /\ UNCHANGED <<end, epoch, resume, strikes, rejection, attempts, delay,
                   open, grant, handleVars, disconnects, expired, consecutive>>

\* ShutdownOnLastHandle::request.
request ==
    /\ ~shutdown
    /\ shutdown' = TRUE
    /\ midPoll' \in BOOLEAN
    /\ UNCHANGED <<taskVars, watchVars, senders, historyVars>>

\* close, by any holder of a handle at any time.
Close ==
    /\ senders
    /\ request

\* The last handle is dropped: its senders go first, then the guard whose Drop
\* requests the shutdown.
DropSenders ==
    /\ senders
    /\ senders' = FALSE
    /\ UNCHANGED <<taskVars, watchVars, shutdown, midPoll, historyVars>>

DropShutdown ==
    /\ ~senders
    /\ request

\* The task has returned.
Returned ==
    /\ phase = "closed"
    /\ UNCHANGED vars

Connecting == ConnectShutdown \/ ConnectOk \/ ConnectErr
Authenticating ==
    AuthShutdown \/ AuthWelcome \/ ResumeExpired \/ AuthAccepted \/ AuthFails \/ AuthRejected
Establishing ==
    EstablishShutdown \/ EstablishOk \/ BecomeReady \/ EstablishFails \/ EstablishRejected
Looping == LoopShutdown \/ LoopLost \/ LoopRejected \/ LoopReauthenticated
Ending ==
    SessionOver \/ EndCloseRequested \/ EndAuthenticationFailed \/ EndTerminated
    \/ EndStrike \/ EndDisconnected
Retrying == RetryLimitReached \/ RetryWindow \/ WindowShutdown \/ WindowElapsed
Panicking == PanicAnnounce \/ PanicTerminate
Handle == Close \/ DropSenders \/ DropShutdown

Next ==
    \/ Connecting
    \/ Authenticating
    \/ Establishing
    \/ Looping
    \/ Ending
    \/ Retrying
    \/ Panic
    \/ Panicking
    \/ Handle
    \/ Returned

Spec == Init /\ [][Next]_vars

\* Every wait outside the loop has a deadline, so the task always leaves it.  In
\* the loop only a request to stop is certain to be served: select polls its
\* branches in random order, so a branch that stays ready is taken.  The panic
\* handler does not wait for anything.
Fairness ==
    /\ WF_vars(Connecting)
    /\ WF_vars(Authenticating)
    /\ WF_vars(Establishing)
    /\ WF_vars(LoopShutdown)
    /\ WF_vars(Ending)
    /\ WF_vars(Retrying)
    /\ WF_vars(Panicking)
    /\ WF_vars(DropShutdown)

FairSpec == Spec /\ Fairness
------------------------------------------------------------------------------
(* Properties *)

FlagTypes ==
    /\ phase \in Phases
    /\ end \in SessionEnds \cup {"none"}
    /\ kind \in {"Connecting", "Connected", "Authenticated", "Reconciled", "Ready",
                 "Reconnecting", "Closed"}
    /\ reason \in Reasons \cup {"none"}
    /\ open \in BOOLEAN
    /\ rejection \in BOOLEAN
    /\ shutdown \in BOOLEAN
    /\ midPoll \in BOOLEAN
    /\ senders \in BOOLEAN

CounterTypes ==
    /\ epoch \in 0..MaxEpoch
    /\ stateEpoch \in Nat
    /\ grant \in Nat
    /\ resume \in Nat
    /\ strikes \in Nat
    /\ attempts \in 0..AttemptMax
    /\ delay \in InitialDelay..MaximumDelay
    /\ disconnects \in Nat
    /\ terminations \in Nat
    /\ expired \subseteq Nat
    /\ consecutive \in Nat

\* Every variable has its type: the attempt counter saturates at AttemptMax and
\* the delay stays between reconnect_delay and max_reconnect_delay.
TypeOK == FlagTypes /\ CounterTypes

\* Every connection announces its end exactly once, panic included, and the
\* end of the task itself is announced once, after that (connection_ended,
\* terminate and the panic handler share one flag).
DisconnectedOnce ==
    /\ disconnects + (IF open THEN 1 ELSE 0) = epoch
    /\ terminations = IF kind = "Closed" THEN 1 ELSE 0
    /\ kind \in {"Reconnecting", "Closed"} => ~open

\* Whoever reads Ready with an epoch reads it of the connection that is open
\* now, and of a session nobody has given up yet (run_session takes Ready back
\* before it awaits anything).  The one exception is a panic: its handler sends
\* Disconnected first and replaces Ready by Closed next.
ReadyIsLive ==
    kind = "Ready" => /\ stateEpoch = epoch
                      /\ open \/ phase = "announced"
                      /\ end = "none"

\* The vault grant is shown only while the connection that earned it is open:
\* never across a reconnect, after termination, or after a panic.
GrantScope ==
    grant # 0 => /\ grant = epoch
                 /\ open
                 /\ stateEpoch = grant

\* ResumeAuth never presents a session id the server has already called
\* expired, however the session that learned of it ended (clear_resume).
NeverResumesExpired ==
    phase = "resume" => resume # 0 /\ resume \notin expired

\* The reason the task gives for stopping is the true one.  In particular the
\* reconnect limit does not hide a signature that still stands rejected
\* (pending_auth_rejection), and a signature ends the task only at a limit.
TruthfulReason ==
    /\ reason = "Requested" => shutdown \/ ~senders
    /\ reason = "ReconnectLimitReached" => limit_reached /\ consecutive = 0
    /\ reason = "InvalidSignature" => /\ strikes >= StrikeLimit \/ limit_reached
                                      /\ consecutive > 0

\* The n-th attempt since the last stable session waits for the initial delay
\* doubled n - 1 times, capped, and no attempt exceeds the configured limit.
BackoffSchedule ==
    /\ MaxReconnectAttempts > 0 => attempts <= MaxReconnectAttempts
    /\ attempts < AttemptMax =>
          delay = IF InitialDelay * 2^attempts > MaximumDelay
                  THEN MaximumDelay ELSE InitialDelay * 2^attempts

\* A request to stop, or dropping the last handle, ends the task whatever it
\* is doing: connecting, authenticating, reconciling, serving, or waiting.
StopsWhenAsked == (shutdown \/ ~senders) ~> (kind = "Closed")

\* A session that was given up is followed by another attempt or by
\* termination; the task never stays behind in between.
RetriesOrStops == (phase = "closing") ~> (phase \in {"connect", "closed"})

\* "invalid_signature terminates only after three consecutive rejections"
\* (name of a test of the session): before the task stops for the strike limit,
\* that many rejections have come in with no successful authentication between.
StrikesAreConsecutive ==
    reason = "InvalidSignature" /\ strikes >= StrikeLimit => consecutive >= StrikeLimit

\* What the holders of the handle observe is a behaviour of Lifecycle.
Observed == INSTANCE Lifecycle WITH
    over <- epoch > 0 /\ phase \notin LivePhases,
    panicked <- phase \in PanicPhases \/ reason = "SessionPanicked"

ImplementsLifecycle == Observed!Spec
==============================================================================
