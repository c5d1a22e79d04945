------------------------- MODULE ManagedSessionProofs -------------------------
(***************************************************************************)
(* Proofs about ManagedSession, for every value of its constants: its type *)
(* invariant, its safety invariants by way of an inductive one, and that   *)
(* it implements Lifecycle.                                                *)
(***************************************************************************)
EXTENDS ManagedSession, TLAPS

\* Unless a leaf names its prover: Zenon for what it finds at once, SMT, and Zenon again.
USE ZenonT(2), SMTT(20), ZenonT(20)

\* The members of the sets of names, so that no proof has to expand the sets.
LEMMA PhaseNames ==
    /\ "connect" \in Phases /\ "welcome" \in Phases /\ "resume" \in Phases
    /\ "start" \in Phases /\ "vault" \in Phases /\ "establish" \in Phases
    /\ "reconciled" \in Phases /\ "loop" \in Phases /\ "closing" \in Phases
    /\ "ended" \in Phases /\ "retry" \in Phases /\ "window" \in Phases
    /\ "closed" \in Phases /\ "panicked" \in Phases /\ "announced" \in Phases
BY DEF Phases, LivePhases, AuthPhases, PanicPhases

LEMMA EndNames ==
    /\ "CloseRequested" \in SessionEnds /\ "AuthenticationFailed" \in SessionEnds
    /\ "InvalidSignature" \in SessionEnds /\ "ServerTerminated" \in SessionEnds
    /\ "Disconnected" \in SessionEnds /\ "CredentialsExpired" \in SessionEnds
    /\ "Requested" \in Reasons /\ "ReconnectLimitReached" \in Reasons
    /\ "InvalidSignature" \in Reasons /\ "ServerTerminated" \in Reasons
    /\ "SessionPanicked" \in Reasons
BY DEF SessionEnds, Reasons

\* The backoff delay stays between its initial value and its cap.
LEMMA DelayRange ==
    ASSUME NEW current \in InitialDelay..MaximumDelay
    PROVE  next_reconnect_delay(current, MaximumDelay) \in InitialDelay..MaximumDelay
BY DelayAssumption DEF next_reconnect_delay

LEMMA FlagStep == FlagTypes /\ [Next]_vars => FlagTypes'
<1> SUFFICES ASSUME FlagTypes, [Next]_vars PROVE FlagTypes'
    OBVIOUS
<1> USE PhaseNames, EndNames
        DEF FlagTypes, Polled, taskVars, watchVars, handleVars, historyVars
<1>1. CASE Connecting
    BY <1>1 DEF Connecting, ConnectShutdown, ConnectOk, ConnectErr, Terminate
<1>2. CASE Authenticating
    BY <1>2, ZenonT(20) DEF Authenticating, AuthShutdown, AuthWelcome, ResumeExpired, AuthAccepted,
                AuthFails, AuthRejected, Finish, Publish
<1>3. CASE Establishing
    BY <1>3 DEF Establishing, EstablishShutdown, EstablishOk, BecomeReady, EstablishFails,
                EstablishRejected, Finish, Publish, EndOf
<1>4. CASE Looping
    BY <1>4 DEF Looping, LoopShutdown, LoopLost, LoopRejected, LoopReauthenticated, LeaveLoop,
                Finish, Publish, EndOf
<1>5. CASE Ending
    BY <1>5 DEF Ending, SessionOver, EndCloseRequested, EndAuthenticationFailed, EndTerminated,
                EndStrike, EndDisconnected, Terminate, connection_ended
<1>6. CASE Retrying
    BY <1>6 DEF Retrying, RetryLimitReached, RetryWindow, WindowShutdown, WindowElapsed, Terminate
<1>7. CASE Panic \/ Panicking
    BY <1>7 DEF Panic, Panicking, PanicAnnounce, PanicTerminate, Terminate, connection_ended
<1>8. CASE Handle
    BY <1>8 DEF Handle, Close, DropSenders, DropShutdown, request
<1>9. CASE Returned \/ UNCHANGED vars
    BY <1>9 DEF Returned, vars
<1> QED
    BY <1>1, <1>2, <1>3, <1>4, <1>5, <1>6, <1>7, <1>8, <1>9 DEF Next

LEMMA CounterStep == CounterTypes /\ [Next]_vars => CounterTypes'
<1> SUFFICES ASSUME CounterTypes, [Next]_vars PROVE CounterTypes'
    OBVIOUS
<1> USE DEF CounterTypes, taskVars, watchVars, handleVars, historyVars
<1>1. CASE Connecting
    <2>1. CASE ConnectShutdown
        BY <2>1 DEF ConnectShutdown, Terminate
    <2>2. CASE ConnectOk
        BY <2>2, SessionAssumption DEF ConnectOk
    <2>3. CASE ConnectErr
        BY <2>3 DEF ConnectErr
    <2> QED
        BY <1>1, <2>1, <2>2, <2>3 DEF Connecting
<1>2. CASE Authenticating
    <2>1. CASE AuthShutdown
        BY <2>1 DEF AuthShutdown
    <2>2. CASE AuthWelcome
        BY <2>2 DEF AuthWelcome
    <2>3. CASE ResumeExpired
        BY <2>3 DEF ResumeExpired
    <2>4. CASE AuthAccepted
        BY <2>4 DEF AuthAccepted, Publish
    <2>5. CASE AuthFails
        BY <2>5 DEF AuthFails
    <2>6. CASE AuthRejected
        BY <2>6 DEF AuthRejected, Learn
    <2> QED
        BY <1>2, <2>1, <2>2, <2>3, <2>4, <2>5, <2>6 DEF Authenticating
<1>3. CASE Establishing
    <2>1. CASE EstablishShutdown
        BY <2>1 DEF EstablishShutdown
    <2>2. CASE EstablishOk
        BY <2>2 DEF EstablishOk, Publish
    <2>3. CASE BecomeReady
        BY <2>3 DEF BecomeReady, Publish
    <2>4. CASE EstablishFails
        BY <2>4 DEF EstablishFails
    <2>5. CASE EstablishRejected
        BY <2>5 DEF EstablishRejected, Learn
    <2> QED
        BY <1>3, <2>1, <2>2, <2>3, <2>4, <2>5 DEF Establishing
<1>4. CASE Looping
    <2>1. CASE LoopShutdown
        BY <2>1 DEF LoopShutdown, LeaveLoop, Publish
    <2>2. CASE LoopLost
        BY <2>2 DEF LoopLost, LeaveLoop, Publish
    <2>3. CASE LoopRejected
        BY <2>3 DEF LoopRejected, LeaveLoop, Publish, Learn
    <2>4. CASE LoopReauthenticated
        BY <2>4 DEF LoopReauthenticated
    <2> QED
        BY <1>4, <2>1, <2>2, <2>3, <2>4 DEF Looping
<1>5. CASE Ending
    <2>1. CASE SessionOver
        BY <2>1 DEF SessionOver, connection_ended
    <2>2. CASE EndCloseRequested
        BY <2>2 DEF EndCloseRequested, Terminate
    <2>3. CASE EndAuthenticationFailed
        BY <2>3 DEF EndAuthenticationFailed
    <2>4. CASE EndTerminated
        BY <2>4 DEF EndTerminated, Terminate
    <2>5. CASE EndStrike
        BY <2>5 DEF EndStrike, Terminate
    <2>6. CASE EndDisconnected
        BY <2>6, AttemptsAssumption, DelayAssumption DEF EndDisconnected
    <2> QED
        BY <1>5, <2>1, <2>2, <2>3, <2>4, <2>5, <2>6 DEF Ending
<1>6. CASE Retrying
    <2>1. CASE RetryLimitReached
        BY <2>1 DEF RetryLimitReached, Terminate
    <2>2. CASE RetryWindow
        BY <2>2, DelayRange, AttemptsAssumption DEF RetryWindow
    <2>3. CASE WindowShutdown
        BY <2>3 DEF WindowShutdown, Terminate
    <2>4. CASE WindowElapsed
        BY <2>4 DEF WindowElapsed
    <2> QED
        BY <1>6, <2>1, <2>2, <2>3, <2>4 DEF Retrying
<1>7. CASE Panic \/ Panicking
    <2>1. CASE Panic
        BY <2>1 DEF Panic
    <2>2. CASE PanicAnnounce
        BY <2>2 DEF PanicAnnounce, connection_ended
    <2>3. CASE PanicTerminate
        BY <2>3 DEF PanicTerminate, Terminate
    <2> QED
        BY <1>7, <2>1, <2>2, <2>3 DEF Panicking
<1>8. CASE Handle
    <2>1. CASE Close
        BY <2>1 DEF Close, request
    <2>2. CASE DropSenders
        BY <2>2 DEF DropSenders
    <2>3. CASE DropShutdown
        BY <2>3 DEF DropShutdown, request
    <2> QED
        BY <1>8, <2>1, <2>2, <2>3 DEF Handle
<1>9. CASE Returned \/ UNCHANGED vars
    BY <1>9 DEF Returned, vars
<1> QED
    BY <1>1, <1>2, <1>3, <1>4, <1>5, <1>6, <1>7, <1>8, <1>9 DEF Next

\* Every variable of the session task keeps its type: in particular the delay
\* stays within its configured bounds and the attempt counter saturates.
THEOREM TypeCorrect == Spec => []TypeOK
<1>1. Init => FlagTypes
    BY PhaseNames DEF Init, FlagTypes
<1>2. Init => CounterTypes
    BY AttemptsAssumption, DelayAssumption, SessionAssumption DEF Init, CounterTypes
<1> QED
    BY <1>1, <1>2, FlagStep, CounterStep, PTL DEF Spec, TypeOK
------------------------------------------------------------------------------
(* The inductive invariant *)

\* Where the task is determines what is published and whether a socket is open.
PhaseInv ==
    /\ phase \in {"welcome", "resume", "start", "vault", "establish", "reconciled", "loop", "closing"}
          => open
    /\ open => phase \in {"welcome", "resume", "start", "vault", "establish", "reconciled", "loop",
                          "closing", "panicked"}
    /\ end = "none" <=> phase \notin {"closing", "ended"}
    /\ reason = "none" <=> phase # "closed"
    /\ phase = "connect" => kind \in {"Connecting", "Reconnecting"}
    /\ phase \in {"welcome", "resume", "start", "vault"} => kind = "Connected"
    /\ phase = "establish" => kind = "Authenticated"
    /\ phase = "reconciled" => kind = "Reconciled"
    /\ phase = "loop" => kind = "Ready"
    /\ phase \in {"closing", "ended"} => kind \in {"Connected", "Authenticated"}
    /\ phase = "retry" => kind \notin {"Reconciled", "Ready", "Closed"}
    /\ phase = "window" => kind = "Reconnecting"
    /\ phase = "closed" <=> kind = "Closed"
    /\ kind = "Ready" => open \/ phase = "announced"

\* The events and the published epoch keep pace with the connections.
EventInv ==
    /\ open => disconnects + 1 = epoch
    /\ ~open => disconnects = epoch
    /\ open \/ kind = "Ready" => stateEpoch = epoch
    /\ open => kind # "Reconnecting"
    /\ phase # "closed" => terminations = 0
    /\ phase = "closed" => terminations = 1

\* A grant belongs to the connection that is open.
GrantInv ==
    grant # 0 => grant = epoch /\ phase \in {"establish", "reconciled", "loop", "closing"}

\* Session ids are as old as the connection that issued them, and one that is
\* known to have expired is kept only until clear_resume takes it.
ResumeInv ==
    /\ resume <= epoch
    /\ \A id \in expired : id <= epoch
    /\ phase \in {"welcome", "resume", "start", "vault"} => resume # epoch /\ epoch \notin expired
    /\ phase = "resume" => resume # 0
    /\ resume # 0 /\ resume \in expired => end = "CredentialsExpired" \/ phase \in {"panicked", "announced", "closed"}

\* A signature that stands rejected is remembered by pending_auth_rejection,
\* or is the end the task is about to act on; and nothing else is remembered.
RejectionInv ==
    /\ end \in {"Disconnected", "CredentialsExpired"} => consecutive = 0
    /\ phase \in {"establish", "reconciled", "loop"} => consecutive = 0
    /\ end = "InvalidSignature" => consecutive > 0
    /\ consecutive > 0 =>
          rejection \/ end = "InvalidSignature" \/ phase \in {"panicked", "announced", "closed"}
    /\ rejection /\ consecutive = 0 =>
          \/ phase \in {"establish", "reconciled", "loop", "panicked", "announced", "closed"}
          \/ end \in {"Disconnected", "CredentialsExpired", "CloseRequested", "ServerTerminated"}

\* The reason given is the true one, and so is the one about to be given.
ReasonInv ==
    /\ TruthfulReason
    /\ end = "CloseRequested" => shutdown \/ ~senders

Inv == TypeOK /\ PhaseInv /\ EventInv /\ GrantInv /\ ResumeInv /\ RejectionInv /\ ReasonInv

LEMMA PhaseStep == FlagTypes /\ PhaseInv /\ [Next]_vars => PhaseInv'
<1> SUFFICES ASSUME FlagTypes, PhaseInv, [Next]_vars PROVE PhaseInv'
    OBVIOUS
<1> USE DEF PhaseInv, FlagTypes, AuthPhases, taskVars, watchVars, handleVars, historyVars
<1>1. CASE Connecting
    BY <1>1
    DEF Connecting, ConnectShutdown, Terminate, ConnectOk, ConnectErr
<1>2. CASE Authenticating
    BY <1>2
    DEF Authenticating, AuthShutdown, Finish, AuthWelcome, ResumeExpired, AuthAccepted, Publish,
        AuthFails, AuthRejected, Learn
<1>3. CASE Establishing
    BY <1>3
    DEF Establishing, EstablishShutdown, Finish, EstablishOk, Publish, BecomeReady,
        EstablishFails, EstablishRejected, Learn, EndOf
<1>4. CASE Looping
    BY <1>4
    DEF Looping, LoopShutdown, LeaveLoop, Finish, Publish, LoopLost, LoopRejected, Learn, EndOf,
        LoopReauthenticated
<1>5. CASE Ending
    BY <1>5
    DEF Ending, SessionOver, connection_ended, EndCloseRequested, Terminate,
        EndAuthenticationFailed, EndTerminated, EndStrike, EndDisconnected
<1>6. CASE Retrying
    BY <1>6
    DEF Retrying, RetryLimitReached, Terminate, RetryWindow, WindowShutdown, WindowElapsed
<1>7. CASE Panic \/ Panicking
    BY <1>7
    DEF Panic, Panicking, PanicAnnounce, PanicTerminate, PanicPhases, Terminate, connection_ended
<1>8. CASE Handle
    BY <1>8
    DEF Handle, Close, request, DropSenders, DropShutdown
<1>9. CASE Returned \/ UNCHANGED vars
    BY <1>9 DEF Returned, vars
<1> QED
    BY <1>1, <1>2, <1>3, <1>4, <1>5, <1>6, <1>7, <1>8, <1>9 DEF Next

LEMMA EventStep == FlagTypes /\ CounterTypes /\ PhaseInv /\ EventInv /\ [Next]_vars => EventInv'
<1> SUFFICES ASSUME FlagTypes, CounterTypes, PhaseInv, EventInv, [Next]_vars PROVE EventInv'
    OBVIOUS
<1> USE DEF EventInv, PhaseInv, AuthPhases, FlagTypes, CounterTypes, taskVars, watchVars,
        handleVars, historyVars
<1>1. CASE Connecting
    BY <1>1
    DEF Connecting, ConnectShutdown, Terminate, ConnectOk, ConnectErr
<1>2. CASE Authenticating
    BY <1>2
    DEF Authenticating, AuthShutdown, Finish, AuthWelcome, ResumeExpired, AuthAccepted, Publish,
        AuthFails, AuthRejected, Learn
<1>3. CASE Establishing
    BY <1>3
    DEF Establishing, EstablishShutdown, Finish, EstablishOk, Publish, BecomeReady,
        EstablishFails, EstablishRejected, Learn, EndOf
<1>4. CASE Looping
    BY <1>4
    DEF Looping, LoopShutdown, LeaveLoop, Finish, Publish, LoopLost, LoopRejected, Learn, EndOf,
        LoopReauthenticated
<1>5. CASE Ending
    BY <1>5
    DEF Ending, SessionOver, connection_ended, EndCloseRequested, Terminate,
        EndAuthenticationFailed, EndTerminated, EndStrike, EndDisconnected
<1>6. CASE Retrying
    BY <1>6
    DEF Retrying, RetryLimitReached, Terminate, RetryWindow, WindowShutdown, WindowElapsed
<1>7. CASE Panic \/ Panicking
    BY <1>7
    DEF Panic, Panicking, PanicAnnounce, PanicTerminate, PanicPhases, Terminate, connection_ended
<1>8. CASE Handle
    BY <1>8
    DEF Handle, Close, request, DropSenders, DropShutdown
<1>9. CASE Returned \/ UNCHANGED vars
    BY <1>9 DEF Returned, vars
<1> QED
    BY <1>1, <1>2, <1>3, <1>4, <1>5, <1>6, <1>7, <1>8, <1>9 DEF Next

LEMMA GrantStep == CounterTypes /\ PhaseInv /\ GrantInv /\ [Next]_vars => GrantInv'
<1> SUFFICES ASSUME CounterTypes, PhaseInv, GrantInv, [Next]_vars PROVE GrantInv'
    OBVIOUS
<1> USE DEF GrantInv, PhaseInv, CounterTypes, taskVars, watchVars, handleVars, historyVars
<1>1. CASE Connecting
    BY <1>1
    DEF Connecting, ConnectShutdown, Terminate, ConnectOk, ConnectErr
<1>2. CASE Authenticating
    BY <1>2
    DEF Authenticating, AuthShutdown, Finish, AuthWelcome, ResumeExpired, AuthAccepted, Publish,
        AuthFails, AuthRejected, Learn
<1>3. CASE Establishing
    BY <1>3
    DEF Establishing, EstablishShutdown, Finish, EstablishOk, Publish, BecomeReady,
        EstablishFails, EstablishRejected, Learn, EndOf
<1>4. CASE Looping
    BY <1>4
    DEF Looping, LoopShutdown, LeaveLoop, Finish, Publish, LoopLost, LoopRejected, Learn, EndOf,
        LoopReauthenticated
<1>5. CASE Ending
    BY <1>5
    DEF Ending, SessionOver, connection_ended, EndCloseRequested, Terminate,
        EndAuthenticationFailed, EndTerminated, EndStrike, EndDisconnected
<1>6. CASE Retrying
    BY <1>6
    DEF Retrying, RetryLimitReached, Terminate, RetryWindow, WindowShutdown, WindowElapsed
<1>7. CASE Panic \/ Panicking
    BY <1>7
    DEF Panic, Panicking, PanicAnnounce, PanicTerminate, PanicPhases, Terminate, connection_ended
<1>8. CASE Handle
    BY <1>8
    DEF Handle, Close, request, DropSenders, DropShutdown
<1>9. CASE Returned \/ UNCHANGED vars
    BY <1>9 DEF Returned, vars
<1> QED
    BY <1>1, <1>2, <1>3, <1>4, <1>5, <1>6, <1>7, <1>8, <1>9 DEF Next

LEMMA ResumeStep == CounterTypes /\ PhaseInv /\ ResumeInv /\ [Next]_vars => ResumeInv'
<1> SUFFICES ASSUME CounterTypes, PhaseInv, ResumeInv, [Next]_vars PROVE ResumeInv'
    OBVIOUS
<1> USE DEF ResumeInv, PhaseInv, CounterTypes, AuthPhases, taskVars, watchVars, handleVars,
        historyVars
<1>1. CASE Connecting
    <2>1. CASE ConnectShutdown
        BY <2>1 DEF ConnectShutdown, Terminate
    <2>2. CASE ConnectOk
        BY <2>2 DEF ConnectOk
    <2>3. CASE ConnectErr
        BY <2>3 DEF ConnectErr
    <2> QED
        BY <1>1, <2>1, <2>2, <2>3 DEF Connecting
<1>2. CASE Authenticating
    BY <1>2
    DEF Authenticating, AuthShutdown, Finish, AuthWelcome, ResumeExpired, AuthAccepted, Publish,
        AuthFails, AuthRejected, Learn
<1>3. CASE Establishing
    BY <1>3
    DEF Establishing, EstablishShutdown, Finish, EstablishOk, Publish, BecomeReady,
        EstablishFails, EstablishRejected, Learn, EndOf
<1>4. CASE Looping
    BY <1>4
    DEF Looping, LoopShutdown, LeaveLoop, Finish, Publish, LoopLost, LoopRejected, Learn, EndOf,
        LoopReauthenticated
<1>5. CASE Ending
    <2>1. CASE SessionOver
        BY <2>1 DEF SessionOver, connection_ended
    <2>2. CASE EndCloseRequested
        BY <2>2 DEF EndCloseRequested, Terminate
    <2>3. CASE EndAuthenticationFailed
        BY <2>3 DEF EndAuthenticationFailed
    <2>4. CASE EndTerminated
        BY <2>4 DEF EndTerminated, Terminate
    <2>5. CASE EndStrike
        BY <2>5 DEF EndStrike, Terminate
    <2>6. CASE EndDisconnected
        BY <2>6 DEF EndDisconnected
    <2> QED
        BY <1>5, <2>1, <2>2, <2>3, <2>4, <2>5, <2>6 DEF Ending
<1>6. CASE Retrying
    BY <1>6
    DEF Retrying, RetryLimitReached, Terminate, RetryWindow, WindowShutdown, WindowElapsed
<1>7. CASE Panic \/ Panicking
    BY <1>7
    DEF Panic, Panicking, PanicAnnounce, PanicTerminate, PanicPhases, Terminate, connection_ended
<1>8. CASE Handle
    BY <1>8
    DEF Handle, Close, request, DropSenders, DropShutdown
<1>9. CASE Returned \/ UNCHANGED vars
    BY <1>9 DEF Returned, vars
<1> QED
    BY <1>1, <1>2, <1>3, <1>4, <1>5, <1>6, <1>7, <1>8, <1>9 DEF Next

LEMMA RejectionStep == CounterTypes /\ FlagTypes /\ PhaseInv /\ RejectionInv /\ [Next]_vars => RejectionInv'
<1> SUFFICES ASSUME CounterTypes, FlagTypes, PhaseInv, RejectionInv, [Next]_vars PROVE RejectionInv'
    OBVIOUS
<1> USE DEF RejectionInv, PhaseInv, CounterTypes, FlagTypes, AuthPhases, taskVars, watchVars,
        handleVars, historyVars
<1>1. CASE Connecting
    BY <1>1
    DEF Connecting, ConnectShutdown, Terminate, ConnectOk, ConnectErr
<1>2. CASE Authenticating
    BY <1>2
    DEF Authenticating, AuthShutdown, Finish, AuthWelcome, ResumeExpired, AuthAccepted, Publish,
        AuthFails, AuthRejected, Learn
<1>3. CASE Establishing
    BY <1>3
    DEF Establishing, EstablishShutdown, Finish, EstablishOk, Publish, BecomeReady,
        EstablishFails, EstablishRejected, Learn, EndOf
<1>4. CASE Looping
    BY <1>4
    DEF Looping, LoopShutdown, LeaveLoop, Finish, Publish, LoopLost, LoopRejected, Learn, EndOf,
        LoopReauthenticated
<1>5. CASE Ending
    BY <1>5
    DEF Ending, SessionOver, connection_ended, EndCloseRequested, Terminate,
        EndAuthenticationFailed, EndTerminated, EndStrike, EndDisconnected
<1>6. CASE Retrying
    BY <1>6
    DEF Retrying, RetryLimitReached, Terminate, RetryWindow, WindowShutdown, WindowElapsed
<1>7. CASE Panic \/ Panicking
    BY <1>7
    DEF Panic, Panicking, PanicAnnounce, PanicTerminate, PanicPhases, Terminate, connection_ended
<1>8. CASE Handle
    BY <1>8
    DEF Handle, Close, request, DropSenders, DropShutdown
<1>9. CASE Returned \/ UNCHANGED vars
    BY <1>9 DEF Returned, vars
<1> QED
    BY <1>1, <1>2, <1>3, <1>4, <1>5, <1>6, <1>7, <1>8, <1>9 DEF Next

LEMMA ReasonStep == TypeOK /\ PhaseInv /\ RejectionInv /\ ReasonInv /\ [Next]_vars => ReasonInv'
<1> SUFFICES ASSUME TypeOK, PhaseInv, RejectionInv, ReasonInv, [Next]_vars PROVE ReasonInv'
    OBVIOUS
<1> USE DEF ReasonInv, TruthfulReason, limit_reached, RejectionInv, PhaseInv, TypeOK,
        CounterTypes, FlagTypes, AuthPhases, taskVars, watchVars, handleVars, historyVars
<1>1. CASE Connecting
    BY <1>1
    DEF Connecting, ConnectShutdown, Terminate, ConnectOk, ConnectErr
<1>2. CASE Authenticating
    BY <1>2
    DEF Authenticating, AuthShutdown, Finish, AuthWelcome, ResumeExpired, AuthAccepted, Publish,
        AuthFails, AuthRejected, Learn
<1>3. CASE Establishing
    BY <1>3
    DEF Establishing, EstablishShutdown, Finish, EstablishOk, Publish, BecomeReady,
        EstablishFails, EstablishRejected, Learn, EndOf
<1>4. CASE Looping
    BY <1>4
    DEF Looping, LoopShutdown, LeaveLoop, Finish, Publish, LoopLost, LoopRejected, Learn, EndOf,
        LoopReauthenticated
<1>5. CASE Ending
    <2>1. CASE SessionOver
        BY <2>1 DEF SessionOver, connection_ended
    <2>2. CASE EndCloseRequested
        BY <2>2 DEF EndCloseRequested, Terminate
    <2>3. CASE EndAuthenticationFailed
        BY <2>3 DEF EndAuthenticationFailed
    <2>4. CASE EndTerminated
        BY <2>4 DEF EndTerminated, Terminate
    <2>5. CASE EndStrike
        BY <2>5, SessionAssumption DEF EndStrike, Terminate
    <2>6. CASE EndDisconnected
        BY <2>6 DEF EndDisconnected
    <2> QED
        BY <1>5, <2>1, <2>2, <2>3, <2>4, <2>5, <2>6 DEF Ending
<1>6. CASE Retrying
    BY <1>6
    DEF Retrying, RetryLimitReached, Terminate, RetryWindow, WindowShutdown, WindowElapsed
<1>7. CASE Panic \/ Panicking
    BY <1>7
    DEF Panic, Panicking, PanicAnnounce, PanicTerminate, PanicPhases, Terminate, connection_ended
<1>8. CASE Handle
    BY <1>8
    DEF Handle, Close, request, DropSenders, DropShutdown
<1>9. CASE Returned \/ UNCHANGED vars
    BY <1>9 DEF Returned, vars
<1> QED
    BY <1>1, <1>2, <1>3, <1>4, <1>5, <1>6, <1>7, <1>8, <1>9 DEF Next

\* The inductive invariant holds in every reachable state.
THEOREM Invariance == Spec => []Inv
<1>1. Init => PhaseInv
    BY DEF Init, PhaseInv
<1>2. Init => EventInv /\ GrantInv /\ ResumeInv
    BY DEF Init, EventInv, GrantInv, ResumeInv
<1>3. Init => RejectionInv /\ ReasonInv
    BY DEF Init, RejectionInv, ReasonInv, TruthfulReason
<1> QED
    BY <1>1, <1>2, <1>3, TypeCorrect, PhaseStep, EventStep, GrantStep, ResumeStep, RejectionStep,
       ReasonStep, PTL
    DEF Spec, Inv, TypeOK
------------------------------------------------------------------------------
(* What follows from it *)

\* Every connection announces its end exactly once, and the task its own end
\* once: connection_ended and the panic handler cannot both send Disconnected.
THEOREM EndsAreAnnouncedOnce == Spec => []DisconnectedOnce
<1>1. Inv => DisconnectedOnce
    BY DEF Inv, TypeOK, FlagTypes, CounterTypes, Phases, LivePhases, AuthPhases, PanicPhases, PhaseInv, EventInv,
           DisconnectedOnce
<1> QED
    BY <1>1, Invariance, PTL

\* Ready is shown only of the connection that is open and not given up, but for
\* the moment in which the panic handler has announced its end already.
THEOREM ReadyIsOfTheOpenConnection == Spec => []ReadyIsLive
<1>1. Inv => ReadyIsLive
    BY DEF Inv, TypeOK, FlagTypes, Phases, LivePhases, AuthPhases, PanicPhases, PhaseInv,
           EventInv, ReadyIsLive
<1> QED
    BY <1>1, Invariance, PTL

\* A vault grant is visible only while the connection that earned it is open.
THEOREM GrantEndsWithItsConnection == Spec => []GrantScope
<1>1. Inv => GrantScope
    BY DEF Inv, PhaseInv, EventInv, GrantInv, GrantScope
<1> QED
    BY <1>1, Invariance, PTL

\* authenticate never resumes a session the server has called expired.
THEOREM ExpiredSessionsStayDropped == Spec => []NeverResumesExpired
<1>1. Inv => NeverResumesExpired
    BY DEF Inv, PhaseInv, ResumeInv, NeverResumesExpired
<1> QED
    BY <1>1, Invariance, PTL

\* The reason in Closed and Terminated is what ended the task.
THEOREM ReasonsAreTrue == Spec => []TruthfulReason
    BY Invariance, PTL DEF Inv, ReasonInv
------------------------------------------------------------------------------
(* The backoff *)

\* Only next_attempt and reset_after_stable_session move the backoff.
LEMMA BackoffMoves ==
    ASSUME [Next]_vars
    PROVE  RetryWindow \/ EndDisconnected \/ UNCHANGED <<attempts, delay>>
<1> USE DEF taskVars
<1>1. CASE Connecting \/ Authenticating
    BY <1>1 DEF Connecting, ConnectShutdown, ConnectOk, ConnectErr, Authenticating, AuthShutdown, AuthWelcome,
                ResumeExpired, AuthAccepted, AuthFails, AuthRejected
<1>2. CASE Establishing \/ Looping
    BY <1>2 DEF Establishing, EstablishShutdown, EstablishOk, BecomeReady, EstablishFails, EstablishRejected,
                Looping, LoopShutdown, LoopLost, LoopRejected, LoopReauthenticated, LeaveLoop
<1>3. CASE Ending \/ Retrying
    BY <1>3 DEF Ending, SessionOver, EndCloseRequested, EndAuthenticationFailed, EndTerminated, EndStrike,
                Retrying, RetryLimitReached, WindowShutdown, WindowElapsed
<1>4. CASE Panic \/ Panicking \/ Handle \/ Returned \/ UNCHANGED vars
    BY <1>4 DEF Panic, Panicking, PanicAnnounce, PanicTerminate, Handle, Close, DropSenders, DropShutdown, request, Returned, vars
<1> QED
    BY <1>1, <1>2, <1>3, <1>4 DEF Next

\* Doubling under a cap is the cap of the doubling.
LEMMA CappedDouble ==
    ASSUME NEW i \in Nat, NEW p \in Nat, NEW max \in Nat \ {0}
    PROVE  next_reconnect_delay(IF i * p > max THEN max ELSE i * p, max)
             = IF i * (2 * p) > max THEN max ELSE i * (2 * p)
<1>1. i * p \in Nat /\ i * (2 * p) = 2 * (i * p)
    BY SMT
<1> QED
    BY <1>1 DEF next_reconnect_delay

\* ReconnectBackoff: the n-th attempt since a stable session waits for the initial delay doubled n - 1 times and capped,
\* and there are no more attempts than configured, whatever happened in between.  The powers of two are those of the
\* two equations, which the provers have no theory of.
THEOREM BackoffIsKept ==
    ASSUME 2^0 = 1, \A n \in Nat : 2^n \in Nat /\ 2^(n + 1) = 2 * 2^n
    PROVE  Spec => []BackoffSchedule
<1> USE AttemptsAssumption, DelayAssumption
<1>1. Init => BackoffSchedule
    BY DEF Init, BackoffSchedule
<1>2. CounterTypes /\ BackoffSchedule /\ [Next]_vars => BackoffSchedule'
    <2> SUFFICES ASSUME CounterTypes, BackoffSchedule, [Next]_vars
                 PROVE  BackoffSchedule'
        OBVIOUS
    <2>1. attempts \in Nat /\ attempts <= AttemptMax /\ 2^attempts \in Nat /\ 2^(attempts + 1) = 2 * 2^attempts
        BY DEF CounterTypes
    <2>2. CASE RetryWindow
        <3>1. MaxReconnectAttempts > 0 => attempts' <= MaxReconnectAttempts
            BY <2>1, <2>2 DEF RetryWindow, limit_reached
        <3>2. ASSUME attempts' < AttemptMax
              PROVE  delay' = IF InitialDelay * 2^attempts' > MaximumDelay
                              THEN MaximumDelay ELSE InitialDelay * 2^attempts'
            <4>1. attempts < AttemptMax /\ attempts' = attempts + 1
                BY <2>1, <2>2, <3>2 DEF RetryWindow
            <4>2. PICK p \in Nat : p = 2^attempts /\ 2^attempts' = 2 * p
                BY <2>1, <4>1
            <4>3. delay = IF InitialDelay * p > MaximumDelay THEN MaximumDelay ELSE InitialDelay * p
                BY <4>1, <4>2 DEF BackoffSchedule
            <4>4. delay' = next_reconnect_delay(delay, MaximumDelay)
                BY <2>2 DEF RetryWindow
            <4> QED
                BY <4>2, <4>3, <4>4, CappedDouble
        <3> QED
            BY <3>1, <3>2 DEF BackoffSchedule
    <2>3. CASE EndDisconnected /\ attempts' = 0 /\ delay' = InitialDelay
        <3>1. InitialDelay * 2^attempts' = InitialDelay
            BY <2>3
        <3> QED
            BY <2>3, <3>1 DEF BackoffSchedule
    <2>4. CASE UNCHANGED <<attempts, delay>>
        BY <2>4 DEF BackoffSchedule
    <2> QED
        BY <2>2, <2>3, <2>4, BackoffMoves DEF EndDisconnected
<1> QED
    BY <1>1, <1>2, TypeCorrect, PTL DEF Spec, TypeOK
------------------------------------------------------------------------------
(* ManagedSession implements Lifecycle *)

LEMMA LifecycleStep ==
    Inv /\ [Next]_vars => [Observed!Next]_(Observed!lifecycleVars)
<1> SUFFICES ASSUME Inv, [Next]_vars
             PROVE  Observed!Next \/ UNCHANGED Observed!lifecycleVars
    OBVIOUS
<1> USE DEF Inv, TypeOK, FlagTypes, CounterTypes, PhaseInv, EventInv, ReasonInv, LivePhases, AuthPhases,
            PanicPhases, Observed!lifecycleVars, taskVars, watchVars, handleVars, historyVars
<1>1. CASE Connecting
    <2>1. CASE ConnectShutdown
        BY <2>1 DEF ConnectShutdown, Terminate, Observed!Next, Observed!Terminate
    <2>2. CASE ConnectOk
        BY <2>2 DEF ConnectOk, Observed!Next, Observed!Connect
    <2>3. CASE ConnectErr
        BY <2>3 DEF ConnectErr
    <2> QED
        BY <1>1, <2>1, <2>2, <2>3 DEF Connecting
<1>2. CASE Authenticating
    <2>1. CASE AuthShutdown \/ AuthFails \/ AuthRejected
        BY <2>1 DEF AuthShutdown, AuthFails, AuthRejected, Finish, Observed!Next, Observed!GiveUp
    <2>2. CASE AuthWelcome \/ ResumeExpired
        BY <2>2 DEF AuthWelcome, ResumeExpired
    <2>3. CASE AuthAccepted
        BY <2>3 DEF AuthAccepted, Publish, Observed!Next, Observed!Progress, Observed!Advance
    <2> QED
        BY <1>2, <2>1, <2>2, <2>3 DEF Authenticating
<1>3. CASE Establishing
    <2>1. CASE EstablishShutdown \/ EstablishFails \/ EstablishRejected
        BY <2>1 DEF EstablishShutdown, EstablishFails, EstablishRejected, Finish,
                    Observed!Next, Observed!GiveUp
    <2>2. CASE EstablishOk \/ BecomeReady
        BY <2>2 DEF EstablishOk, BecomeReady, Publish, Observed!Next, Observed!Progress,
                    Observed!Advance
    <2> QED
        BY <1>3, <2>1, <2>2 DEF Establishing
<1>4. CASE Looping
    <2>1. CASE LoopShutdown \/ LoopLost \/ LoopRejected
        BY <2>1 DEF LoopShutdown, LoopLost, LoopRejected, LeaveLoop, Finish, Publish,
                    Observed!Next, Observed!GiveUp
    <2>2. CASE LoopReauthenticated
        BY <2>2 DEF LoopReauthenticated
    <2> QED
        BY <1>4, <2>1, <2>2 DEF Looping
<1>5. CASE Ending
    <2>1. CASE SessionOver
        <3>1. open /\ epoch > 0 /\ phase = "closing" /\ phase' = "ended"
            BY <2>1 DEF SessionOver
        <3>2. open' = FALSE /\ disconnects' = disconnects + 1
            BY <2>1, <3>1 DEF SessionOver, connection_ended
        <3>3. UNCHANGED <<kind, epoch, reason, terminations>>
            BY <2>1 DEF SessionOver
        <3> QED
            BY <3>1, <3>2, <3>3 DEF Observed!Next, Observed!Disconnect
    <2>2. CASE EndCloseRequested \/ EndTerminated
        BY <2>2 DEF EndCloseRequested, EndTerminated, Terminate, Observed!Next, Observed!Terminate
    <2>3. CASE EndStrike
        BY <2>3 DEF EndStrike, Terminate, Observed!Next, Observed!Terminate
    <2>4. CASE EndAuthenticationFailed \/ EndDisconnected
        BY <2>4 DEF EndAuthenticationFailed, EndDisconnected
    <2> QED
        BY <1>5, <2>1, <2>2, <2>3, <2>4 DEF Ending
<1>6. CASE Retrying
    <2>1. CASE RetryLimitReached \/ WindowShutdown
        BY <2>1 DEF RetryLimitReached, WindowShutdown, Terminate, Observed!Next, Observed!Terminate
    <2>2. CASE RetryWindow
        BY <2>2 DEF RetryWindow, Observed!Next, Observed!Reconnecting
    <2>3. CASE WindowElapsed
        BY <2>3 DEF WindowElapsed
    <2> QED
        BY <1>6, <2>1, <2>2, <2>3 DEF Retrying
<1>7. CASE Panic \/ Panicking
    <2>1. CASE Panic
        <3>1. kind # "Closed" /\ UNCHANGED <<kind, epoch, open, disconnects, terminations>>
            BY <2>1 DEF Panic
        <3>2. ~(phase \in PanicPhases \/ reason = "SessionPanicked") /\ phase' \in PanicPhases
            BY <2>1 DEF Panic
        <3>3. (epoch' > 0 /\ phase' \notin LivePhases) = (epoch > 0)
            BY <2>1 DEF Panic
        <3> QED
            BY <3>1, <3>2, <3>3 DEF Observed!Next, Observed!Panic
    <2>2. CASE PanicAnnounce
        <3>1. phase = "panicked" /\ phase' = "announced" /\ UNCHANGED <<kind, epoch, reason, terminations>>
            BY <2>2 DEF PanicAnnounce
        <3>2. CASE open
            <4>1. epoch > 0 /\ open' = FALSE /\ disconnects' = disconnects + 1
                BY <2>2, <3>2 DEF PanicAnnounce, connection_ended
            <4> QED
                BY <3>1, <3>2, <4>1 DEF Observed!Next, Observed!Disconnect
        <3>3. CASE ~open
            <4>1. UNCHANGED <<open, disconnects>>
                BY <2>2, <3>3 DEF PanicAnnounce, connection_ended
            <4> QED
                BY <3>1, <4>1
        <3> QED
            BY <3>2, <3>3
    <2>3. CASE PanicTerminate
        BY <2>3 DEF PanicTerminate, Terminate, Observed!Next, Observed!Terminate
    <2> QED
        BY <1>7, <2>1, <2>2, <2>3 DEF Panicking
<1>8. CASE Handle
    BY <1>8 DEF Handle, Close, DropSenders, DropShutdown, request
<1>9. CASE Returned \/ UNCHANGED vars
    BY <1>9 DEF Returned, vars
<1> QED
    BY <1>1, <1>2, <1>3, <1>4, <1>5, <1>6, <1>7, <1>8, <1>9 DEF Next

\* The session task implements Lifecycle: what a handle reads from the state
\* watch and receives as events is a behaviour of the abstract specification.
THEOREM Refinement == Spec => ImplementsLifecycle
<1>1. Init => Observed!Init
    BY DEF Init, Observed!Init, LivePhases, AuthPhases, PanicPhases
<1> QED
    BY <1>1, LifecycleStep, Invariance, PTL DEF Spec, ImplementsLifecycle, Observed!Spec
==============================================================================
