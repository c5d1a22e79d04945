------------------------------ MODULE Lifecycle ------------------------------
(***************************************************************************)
(* What a managed WebSocket connection promises to the holders of its      *)
(* handle: the lifecycle state they read from the watch channel, and the   *)
(* Connected / Disconnected / Terminated events they are sent.             *)
(*                                                                         *)
(* This is the abstract specification.  ManagedSession, the detailed model *)
(* of the session task, is shown to implement it.                          *)
(***************************************************************************)
EXTENDS Naturals

VARIABLES
    kind,         \* the variant of ManagedWsState the watch channel holds
    epoch,        \* connection_epoch of the newest connection, 0 before any
    open,         \* connection_open: a socket is open, Disconnected not yet sent
    over,         \* the session on that socket has been given up
    panicked,     \* the session task has panicked
    disconnects,  \* Disconnected events sent so far (Connected: one per epoch)
    terminations  \* Terminated events sent so far

lifecycleVars == <<kind, epoch, open, over, panicked, disconnects, terminations>>

\* The variants that name a connection epoch.
OnSocket == {"Connected", "Authenticated", "Reconciled", "Ready"}
Kinds == OnSocket \cup {"Connecting", "Reconnecting", "Closed"}

Init ==
    /\ kind = "Connecting"
    /\ epoch = 0
    /\ open = FALSE
    /\ over = FALSE
    /\ panicked = FALSE
    /\ disconnects = 0
    /\ terminations = 0

\* A new connection gets a new epoch.
Connect ==
    /\ kind \in {"Connecting", "Reconnecting"}
    /\ ~open
    /\ ~panicked
    /\ kind' = "Connected"
    /\ epoch' = epoch + 1
    /\ open' = TRUE
    /\ over' = FALSE
    /\ UNCHANGED <<panicked, disconnects, terminations>>

\* A live session moves one step closer to Ready, never two.
Advance(from, to) ==
    /\ kind = from
    /\ open
    /\ ~over
    /\ kind' = to
    /\ UNCHANGED <<epoch, open, over, panicked, disconnects, terminations>>

Progress ==
    \/ Advance("Connected", "Authenticated")
    \/ Advance("Authenticated", "Reconciled")
    \/ Advance("Reconciled", "Ready")

\* The session is given up: from here on nothing is Ready in this epoch.
GiveUp ==
    /\ open
    /\ ~over
    /\ kind' \in {kind, "Connected"}
    /\ kind' # "Ready"
    /\ over' = TRUE
    /\ UNCHANGED <<epoch, open, panicked, disconnects, terminations>>

\* A panic gives up whatever was going on; what it had published stays until
\* the task is terminated, and nothing but that can follow it.
Panic ==
    /\ ~panicked
    /\ kind # "Closed"
    /\ panicked' = TRUE
    /\ over' = (epoch > 0)
    /\ UNCHANGED <<kind, epoch, open, disconnects, terminations>>

\* Disconnected is sent once per connection, and only for one given up.
Disconnect ==
    /\ open
    /\ over
    /\ open' = FALSE
    /\ disconnects' = disconnects + 1
    /\ UNCHANGED <<kind, epoch, over, panicked, terminations>>

\* Waiting to reconnect is announced only after Disconnected.
Reconnecting ==
    /\ ~open
    /\ ~panicked
    /\ kind # "Closed"
    /\ kind' = "Reconnecting"
    /\ UNCHANGED <<epoch, open, over, panicked, disconnects, terminations>>

\* Terminated is the last event: every connection has announced its end by then.
Terminate ==
    /\ ~open
    /\ kind # "Closed"
    /\ kind' = "Closed"
    /\ terminations' = terminations + 1
    /\ UNCHANGED <<epoch, open, over, panicked, disconnects>>

Next ==
    \/ Connect
    \/ Progress
    \/ GiveUp
    \/ Panic
    \/ Disconnect
    \/ Reconnecting
    \/ Terminate

Spec == Init /\ [][Next]_lifecycleVars
==============================================================================
