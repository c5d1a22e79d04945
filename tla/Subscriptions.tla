---------------------------- MODULE Subscriptions ----------------------------
(***************************************************************************)
(* The subscriptions of a managed quote connection: the desired target the *)
(* client keeps, the one change that may be in flight, the deadline of its *)
(* acknowledgement, and the recovery of the target on every new connection.*)
(*                                                                         *)
(* Frames travel in order each way and are lost with their connection.  The*)
(* scopes of underlying and of quote mints are treated alike by the code,  *)
(* so there is one scope here.  Pages of the snapshot are one frame.       *)
(***************************************************************************)
EXTENDS Naturals, Sequences

CONSTANTS
    Channels,    \* WsChannel
    Mints,       \* mints a scope may name
    Initial,     \* whether config.initial_subscribe is set
    MaxChanges,  \* bound: changes that callers make
    MaxEpoch     \* bound: connections

ASSUME SubscriptionAssumption ==
    /\ Initial \in BOOLEAN
    /\ MaxChanges \in Nat
    /\ MaxEpoch \in Nat

VARIABLES
    conn,      \* down, snapshot, removing, adding (readiness), ready (the loop)
    epoch,     \* connection_epoch
    target,    \* DesiredSubscriptions.current
    pending,   \* DesiredSubscriptions.pending: [id, previous], id 0 for None
    receipt,   \* subscription_written: change whose receipt is awaited, 0 for None
    deadline,  \* subscription_deadline: change it was armed for, 0 for None
    changes,   \* request ids used so far
    lane,      \* frames that wait for the writer
    flushed,   \* change that is written, its receipt not sent yet, 0 for none
    receipts,  \* changes whose receipt is sent
    inbox,     \* frames on their way to the server
    outbox,    \* frames on their way to the client
    actual     \* what the server has subscribed the client to

clientVars == <<target, pending, receipt, deadline, changes>>
writerVars == <<lane, flushed, receipts>>
serverVars == <<inbox, outbox, actual>>
vars == <<conn, epoch, clientVars, writerVars, serverVars>>

Nothing == [products |-> FALSE, channels |-> {}, mints |-> {}]
NoChange == [id |-> 0, previous |-> Nothing]

\* SubscriptionChange; request ids are numbered, 0 is for those of a recovery.
Frames == [op : {"Subscribe"}, channels : SUBSET Channels, mints : SUBSET Mints]
          \cup [op : {"AddChannels", "RemoveChannels", "Unsubscribe"},
                channels : {{c} : c \in Channels}, mints : {{}}]
          \cup [op : {"AddMints", "RemoveMints"},
                channels : {{}}, mints : {{m} : m \in Mints}]

\* from_initial.
from_initial ==
    IF Initial THEN {[products |-> TRUE, channels |-> C, mints |-> M] :
                        C \in SUBSET Channels, M \in SUBSET Mints}
               ELSE {Nothing}

Init ==
    /\ conn = "down"
    /\ epoch = 0
    /\ target \in from_initial
    /\ pending = NoChange
    /\ receipt = 0
    /\ deadline = 0
    /\ changes = 0
    /\ lane = <<>>
    /\ flushed = 0
    /\ receipts = {}
    /\ inbox = <<>>
    /\ outbox = <<>>
    /\ actual = Nothing
------------------------------------------------------------------------------
(* DesiredSubscriptions *)

\* Channels accumulate, mint scopes are replaced.
apply_subscribe(set, frame) ==
    [products |-> TRUE, channels |-> set.channels \cup frame.channels, mints |-> frame.mints]

apply(set, frame) ==
    CASE frame.op = "Subscribe" -> apply_subscribe(set, frame)
      [] frame.op = "AddChannels" -> [set EXCEPT !.channels = @ \cup frame.channels]
      [] frame.op \in {"RemoveChannels", "Unsubscribe"} ->
            [set EXCEPT !.channels = @ \ frame.channels]
      [] frame.op = "AddMints" -> [set EXCEPT !.mints = @ \cup frame.mints]
      [] frame.op = "RemoveMints" -> [set EXCEPT !.mints = @ \ frame.mints]

has_pending == pending.id # 0

\* begin: the target moves at once, the previous one is kept for a rejection.
begin(id, frame) ==
    /\ pending' = [id |-> id, previous |-> target]
    /\ target' = apply(target, frame)

\* resolve: only a reply to the change in flight counts; a rejection restores
\* the previous target (reject_pending).
resolve(reply) ==
    IF has_pending /\ pending.id = reply.id
    THEN /\ pending' = NoChange
         /\ target' = IF reply.kind = "RequestError" THEN pending.previous ELSE target
    ELSE UNCHANGED <<pending, target>>

\* Mutant of recovery: channels the server still has are left alone.
RecoveryKeepsExtra(scope) ==
    [unsubscribe |-> {}, subscribe |-> target.products]

\* recovery, from the server's own account of its state.
recovery(scope) ==
    [unsubscribe |-> scope.channels \ target.channels, subscribe |-> target.products]
------------------------------------------------------------------------------
(* Readiness: establish and recover_subscriptions *)

Request(frame) == inbox' = Append(inbox, [id |-> 0, frame |-> frame])

\* A connection is authenticated: a fresh session has no subscriptions, a
\* resumed one still has its own.
Connect ==
    /\ conn = "down"
    /\ epoch < MaxEpoch
    /\ epoch' = epoch + 1
    /\ conn' = "snapshot"
    /\ actual' \in {actual, Nothing}
    /\ inbox' = <<[id |-> 0, frame |-> [op |-> "GetSubscriptions"]]>>
    /\ outbox' = <<>>
    /\ lane' = <<>>
    /\ flushed' = 0
    /\ receipts' = {}
    /\ UNCHANGED clientVars

\* The second half of a recovery: Subscribe, if there are products to name.
Subscribe(wanted) ==
    IF wanted
    THEN /\ conn' = "adding"
         /\ Request([op |-> "Subscribe", channels |-> target.channels, mints |-> target.mints])
    ELSE conn' = "ready" /\ UNCHANGED inbox

ReadSnapshot ==
    /\ conn = "snapshot"
    /\ outbox # <<>>
    /\ LET plan == recovery(Head(outbox).scope) IN
       IF plan.unsubscribe # {}
       THEN /\ conn' = "removing"
            /\ Request([op |-> "Unsubscribe", channels |-> plan.unsubscribe, mints |-> {}])
       ELSE Subscribe(plan.subscribe)
    /\ outbox' = Tail(outbox)
    /\ UNCHANGED <<epoch, clientVars, writerVars, actual>>

RecoveryAck ==
    /\ conn \in {"removing", "adding"}
    /\ outbox # <<>>
    /\ Head(outbox).kind = "Ack"
    /\ IF conn = "removing" THEN Subscribe(target.products)
                            ELSE conn' = "ready" /\ UNCHANGED inbox
    /\ outbox' = Tail(outbox)
    /\ UNCHANGED <<epoch, clientVars, writerVars, actual>>
------------------------------------------------------------------------------
(* The session loop *)

\* Mutant of Change: a change in flight does not keep another one back.
ChangeWhilePending(frame) ==
    /\ conn = "ready"
    /\ changes < MaxChanges
    /\ changes' = changes + 1
    /\ begin(changes + 1, frame)
    /\ lane' = Append(lane, [id |-> changes + 1, frame |-> frame])
    /\ receipt' = changes + 1
    /\ UNCHANGED <<conn, epoch, deadline, flushed, receipts, serverVars>>

\* handle_command forwarded a change: its frame entered the lane, and the receipt
\* that the loop awaits from now on is that of this change.
Change(frame) ==
    /\ conn = "ready"
    /\ ~has_pending
    /\ changes < MaxChanges
    /\ changes' = changes + 1
    /\ begin(changes + 1, frame)
    /\ lane' = Append(lane, [id |-> changes + 1, frame |-> frame])
    /\ receipt' = changes + 1
    /\ UNCHANGED <<conn, epoch, deadline, flushed, receipts, serverVars>>

\* Mutants of Written: the deadline is armed whether or not the change is still
\* in flight; it is never armed.
WrittenAlwaysArms ==
    /\ conn = "ready"
    /\ receipt \in receipts
    /\ receipt' = 0
    /\ deadline' = receipt
    /\ UNCHANGED <<conn, epoch, target, pending, changes, writerVars, serverVars>>

WrittenNeverArms ==
    /\ conn = "ready"
    /\ receipt \in receipts
    /\ receipt' = 0
    /\ UNCHANGED <<conn, epoch, target, pending, deadline, changes, writerVars, serverVars>>

\* The subscription_written branch.  The acknowledgement may have been read first.
Written ==
    /\ conn = "ready"
    /\ receipt \in receipts
    /\ receipt' = 0
    /\ deadline' = IF has_pending THEN receipt ELSE deadline
    /\ UNCHANGED <<conn, epoch, target, pending, changes, writerVars, serverVars>>

\* The read branch: resolve, then the deadline goes if nothing is in flight.
ReadReply ==
    /\ conn = "ready"
    /\ outbox # <<>>
    /\ outbox' = Tail(outbox)
    /\ resolve(Head(outbox))
    /\ deadline' = IF pending'.id = 0 THEN 0 ELSE deadline
    /\ UNCHANGED <<conn, epoch, receipt, changes, writerVars, inbox, actual>>

\* A reply that cannot be decoded resolves nothing.
ReadUnreadable ==
    /\ conn = "ready"
    /\ outbox # <<>>
    /\ outbox' = Tail(outbox)
    /\ UNCHANGED <<conn, epoch, clientVars, writerVars, inbox, actual>>

\* connection_lost.  The deadline and the receipt are locals of the session.
connection_lost ==
    /\ conn' = "down"
    /\ pending' = NoChange
    /\ receipt' = 0
    /\ deadline' = 0
    /\ UNCHANGED <<epoch, target, changes, writerVars, serverVars>>

\* The network, a dead writer, or any other end of the session.
Lost ==
    /\ conn # "down"
    /\ connection_lost

\* A refused recovery fails the readiness barrier.
RecoveryRejected ==
    /\ conn \in {"removing", "adding"}
    /\ outbox # <<>>
    /\ Head(outbox).kind = "RequestError"
    /\ connection_lost

\* The subscription_deadline branch.
DeadlinePasses ==
    /\ conn = "ready"
    /\ deadline # 0
    /\ connection_lost
------------------------------------------------------------------------------
(* The writer and the server *)

\* The frame is on the wire; the receipt follows once the write has returned.  An
\* aborted writer may still get this far.
WriterFlushes ==
    /\ lane # <<>>
    /\ flushed = 0
    /\ lane' = Tail(lane)
    /\ flushed' = Head(lane).id
    /\ inbox' = Append(inbox, Head(lane))
    /\ UNCHANGED <<conn, epoch, clientVars, receipts, outbox, actual>>

WriterReceipt ==
    /\ flushed # 0
    /\ flushed' = 0
    /\ receipts' = receipts \cup {flushed}
    /\ UNCHANGED <<conn, epoch, clientVars, lane, serverVars>>

\* What the server subscribes the client to on accepting a frame.
ServerScope(frame) ==
    [products |-> actual.products \/ frame.op = "Subscribe",
     channels |-> IF frame.op \in {"RemoveChannels", "Unsubscribe"}
                  THEN actual.channels \ frame.channels
                  ELSE actual.channels \cup frame.channels,
     mints    |-> IF frame.op = "Subscribe" THEN frame.mints
                  ELSE IF frame.op = "RemoveMints" THEN actual.mints \ frame.mints
                  ELSE actual.mints \cup frame.mints]

Reply(kind, scope) ==
    outbox' = Append(outbox, [kind |-> kind, id |-> Head(inbox).id, scope |-> scope])

\* The server takes the next frame, and may refuse it.  It may do so before it
\* notices that the connection is gone.
ServerAnswers ==
    /\ inbox # <<>>
    /\ inbox' = Tail(inbox)
    /\ LET frame == Head(inbox).frame IN
       IF frame.op = "GetSubscriptions"
       THEN Reply("Subscriptions", actual) /\ UNCHANGED actual
       ELSE \/ actual' = ServerScope(frame) /\ Reply("Ack", Nothing)
            \/ UNCHANGED actual /\ Reply("RequestError", Nothing)
    /\ UNCHANGED <<conn, epoch, clientVars, writerVars>>

\* No connection is left to open.
Finished ==
    /\ conn = "down"
    /\ epoch = MaxEpoch
    /\ UNCHANGED vars

Readiness == Connect \/ ReadSnapshot \/ RecoveryAck \/ RecoveryRejected
Loop == Written \/ ReadReply \/ ReadUnreadable \/ DeadlinePasses

Next ==
    \/ Readiness
    \/ \E frame \in Frames : Change(frame)
    \/ Loop
    \/ Lost
    \/ WriterFlushes \/ WriterReceipt
    \/ ServerAnswers
    \/ Finished

Spec == Init /\ [][Next]_vars

\* A write that fails or times out ends the writer, and the session with it.
WriterDies == (lane # <<>> \/ flushed # 0) /\ Lost

\* The writer is a task of its own and its writes have a timeout; in the loop a
\* branch that stays ready is taken; time passes.  Nothing is assumed of the
\* server or the network.
Fairness ==
    /\ WF_vars(WriterFlushes \/ WriterDies)
    /\ WF_vars(WriterReceipt \/ WriterDies)
    /\ WF_vars(Written)
    /\ WF_vars(DeadlinePasses)

FairSpec == Spec /\ Fairness
------------------------------------------------------------------------------
(* Properties *)

Scopes == [products : BOOLEAN, channels : SUBSET Channels, mints : SUBSET Mints]

\* Every variable has its type, and no more than one frame of a change is ever
\* between the loop and the writer.
TypeOK ==
    /\ conn \in {"down", "snapshot", "removing", "adding", "ready"}
    /\ epoch \in 0..MaxEpoch
    /\ target \in Scopes
    /\ pending \in [id : 0..MaxChanges, previous : Scopes]
    /\ {receipt, deadline, changes, flushed} \subseteq 0..MaxChanges
    /\ receipts \subseteq 1..MaxChanges
    /\ Len(lane) <= 1
    /\ actual \in Scopes

\* The acknowledgement deadline is that of the change in flight: a receipt or a
\* reply that comes late, in either order, never leaves a deadline behind for a
\* change already resolved, nor hands one change the deadline of another.
DeadlineOfChange == deadline # 0 => has_pending /\ deadline = pending.id

\* While a session is ready and nothing is in flight, the server has exactly the
\* subscriptions the client wants, after any mixture of accepted and rejected
\* changes, lost replies, resumed and fresh sessions.
TargetEstablished ==
    conn = "ready" /\ ~has_pending /\ target.products => actual = target

\* A change does not stay in flight for ever: it is acknowledged, rejected, or
\* given up with its connection, even if the server never replies.
ChangeIsResolved == has_pending ~> ~has_pending

\* "The local target that a managed quote session re-establishes after every
\* authentication" (doc comment of DesiredSubscriptions): whatever was asked for.
EveryTargetEstablished ==
    conn = "ready" /\ ~has_pending => actual.channels = target.channels
==============================================================================
