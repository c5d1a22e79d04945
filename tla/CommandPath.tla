----------------------------- MODULE CommandPath -----------------------------
(***************************************************************************)
(* The path of a command from a handle to the socket and back: the handle  *)
(* methods that bind a command to the ready epoch and queue it, the session*)
(* loop that takes it from the queue (handle_command), the await tracker,  *)
(* the two lanes and the writer task of each connection, the answers the   *)
(* loop reads, and what becomes of commands when a session ends, waits to  *)
(* reconnect, closes or panics.                                            *)
(*                                                                         *)
(* A writer is spawned per connection and outlives its session until its   *)
(* abort takes effect, so there is one per epoch.  When and why sessions   *)
(* come and go is the subject of ManagedSession; here they just do.        *)
(***************************************************************************)
EXTENDS AwaitTracker, Sequences

CONSTANTS
    Calls,          \* calls of send, try_send or send_await, one message each
    Awaits,         \* those made by send_await
    Fenced,         \* those whose message requires_ready
    Control,        \* those whose message goes to the control lane
    Quotes,         \* those whose correlation key is an order, not a request id
    Changes,        \* those that change subscriptions
    KeyOf,          \* correlation key of each call in Awaits
    CommandBuffer,  \* config.command_buffer: command queue and each lane
    Keepalive,      \* bound: whether pings and pongs compete for the control lane
    MaxEpoch        \* bound: connections that may become ready

ASSUME CommandAssumption ==
    /\ Awaits \subseteq Calls /\ Fenced \subseteq Calls /\ Control \subseteq Calls
    /\ Changes \subseteq Fenced /\ Quotes \subseteq Calls /\ Keepalive \in BOOLEAN
    /\ CommandBuffer \in Nat \ {0}
    /\ MaxEpoch \in Nat \ {0}
    /\ Calls \cap {"no call", "Ping", "Close", "Stop"} = {}

Epochs == 1..MaxEpoch

VARIABLES
    sess,      \* what the session task is doing
    epoch,     \* connection_epoch
    tracker,   \* AwaitTracker
    pending,   \* subscription change awaiting its acknowledgement, if any
    stage,     \* how far the caller is: idle, issued (epoch read), sent (queued)
    binding,   \* connection_epoch of the command, 0 for None
    reply,     \* what the caller got, "none" while it waits
    queue,     \* cmd_rx
    cancels,   \* cancel_rx
    control,   \* control lane of each connection
    data,      \* data lane of each connection
    lanes,     \* whether the session still holds the lane senders
    writer,    \* writer task of each connection: none, idle, busy, ended
    frame,     \* the frame a busy writer is writing
    abort,     \* abort was called on the writer task
    wire,      \* frames that reached the peer, in order, per connection
    answers,   \* calls the peer has answered, answer not read yet
    answered,  \* history: calls the peer has answered
    accepted   \* history: order in which commands for the data lane were queued

callVars == <<stage, binding, reply>>
chanVars == <<queue, cancels>>
writerVars == <<control, data, lanes, writer, frame, abort, wire>>
peerVars == <<answers, answered>>
vars == <<sess, epoch, tracker, pending, callVars, chanVars, writerVars, peerVars, accepted>>

NoCall == "no call"
Sends == Calls \ Awaits

Init ==
    /\ sess = "connecting"
    /\ epoch = 0
    /\ tracker = Empty
    /\ pending = NoCall
    /\ stage = [c \in Calls |-> "idle"]
    /\ binding = [c \in Calls |-> 0]
    /\ reply = [c \in Calls |-> "none"]
    /\ queue = <<>>
    /\ cancels = <<>>
    /\ control = [e \in Epochs |-> <<>>]
    /\ data = [e \in Epochs |-> <<>>]
    /\ lanes = [e \in Epochs |-> FALSE]
    /\ writer = [e \in Epochs |-> "none"]
    /\ frame = [e \in Epochs |-> NoCall]
    /\ abort = [e \in Epochs |-> FALSE]
    /\ wire = [e \in Epochs |-> <<>>]
    /\ answers = {}
    /\ answered = {}
    /\ accepted = <<>>

\* The caller has dropped its end of the oneshot: tx.is_closed().
Gone == {c \in Calls : reply[c] \in {"Timeout", "Abandoned"}}

\* Every caller of S that still waits gets this answer.
Answer(S, what) == [c \in Calls |-> IF c \in S /\ reply[c] = "none" THEN what ELSE reply[c]]

\* Dropping a command or a frame drops the oneshot sender of a send with it.
\* The sender of an await moves to the tracker when the command is handled.
Dropped(seq) == Range(seq) \cap Sends
------------------------------------------------------------------------------
(* Callers *)

\* command_epoch: the state is read here, the command is queued later.
Issue(c) ==
    /\ stage[c] = "idle"
    /\ IF sess # "loop" /\ c \in Fenced
       THEN /\ reply' = Answer({c}, "NotReady")
            /\ stage' = [stage EXCEPT ![c] = "done"]
            /\ UNCHANGED binding
       ELSE /\ stage' = [stage EXCEPT ![c] = "issued"]
            /\ binding' = [binding EXCEPT ![c] = IF sess = "loop" THEN epoch ELSE 0]
            /\ UNCHANGED reply
    /\ UNCHANGED <<sess, epoch, tracker, pending, chanVars, writerVars, peerVars, accepted>>

Enqueue(c) ==
    /\ stage[c] = "issued"
    /\ reply[c] = "none"
    /\ sess # "closed"
    /\ Len(queue) < CommandBuffer
    /\ queue' = Append(queue, c)
    /\ accepted' = IF c \in Control THEN accepted ELSE Append(accepted, c)
    /\ stage' = [stage EXCEPT ![c] = "sent"]
    /\ UNCHANGED <<sess, epoch, tracker, pending, binding, reply, cancels, writerVars, peerVars>>

\* try_send on a full queue, or any send on a closed one.
EnqueueRefused(c) ==
    /\ stage[c] = "issued"
    /\ reply[c] = "none"
    /\ \/ /\ sess # "closed"
          /\ Len(queue) = CommandBuffer
          /\ reply' = Answer({c}, "QueueFull")
       \/ /\ sess = "closed"
          /\ reply' = Answer({c}, IF c \in Awaits THEN "Disconnected" ELSE "Closed")
    /\ stage' = [stage EXCEPT ![c] = "done"]
    /\ UNCHANGED <<sess, epoch, tracker, pending, binding, chanVars, writerVars, peerVars, accepted>>

\* The deadline of send_await.  The oneshot receiver is dropped first, then the
\* await id is sent for cancellation; before the queue there is nothing to cancel.
AwaitTimeout(c) ==
    /\ c \in Awaits
    /\ stage[c] \in {"issued", "sent"}
    /\ reply[c] = "none"
    /\ reply' = Answer({c}, "Timeout")
    /\ cancels' = IF stage[c] = "sent" /\ sess # "closed" THEN Append(cancels, c) ELSE cancels
    /\ UNCHANGED <<sess, epoch, tracker, pending, stage, binding, queue, writerVars, peerVars, accepted>>

\* The caller drops the future or the ticket: nothing is sent for that.
Abandon(c) ==
    /\ stage[c] \in {"issued", "sent"}
    /\ reply[c] = "none"
    /\ reply' = Answer({c}, "Abandoned")
    /\ UNCHANGED <<sess, epoch, tracker, pending, stage, binding, chanVars, writerVars, peerVars, accepted>>
------------------------------------------------------------------------------
(* The session loop *)

\* tracker.drain_all and subscriptions.connection_lost; unread answers are lost.
DrainAll(callers) ==
    /\ reply' = Answer(callers, "Disconnected")
    /\ tracker' = Empty
    /\ pending' = NoCall
    /\ answers' = {}

\* A retryable end: the lanes are dropped and the writer is told to abort, which
\* it does in its own time; these callers are answered at once.
Lost(callers) ==
    /\ sess' = "window"
    /\ lanes' = [lanes EXCEPT ![epoch] = FALSE]
    /\ abort' = [abort EXCEPT ![epoch] = TRUE]
    /\ DrainAll(callers)
    /\ UNCHANGED <<control, data, writer, frame, wire>>

\* Mutant of LaneState: one frame more than the lane holds.
LaneStateLate(lane) ==
    IF writer[epoch] = "ended" THEN "Closed"
    ELSE IF Len(lane[epoch]) > CommandBuffer THEN "Full" ELSE "ok"

\* enqueue on a lane of the current connection.
LaneState(lane) ==
    IF writer[epoch] = "ended" THEN "Closed"
    ELSE IF Len(lane[epoch]) >= CommandBuffer THEN "Full" ELSE "ok"

LaneOf(c) == IF c \in Control THEN control ELSE data

\* Mutant of PushFrame: what is not awaited, a cancellation say, goes ahead on
\* the control lane.
PushFrameAhead(c) ==
    /\ IF c \in Control \cup Sends
       THEN control' = [control EXCEPT ![epoch] = Append(@, c)] /\ UNCHANGED data
       ELSE data' = [data EXCEPT ![epoch] = Append(@, c)] /\ UNCHANGED control
    /\ pending' = IF c \in Changes THEN c ELSE pending
    /\ UNCHANGED <<lanes, writer, frame, abort, wire>>

\* frame_with_receipt accepted the command's frame.
PushFrame(c) ==
    /\ IF c \in Control
       THEN control' = [control EXCEPT ![epoch] = Append(@, c)] /\ UNCHANGED data
       ELSE data' = [data EXCEPT ![epoch] = Append(@, c)] /\ UNCHANGED control
    /\ pending' = IF c \in Changes THEN c ELSE pending
    /\ UNCHANGED <<lanes, writer, frame, abort, wire>>

\* The command is answered without having touched a lane.
Refuse(c, why) ==
    /\ reply' = Answer({c}, why)
    /\ UNCHANGED <<sess, pending, writerVars, answers>>

\* Mutant of Forward: a full lane is reported, yet the frame is kept for later.
ForwardParked(c, registered) ==
    CASE LaneState(LaneOf(c)) = "ok" ->
            /\ PushFrame(c)
            /\ tracker' = registered
            /\ UNCHANGED <<sess, reply, answers>>
      [] LaneState(LaneOf(c)) = "Full" ->
            /\ PushFrame(c)
            /\ tracker' = cancel(registered, c)
            /\ reply' = Answer({c}, "QueueFull")
            /\ UNCHANGED <<sess, answers>>
      [] OTHER -> Lost({c} \cup Pending(tracker))

\* A send, or an await that the tracker has registered.
Forward(c, registered) ==
    CASE LaneState(LaneOf(c)) = "ok" ->
            /\ PushFrame(c)
            /\ tracker' = registered
            /\ UNCHANGED <<sess, reply, answers>>
      [] LaneState(LaneOf(c)) = "Full" ->
            /\ tracker' = cancel(registered, c)
            /\ Refuse(c, "QueueFull")
      [] OTHER -> Lost({c} \cup Pending(tracker))

\* Mutant of handle_command: the epoch of the command is not compared.
HandleCommandAnyEpoch ==
    /\ sess = "loop"
    /\ queue # <<>>
    /\ queue' = Tail(queue)
    /\ LET c == Head(queue)
           registration == register(tracker, c, KeyOf[c], Gone)
       IN  IF c \in Gone THEN UNCHANGED <<sess, tracker, pending, reply, writerVars, answers>>
           ELSE IF c \in Sends THEN Forward(c, tracker)
           ELSE IF registration.result = "ok" THEN Forward(c, registration.tracker)
           ELSE tracker' = registration.tracker /\ Refuse(c, registration.result)
    /\ UNCHANGED <<epoch, stage, binding, cancels, answered, accepted>>

\* Mutant of handle_command: the pending change is looked for only after the
\* frame has been handed to its lane.
HandleCommandPendingLate ==
    /\ sess = "loop"
    /\ queue # <<>>
    /\ queue' = Tail(queue)
    /\ LET c == Head(queue)
           registration == register(tracker, c, KeyOf[c], Gone)
       IN  CASE c \in Gone -> UNCHANGED <<sess, tracker, pending, reply, writerVars, answers>>
             [] c \notin Gone /\ binding[c] \notin {0, epoch} ->
                    Refuse(c, "NotReady") /\ UNCHANGED tracker
             [] c \notin Gone /\ binding[c] \in {0, epoch} /\ c \in Changes /\ pending # NoCall
                  /\ LaneState(LaneOf(c)) = "ok" ->
                    /\ PushFrame(c)
                    /\ reply' = Answer({c}, "SubscriptionPending")
                    /\ UNCHANGED <<sess, tracker, answers>>
             [] OTHER ->
                    IF c \in Sends THEN Forward(c, tracker)
                    ELSE IF registration.result = "ok" THEN Forward(c, registration.tracker)
                    ELSE tracker' = registration.tracker /\ Refuse(c, registration.result)
    /\ UNCHANGED <<epoch, stage, binding, cancels, answered, accepted>>

\* handle_command.  The tests come in this order, and the await is registered
\* before its frame can reach the writer.
handle_command ==
    /\ sess = "loop"
    /\ queue # <<>>
    /\ queue' = Tail(queue)
    /\ LET c == Head(queue)
           registration == register(tracker, c, KeyOf[c], Gone)
       IN  CASE c \in Gone -> UNCHANGED <<sess, tracker, pending, reply, writerVars, answers>>
             [] c \notin Gone /\ binding[c] \notin {0, epoch} ->
                    Refuse(c, "NotReady") /\ UNCHANGED tracker
             [] c \notin Gone /\ binding[c] \in {0, epoch} /\ c \in Changes /\ pending # NoCall ->
                    Refuse(c, "SubscriptionPending") /\ UNCHANGED tracker
             [] OTHER ->
                    IF c \in Sends THEN Forward(c, tracker)
                    ELSE IF registration.result = "ok" THEN Forward(c, registration.tracker)
                    ELSE tracker' = registration.tracker /\ Refuse(c, registration.result)
    /\ UNCHANGED <<epoch, stage, binding, cancels, answered, accepted>>

\* Mutant of HandleCancel: the id is taken from the channel and ignored.
HandleCancelIgnored ==
    /\ sess = "loop"
    /\ cancels # <<>>
    /\ cancels' = Tail(cancels)
    /\ UNCHANGED <<sess, epoch, tracker, pending, callVars, queue, writerVars, peerVars, accepted>>

\* The cancel branch of the loop.
HandleCancel ==
    /\ sess = "loop"
    /\ cancels # <<>>
    /\ cancels' = Tail(cancels)
    /\ tracker' = cancel(tracker, Head(cancels))
    /\ UNCHANGED <<sess, epoch, pending, callVars, queue, writerVars, peerVars, accepted>>

\* handle_ws_read of an answer: it goes to whoever awaits its correlation key.
\* An unreadable answer resolves the await if its request id could be read, and
\* acknowledges nothing.
ReadAnswer(c) ==
    /\ sess = "loop"
    /\ c \in answers
    /\ answers' = answers \ {c}
    /\ LET waits == c \in Awaits /\ Taken(tracker, KeyOf[c])
           taker == tracker.by_key[KeyOf[c]]
       IN  \/ /\ pending' = IF pending = c THEN NoCall ELSE pending
              /\ reply' = IF waits THEN Answer({taker}, "response") ELSE reply
              /\ tracker' = IF waits THEN cancel(tracker, taker) ELSE tracker
           \/ /\ waits /\ c \notin Quotes
              /\ reply' = Answer({taker}, "UnreadableResponse")
              /\ tracker' = cancel(tracker, taker)
              /\ UNCHANGED pending
    /\ UNCHANGED <<sess, epoch, stage, binding, chanVars, writerVars, answered, accepted>>

\* The ping timer, or the answer to a challenge; a full lane skips the ping.
Ping ==
    /\ Keepalive
    /\ sess = "loop"
    /\ LaneState(control) = "ok"
    /\ control' = [control EXCEPT ![epoch] = Append(@, "Ping")]
    /\ UNCHANGED <<sess, epoch, tracker, pending, callVars, chanVars, data, lanes, writer,
                   frame, abort, wire, peerVars, accepted>>
------------------------------------------------------------------------------
(* The end of a session *)

\* Gap, read error, missed deadline, dead writer.
LoopLost ==
    /\ sess = "loop"
    /\ Lost(Pending(tracker))
    /\ UNCHANGED <<epoch, stage, binding, chanVars, answered, accepted>>

\* lanes.close (a requested close) and lanes.stop (a server rejection): one more
\* command on the control lane, or an abort when it does not fit.
LoopStops(next, command) ==
    /\ sess = "loop"
    /\ sess' = next
    /\ lanes' = [lanes EXCEPT ![epoch] = FALSE]
    /\ IF LaneState(control) = "ok"
       THEN control' = [control EXCEPT ![epoch] = Append(@, command)] /\ UNCHANGED abort
       ELSE abort' = [abort EXCEPT ![epoch] = TRUE] /\ UNCHANGED control
    /\ UNCHANGED <<epoch, tracker, pending, callVars, chanVars, data, writer, frame, wire,
                   peerVars, accepted>>

LoopClosed == LoopStops("closing", "Close")
LoopRejected == LoopStops("stopping", "Stop")

\* write_timeout passed before the writer ended.
StopTimeout ==
    /\ sess \in {"closing", "stopping"}
    /\ writer[epoch] # "ended"
    /\ ~abort[epoch]
    /\ abort' = [abort EXCEPT ![epoch] = TRUE]
    /\ UNCHANGED <<sess, epoch, tracker, pending, callVars, chanVars, control, data, lanes,
                   writer, frame, wire, peerVars, accepted>>

\* The task returns: its channels go with it.
DropChannels ==
    /\ sess' = "closed"
    /\ queue' = <<>>
    /\ cancels' = <<>>

\* The writer task has been joined: a requested close is final.
WriterJoined ==
    /\ sess \in {"closing", "stopping"}
    /\ writer[epoch] = "ended"
    /\ \/ /\ sess = "closing"
          /\ DrainAll(Pending(tracker) \cup Range(queue))
          /\ DropChannels
       \/ /\ sess = "stopping"
          /\ DrainAll(Pending(tracker))
          /\ sess' = "window"
          /\ UNCHANGED chanVars
    /\ UNCHANGED <<epoch, stage, binding, writerVars, answered, accepted>>
------------------------------------------------------------------------------
(* Between sessions *)

\* A connection is through authentication and the readiness barrier: Ready is
\* published and its writer is spawned.
BecomeReady ==
    /\ sess = "connecting"
    /\ epoch < MaxEpoch
    /\ epoch' = epoch + 1
    /\ sess' = "loop"
    /\ lanes' = [lanes EXCEPT ![epoch + 1] = TRUE]
    /\ writer' = [writer EXCEPT ![epoch + 1] = "idle"]
    /\ UNCHANGED <<tracker, pending, callVars, chanVars, control, data, frame, abort,
                   wire, peerVars, accepted>>

\* The connection attempt, authentication or readiness failed.
StartFails ==
    /\ sess = "connecting"
    /\ sess' = "window"
    /\ UNCHANGED <<epoch, tracker, pending, callVars, chanVars, writerVars, peerVars, accepted>>

\* Mutant of WindowCommand: the window does not listen to commands.
WindowKeepsCommands ==
    /\ sess = "window"
    /\ queue # <<>>
    /\ UNCHANGED vars

\* wait_reconnect_window answers commands instead of keeping them.
WindowCommand ==
    /\ sess = "window"
    /\ queue # <<>>
    /\ queue' = Tail(queue)
    /\ reply' = Answer({Head(queue)}, "Disconnected")
    /\ UNCHANGED <<sess, epoch, tracker, pending, stage, binding, cancels, writerVars, peerVars, accepted>>

WindowCancel ==
    /\ sess = "window"
    /\ cancels # <<>>
    /\ cancels' = Tail(cancels)
    /\ UNCHANGED <<sess, epoch, tracker, pending, callVars, queue, writerVars, peerVars, accepted>>

WindowElapsed ==
    /\ sess = "window"
    /\ sess' = "connecting"
    /\ UNCHANGED <<epoch, tracker, pending, callVars, chanVars, writerVars, peerVars, accepted>>

\* By request, at a limit or for a final rejection.
Terminate ==
    /\ sess \in {"connecting", "window"}
    /\ DropChannels
    /\ reply' = Answer(Range(queue), "Disconnected")
    /\ UNCHANGED <<epoch, tracker, pending, stage, binding, writerVars, peerVars, accepted>>

\* Unwinding drops the channels, the tracker and the lanes; nobody aborts the
\* writer, which writes what it still has and then ends.
Panic ==
    /\ sess # "closed"
    /\ DropChannels
    /\ DrainAll(Pending(tracker) \cup Range(queue))
    /\ lanes' = [e \in Epochs |-> FALSE]
    /\ UNCHANGED <<epoch, stage, binding, control, data, writer, frame, abort, wire,
                   answered, accepted>>
------------------------------------------------------------------------------
(* The writer task of connection e, and the peer *)

\* The task is over: both receivers are dropped with what is in them.
WriterOver(e, replies) ==
    /\ writer' = [writer EXCEPT ![e] = "ended"]
    /\ frame' = [frame EXCEPT ![e] = NoCall]
    /\ control' = [control EXCEPT ![e] = <<>>]
    /\ data' = [data EXCEPT ![e] = <<>>]
    /\ reply' = [c \in Calls |->
                    IF replies[c] = "none" /\ c \in Dropped(control[e] \o data[e] \o <<frame[e]>>)
                    THEN "Disconnected" ELSE replies[c]]
    /\ UNCHANGED <<sess, epoch, tracker, pending, stage, binding, chanVars, lanes, abort,
                   peerVars, accepted>>

\* The control lane is served first.
NextLane(e) == IF control[e] # <<>> THEN control[e] ELSE data[e]

WriterTake(e) ==
    /\ writer[e] = "idle"
    /\ NextLane(e) # <<>>
    /\ Head(NextLane(e)) \notin {"Close", "Stop"}
    /\ writer' = [writer EXCEPT ![e] = "busy"]
    /\ frame' = [frame EXCEPT ![e] = Head(NextLane(e))]
    /\ IF control[e] # <<>>
       THEN control' = [control EXCEPT ![e] = Tail(@)] /\ UNCHANGED data
       ELSE data' = [data EXCEPT ![e] = Tail(@)] /\ UNCHANGED control
    /\ UNCHANGED <<sess, epoch, tracker, pending, callVars, chanVars, lanes, abort, wire,
                   peerVars, accepted>>

\* Close, Stop, or both lanes dropped and drained.
WriterStops(e) ==
    /\ writer[e] = "idle"
    /\ IF NextLane(e) = <<>> THEN ~lanes[e] ELSE Head(NextLane(e)) \in {"Close", "Stop"}
    /\ WriterOver(e, reply)
    /\ UNCHANGED wire

\* The frame a writer was writing may or may not have reached the peer.
Reached(e) == wire' = [wire EXCEPT ![e] = IF frame[e] \in Calls THEN Append(@, frame[e]) ELSE @]

WriterWrote(e) ==
    /\ writer[e] = "busy"
    /\ writer' = [writer EXCEPT ![e] = "idle"]
    /\ frame' = [frame EXCEPT ![e] = NoCall]
    /\ Reached(e)
    /\ reply' = Answer({frame[e]} \cap Sends, "ok")
    /\ UNCHANGED <<sess, epoch, tracker, pending, stage, binding, chanVars, control, data,
                   lanes, abort, peerVars, accepted>>

\* Mutant of WriterFailed: the ticket is answered as if the write was done.
WriterFailedUnnoticed(e) ==
    /\ writer[e] = "busy"
    /\ WriterOver(e, Answer({frame[e]} \cap Sends, "ok"))
    /\ Reached(e) \/ UNCHANGED wire

\* The sink failed or write_timeout passed.
WriterFailed(e) ==
    /\ writer[e] = "busy"
    /\ WriterOver(e, Answer({frame[e]} \cap Sends, "WriteFailed"))
    /\ Reached(e) \/ UNCHANGED wire

\* The abort takes effect at a suspension point of the task.
WriterAborted(e) ==
    /\ abort[e]
    /\ writer[e] \in {"idle", "busy"}
    /\ WriterOver(e, reply)
    /\ Reached(e) \/ UNCHANGED wire

\* The peer answers a frame it has received on the current connection.
PeerAnswers(c) ==
    /\ sess = "loop"
    /\ c \in (Range(wire[epoch]) \cap (Awaits \cup Changes)) \ answered
    /\ answers' = answers \cup {c}
    /\ answered' = answered \cup {c}
    /\ UNCHANGED <<sess, epoch, tracker, pending, callVars, chanVars, writerVars, accepted>>

\* Nothing is left to do.
Finished ==
    /\ sess = "closed"
    /\ \A c \in Calls : reply[c] # "none"
    /\ \A e \in Epochs : writer[e] \in {"none", "ended"}
    /\ UNCHANGED vars

Caller(c) ==
    Issue(c) \/ Enqueue(c) \/ EnqueueRefused(c) \/ AwaitTimeout(c) \/ Abandon(c)
Loop == handle_command \/ HandleCancel \/ Ping \/ LoopLost \/ LoopClosed \/ LoopRejected
SessionEnds == StopTimeout \/ WriterJoined \/ Terminate \/ Panic
Between == BecomeReady \/ StartFails \/ WindowCommand \/ WindowCancel \/ WindowElapsed
Writer(e) ==
    WriterTake(e) \/ WriterStops(e) \/ WriterWrote(e) \/ WriterFailed(e) \/ WriterAborted(e)

Next ==
    \/ \E c \in Calls : Caller(c) \/ ReadAnswer(c) \/ PeerAnswers(c)
    \/ \E e \in Epochs : Writer(e)
    \/ Loop
    \/ SessionEnds
    \/ Between
    \/ Finished

Spec == Init /\ [][Next]_vars

\* Callers and the writer run on their own; waits between sessions and for the
\* writer have deadlines; in the loop a branch that stays ready is taken.  A
\* window polls the queue at least once before its sleep can elapse, so a command
\* is not passed over by window after window.
Fairness ==
    /\ \A c \in Calls : WF_vars(Enqueue(c) \/ EnqueueRefused(c))
    /\ \A e \in Epochs : WF_vars(Writer(e))
    /\ WF_vars(handle_command)
    /\ WF_vars(HandleCancel)
    /\ WF_vars(LoopLost /\ writer[epoch] = "ended")
    /\ WF_vars(StopTimeout \/ WriterJoined)
    /\ WF_vars(BecomeReady \/ StartFails \/ WindowElapsed)
    /\ SF_vars(WindowCommand)

FairSpec == Spec /\ Fairness
------------------------------------------------------------------------------
(* Properties *)

Replies == {"none", "ok", "response", "NotReady", "QueueFull", "Closed", "Disconnected",
            "SubscriptionPending", "TooManyPending", "DuplicateInFlight",
            "WriteFailed", "UnreadableResponse", "Timeout", "Abandoned"}

\* Every variable has its type; the queue and both lanes of every connection
\* keep to command_buffer.
TypeOK ==
    /\ sess \in {"connecting", "loop", "closing", "stopping", "window", "closed"}
    /\ epoch \in 0..MaxEpoch
    /\ Pending(tracker) \subseteq Awaits
    /\ pending \in Changes \cup {NoCall}
    /\ stage \in [Calls -> {"idle", "issued", "sent", "done"}]
    /\ binding \in [Calls -> 0..MaxEpoch]
    /\ reply \in [Calls -> Replies]
    /\ queue \in Seq(Calls) /\ Len(queue) <= CommandBuffer
    /\ cancels \in Seq(Awaits)
    /\ \A e \in Epochs :
          /\ data[e] \in Seq(Calls) /\ Len(data[e]) <= CommandBuffer
          /\ control[e] \in Seq(Calls \cup {"Ping", "Close", "Stop"})
          /\ Len(control[e]) <= CommandBuffer
          /\ writer[e] \in {"none", "idle", "busy", "ended"}
          /\ frame[e] \in Calls \cup {"Ping", NoCall}
          /\ wire[e] \in Seq(Calls)
    /\ answers \subseteq answered

Contains(seq, x) == \E i \in 1..Len(seq) : seq[i] = x

\* Where the frame of a call is or was: on the wire, in a writer or in a lane.
OnWire(c) == {e \in Epochs : Contains(wire[e], c)}
InLanes(c) == {e \in Epochs : \/ frame[e] = c
                              \/ Contains(control[e], c)
                              \/ Contains(data[e], c)}

\* A command bound to an epoch is written on that connection or not at all,
\* whatever reconnects happen between reading the epoch and the write; and no
\* command is ever written twice, on one connection or on two.
EpochFence ==
    \A c \in Calls :
        /\ binding[c] # 0 => OnWire(c) \cup InLanes(c) \subseteq {binding[c]}
        /\ Cardinality(OnWire(c) \cup InLanes(c)) <= 1
        /\ \A e \in Epochs : Cardinality({i \in DOMAIN wire[e] : wire[e][i] = c}) <= 1

\* A caller that is told its command was refused can rely on it: the frame has
\* not reached the peer and nothing is left that could still write it.
RefusedIsNotSent ==
    \A c \in Calls :
        reply[c] \in {"NotReady", "QueueFull", "Closed", "SubscriptionPending",
                     "TooManyPending", "DuplicateInFlight"} =>
            OnWire(c) \cup InLanes(c) = {} /\ ~Contains(queue, c)

\* A ticket that says ok is a frame on the wire, and an await that is answered
\* was answered for a frame with its own correlation key.
AnswersAreTrue ==
    \A c \in Calls :
        /\ reply[c] = "ok" => OnWire(c) # {}
        /\ reply[c] = "response" =>
              \E d \in answered \cap Awaits : KeyOf[d] = KeyOf[c]

\* The index of the tracker agrees with its entries, and no entry survives its
\* session.
TrackerSound ==
    /\ Consistent(tracker)
    /\ sess \notin {"loop", "closing", "stopping"} => Pending(tracker) = {}

\* Frames of the data lane reach the peer in the order their commands were
\* queued: a quote and its later cancellation cannot change places.
DataFrameOrder ==
    \A e \in Epochs : \A i, j \in DOMAIN wire[e] :
        i <= j /\ {wire[e][i], wire[e][j]} \cap Control = {} =>
            \E k, l \in DOMAIN accepted : /\ accepted[k] = wire[e][i] /\ accepted[l] = wire[e][j]
                                          /\ i < j => k < l

\* A request is refused as a duplicate or as one too many only because of
\* requests whose callers are still waiting: those that gave up, cancelled or
\* not, are pruned first.
OnlyLiveRequestsRefuse ==
    [][ \A c \in Awaits :
          LET live == {d \in Pending(tracker) : reply[d] = "none"} IN
          reply[c] = "none" =>
            /\ reply'[c] = "TooManyPending" => Cardinality(live) >= MaxPending
            /\ reply'[c] = "DuplicateInFlight" => \E d \in live : KeyOf[d] = KeyOf[c]
      ]_vars

\* Every send is answered: no queue, lane, window, dead writer, close or panic
\* leaves its ticket waiting for ever.
EverySendIsAnswered ==
    \A c \in Sends : (stage[c] \in {"issued", "sent"}) ~> (reply[c] # "none")

\* The entry of a request that timed out does not stay in the tracker.
TimedOutIsForgotten ==
    \A c \in Awaits : (reply[c] = "Timeout") ~> (c \notin Pending(tracker))
==============================================================================
