-------------------------- MODULE CommandPathProofs --------------------------
(***************************************************************************)
(* What becomes of a command, for any calls, buffers, limits and number of *)
(* connections.  The argument is about places: a call that is accepted is  *)
(* in the queue, in a lane, in a writer or on a wire, in one of them only, *)
(* and moves from one to the next; and of two on the same way, the one     *)
(* accepted first stays ahead.                                             *)
(***************************************************************************)
EXTENDS CommandPath, TLAPS

\* Unless a leaf names its prover: Zenon for what it finds at once, SMT, and Zenon again.
USE ZenonT(2), SMTT(20), ZenonT(20)

------------------------------------------------------------------------------
(* The invariant *)

Items == Calls \cup {"Ping", "Close", "Stop"}

SessTypes ==
    /\ sess \in {"connecting", "loop", "closing", "stopping", "window", "closed"}
    /\ epoch \in 0..MaxEpoch
    /\ sess \in {"loop", "closing", "stopping"} => epoch \in Epochs
    /\ pending \in Changes \cup {NoCall}
CallTypes ==
    /\ stage \in [Calls -> {"idle", "issued", "sent", "done"}]
    /\ binding \in [Calls -> 0..MaxEpoch]
    /\ reply \in [Calls -> Replies]
QueueTypes ==
    /\ queue \in Seq(Calls) /\ Len(queue) <= CommandBuffer
    /\ cancels \in Seq(Awaits)
    /\ accepted \in Seq(Calls)
LaneTypes ==
    /\ control \in [Epochs -> Seq(Items)]
    /\ data \in [Epochs -> Seq(Calls)]
    /\ \A e \in Epochs : Len(control[e]) <= CommandBuffer /\ Len(data[e]) <= CommandBuffer
TaskTypes ==
    /\ writer \in [Epochs -> {"none", "idle", "busy", "ended"}]
    /\ frame \in [Epochs -> Calls \cup {"Ping", NoCall}]
    /\ wire \in [Epochs -> Seq(Calls)]
PeerTypes == answers \subseteq answered /\ answered \subseteq Calls

Types == SessTypes /\ CallTypes /\ QueueTypes /\ LaneTypes /\ TaskTypes /\ PeerTypes

\* The places of a call; the queue is one place for all connections.
Kinds == {"queue", "control", "data", "frame", "wire"}
At(c, k, e) ==
    \/ k = "queue" /\ e = 0 /\ Contains(queue, c)
    \/ k = "control" /\ e \in Epochs /\ Contains(control[e], c)
    \/ k = "data" /\ e \in Epochs /\ Contains(data[e], c)
    \/ k = "frame" /\ e \in Epochs /\ frame[e] = c
    \/ k = "wire" /\ e \in Epochs /\ Contains(wire[e], c)

Once(s, c) == \A i, j \in 1..Len(s) : s[i] = c /\ s[j] = c => i = j

\* A call is in one place, and there once.
OnePlace ==
    \A c \in Calls :
        /\ \A k, l \in Kinds, e, f \in 0..MaxEpoch : At(c, k, e) /\ At(c, l, f) => k = l /\ e = f
        /\ Once(queue, c)
        /\ \A e \in Epochs : Once(control[e], c) /\ Once(data[e], c) /\ Once(wire[e], c)

Refusals == {"NotReady", "QueueFull", "Closed", "SubscriptionPending",
             "TooManyPending", "DuplicateInFlight"}

\* Only a call that was queued and not refused is in a place, and beyond the queue
\* only at the connection it was bound to.
Placed ==
    \A c \in Calls, k \in Kinds, e \in 0..MaxEpoch :
        At(c, k, e) => /\ stage[c] = "sent"
                       /\ reply[c] \notin Refusals
                       /\ k = "queue" \/ binding[c] \in {0, e}

PlaceInv == Types /\ OnePlace /\ Placed

------------------------------------------------------------------------------
(* Sequences *)

LEMMA AppendFacts ==
    ASSUME NEW S, NEW s \in Seq(S), NEW x \in S
    PROVE  /\ Append(s, x) \in Seq(S) /\ Len(Append(s, x)) = Len(s) + 1
           /\ \A c : Contains(Append(s, x), c) => Contains(s, c) \/ c = x
           /\ \A c : Contains(s, c) \/ c = x => Contains(Append(s, x), c)
           /\ \A c : Once(s, c) /\ ~(c = x /\ Contains(s, x)) => Once(Append(s, x), c)
<1>1. Append(s, x) \in Seq(S) /\ Len(Append(s, x)) = Len(s) + 1 /\ Len(s) \in Nat
  OBVIOUS
<1>2. \A i \in 1..Len(Append(s, x)) : IF i = Len(s) + 1 THEN Append(s, x)[i] = x
                                       ELSE i \in 1..Len(s) /\ Append(s, x)[i] = s[i]
  OBVIOUS
<1>3. \A i \in 1..Len(s) : i \in 1..Len(Append(s, x)) /\ i # Len(s) + 1
  BY <1>1
<1>4. Len(s) + 1 \in 1..Len(Append(s, x))
  BY <1>1
<1>5. \A c : Contains(Append(s, x), c) => Contains(s, c) \/ c = x
  BY <1>2 DEF Contains
<1>6. \A c : Contains(s, c) \/ c = x => Contains(Append(s, x), c)
  BY <1>2, <1>3, <1>4 DEF Contains
<1>7. \A c : Once(s, c) /\ ~(c = x /\ Contains(s, x)) => Once(Append(s, x), c)
  BY <1>2 DEF Contains, Once
<1> QED
  BY <1>1, <1>5, <1>6, <1>7

LEMMA TailFacts ==
    ASSUME NEW S, NEW s \in Seq(S), s # <<>>
    PROVE  /\ Head(s) \in S /\ Contains(s, Head(s))
           /\ Tail(s) \in Seq(S) /\ Len(Tail(s)) = Len(s) - 1
           /\ \A c : Contains(Tail(s), c) => Contains(s, c)
           /\ \A c : Contains(s, c) => Contains(Tail(s), c) \/ c = Head(s)
           /\ \A c : Once(s, c) => Once(Tail(s), c)
           /\ Once(s, Head(s)) => ~Contains(Tail(s), Head(s))
<1>1. Len(s) \in Nat /\ Len(s) > 0
  OBVIOUS
<1>2. Head(s) \in S /\ Contains(s, Head(s)) /\ Tail(s) \in Seq(S) /\ Len(Tail(s)) = Len(s) - 1
  BY <1>1 DEF Contains
<1>3. \A i \in 1..Len(Tail(s)) : i + 1 \in 1..Len(s) /\ Tail(s)[i] = s[i + 1]
  BY <1>1
<1>4. \A i \in 1..Len(s) : i = 1 \/ (i - 1 \in 1..Len(Tail(s)) /\ s[i] = Tail(s)[i - 1])
  BY <1>1
<1>5. \A c : Contains(Tail(s), c) => Contains(s, c)
  BY <1>3 DEF Contains
<1>6. \A c : Contains(s, c) => Contains(Tail(s), c) \/ c = Head(s)
  BY <1>4 DEF Contains
<1>7. \A c : Once(s, c) => Once(Tail(s), c)
  <2> SUFFICES ASSUME NEW c, Once(s, c), NEW i \in 1..Len(Tail(s)), NEW j \in 1..Len(Tail(s)),
                      Tail(s)[i] = c, Tail(s)[j] = c
               PROVE  i = j
    BY DEF Once
  <2>1. i + 1 = j + 1
    BY <1>3 DEF Once
  <2> QED
    BY <2>1
<1>8. Once(s, Head(s)) => ~Contains(Tail(s), Head(s))
  <2> SUFFICES ASSUME Once(s, Head(s)), NEW i \in 1..Len(Tail(s)), Tail(s)[i] = Head(s)
               PROVE  FALSE
    BY DEF Contains
  <2>1. i + 1 \in 1..Len(s) /\ s[i + 1] = Head(s) /\ 1 \in 1..Len(s) /\ s[1] = Head(s) /\ i + 1 # 1
    BY <1>1, <1>3
  <2> QED
    BY <2>1 DEF Once
<1> QED
  BY <1>2, <1>5, <1>6, <1>7, <1>8

LEMMA EmptyFacts ==
    ASSUME NEW S
    PROVE  /\ <<>> \in Seq(S) /\ Len(<<>>) = 0
           /\ \A c : ~Contains(<<>>, c) /\ Once(<<>>, c)
BY DEF Contains, Once

------------------------------------------------------------------------------
(* What a step does, action by action *)

LEMMA ForwardFacts ==
    ASSUME NEW c, NEW r, Forward(c, r)
    PROVE  \/ /\ LaneState(LaneOf(c)) = "ok"
              /\ PushFrame(c) /\ tracker' = r /\ UNCHANGED <<sess, reply, answers>>
           \/ tracker' = cancel(r, c) /\ Refuse(c, "QueueFull")
           \/ Lost({c} \cup Pending(tracker))
<1>1. CASE LaneState(LaneOf(c)) = "ok"
  BY <1>1, Zenon DEF Forward
<1>2. CASE LaneState(LaneOf(c)) = "Full"
  <2>1. LaneState(LaneOf(c)) # "ok"
    BY <1>2
  <2> QED
    BY <1>2, <2>1, Zenon DEF Forward
<1>3. CASE LaneState(LaneOf(c)) \notin {"ok", "Full"}
  BY <1>3, Zenon DEF Forward
<1> QED
  BY <1>1, <1>2, <1>3

\* The tracker after a command that awaits, and what register said of it.
Registered(c) == register(tracker, c, KeyOf[c], Gone)

\* The four things that can become of a command taken from the queue.
Skips == UNCHANGED <<sess, tracker, pending, reply, control, data, lanes, writer, frame, abort, wire, answers>>
Refuses(c) ==
    /\ \E why \in Refusals : /\ reply' = Answer({c}, why)
                             /\ why \in {"TooManyPending", "DuplicateInFlight"} =>
                                   c \in Awaits /\ Registered(c).result = why
    /\ UNCHANGED <<sess, pending, control, data, lanes, writer, frame, abort, wire, answers>>
    /\ \/ tracker' = tracker
       \/ c \in Sends /\ tracker' = cancel(tracker, c)
       \/ c \in Awaits /\ tracker' = Registered(c).tracker /\ Registered(c).result # "ok"
       \/ c \in Awaits /\ Registered(c).result = "ok" /\ tracker' = cancel(Registered(c).tracker, c)
Pushes(c) ==
    /\ c \notin Gone
    /\ binding[c] \in {0, epoch}
    /\ LaneState(LaneOf(c)) = "ok"
    /\ PushFrame(c)
    /\ UNCHANGED <<sess, reply, answers>>
    /\ \/ c \in Sends /\ tracker' = tracker
       \/ c \in Awaits /\ Registered(c).result = "ok" /\ tracker' = Registered(c).tracker

LEMMA RegisterResults ==
    ASSUME NEW t, NEW id, NEW key, NEW closed
    PROVE  register(t, id, key, closed).result \in {"ok", "TooManyPending", "DuplicateInFlight"}
BY DEF register

LEMMA HandleFacts ==
    ASSUME Types, handle_command
    PROVE  /\ sess = "loop" /\ epoch \in Epochs
           /\ queue # <<>> /\ Head(queue) \in Calls
           /\ queue' = Tail(queue)
           /\ UNCHANGED <<epoch, stage, binding, cancels, answered, accepted>>
           /\ \/ Skips
              \/ Refuses(Head(queue))
              \/ Pushes(Head(queue))
              \/ Lost({Head(queue)} \cup Pending(tracker))
<1> DEFINE c == Head(queue)
<1>1. /\ sess = "loop" /\ queue # <<>> /\ queue' = Tail(queue)
      /\ UNCHANGED <<epoch, stage, binding, cancels, answered, accepted>>
  BY Zenon DEF handle_command
<1>2. epoch \in Epochs
  BY <1>1 DEF Types, SessTypes
<1>3. c \in Calls
  BY <1>1, TailFacts DEF Types, QueueTypes
<1>4. ASSUME NEW why \in Refusals, Refuse(c, why)
      PROVE  /\ reply' = Answer({c}, why)
             /\ UNCHANGED <<sess, pending, control, data, lanes, writer, frame, abort, wire, answers>>
  BY <1>4 DEF Refuse, writerVars
<1>5. CASE c \in Gone
  <2>1. UNCHANGED <<sess, tracker, pending, reply, writerVars, answers>>
    BY <1>5, Zenon DEF handle_command
  <2> QED
    BY <1>1, <1>2, <1>3, <2>1 DEF Skips, writerVars
<1>6. CASE c \notin Gone /\ binding[c] \notin {0, epoch}
  <2>1. Refuse(c, "NotReady") /\ UNCHANGED tracker
    BY <1>6, Zenon DEF handle_command
  <2>2. Refuses(c)
    BY <1>4, <2>1 DEF Refuses, Refusals
  <2> QED
    BY <1>1, <1>2, <1>3, <2>2
<1>7. CASE c \notin Gone /\ binding[c] \in {0, epoch} /\ c \in Changes /\ pending # NoCall
  <2>1. Refuse(c, "SubscriptionPending") /\ UNCHANGED tracker
    BY <1>7, Zenon DEF handle_command
  <2>2. Refuses(c)
    BY <1>4, <2>1 DEF Refuses, Refusals
  <2> QED
    BY <1>1, <1>2, <1>3, <2>2
<1>8. CASE c \notin Gone /\ binding[c] \in {0, epoch} /\ ~(c \in Changes /\ pending # NoCall)
  <2>1. IF c \in Sends THEN Forward(c, tracker)
        ELSE IF Registered(c).result = "ok" THEN Forward(c, Registered(c).tracker)
        ELSE tracker' = Registered(c).tracker /\ Refuse(c, Registered(c).result)
    BY <1>8, Zenon DEF handle_command, Registered
  <2>2. CASE c \in Sends
    <3>1. Forward(c, tracker)
      BY <2>1, <2>2
    <3>2. \/ Pushes(c)
          \/ Refuses(c)
          \/ Lost({c} \cup Pending(tracker))
      BY <1>4, <1>8, <2>2, <3>1, ForwardFacts, Zenon DEF Pushes, Refuses, Refusals
    <3> QED
      BY <1>1, <1>2, <1>3, <3>2
  <2>3. CASE c \notin Sends /\ Registered(c).result = "ok"
    <3>1. Forward(c, Registered(c).tracker) /\ c \in Awaits
      BY <1>3, <2>1, <2>3 DEF Sends
    <3>2. \/ Pushes(c)
          \/ Refuses(c)
          \/ Lost({c} \cup Pending(tracker))
      BY <1>4, <1>8, <2>3, <3>1, ForwardFacts DEF Pushes, Refuses, Refusals
    <3> QED
      BY <1>1, <1>2, <1>3, <3>2
  <2>4. CASE c \notin Sends /\ Registered(c).result # "ok"
    <3>1. Registered(c).result \in Refusals /\ c \in Awaits
      BY <1>3, <2>4, RegisterResults DEF Registered, Refusals, Sends
    <3>2. Refuses(c)
      BY <1>4, <2>1, <2>4, <3>1 DEF Refuses
    <3> QED
      BY <1>1, <1>2, <1>3, <3>2
  <2> QED
    BY <2>2, <2>3, <2>4
<1> QED
  BY <1>5, <1>6, <1>7, <1>8

\* The writer of a connection ends: its lanes and its frame are dropped, and only
\* sends are answered by that.
LEMMA OverFacts ==
    ASSUME Types, NEW e \in Epochs, WriterStops(e) \/ WriterFailed(e) \/ WriterAborted(e)
    PROVE  /\ writer' = [writer EXCEPT ![e] = "ended"]
           /\ frame' = [frame EXCEPT ![e] = NoCall]
           /\ control' = [control EXCEPT ![e] = <<>>]
           /\ data' = [data EXCEPT ![e] = <<>>]
           /\ wire' \in {wire, [wire EXCEPT ![e] = IF frame[e] \in Calls THEN Append(@, frame[e]) ELSE @]}
           /\ reply' \in [Calls -> Replies]
           /\ \A c \in Calls : reply'[c] = reply[c]
                 \/ (c \in Sends /\ reply[c] = "none" /\ reply'[c] \in {"Disconnected", "WriteFailed"})
           /\ UNCHANGED <<sess, epoch, tracker, pending, stage, binding, queue, cancels, lanes, abort,
                          answers, answered, accepted>>
<1>1. \E replies \in {reply, Answer({frame[e]} \cap Sends, "WriteFailed")} : WriterOver(e, replies)
  BY DEF WriterStops, WriterFailed, WriterAborted
<1>2. Reached(e) \/ wire' = wire
  BY DEF WriterStops, WriterFailed, WriterAborted
<1>3. PICK replies \in {reply, Answer({frame[e]} \cap Sends, "WriteFailed")} : WriterOver(e, replies)
  BY <1>1
<1>4. /\ replies \in [Calls -> Replies]
      /\ \A c \in Calls : replies[c] = reply[c] \/ (c \in Sends /\ reply[c] = "none" /\ replies[c] = "WriteFailed")
  <2>1. reply \in [Calls -> Replies] /\ "WriteFailed" \in Replies
    BY DEF Types, CallTypes, Replies
  <2> QED
    BY <2>1 DEF Answer
<1>5. /\ \A c \in Calls : reply'[c] = replies[c] \/ (c \in Sends /\ replies[c] = "none" /\ reply'[c] = "Disconnected")
      /\ reply' \in [Calls -> Replies]
  <2>1. "Disconnected" \in Replies
    BY DEF Replies
  <2> QED
    BY <1>3, <1>4, <2>1 DEF WriterOver, Dropped
<1>6. \A c \in Calls : reply'[c] = reply[c]
                 \/ (c \in Sends /\ reply[c] = "none" /\ reply'[c] \in {"Disconnected", "WriteFailed"})
  BY <1>4, <1>5
<1>7. /\ writer' = [writer EXCEPT ![e] = "ended"]
      /\ frame' = [frame EXCEPT ![e] = NoCall]
      /\ control' = [control EXCEPT ![e] = <<>>]
      /\ data' = [data EXCEPT ![e] = <<>>]
      /\ UNCHANGED <<sess, epoch, tracker, pending, stage, binding, queue, cancels, lanes, abort,
                     answers, answered, accepted>>
  BY <1>3 DEF WriterOver, chanVars, peerVars
<1> QED
  BY <1>2, <1>5, <1>6, <1>7 DEF Reached
------------------------------------------------------------------------------
(* Types *)

\* Callers are answered once: an answer changes only the reply of one that waits.
LEMMA AnswerFacts ==
    ASSUME CallTypes, NEW S, NEW what \in Replies
    PROVE  /\ Answer(S, what) \in [Calls -> Replies]
           /\ \A c \in Calls : Answer(S, what)[c] = reply[c]
                 \/ (c \in S /\ reply[c] = "none" /\ Answer(S, what)[c] = what)
BY DEF CallTypes, Answer

LEMMA ReplyNames ==
    /\ {"none", "ok", "response", "NotReady", "QueueFull", "Closed", "Disconnected", "SubscriptionPending",
        "TooManyPending", "DuplicateInFlight", "WriteFailed", "UnreadableResponse", "Timeout", "Abandoned"} = Replies
    /\ Refusals \subseteq Replies
BY DEF Replies, Refusals

LEMMA Bounds == CommandBuffer \in Nat /\ CommandBuffer > 0 /\ MaxEpoch \in Nat /\ MaxEpoch > 0
<1>1. CommandBuffer \in Nat \ {0} /\ MaxEpoch \in Nat \ {0}
  BY CommandAssumption, Zenon
<1> QED
  BY <1>1

LEMMA CallerTypes ==
    ASSUME Types, NEW c \in Calls, Caller(c)
    PROVE  Types'
<1>1. UNCHANGED <<sess, epoch, pending, control, data, writer, frame, wire, answers, answered>>
  BY DEF Caller, Issue, Enqueue, EnqueueRefused, AwaitTimeout, Abandon, writerVars, peerVars
<1>2. SessTypes' /\ PeerTypes'
  BY <1>1 DEF Types, SessTypes, PeerTypes
<1>3. LaneTypes' /\ TaskTypes'
  BY <1>1 DEF Types, LaneTypes, TaskTypes
<1>4. CallTypes /\ QueueTypes /\ epoch \in 0..MaxEpoch
  BY DEF Types, SessTypes
<1>5. CallTypes'
  <2>1. CASE Issue(c)
    <3>1. reply' \in {reply, Answer({c}, "NotReady")} /\ stage' \in {[stage EXCEPT ![c] = "done"], [stage EXCEPT ![c] = "issued"]}
          /\ binding' \in {binding, [binding EXCEPT ![c] = epoch], [binding EXCEPT ![c] = 0]}
      BY <2>1 DEF Issue
    <3>2. reply' \in [Calls -> Replies]
      BY <1>4, <3>1, AnswerFacts, ReplyNames DEF CallTypes
    <3>3. stage' \in [Calls -> {"idle", "issued", "sent", "done"}]
      BY <1>4, <3>1 DEF CallTypes
    <3>4. binding' \in [Calls -> 0..MaxEpoch]
      <4>1. 0 \in 0..MaxEpoch /\ binding \in [Calls -> 0..MaxEpoch]
        BY <1>4, Bounds DEF CallTypes
      <4> QED
        BY <1>4, <3>1, <4>1
    <3> QED
      BY <3>2, <3>3, <3>4 DEF CallTypes
  <2>2. CASE Enqueue(c)
    BY <1>4, <2>2 DEF Enqueue, CallTypes
  <2>3. CASE EnqueueRefused(c)
    <3>1. \E why \in {"QueueFull", "Disconnected", "Closed"} : reply' = Answer({c}, why)
      BY <2>3 DEF EnqueueRefused
    <3>2. reply' \in [Calls -> Replies]
      BY <1>4, <3>1, AnswerFacts, ReplyNames
    <3> QED
      BY <1>4, <2>3, <3>2, Zenon DEF EnqueueRefused, CallTypes
  <2>4. CASE AwaitTimeout(c) \/ Abandon(c)
    <3>1. \E why \in {"Timeout", "Abandoned"} : reply' = Answer({c}, why)
      BY <2>4 DEF AwaitTimeout, Abandon
    <3>2. reply' \in [Calls -> Replies]
      BY <1>4, <3>1, AnswerFacts, ReplyNames
    <3> QED
      BY <1>4, <2>4, <3>2 DEF AwaitTimeout, Abandon, CallTypes
  <2> QED
    BY <2>1, <2>2, <2>3, <2>4 DEF Caller
<1>6. QueueTypes'
  <2>1. CASE Enqueue(c)
    <3>1. queue' = Append(queue, c) /\ Len(queue) < CommandBuffer
          /\ accepted' \in {accepted, Append(accepted, c)} /\ cancels' = cancels
      BY <2>1 DEF Enqueue
    <3>2. queue \in Seq(Calls) /\ accepted \in Seq(Calls) /\ cancels \in Seq(Awaits)
      BY <1>4 DEF QueueTypes
    <3>3. queue' \in Seq(Calls) /\ Len(queue') = Len(queue) + 1 /\ Len(queue) \in Nat
      BY <3>1, <3>2, AppendFacts
    <3>4. accepted' \in Seq(Calls) /\ cancels' \in Seq(Awaits)
      <4>1. Append(accepted, c) \in Seq(Calls)
        BY <3>2, AppendFacts
      <4> QED
        BY <3>1, <3>2, <4>1
    <3>5. Len(queue') <= CommandBuffer
      BY <3>1, <3>3, Bounds
    <3> QED
      BY <3>3, <3>4, <3>5 DEF QueueTypes
  <2>2. CASE AwaitTimeout(c)
    <3>1. cancels' \in {cancels, Append(cancels, c)} /\ c \in Awaits /\ UNCHANGED <<queue, accepted>>
      BY <2>2 DEF AwaitTimeout
    <3>2. cancels' \in Seq(Awaits)
      <4>1. cancels \in Seq(Awaits)
        BY <1>4 DEF QueueTypes
      <4>2. Append(cancels, c) \in Seq(Awaits)
        BY <3>1, <4>1, AppendFacts
      <4> QED
        BY <3>1, <4>1, <4>2
    <3> QED
      BY <1>4, <3>1, <3>2 DEF QueueTypes
  <2>3. CASE Issue(c) \/ EnqueueRefused(c) \/ Abandon(c)
    BY <1>4, <2>3 DEF Issue, EnqueueRefused, Abandon, chanVars, QueueTypes
  <2> QED
    BY <2>1, <2>2, <2>3 DEF Caller
<1> QED
  BY <1>2, <1>3, <1>5, <1>6 DEF Types

\* A frame fits the lane it is pushed to.
LEMMA PushTypes ==
    ASSUME LaneTypes, epoch \in Epochs, NEW x \in Items, NEW lane \in {control, data},
           LaneState(lane) = "ok"
    PROVE  Len(lane[epoch]) + 1 <= CommandBuffer
<1>0. Len(lane[epoch]) \in Nat
  <2>1. lane[epoch] \in Seq(Items) \/ lane[epoch] \in Seq(Calls)
    BY DEF LaneTypes
  <2> QED
    BY <2>1
<1>1. Len(lane[epoch]) < CommandBuffer
  <2>1. ~(Len(lane[epoch]) >= CommandBuffer)
    BY DEF LaneState
  <2> QED
    BY <1>0, <2>1, Bounds
<1> QED
  BY <1>0, <1>1, Bounds

LEMMA ControlPush ==
    ASSUME LaneTypes, epoch \in Epochs, NEW x \in Items, LaneState(control) = "ok",
           control' = [control EXCEPT ![epoch] = Append(@, x)], data' = data
    PROVE  LaneTypes'
<1>1. control[epoch] \in Seq(Items) /\ Len(control[epoch]) + 1 <= CommandBuffer
  BY PushTypes DEF LaneTypes
<1>2. Append(control[epoch], x) \in Seq(Items) /\ Len(Append(control[epoch], x)) <= CommandBuffer
  BY <1>1, AppendFacts
<1> QED
  BY <1>2 DEF LaneTypes

LEMMA DataPush ==
    ASSUME LaneTypes, epoch \in Epochs, NEW x \in Calls, LaneState(data) = "ok",
           data' = [data EXCEPT ![epoch] = Append(@, x)], control' = control
    PROVE  LaneTypes'
<1>1. data[epoch] \in Seq(Calls) /\ Len(data[epoch]) + 1 <= CommandBuffer
  BY PushTypes DEF LaneTypes, Items
<1>2. Append(data[epoch], x) \in Seq(Calls) /\ Len(Append(data[epoch], x)) <= CommandBuffer
  BY <1>1, AppendFacts
<1> QED
  BY <1>2 DEF LaneTypes

LEMMA DrainTypes ==
    ASSUME Types, NEW callers, DrainAll(callers)
    PROVE  reply' \in [Calls -> Replies] /\ pending' \in Changes \cup {NoCall} /\ answers' = {}
<1>1. CallTypes
  BY DEF Types
<1> QED
  BY <1>1, AnswerFacts, ReplyNames DEF DrainAll

LEMMA LostTypes ==
    ASSUME Types, sess = "loop", NEW callers, Lost(callers),
           queue' \in {queue, Tail(queue)}, queue' \in Seq(Calls), Len(queue') <= CommandBuffer,
           UNCHANGED <<epoch, stage, binding, cancels, answered, accepted>>
    PROVE  Types'
<1>1. /\ sess' = "window" /\ UNCHANGED <<control, data, writer, frame, wire>>
      /\ reply' \in [Calls -> Replies] /\ pending' \in Changes \cup {NoCall} /\ answers' = {}
  BY DrainTypes DEF Lost
<1>2. SessTypes' /\ PeerTypes'
  BY <1>1 DEF Types, SessTypes, PeerTypes
<1>3. CallTypes'
  BY <1>1 DEF Types, CallTypes
<1>4. QueueTypes'
  BY DEF Types, QueueTypes
<1>5. LaneTypes' /\ TaskTypes'
  BY <1>1 DEF Types, LaneTypes, TaskTypes
<1> QED
  BY <1>2, <1>3, <1>4, <1>5 DEF Types

LEMMA HandleTypes ==
    ASSUME Types, handle_command
    PROVE  Types'
<1> DEFINE c == Head(queue)
<1>1. /\ sess = "loop" /\ epoch \in Epochs /\ c \in Calls /\ queue' = Tail(queue) /\ queue # <<>>
      /\ UNCHANGED <<epoch, stage, binding, cancels, answered, accepted>>
  BY HandleFacts
<1>2. queue' \in Seq(Calls) /\ Len(queue') <= CommandBuffer
  <2>1. queue \in Seq(Calls) /\ Len(queue) <= CommandBuffer
    BY DEF Types, QueueTypes
  <2>2. queue' \in Seq(Calls) /\ Len(queue') = Len(queue) - 1 /\ Len(queue) \in Nat
    BY <1>1, <2>1, TailFacts
  <2> QED
    BY <2>1, <2>2, Bounds
<1>3. QueueTypes'
  BY <1>1, <1>2 DEF Types, QueueTypes
<1>4. CASE Skips
  <2>1. SessTypes' /\ PeerTypes' /\ CallTypes'
    BY <1>1, <1>4 DEF Skips, Types, SessTypes, PeerTypes, CallTypes
  <2>2. LaneTypes' /\ TaskTypes'
    BY <1>4 DEF Skips, Types, LaneTypes, TaskTypes
  <2> QED
    BY <1>3, <2>1, <2>2 DEF Types
<1>5. CASE Refuses(c)
  <2>1. SessTypes' /\ PeerTypes'
    BY <1>1, <1>5 DEF Refuses, Types, SessTypes, PeerTypes
  <2>2. LaneTypes' /\ TaskTypes'
    BY <1>5 DEF Refuses, Types, LaneTypes, TaskTypes
  <2>3. reply' \in [Calls -> Replies]
    BY <1>5, AnswerFacts, ReplyNames DEF Refuses, Types
  <2>4. CallTypes'
    BY <1>1, <2>3 DEF Types, CallTypes
  <2> QED
    BY <1>3, <2>1, <2>2, <2>4 DEF Types
<1>6. CASE Pushes(c)
  <2>1. UNCHANGED <<sess, reply, answers, writer, frame, wire>> /\ pending' \in {pending, c} /\ (pending' = c => c \in Changes \/ pending = c)
    BY <1>6 DEF Pushes, PushFrame
  <2>2. SessTypes' /\ PeerTypes' /\ CallTypes'
    BY <1>1, <2>1 DEF Types, SessTypes, PeerTypes, CallTypes
  <2>3. TaskTypes'
    BY <2>1 DEF Types, TaskTypes
  <2>4. LaneTypes'
    <3>1. LaneTypes /\ c \in Items
      BY <1>1 DEF Types, Items
    <3>2. CASE c \in Control
      BY <1>1, <1>6, <3>1, <3>2, ControlPush DEF Pushes, PushFrame, LaneOf
    <3>3. CASE c \notin Control
      BY <1>1, <1>6, <3>1, <3>3, DataPush DEF Pushes, PushFrame, LaneOf
    <3> QED
      BY <3>2, <3>3
  <2> QED
    BY <1>3, <2>2, <2>3, <2>4 DEF Types
<1>7. CASE Lost({c} \cup Pending(tracker))
  BY <1>1, <1>2, <1>7, LostTypes
<1> QED
  BY <1>4, <1>5, <1>6, <1>7, HandleFacts

LEMMA LoopTypes ==
    ASSUME Types, HandleCancel \/ Ping \/ LoopLost \/ LoopClosed \/ LoopRejected
    PROVE  Types'
<1>1. CASE HandleCancel
  <2>1. /\ cancels # <<>> /\ cancels' = Tail(cancels)
        /\ UNCHANGED <<sess, epoch, pending, stage, binding, reply, queue, control, data, writer, frame, wire,
                       answers, answered, accepted>>
    BY <1>1 DEF HandleCancel, callVars, writerVars, peerVars
  <2>2. cancels' \in Seq(Awaits)
    BY <2>1, TailFacts DEF Types, QueueTypes
  <2>3. QueueTypes'
    BY <2>1, <2>2 DEF Types, QueueTypes
  <2>4. SessTypes' /\ CallTypes' /\ PeerTypes'
    BY <2>1 DEF Types, SessTypes, CallTypes, PeerTypes
  <2>5. LaneTypes' /\ TaskTypes'
    BY <2>1 DEF Types, LaneTypes, TaskTypes
  <2> QED
    BY <2>3, <2>4, <2>5 DEF Types
<1>2. CASE LoopLost
  <2>1. sess = "loop" /\ Lost(Pending(tracker)) /\ UNCHANGED <<epoch, stage, binding, queue, cancels, answered, accepted>>
    BY <1>2 DEF LoopLost, chanVars
  <2>2. queue' = queue /\ queue' \in Seq(Calls) /\ Len(queue') <= CommandBuffer
    BY <2>1 DEF Types, QueueTypes
  <2> QED
    BY <2>1, <2>2, LostTypes
<1>3. CASE Ping \/ LoopClosed \/ LoopRejected
  <2>1. /\ sess = "loop" /\ sess' \in {"loop", "closing", "stopping"}
        /\ UNCHANGED <<epoch, pending, stage, binding, reply, queue, cancels, data, writer, frame, wire,
                       answers, answered, accepted>>
    BY <1>3 DEF Ping, LoopClosed, LoopRejected, LoopStops, callVars, chanVars, peerVars
  <2>2. \/ control' = control
        \/ LaneState(control) = "ok" /\ \E x \in {"Ping", "Close", "Stop"} : control' = [control EXCEPT ![epoch] = Append(@, x)]
    BY <1>3 DEF Ping, LoopClosed, LoopRejected, LoopStops
  <2>3. SessTypes' /\ CallTypes' /\ QueueTypes' /\ PeerTypes'
    BY <2>1 DEF Types, SessTypes, CallTypes, QueueTypes, PeerTypes
  <2>4. TaskTypes'
    BY <2>1 DEF Types, TaskTypes
  <2>5. LaneTypes'
    <3>1. LaneTypes /\ epoch \in Epochs
      BY <2>1 DEF Types, SessTypes
    <3>2. CASE control' = control
      BY <2>1, <3>1, <3>2 DEF LaneTypes
    <3>3. ASSUME NEW x \in {"Ping", "Close", "Stop"}, LaneState(control) = "ok",
                 control' = [control EXCEPT ![epoch] = Append(@, x)]
          PROVE  LaneTypes'
      <4>1. x \in Items
        BY DEF Items
      <4> QED
        BY <2>1, <3>1, <3>3, <4>1, ControlPush, Zenon
    <3> QED
      BY <2>2, <3>2, <3>3
  <2> QED
    BY <2>3, <2>4, <2>5 DEF Types
<1> QED
  BY <1>1, <1>2, <1>3

\* The reply of a read answer goes to the one who awaits its key, or to nobody.
LEMMA ReadFacts ==
    ASSUME NEW c \in Calls, ReadAnswer(c)
    PROVE  /\ sess = "loop" /\ c \in answers /\ answers' = answers \ {c}
           /\ pending' \in {pending, NoCall}
           /\ \/ reply' = reply /\ tracker' = tracker
              \/ /\ c \in Awaits /\ Taken(tracker, KeyOf[c])
                 /\ \E what \in {"response", "UnreadableResponse"} : reply' = Answer({tracker.by_key[KeyOf[c]]}, what)
                 /\ tracker' = cancel(tracker, tracker.by_key[KeyOf[c]])
           /\ UNCHANGED <<sess, epoch, stage, binding, queue, cancels, control, data, lanes, writer, frame, abort,
                          wire, answered, accepted>>
BY DEF ReadAnswer, chanVars, writerVars

LEMMA AnswerTypes ==
    ASSUME Types, NEW c \in Calls, ReadAnswer(c) \/ PeerAnswers(c)
    PROVE  Types'
<1>1. UNCHANGED <<sess, epoch, stage, binding, queue, cancels, control, data, writer, frame, wire, accepted>>
  BY ReadFacts, Zenon DEF PeerAnswers, callVars, chanVars, writerVars
<1>2. LaneTypes' /\ TaskTypes' /\ QueueTypes'
  BY <1>1 DEF Types, LaneTypes, TaskTypes, QueueTypes
<1>3. PeerTypes' /\ pending' \in {pending, NoCall}
  BY ReadFacts, Zenon DEF PeerAnswers, Types, PeerTypes
<1>4. SessTypes'
  BY <1>1, <1>3 DEF Types, SessTypes
<1>5. reply' \in [Calls -> Replies]
  <2>1. CallTypes
    BY DEF Types
  <2>2. CASE ReadAnswer(c)
    <3>1. \/ reply' = reply
          \/ \E what \in {"response", "UnreadableResponse"} : reply' = Answer({tracker.by_key[KeyOf[c]]}, what)
      BY <2>2, ReadFacts
    <3>2. ASSUME NEW what \in {"response", "UnreadableResponse"}, reply' = Answer({tracker.by_key[KeyOf[c]]}, what)
          PROVE  reply' \in [Calls -> Replies]
      <4>1. what \in Replies
        BY ReplyNames
      <4> QED
        BY <2>1, <3>2, <4>1, AnswerFacts
    <3> QED
      BY <2>1, <3>1, <3>2 DEF CallTypes
  <2>3. CASE PeerAnswers(c)
    BY <2>1, <2>3 DEF PeerAnswers, callVars, CallTypes
  <2> QED
    BY <2>2, <2>3
<1>6. CallTypes'
  BY <1>1, <1>5 DEF Types, CallTypes
<1> QED
  BY <1>2, <1>3, <1>4, <1>6 DEF Types

\* What the end of a session, the window and a new connection have in common: the lanes
\* and the wires keep what they have, the queue keeps it, loses its head or is dropped.
LEMMA BetweenFacts ==
    ASSUME Types, SessionEnds \/ Between
    PROVE  /\ queue' \in {queue, <<>>} \/ (queue # <<>> /\ queue' = Tail(queue))
           /\ cancels' \in {cancels, <<>>} \/ (cancels # <<>> /\ cancels' = Tail(cancels))
           /\ UNCHANGED <<stage, binding, control, data, frame, wire, answered, accepted>>
           /\ \/ UNCHANGED <<reply, tracker, pending, answers>>
              \/ \E S : DrainAll(S)
              \/ \E S : reply' = Answer(S, "Disconnected") /\ UNCHANGED <<tracker, pending, answers>>
           /\ sess' \in {"connecting", "loop", "closing", "stopping", "window", "closed"}
           /\ \/ epoch' = epoch /\ writer' = writer
              \/ epoch < MaxEpoch /\ epoch' = epoch + 1 /\ writer' = [writer EXCEPT ![epoch + 1] = "idle"]
           /\ sess' \in {"loop", "closing", "stopping"} => sess' = sess \/ epoch' = epoch + 1
<1>1. CASE StopTimeout
  BY <1>1 DEF StopTimeout, callVars, chanVars, peerVars, Types, SessTypes
<1>2. CASE WriterJoined
  BY <1>2 DEF WriterJoined, DropChannels, chanVars, writerVars
<1>3. CASE Terminate
  BY <1>3 DEF Terminate, DropChannels, writerVars, peerVars
<1>4. CASE Panic
  BY <1>4 DEF Panic, DropChannels
<1>5. CASE BecomeReady
  BY <1>5 DEF BecomeReady, callVars, chanVars, peerVars
<1>6. CASE StartFails \/ WindowElapsed
  BY <1>6 DEF StartFails, WindowElapsed, callVars, chanVars, writerVars, peerVars
<1>7. CASE WindowCommand
  BY <1>7 DEF WindowCommand, writerVars, peerVars, Types, SessTypes
<1>8. CASE WindowCancel
  BY <1>8 DEF WindowCancel, callVars, writerVars, peerVars, Types, SessTypes
<1> QED
  BY <1>1, <1>2, <1>3, <1>4, <1>5, <1>6, <1>7, <1>8, Zenon DEF SessionEnds, Between

LEMMA BetweenTypes ==
    ASSUME Types, SessionEnds \/ Between
    PROVE  Types'
<1>1. LaneTypes'
  BY BetweenFacts DEF Types, LaneTypes
<1>2. QueueTypes'
  <2>1. queue \in Seq(Calls) /\ Len(queue) <= CommandBuffer /\ cancels \in Seq(Awaits) /\ accepted' \in Seq(Calls)
        /\ Len(queue) \in Nat
    BY BetweenFacts DEF Types, QueueTypes
  <2>2. queue' \in Seq(Calls) /\ Len(queue') <= CommandBuffer
    <3>1. CASE queue' \in {queue, <<>>}
      <4>1. <<>> \in Seq(Calls) /\ Len(<<>>) <= CommandBuffer
        BY EmptyFacts, Bounds
      <4> QED
        BY <2>1, <3>1, <4>1, Zenon
    <3>2. CASE queue # <<>> /\ queue' = Tail(queue)
      <4>1. Tail(queue) \in Seq(Calls) /\ Len(Tail(queue)) = Len(queue) - 1
        BY <2>1, <3>2, TailFacts
      <4> QED
        BY <2>1, <3>2, <4>1, Bounds
    <3> QED
      BY <3>1, <3>2, BetweenFacts
  <2>3. cancels' \in Seq(Awaits)
    <3>1. CASE cancels # <<>> /\ cancels' = Tail(cancels)
      BY <2>1, <3>1, TailFacts
    <3>2. CASE cancels' \in {cancels, <<>>}
      BY <2>1, <3>2, EmptyFacts, Zenon
    <3> QED
      BY <3>1, <3>2, BetweenFacts
  <2> QED
    BY <2>1, <2>2, <2>3 DEF QueueTypes
<1>3. reply' \in [Calls -> Replies] /\ pending' \in Changes \cup {NoCall} /\ answers' \in {answers, {}}
  <2>1. CallTypes /\ pending \in Changes \cup {NoCall}
    BY DEF Types, SessTypes
  <2>2. CASE UNCHANGED <<reply, tracker, pending, answers>>
    BY <2>1, <2>2 DEF CallTypes
  <2>3. CASE \E S : DrainAll(S)
    BY <2>3, DrainTypes
  <2>4. CASE \E S : reply' = Answer(S, "Disconnected") /\ UNCHANGED <<tracker, pending, answers>>
    BY <2>1, <2>4, AnswerFacts, ReplyNames
  <2> QED
    BY <2>2, <2>3, <2>4, BetweenFacts
<1>4. CallTypes'
  BY <1>3, BetweenFacts DEF Types, CallTypes
<1>5. PeerTypes'
  BY <1>3, BetweenFacts DEF Types, PeerTypes
<1>6. SessTypes'
  <2>1. epoch \in 0..MaxEpoch /\ (sess \in {"loop", "closing", "stopping"} => epoch \in Epochs)
    BY DEF Types, SessTypes
  <2>2. epoch' \in 0..MaxEpoch /\ (epoch' = epoch + 1 /\ epoch' # epoch => epoch' \in Epochs)
    BY <2>1, BetweenFacts, Bounds DEF Epochs
  <2>3. epoch' = epoch + 1 => epoch' # epoch
    BY <2>1, Bounds
  <2> QED
    BY <1>3, <2>1, <2>2, <2>3, BetweenFacts DEF SessTypes
<1>7. TaskTypes'
  BY BetweenFacts, Zenon DEF Types, TaskTypes
<1> QED
  BY <1>1, <1>2, <1>4, <1>5, <1>6, <1>7 DEF Types

LEMMA TakeFacts ==
    ASSUME Types, NEW e \in Epochs, WriterTake(e)
    PROVE  /\ writer[e] = "idle" /\ writer' = [writer EXCEPT ![e] = "busy"]
           /\ \/ /\ control[e] # <<>> /\ control' = [control EXCEPT ![e] = Tail(@)] /\ data' = data
                 /\ Head(control[e]) \in Calls \cup {"Ping"}
                 /\ frame' = [frame EXCEPT ![e] = Head(control[e])]
              \/ /\ data[e] # <<>> /\ data' = [data EXCEPT ![e] = Tail(@)] /\ control' = control
                 /\ Head(data[e]) \in Calls
                 /\ frame' = [frame EXCEPT ![e] = Head(data[e])]
           /\ UNCHANGED <<sess, epoch, tracker, pending, stage, binding, reply, queue, cancels, lanes, abort, wire,
                          answers, answered, accepted>>
<1>1. control[e] \in Seq(Items) /\ data[e] \in Seq(Calls)
  BY DEF Types, LaneTypes
<1>2. CASE control[e] # <<>>
  <2>1. Head(control[e]) \in Items
    BY <1>1, <1>2, TailFacts
  <2> QED
    BY <1>2, <2>1 DEF WriterTake, NextLane, Items, callVars, chanVars, peerVars
<1>3. CASE control[e] = <<>>
  <2>1. data[e] # <<>>
    BY <1>3 DEF WriterTake, NextLane
  <2>2. Head(data[e]) \in Calls
    BY <1>1, <2>1, TailFacts
  <2> QED
    BY <1>3, <2>1, <2>2 DEF WriterTake, NextLane, callVars, chanVars, peerVars
<1> QED
  BY <1>2, <1>3

LEMMA WriterTypes ==
    ASSUME Types, NEW e \in Epochs, Writer(e)
    PROVE  Types'
<1>1. UNCHANGED <<sess, epoch, pending, stage, binding, queue, cancels, answers, answered, accepted>>
  BY OverFacts, TakeFacts, Zenon DEF Writer, WriterWrote, chanVars, peerVars
<1>2. SessTypes' /\ QueueTypes' /\ PeerTypes'
  BY <1>1 DEF Types, SessTypes, QueueTypes, PeerTypes
<1>3. ASSUME NEW f \in Epochs
      PROVE  IF frame[f] \in Calls THEN Append(wire[f], frame[f]) \in Seq(Calls) ELSE wire[f] \in Seq(Calls)
  BY DEF Types, TaskTypes
<1>4. CASE WriterTake(e)
  <2>1. CallTypes'
    BY <1>4, TakeFacts DEF Types, CallTypes
  <2>2. TaskTypes'
    <3>1. TaskTypes
      BY DEF Types
    <3>2. \E x \in Calls \cup {"Ping"} : frame' = [frame EXCEPT ![e] = x]
      BY <1>4, TakeFacts
    <3>3. writer' = [writer EXCEPT ![e] = "busy"] /\ wire' = wire
      BY <1>4, TakeFacts
    <3> QED
      BY <3>1, <3>2, <3>3 DEF TaskTypes
  <2>3. LaneTypes'
    <3>1. LaneTypes
      BY DEF Types
    <3>2. CASE /\ control[e] # <<>> /\ control' = [control EXCEPT ![e] = Tail(@)] /\ data' = data
      <4>1. Tail(control[e]) \in Seq(Items) /\ Len(Tail(control[e])) = Len(control[e]) - 1 /\ Len(control[e]) \in Nat
        BY <3>1, <3>2, TailFacts DEF LaneTypes
      <4>2. Len(Tail(control[e])) <= CommandBuffer
        BY <3>1, <4>1, Bounds DEF LaneTypes
      <4> QED
        BY <3>1, <3>2, <4>1, <4>2 DEF LaneTypes
    <3>3. CASE data[e] # <<>> /\ data' = [data EXCEPT ![e] = Tail(@)] /\ control' = control
      <4>1. Tail(data[e]) \in Seq(Calls) /\ Len(Tail(data[e])) = Len(data[e]) - 1 /\ Len(data[e]) \in Nat
        BY <3>1, <3>3, TailFacts DEF LaneTypes
      <4>2. Len(Tail(data[e])) <= CommandBuffer
        BY <3>1, <4>1, Bounds DEF LaneTypes
      <4> QED
        BY <3>1, <3>3, <4>1, <4>2 DEF LaneTypes
    <3> QED
      BY <1>4, <3>2, <3>3, TakeFacts
  <2> QED
    BY <1>2, <2>1, <2>2, <2>3 DEF Types
<1>5. CASE WriterStops(e) \/ WriterFailed(e) \/ WriterAborted(e)
  <2>1. CallTypes'
    BY <1>5, OverFacts DEF Types, CallTypes
  <2>2. LaneTypes'
    <3>1. /\ control' = [control EXCEPT ![e] = <<>>]
          /\ data' = [data EXCEPT ![e] = <<>>]
      BY <1>5, OverFacts
    <3>2. LaneTypes
      BY DEF Types
    <3> QED
      BY <3>1, <3>2, EmptyFacts, Bounds DEF LaneTypes
  <2>3. TaskTypes'
    <3>1. /\ writer' = [writer EXCEPT ![e] = "ended"]
          /\ frame' = [frame EXCEPT ![e] = NoCall]
          /\ wire' \in {wire, [wire EXCEPT ![e] = IF frame[e] \in Calls THEN Append(@, frame[e]) ELSE @]}
      BY <1>5, OverFacts
    <3>2. TaskTypes
      BY DEF Types
    <3> QED
      BY <1>3, <3>1, <3>2, Zenon DEF TaskTypes
  <2> QED
    BY <1>2, <2>1, <2>2, <2>3 DEF Types
<1>6. CASE WriterWrote(e)
  <2>1. CallTypes'
    <3>1. UNCHANGED <<stage, binding>> /\ reply' = Answer({frame[e]} \cap Sends, "ok") /\ "ok" \in Replies
      BY <1>6, ReplyNames DEF WriterWrote
    <3> QED
      BY <3>1, AnswerFacts DEF Types, CallTypes
  <2>2. LaneTypes'
    BY <1>6 DEF Types, LaneTypes, WriterWrote
  <2>3. TaskTypes'
    <3>1. /\ writer' = [writer EXCEPT ![e] = "idle"]
          /\ frame' = [frame EXCEPT ![e] = NoCall]
          /\ wire' = [wire EXCEPT ![e] = IF frame[e] \in Calls THEN Append(@, frame[e]) ELSE @]
      BY <1>6 DEF WriterWrote, Reached
    <3>2. TaskTypes
      BY DEF Types
    <3> QED
      BY <1>3, <3>1, <3>2 DEF TaskTypes
  <2> QED
    BY <1>2, <2>1, <2>2, <2>3 DEF Types
<1> QED
  BY <1>4, <1>5, <1>6 DEF Writer

LEMMA InitTypes == Init => Types
<1> SUFFICES ASSUME Init
             PROVE  Types
  OBVIOUS
<1>1. SessTypes /\ CallTypes /\ PeerTypes
  BY Bounds DEF Init, SessTypes, CallTypes, PeerTypes, Replies
<1>2. QueueTypes /\ LaneTypes
  BY Bounds, EmptyFacts DEF Init, QueueTypes, LaneTypes
<1>3. TaskTypes
  BY EmptyFacts DEF Init, TaskTypes
<1> QED
  BY <1>1, <1>2, <1>3 DEF Types

LEMMA IdleTypes ==
    ASSUME Types, UNCHANGED vars
    PROVE  Types'
<1>1. SessTypes' /\ CallTypes' /\ PeerTypes' /\ QueueTypes'
  BY DEF vars, callVars, chanVars, peerVars, Types, SessTypes, CallTypes, PeerTypes, QueueTypes
<1>2. LaneTypes' /\ TaskTypes'
  BY DEF vars, writerVars, Types, LaneTypes, TaskTypes
<1> QED
  BY <1>1, <1>2 DEF Types

LEMMA TypesStep ==
    ASSUME Types, [Next]_vars
    PROVE  Types'
<1>1. CASE \E c \in Calls : Caller(c)
  BY <1>1, CallerTypes
<1>2. CASE \E c \in Calls : ReadAnswer(c) \/ PeerAnswers(c)
  BY <1>2, AnswerTypes
<1>3. CASE \E e \in Epochs : Writer(e)
  BY <1>3, WriterTypes
<1>4. CASE Loop
  BY <1>4, HandleTypes, LoopTypes DEF Loop
<1>5. CASE SessionEnds \/ Between
  BY <1>5, BetweenTypes
<1>6. CASE UNCHANGED vars
  BY <1>6, IdleTypes
<1> QED
  BY <1>1, <1>2, <1>3, <1>4, <1>5, <1>6 DEF Next, Finished

------------------------------------------------------------------------------
(* Places *)

\* In this step nothing comes to a new place but m, which is then in (l, f) only.
Moves(m, l, f) ==
    \A c \in Calls, k \in Kinds, e \in 0..MaxEpoch :
        At(c, k, e)' => IF c = m THEN k = l /\ e = f ELSE At(c, k, e)

Distinct ==
    \A c \in Calls :
        /\ Once(queue, c)
        /\ \A e \in Epochs : Once(control[e], c) /\ Once(data[e], c) /\ Once(wire[e], c)

\* A queued command stays queued and bound as it is; what this step refuses is then in
\* no place.
Settles ==
    /\ \A c \in Calls : stage[c] = "sent" => stage'[c] = "sent" /\ binding'[c] = binding[c]
    /\ \A c \in Calls : reply'[c] \in Refusals /\ reply[c] \notin Refusals =>
          \A k \in Kinds, e \in 0..MaxEpoch : ~At(c, k, e)'

LEMMA PlaceStep ==
    ASSUME PlaceInv, Types', Distinct', Settles,
           NEW m, NEW l \in Kinds, NEW f \in 0..MaxEpoch, Moves(m, l, f),
           m \in Calls => /\ stage'[m] = "sent" /\ reply[m] \notin Refusals
                          /\ l = "queue" \/ binding'[m] \in {0, f}
    PROVE  PlaceInv'
<1>1. OnePlace'
  <2>1. ASSUME NEW c \in Calls, NEW k \in Kinds, NEW j \in Kinds, NEW e \in 0..MaxEpoch, NEW g \in 0..MaxEpoch,
               At(c, k, e)', At(c, j, g)'
        PROVE  k = j /\ e = g
    <3>1. CASE c = m
      BY <2>1, <3>1 DEF Moves
    <3>2. CASE c # m
      <4>1. At(c, k, e) /\ At(c, j, g)
        BY <2>1, <3>2 DEF Moves
      <4> QED
        BY <4>1 DEF PlaceInv, OnePlace
    <3> QED
      BY <3>1, <3>2
  <2> QED
    BY <2>1 DEF OnePlace, Distinct
<1>2. Placed'
  <2> SUFFICES ASSUME NEW c \in Calls, NEW k \in Kinds, NEW e \in 0..MaxEpoch, At(c, k, e)'
               PROVE  /\ stage'[c] = "sent"
                      /\ reply'[c] \notin Refusals
                      /\ k = "queue" \/ binding'[c] \in {0, e}
    BY DEF Placed
  <2>1. reply[c] \notin Refusals => reply'[c] \notin Refusals
    BY DEF Settles
  <2>2. CASE c = m
    BY <2>1, <2>2 DEF Moves
  <2>3. CASE c # m
    <3>1. At(c, k, e)
      BY <2>3 DEF Moves
    <3>2. /\ stage[c] = "sent" /\ reply[c] \notin Refusals
          /\ k = "queue" \/ binding[c] \in {0, e}
      BY <3>1 DEF PlaceInv, Placed
    <3> QED
      BY <2>1, <3>2 DEF Settles
  <2> QED
    BY <2>2, <2>3
<1> QED
  BY <1>1, <1>2 DEF PlaceInv

\* A step moves m at most when every place holds what it held, or m.
LEMMA MovesOnly ==
    ASSUME NEW m, NEW l, NEW f,
           \A c \in Calls : Contains(queue', c) => IF c = m THEN l = "queue" /\ f = 0 ELSE Contains(queue, c),
           \A c \in Calls, e \in Epochs :
             /\ Contains(control'[e], c) => IF c = m THEN l = "control" /\ f = e ELSE Contains(control[e], c)
             /\ Contains(data'[e], c) => IF c = m THEN l = "data" /\ f = e ELSE Contains(data[e], c)
             /\ frame'[e] = c => IF c = m THEN l = "frame" /\ f = e ELSE frame[e] = c
             /\ Contains(wire'[e], c) => IF c = m THEN l = "wire" /\ f = e ELSE Contains(wire[e], c)
    PROVE  Moves(m, l, f)
<1> SUFFICES ASSUME NEW c \in Calls, NEW k \in Kinds, NEW e \in 0..MaxEpoch, At(c, k, e)'
             PROVE  IF c = m THEN k = l /\ e = f ELSE At(c, k, e)
  BY Zenon DEF Moves
<1>1. CASE k = "queue" /\ e = 0 /\ Contains(queue', c)
  BY <1>1 DEF At
<1>2. CASE k = "control" /\ e \in Epochs /\ Contains(control'[e], c)
  BY <1>2 DEF At
<1>3. CASE k = "data" /\ e \in Epochs /\ Contains(data'[e], c)
  BY <1>3 DEF At
<1>4. CASE k = "frame" /\ e \in Epochs /\ frame'[e] = c
  BY <1>4 DEF At
<1>5. CASE k = "wire" /\ e \in Epochs /\ Contains(wire'[e], c)
  BY <1>5 DEF At
<1> QED
  BY <1>1, <1>2, <1>3, <1>4, <1>5, Zenon DEF At

LEMMA NoCallIsNoCall == NoCall \notin Calls /\ "Ping" \notin Calls /\ "Close" \notin Calls /\ "Stop" \notin Calls
<1>1. Calls \cap {"no call", "Ping", "Close", "Stop"} = {}
  BY CommandAssumption, Zenon
<1> QED
  BY <1>1, Zenon DEF NoCall

LEMMA EpochNumbers == 0 \in 0..MaxEpoch /\ Epochs \subseteq 0..MaxEpoch /\ 0 \notin Epochs
BY Bounds DEF Epochs

\* A step that leaves lanes, writers and wires alone, and may shorten the queue.
LEMMA Shorter ==
    ASSUME PlaceInv, Types', Settles,
           queue' \in {queue, <<>>} \/ (queue # <<>> /\ queue' = Tail(queue)),
           UNCHANGED <<control, data, frame, wire>>
    PROVE  PlaceInv'
<1>1. /\ \A c : Contains(queue', c) => Contains(queue, c)
      /\ \A c : Once(queue, c) => Once(queue', c)
  <2>1. queue \in Seq(Calls)
    BY DEF PlaceInv, Types, QueueTypes
  <2>2. CASE queue' = queue
    BY <2>2
  <2>3. CASE queue' = <<>>
    BY <2>3, EmptyFacts
  <2>4. CASE queue # <<>> /\ queue' = Tail(queue)
    BY <2>1, <2>4, TailFacts
  <2> QED
    BY <2>2, <2>3, <2>4
<1>2. Moves(NoCall, "queue", 0)
  BY <1>1, NoCallIsNoCall, MovesOnly, Zenon
<1>3. Distinct'
  BY <1>1 DEF Distinct, PlaceInv, OnePlace
<1>4. "queue" \in Kinds
  BY DEF Kinds
<1> QED
  BY <1>2, <1>3, <1>4, NoCallIsNoCall, EpochNumbers, PlaceStep

LEMMA CallerPlaces ==
    ASSUME PlaceInv, Types', NEW c \in Calls, Caller(c)
    PROVE  PlaceInv'
<1>1. UNCHANGED <<control, data, frame, wire>>
  BY DEF Caller, Issue, Enqueue, EnqueueRefused, AwaitTimeout, Abandon, writerVars
<1>2. CallTypes
  BY DEF PlaceInv, Types
<1>3. CASE Enqueue(c)
  <2>1. /\ stage[c] = "issued" /\ reply[c] = "none" /\ queue' = Append(queue, c) /\ stage' = [stage EXCEPT ![c] = "sent"]
        /\ UNCHANGED <<binding, reply>>
    BY <1>3 DEF Enqueue
  <2>2. \A k \in Kinds, e \in 0..MaxEpoch : ~At(c, k, e)
    BY <2>1, Zenon DEF PlaceInv, Placed
  <2>3. /\ ~Contains(queue, c)
        /\ \A e \in Epochs : ~Contains(control[e], c) /\ ~Contains(data[e], c) /\ frame[e] # c /\ ~Contains(wire[e], c)
    BY <2>2, EpochNumbers, Zenon DEF At, Kinds
  <2>4. queue \in Seq(Calls)
    BY DEF PlaceInv, Types, QueueTypes
  <2>5. /\ \A d : Contains(queue', d) => Contains(queue, d) \/ d = c
        /\ \A d : Once(queue, d) => Once(queue', d)
    BY <2>1, <2>3, <2>4, AppendFacts, Zenon
  <2>6. Moves(c, "queue", 0)
    BY <1>1, <2>3, <2>5, MovesOnly, Zenon
  <2>7. Distinct'
    BY <1>1, <2>5, Zenon DEF Distinct, PlaceInv, OnePlace
  <2>8. Settles
    BY <1>2, <2>1 DEF Settles, CallTypes
  <2>9. stage'[c] = "sent" /\ reply[c] \notin Refusals /\ "queue" \in Kinds
    BY <1>2, <2>1 DEF CallTypes, Refusals, Kinds
  <2> QED
    BY <2>6, <2>7, <2>8, <2>9, EpochNumbers, PlaceStep
<1>4. CASE Issue(c) \/ EnqueueRefused(c)
  <2>1. /\ stage[c] \in {"idle", "issued"} /\ queue' = queue
        /\ \A d \in Calls \ {c} : stage'[d] = stage[d] /\ binding'[d] = binding[d] /\ reply'[d] = reply[d]
    BY <1>2, <1>4 DEF Issue, EnqueueRefused, Answer, chanVars, CallTypes
  <2>2. \A k \in Kinds, e \in 0..MaxEpoch : ~At(c, k, e)
    BY <2>1, Zenon DEF PlaceInv, Placed
  <2>3. \A k \in Kinds, e \in 0..MaxEpoch : ~At(c, k, e)'
    BY <1>1, <2>1, <2>2, Zenon DEF At
  <2>4. Settles
    BY <2>1, <2>3 DEF Settles
  <2> QED
    BY <1>1, <2>1, <2>4, Shorter
<1>5. CASE AwaitTimeout(c) \/ Abandon(c)
  <2>1. queue' = queue /\ stage' = stage /\ binding' = binding
        /\ \A d \in Calls : reply'[d] \in {reply[d], "Timeout", "Abandoned"}
    BY <1>5 DEF AwaitTimeout, Abandon, Answer, chanVars
  <2>2. Settles
    BY <2>1 DEF Settles, Refusals
  <2> QED
    BY <1>1, <2>1, <2>2, Shorter
<1> QED
  BY <1>3, <1>4, <1>5 DEF Caller

\* No refusal is among these answers.
LEMMA PlainAnswers ==
    ASSUME UNCHANGED <<stage, binding>>,
           \/ reply' = reply
           \/ \E S : \E what \in {"Disconnected", "response", "UnreadableResponse", "ok"} : reply' = Answer(S, what)
    PROVE  Settles
BY DEF Settles, Answer, Refusals

LEMMA HandlePlaces ==
    ASSUME PlaceInv, Types', handle_command
    PROVE  PlaceInv'
<1>0. PICK c \in Calls : c = Head(queue)
  BY HandleFacts DEF PlaceInv
<1>1. /\ Types /\ epoch \in Epochs /\ queue # <<>> /\ queue' = Tail(queue)
      /\ UNCHANGED <<epoch, stage, binding>>
  BY HandleFacts DEF PlaceInv
<1>2. queue \in Seq(Calls) /\ CallTypes /\ LaneTypes
  BY DEF PlaceInv, Types, QueueTypes
<1>3. Contains(queue, c) /\ Once(queue, c)
  BY <1>0, <1>1, <1>2, TailFacts, Zenon DEF PlaceInv, OnePlace
<1>4. At(c, "queue", 0)
  BY <1>3 DEF At
<1>5. \A k \in Kinds, e \in 0..MaxEpoch : At(c, k, e) => k = "queue" /\ e = 0
  <2>1. "queue" \in Kinds
    BY DEF Kinds
  <2> QED
    BY <1>1, <1>4, <2>1, EpochNumbers DEF PlaceInv, OnePlace
<1>6. /\ ~Contains(queue', c)
      /\ \A d : Contains(queue', d) => Contains(queue, d)
      /\ \A d : Once(queue, d) => Once(queue', d)
  BY <1>0, <1>1, <1>2, <1>3, TailFacts
<1>7. CASE Skips
  <2>1. UNCHANGED <<control, data, frame, wire, reply>>
    BY <1>7 DEF Skips
  <2> QED
    BY <1>1, <2>1, PlainAnswers, Shorter
<1>8. CASE Refuses(c)
  <2>1. UNCHANGED <<control, data, frame, wire>> /\ \A d \in Calls \ {c} : reply'[d] = reply[d]
    BY <1>8 DEF Refuses, Answer
  <2>2. \A k \in Kinds, e \in 0..MaxEpoch : ~At(c, k, e)'
    BY <1>5, <1>6, <2>1, EpochNumbers DEF At
  <2>3. Settles
    BY <1>1, <2>1, <2>2 DEF Settles
  <2> QED
    BY <1>1, <2>1, <2>3, Shorter
<1>9. CASE Lost({c} \cup Pending(tracker))
  <2>1. UNCHANGED <<control, data, frame, wire>> /\ \E S : reply' = Answer(S, "Disconnected")
    BY <1>9 DEF Lost, DrainAll
  <2> QED
    BY <1>1, <2>1, PlainAnswers, Shorter
<1>10. CASE Pushes(c)
  <2>1. UNCHANGED <<frame, wire, reply>> /\ binding[c] \in {0, epoch}
    BY <1>10 DEF Pushes, PushFrame
  <2>2. Settles
    BY <1>1, <2>1, PlainAnswers
  <2>3. \A e \in Epochs : ~Contains(control[e], c) /\ ~Contains(data[e], c) /\ frame[e] # c /\ ~Contains(wire[e], c)
    BY <1>5, EpochNumbers DEF At, Kinds
  <2>4. stage'[c] = "sent" /\ reply[c] \notin Refusals /\ binding'[c] \in {0, epoch}
    <3>1. "queue" \in Kinds
      BY DEF Kinds
    <3> QED
      BY <1>1, <1>4, <2>1, <3>1, EpochNumbers DEF PlaceInv, Placed
  <2>5. CASE c \in Control
    <3>1. control' = [control EXCEPT ![epoch] = Append(@, c)] /\ data' = data
      BY <1>10, <2>5 DEF Pushes, PushFrame
    <3>2. control[epoch] \in Seq(Items) /\ c \in Items
      BY <1>1, <1>2 DEF LaneTypes, Items
    <3>3. /\ \A d : Contains(control'[epoch], d) => Contains(control[epoch], d) \/ d = c
          /\ \A d : Once(control[epoch], d) => Once(control'[epoch], d)
      <4>1. control'[epoch] = Append(control[epoch], c) /\ ~Contains(control[epoch], c)
        BY <1>1, <1>2, <2>3, <3>1 DEF LaneTypes
      <4>2. /\ \A d : Contains(Append(control[epoch], c), d) => Contains(control[epoch], d) \/ d = c
            /\ \A d : Once(control[epoch], d) /\ ~(d = c /\ Contains(control[epoch], c)) => Once(Append(control[epoch], c), d)
        BY <3>2, AppendFacts
      <4> QED
        BY <4>1, <4>2
    <3>4. \A e \in Epochs : e # epoch => control'[e] = control[e]
      BY <1>2, <3>1 DEF LaneTypes
    <3>5. Moves(c, "control", epoch)
      BY <1>6, <2>1, <2>3, <3>1, <3>3, <3>4, MovesOnly, Zenon
    <3>6. Distinct'
      BY <1>6, <2>1, <3>1, <3>3, <3>4, Zenon DEF Distinct, PlaceInv, OnePlace
    <3>7. "control" \in Kinds
      BY DEF Kinds
    <3> QED
      BY <1>1, <2>2, <2>4, <3>5, <3>6, <3>7, EpochNumbers, PlaceStep
  <2>6. CASE c \notin Control
    <3>1. data' = [data EXCEPT ![epoch] = Append(@, c)] /\ control' = control
      BY <1>10, <2>6 DEF Pushes, PushFrame
    <3>2. data[epoch] \in Seq(Calls)
      BY <1>1, <1>2 DEF LaneTypes
    <3>3. /\ \A d : Contains(data'[epoch], d) => Contains(data[epoch], d) \/ d = c
          /\ \A d : Once(data[epoch], d) => Once(data'[epoch], d)
      <4>1. data'[epoch] = Append(data[epoch], c) /\ ~Contains(data[epoch], c)
        BY <1>1, <1>2, <2>3, <3>1 DEF LaneTypes
      <4>2. /\ \A d : Contains(Append(data[epoch], c), d) => Contains(data[epoch], d) \/ d = c
            /\ \A d : Once(data[epoch], d) /\ ~(d = c /\ Contains(data[epoch], c)) => Once(Append(data[epoch], c), d)
        BY <3>2, AppendFacts
      <4> QED
        BY <4>1, <4>2
    <3>4. \A e \in Epochs : e # epoch => data'[e] = data[e]
      BY <1>2, <3>1 DEF LaneTypes
    <3>5. Moves(c, "data", epoch)
      BY <1>6, <2>1, <2>3, <3>1, <3>3, <3>4, MovesOnly, Zenon
    <3>6. Distinct'
      BY <1>6, <2>1, <3>1, <3>3, <3>4, Zenon DEF Distinct, PlaceInv, OnePlace
    <3>7. "data" \in Kinds
      BY DEF Kinds
    <3> QED
      BY <1>1, <2>2, <2>4, <3>5, <3>6, <3>7, EpochNumbers, PlaceStep, Zenon
  <2> QED
    BY <2>5, <2>6
<1> QED
  BY <1>0, <1>7, <1>8, <1>9, <1>10, HandleFacts DEF PlaceInv

LEMMA LoopPlaces ==
    ASSUME PlaceInv, Types', HandleCancel \/ Ping \/ LoopLost \/ LoopClosed \/ LoopRejected
    PROVE  PlaceInv'
<1>1. CASE HandleCancel \/ LoopLost
  <2>1. UNCHANGED <<control, data, frame, wire, queue, stage, binding>>
    BY <1>1 DEF HandleCancel, LoopLost, Lost, writerVars, chanVars, callVars
  <2>2. reply' = reply \/ \E S : reply' = Answer(S, "Disconnected")
    BY <1>1 DEF HandleCancel, LoopLost, Lost, DrainAll, callVars
  <2> QED
    BY <2>1, <2>2, PlainAnswers, Shorter
<1>2. CASE Ping \/ LoopClosed \/ LoopRejected
  <2>1. /\ sess = "loop" /\ UNCHANGED <<stage, binding, reply, queue, data, frame, wire>>
        /\ \/ control' = control
           \/ \E x \in {"Ping", "Close", "Stop"} : control' = [control EXCEPT ![epoch] = Append(@, x)]
    BY <1>2, Zenon DEF Ping, LoopClosed, LoopRejected, LoopStops, callVars, chanVars
  <2>2. epoch \in Epochs /\ LaneTypes
    BY <2>1 DEF PlaceInv, Types, SessTypes
  <2>3. \A e \in Epochs, c \in Calls : /\ Contains(control'[e], c) => Contains(control[e], c)
                                       /\ Once(control[e], c) => Once(control'[e], c)
    <3>1. ASSUME NEW x \in {"Ping", "Close", "Stop"}, control' = [control EXCEPT ![epoch] = Append(@, x)],
                 NEW e \in Epochs, NEW c \in Calls
          PROVE  /\ Contains(control'[e], c) => Contains(control[e], c)
                 /\ Once(control[e], c) => Once(control'[e], c)
      <4>1. x \in Items /\ x # c
        BY NoCallIsNoCall DEF Items
      <4>2. control[e] \in Seq(Items)
        BY <2>2 DEF LaneTypes
      <4>3. control'[e] \in {control[e], Append(control[e], x)}
        BY <2>2, <3>1 DEF LaneTypes
      <4>4. CASE control'[e] = Append(control[e], x)
        <5>1. /\ Contains(Append(control[e], x), c) => Contains(control[e], c) \/ c = x
              /\ Once(control[e], c) /\ c # x => Once(Append(control[e], x), c)
          BY <4>1, <4>2, AppendFacts
        <5> QED
          BY <4>1, <4>4, <5>1
      <4> QED
        BY <4>3, <4>4
    <3> QED
      BY <2>1, <3>1
  <2>4. Moves(NoCall, "queue", 0)
    BY <2>1, <2>3, NoCallIsNoCall, MovesOnly, Zenon
  <2>5. Distinct'
    BY <2>1, <2>3, Zenon DEF Distinct, PlaceInv, OnePlace
  <2>6. "queue" \in Kinds /\ Settles
    BY <2>1, PlainAnswers DEF Kinds
  <2> QED
    BY <2>4, <2>5, <2>6, NoCallIsNoCall, EpochNumbers, PlaceStep
<1> QED
  BY <1>1, <1>2

LEMMA AnswerPlaces ==
    ASSUME PlaceInv, Types', NEW c \in Calls, ReadAnswer(c) \/ PeerAnswers(c)
    PROVE  PlaceInv'
<1>1. UNCHANGED <<stage, binding, queue, control, data, frame, wire>>
  BY ReadFacts, Zenon DEF PeerAnswers, callVars, chanVars, writerVars
<1>2. \/ reply' = reply
      \/ \E S : \E what \in {"response", "UnreadableResponse"} : reply' = Answer(S, what)
  BY ReadFacts, Zenon DEF PeerAnswers, callVars
<1> QED
  BY <1>1, <1>2, PlainAnswers, Shorter

LEMMA BetweenPlaces ==
    ASSUME PlaceInv, Types', SessionEnds \/ Between
    PROVE  PlaceInv'
<1>1. /\ UNCHANGED <<stage, binding, control, data, frame, wire>>
      /\ queue' \in {queue, <<>>} \/ (queue # <<>> /\ queue' = Tail(queue))
      /\ reply' = reply \/ \E S : reply' = Answer(S, "Disconnected")
  BY BetweenFacts DEF PlaceInv, DrainAll
<1> QED
  BY <1>1, PlainAnswers, Shorter

LEMMA TakePlaces ==
    ASSUME PlaceInv, Types', NEW e \in Epochs, WriterTake(e)
    PROVE  PlaceInv'
<1>1. Types /\ LaneTypes /\ TaskTypes
  BY DEF PlaceInv, Types
<1>2. UNCHANGED <<stage, binding, reply, queue, wire>>
  BY <1>1, TakeFacts
<1>3. Settles
  BY <1>2, PlainAnswers
<1>4. \A f \in Epochs : f # e => control'[f] = control[f] /\ data'[f] = data[f] /\ frame'[f] = frame[f]
  BY <1>1, TakeFacts DEF LaneTypes, TaskTypes
<1>5. ASSUME NEW k \in {"control", "data"}, NEW s, NEW S, s \in Seq(S), s # <<>>,
             k = "control" => s = control[e] /\ control'[e] = Tail(s) /\ data'[e] = data[e],
             k = "data" => s = data[e] /\ data'[e] = Tail(s) /\ control'[e] = control[e],
             frame'[e] = Head(s)
      PROVE  PlaceInv'
  <2> DEFINE m == Head(s)
  <2>1. Contains(s, m) /\ \A c : Contains(Tail(s), c) => Contains(s, c)
    BY <1>5, TailFacts
  <2>2. /\ \A c : Once(s, c) => Once(Tail(s), c)
        /\ Once(s, m) => ~Contains(Tail(s), m)
    BY <1>5, TailFacts
  <2>3. ASSUME m \in Calls
        PROVE  /\ ~Contains(Tail(s), m) /\ stage[m] = "sent" /\ reply[m] \notin Refusals /\ binding[m] \in {0, e}
               /\ \A l \in Kinds, f \in 0..MaxEpoch : At(m, l, f) => l = k /\ f = e
    <3>1. Once(s, m)
      BY <1>5, <2>3, Zenon DEF PlaceInv, OnePlace
    <3>2. At(m, k, e)
      BY <1>5, <2>1 DEF At
    <3>3. k \in Kinds /\ k # "queue" /\ e \in 0..MaxEpoch
      BY EpochNumbers DEF Kinds
    <3> QED
      BY <2>2, <2>3, <3>1, <3>2, <3>3 DEF PlaceInv, OnePlace, Placed
  <2>4. Moves(m, "frame", e)
    <3>1. SUFFICES ASSUME NEW c \in Calls, NEW l \in Kinds, NEW f \in 0..MaxEpoch, At(c, l, f)'
                   PROVE  IF c = m THEN l = "frame" /\ f = e ELSE At(c, l, f)
      BY DEF Moves
    <3>2. l = "frame" /\ f = e => c = m
      BY <1>5, <3>1 DEF At
    <3>3. l # "frame" \/ f # e => At(c, l, f)
      BY <1>2, <1>4, <1>5, <2>1, <3>1, Zenon DEF At
    <3>4. c = m /\ At(c, l, f) => l = k /\ f = e
      BY <2>3
    <3>5. c = m /\ l = k /\ f = e => FALSE
      BY <1>5, <2>3, <3>1, Zenon DEF At
    <3> QED
      BY <3>2, <3>3, <3>4, <3>5
  <2>5. Distinct'
    BY <1>2, <1>4, <1>5, <2>2, Zenon DEF Distinct, PlaceInv, OnePlace
  <2>6. "frame" \in Kinds
    BY DEF Kinds
  <2> QED
    BY <1>2, <1>3, <2>3, <2>4, <2>5, <2>6, EpochNumbers, PlaceStep
<1>6. CASE control[e] # <<>> /\ control' = [control EXCEPT ![e] = Tail(@)] /\ data' = data
           /\ frame' = [frame EXCEPT ![e] = Head(control[e])]
  <2>1. control[e] \in Seq(Items) /\ control'[e] = Tail(control[e]) /\ data'[e] = data[e] /\ frame'[e] = Head(control[e])
    BY <1>1, <1>6 DEF LaneTypes, TaskTypes
  <2> QED
    BY <1>5, <1>6, <2>1, Zenon
<1>7. CASE data[e] # <<>> /\ data' = [data EXCEPT ![e] = Tail(@)] /\ control' = control
           /\ frame' = [frame EXCEPT ![e] = Head(data[e])]
  <2>1. data[e] \in Seq(Calls) /\ data'[e] = Tail(data[e]) /\ control'[e] = control[e] /\ frame'[e] = Head(data[e])
    BY <1>1, <1>7 DEF LaneTypes, TaskTypes
  <2> QED
    BY <1>5, <1>7, <2>1, Zenon
<1> QED
  BY <1>1, <1>6, <1>7, TakeFacts

\* The frame of a writer reaches the wire or is lost, and the lanes may be dropped.
LEMMA WriteFacts ==
    ASSUME Types, NEW e \in Epochs,
           WriterStops(e) \/ WriterFailed(e) \/ WriterAborted(e) \/ WriterWrote(e)
    PROVE  /\ \A f \in Epochs : f # e => /\ control'[f] = control[f] /\ data'[f] = data[f]
                                         /\ frame'[f] = frame[f] /\ wire'[f] = wire[f]
           /\ control'[e] \in {control[e], <<>>} /\ data'[e] \in {data[e], <<>>} /\ frame'[e] = NoCall
           /\ wire'[e] = wire[e] \/ (frame[e] \in Calls /\ wire'[e] = Append(wire[e], frame[e]))
           /\ UNCHANGED <<queue, stage, binding, sess, epoch, tracker, answered, accepted>>
<1>1. LaneTypes /\ TaskTypes
  BY DEF Types
<1>2. /\ frame' = [frame EXCEPT ![e] = NoCall]
      /\ control' \in {control, [control EXCEPT ![e] = <<>>]}
      /\ data' \in {data, [data EXCEPT ![e] = <<>>]}
      /\ wire' \in {wire, [wire EXCEPT ![e] = IF frame[e] \in Calls THEN Append(@, frame[e]) ELSE @]}
      /\ UNCHANGED <<queue, stage, binding, sess, epoch, tracker, answered, accepted>>
  BY OverFacts, Zenon DEF WriterWrote, Reached, chanVars, peerVars
<1> QED
  BY <1>1, <1>2 DEF LaneTypes, TaskTypes

LEMMA WritePlaces ==
    ASSUME PlaceInv, Types', NEW e \in Epochs,
           WriterStops(e) \/ WriterFailed(e) \/ WriterAborted(e) \/ WriterWrote(e)
    PROVE  PlaceInv'
<1>1. Types /\ LaneTypes /\ TaskTypes
  BY DEF PlaceInv, Types
<1>2. PICK m \in Calls \cup {"Ping", NoCall} : m = frame[e]
  BY <1>1 DEF TaskTypes
<1>3. frame'[e] = NoCall /\ queue' = queue
  BY <1>1, WriteFacts, Zenon
<1>4. \A f \in Epochs : f # e => /\ control'[f] = control[f] /\ data'[f] = data[f]
                                 /\ frame'[f] = frame[f] /\ wire'[f] = wire[f]
  BY <1>1, WriteFacts, Zenon
<1>5. /\ control'[e] \in {control[e], <<>>} /\ data'[e] \in {data[e], <<>>} /\ frame'[e] = NoCall
      /\ wire'[e] = wire[e] \/ (m \in Calls /\ wire'[e] = Append(wire[e], m))
      /\ UNCHANGED <<queue, stage, binding>>
  BY <1>1, <1>2, WriteFacts, Zenon
<1>6. Settles
  <2>1. \A c \in Calls : reply'[c] \in {reply[c], "Disconnected", "WriteFailed", "ok"}
    BY <1>1, OverFacts, Zenon DEF WriterWrote, Answer
  <2> QED
    BY <1>5, <2>1, Zenon DEF Settles, Refusals
<1>7. ASSUME m \in Calls
      PROVE  /\ stage[m] = "sent" /\ reply[m] \notin Refusals /\ binding[m] \in {0, e}
             /\ \A l \in Kinds, f \in 0..MaxEpoch : At(m, l, f) => l = "frame" /\ f = e
  <2>1. At(m, "frame", e) /\ "frame" \in Kinds /\ e \in 0..MaxEpoch
    BY <1>2, EpochNumbers, Zenon DEF At, Kinds
  <2> QED
    BY <1>7, <2>1 DEF PlaceInv, OnePlace, Placed
<1>8. m \in Calls => ~Contains(wire[e], m)
  BY <1>7, EpochNumbers DEF At, Kinds
<1>9. \A c \in Calls : /\ Contains(control'[e], c) => Contains(control[e], c)
                       /\ Contains(data'[e], c) => Contains(data[e], c)
                       /\ Once(control[e], c) => Once(control'[e], c)
                       /\ Once(data[e], c) => Once(data'[e], c)
  BY <1>5, EmptyFacts
<1>10. \A c \in Calls : /\ Contains(wire'[e], c) => Contains(wire[e], c) \/ c = m
                        /\ Once(wire[e], c) => Once(wire'[e], c)
  <2>1. wire[e] \in Seq(Calls)
    BY <1>1 DEF TaskTypes
  <2>2. CASE m \in Calls /\ wire'[e] = Append(wire[e], m)
    <3>1. /\ \A c : Contains(Append(wire[e], m), c) => Contains(wire[e], c) \/ c = m
          /\ \A c : Once(wire[e], c) => Once(Append(wire[e], m), c)
      BY <1>8, <2>1, <2>2, AppendFacts, Zenon
    <3> QED
      BY <2>2, <3>1, Zenon
  <2> QED
    BY <1>5, <2>2, Zenon
<1>11. Moves(m, "wire", e)
  <2>1. SUFFICES ASSUME NEW c \in Calls, NEW l \in Kinds, NEW f \in 0..MaxEpoch, At(c, l, f)'
                 PROVE  IF c = m THEN l = "wire" /\ f = e ELSE At(c, l, f)
    BY DEF Moves
  <2>2. At(c, l, f) \/ (c = m /\ l = "wire" /\ f = e)
    BY <1>3, <1>4, <1>9, <1>10, <2>1, NoCallIsNoCall, Zenon DEF At
  <2>3. ~(l = "frame" /\ f = e)
    BY <1>5, <2>1, NoCallIsNoCall, Zenon DEF At
  <2> QED
    BY <1>7, <2>2, <2>3
<1>12. Distinct'
  BY <1>3, <1>4, <1>9, <1>10, Zenon DEF Distinct, PlaceInv, OnePlace
<1>13. "wire" \in Kinds
  BY DEF Kinds
<1> QED
  BY <1>5, <1>6, <1>7, <1>11, <1>12, <1>13, EpochNumbers, PlaceStep

LEMMA InitPlaces == Init => PlaceInv
<1> SUFFICES ASSUME Init
             PROVE  PlaceInv
  OBVIOUS
<1>1. \A c \in Calls, k \in Kinds, e \in 0..MaxEpoch : ~At(c, k, e)
  BY EmptyFacts, NoCallIsNoCall DEF Init, At
<1>2. Distinct
  BY EmptyFacts DEF Init, Distinct
<1> QED
  BY <1>1, <1>2, InitTypes, Zenon DEF PlaceInv, OnePlace, Placed, Distinct

LEMMA PlacesStep ==
    ASSUME PlaceInv, [Next]_vars
    PROVE  PlaceInv'
<1>1. Types'
  BY TypesStep DEF PlaceInv
<1>2. CASE \E c \in Calls : Caller(c)
  BY <1>1, <1>2, CallerPlaces
<1>3. CASE \E c \in Calls : ReadAnswer(c) \/ PeerAnswers(c)
  BY <1>1, <1>3, AnswerPlaces
<1>4. CASE \E e \in Epochs : Writer(e)
  BY <1>1, <1>4, TakePlaces, WritePlaces DEF Writer
<1>5. CASE Loop
  BY <1>1, <1>5, HandlePlaces, LoopPlaces DEF Loop
<1>6. CASE SessionEnds \/ Between
  BY <1>1, <1>6, BetweenPlaces
<1>7. CASE UNCHANGED vars
  <2>1. UNCHANGED <<stage, binding, reply, queue, control, data, frame, wire>>
    BY <1>7 DEF vars, callVars, chanVars, writerVars
  <2> QED
    BY <1>1, <2>1, PlainAnswers, Shorter
<1> QED
  BY <1>2, <1>3, <1>4, <1>5, <1>6, <1>7 DEF Next, Finished

LEMMA Places == Spec => []PlaceInv
<1>1. PlaceInv /\ [Next]_vars => PlaceInv'
  BY PlacesStep
<1> QED
  BY <1>1, InitPlaces, PTL DEF Spec

\* Where the frame of a call is, in terms of places.
LEMMA FramePlaces ==
    ASSUME NEW c \in Calls, NEW e \in OnWire(c) \cup InLanes(c)
    PROVE  e \in Epochs /\ \E k \in Kinds \ {"queue"} : At(c, k, e)
BY DEF OnWire, InLanes, At, Kinds

\* A refusal can be relied on: what handle_command, a full queue or a closed session
\* refuses has not reached the peer, is in no lane and no writer, and is not queued
\* (again); so it may be sent again without being sent twice.
THEOREM RefusalsAreFinal == Spec => []RefusedIsNotSent
<1>1. PlaceInv => RefusedIsNotSent
  <2> SUFFICES ASSUME PlaceInv, NEW c \in Calls, reply[c] \in Refusals
               PROVE  OnWire(c) \cup InLanes(c) = {} /\ ~Contains(queue, c)
    BY DEF RefusedIsNotSent, Refusals
  <2>1. \A k \in Kinds, e \in 0..MaxEpoch : ~At(c, k, e)
    BY DEF PlaceInv, Placed
  <2>2. ~Contains(queue, c)
    BY <2>1, EpochNumbers DEF At, Kinds
  <2>3. \A e \in OnWire(c) \cup InLanes(c) : FALSE
    BY <2>1, FramePlaces, EpochNumbers, Zenon
  <2> QED
    BY <2>2, <2>3
<1> QED
  BY <1>1, Places, PTL

------------------------------------------------------------------------------
(* Two calls on the same way *)

\* c is ahead of d on the way from the queue to the wire of connection e.
Ahead(s, c, d) == \E i, j \in 1..Len(s) : i < j /\ s[i] = c /\ s[j] = d
Precedes(c, d, e) ==
    \/ Ahead(wire[e], c, d) \/ Ahead(data[e], c, d) \/ Ahead(queue, c, d)
    \/ Contains(wire[e], c) /\ (frame[e] = d \/ Contains(data[e], d) \/ Contains(queue, d))
    \/ frame[e] = c /\ (Contains(data[e], d) \/ Contains(queue, d))
    \/ Contains(data[e], c) /\ Contains(queue, d)

\* Only control frames use the control lane; a command for the data lane is on its
\* way only if it was accepted, and it is ahead only of what was accepted after it.
ControlLane == \A e \in Epochs : \A c \in Calls : Contains(control[e], c) => c \in Control
Coming(c, e) == Contains(queue, c) \/ Contains(data[e], c) \/ frame[e] = c \/ Contains(wire[e], c)
OnTheWay == \A c \in Calls \ Control, e \in Epochs : Coming(c, e) => Contains(accepted, c)
InOrder == \A c, d \in Calls \ Control, e \in Epochs : Precedes(c, d, e) => Ahead(accepted, c, d)
OrderInv == Types /\ ControlLane /\ OnTheWay /\ InOrder

------------------------------------------------------------------------------
(* The order of frames *)

LEMMA AheadAppend ==
    ASSUME NEW S, NEW s \in Seq(S), NEW x \in S
    PROVE  /\ \A c, d : Ahead(Append(s, x), c, d) => Ahead(s, c, d) \/ (Contains(s, c) /\ d = x)
           /\ \A c, d : Ahead(s, c, d) \/ (Contains(s, c) /\ d = x) => Ahead(Append(s, x), c, d)
<1>1. Len(Append(s, x)) = Len(s) + 1 /\ Len(s) \in Nat
  OBVIOUS
<1>2. \A i \in 1..Len(Append(s, x)) : IF i = Len(s) + 1 THEN Append(s, x)[i] = x
                                       ELSE i \in 1..Len(s) /\ Append(s, x)[i] = s[i]
  OBVIOUS
<1>3. ASSUME NEW c, NEW d, Ahead(Append(s, x), c, d)
      PROVE  Ahead(s, c, d) \/ (Contains(s, c) /\ d = x)
  <2>1. PICK i, j \in 1..Len(Append(s, x)) : i < j /\ Append(s, x)[i] = c /\ Append(s, x)[j] = d
    BY <1>3 DEF Ahead
  <2>2. i # Len(s) + 1
    BY <1>1, <2>1
  <2> QED
    BY <1>2, <2>1, <2>2 DEF Ahead, Contains
<1>4. ASSUME NEW c, NEW d, Ahead(s, c, d)
      PROVE  Ahead(Append(s, x), c, d)
  <2>1. PICK i, j \in 1..Len(s) : i < j /\ s[i] = c /\ s[j] = d
    BY <1>4 DEF Ahead
  <2>2. i \in 1..Len(Append(s, x)) /\ j \in 1..Len(Append(s, x)) /\ i # Len(s) + 1 /\ j # Len(s) + 1
    BY <1>1, <2>1
  <2> QED
    BY <1>2, <2>1, <2>2 DEF Ahead
<1>5. ASSUME NEW c, Contains(s, c)
      PROVE  Ahead(Append(s, x), c, x)
  <2>1. PICK i \in 1..Len(s) : s[i] = c
    BY <1>5 DEF Contains
  <2>2. i \in 1..Len(Append(s, x)) /\ Len(s) + 1 \in 1..Len(Append(s, x)) /\ i < Len(s) + 1
    BY <1>1, <2>1
  <2> QED
    BY <1>2, <2>1, <2>2 DEF Ahead
<1> QED
  BY <1>3, <1>4, <1>5

LEMMA AheadTail ==
    ASSUME NEW S, NEW s \in Seq(S), s # <<>>
    PROVE  /\ \A c, d : Ahead(Tail(s), c, d) => Ahead(s, c, d)
           /\ \A d : Contains(Tail(s), d) => Ahead(s, Head(s), d)
<1>1. Len(s) \in Nat /\ Len(s) > 0
  OBVIOUS
<1>2. \A i \in 1..Len(Tail(s)) : i + 1 \in 1..Len(s) /\ Tail(s)[i] = s[i + 1]
  BY <1>1
<1>3. ASSUME NEW c, NEW d, Ahead(Tail(s), c, d)
      PROVE  Ahead(s, c, d)
  <2>1. PICK i, j \in 1..Len(Tail(s)) : i < j /\ Tail(s)[i] = c /\ Tail(s)[j] = d
    BY <1>3 DEF Ahead
  <2>2. i + 1 \in 1..Len(s) /\ j + 1 \in 1..Len(s) /\ i + 1 < j + 1
    BY <1>2, <2>1
  <2> QED
    BY <1>2, <2>1, <2>2 DEF Ahead
<1>4. ASSUME NEW d, Contains(Tail(s), d)
      PROVE  Ahead(s, Head(s), d)
  <2>1. PICK i \in 1..Len(Tail(s)) : Tail(s)[i] = d
    BY <1>4 DEF Contains
  <2>2. 1 \in 1..Len(s) /\ s[1] = Head(s) /\ i + 1 \in 1..Len(s) /\ 1 < i + 1 /\ s[i + 1] = d
    BY <1>1, <1>2, <2>1
  <2> QED
    BY <2>2 DEF Ahead
<1> QED
  BY <1>3, <1>4

LEMMA AheadEmpty == \A c, d : ~Ahead(<<>>, c, d)
BY DEF Ahead

\* A step that accepts nothing keeps the order if it puts nothing ahead of anything,
\* and nothing on the way that was not there.
LEMMA OrderStep ==
    ASSUME OrderInv, Types', ControlLane', accepted' = accepted,
           \A c, d \in Calls \ Control, e \in Epochs : Precedes(c, d, e)' => Precedes(c, d, e),
           \A c \in Calls \ Control, e \in Epochs : Coming(c, e)' => \E f \in Epochs : Coming(c, f)
    PROVE  OrderInv'
<1>1. OnTheWay'
  BY DEF OrderInv, OnTheWay
<1>2. InOrder'
  BY DEF OrderInv, InOrder
<1> QED
  BY <1>1, <1>2 DEF OrderInv

\* A step that leaves lanes, writers and wires alone, and may shorten the queue.
LEMMA ShorterOrder ==
    ASSUME OrderInv, Types', accepted' = accepted,
           queue' \in {queue, <<>>} \/ (queue # <<>> /\ queue' = Tail(queue)),
           UNCHANGED <<control, data, frame, wire>>
    PROVE  OrderInv'
<1>1. /\ \A c : Contains(queue', c) => Contains(queue, c)
      /\ \A c, d : Ahead(queue', c, d) => Ahead(queue, c, d)
  <2>1. queue \in Seq(Calls)
    BY DEF OrderInv, Types, QueueTypes
  <2>2. CASE queue' = queue
    BY <2>2
  <2>3. CASE queue' = <<>>
    BY <2>3, EmptyFacts, AheadEmpty
  <2>4. CASE queue # <<>> /\ queue' = Tail(queue)
    BY <2>1, <2>4, TailFacts, AheadTail
  <2> QED
    BY <2>2, <2>3, <2>4
<1>2. ControlLane'
  BY DEF OrderInv, ControlLane
<1>3. \A c, d \in Calls \ Control, e \in Epochs : Precedes(c, d, e)' => Precedes(c, d, e)
  BY <1>1 DEF Precedes
<1>4. \A c \in Calls \ Control, e \in Epochs : Coming(c, e)' => Coming(c, e)
  BY <1>1 DEF Coming
<1> QED
  BY <1>2, <1>3, <1>4, OrderStep

LEMMA EnqueueOrder ==
    ASSUME OrderInv, Types', NEW c \in Calls, Enqueue(c)
    PROVE  OrderInv'
<1>1. queue' = Append(queue, c) /\ accepted' = (IF c \in Control THEN accepted ELSE Append(accepted, c))
      /\ UNCHANGED <<control, data, frame, wire>>
  BY DEF Enqueue, writerVars
<1>2. queue \in Seq(Calls) /\ accepted \in Seq(Calls)
  BY DEF OrderInv, Types, QueueTypes
<1>3. ControlLane'
  BY <1>1 DEF OrderInv, ControlLane
<1>4. /\ \A d : Contains(queue', d) => Contains(queue, d) \/ d = c
      /\ \A b, d : Ahead(queue', b, d) => Ahead(queue, b, d) \/ (Contains(queue, b) /\ d = c)
  BY <1>1, <1>2, AppendFacts, AheadAppend
<1>5. /\ \A d : Contains(accepted, d) => Contains(accepted', d)
      /\ \A b, d : Ahead(accepted, b, d) => Ahead(accepted', b, d)
      /\ c \notin Control => Contains(accepted', c) /\ \A b : Contains(accepted, b) => Ahead(accepted', b, c)
  <2>1. CASE c \in Control
    BY <1>1, <2>1
  <2>2. CASE c \notin Control
    BY <1>1, <1>2, <2>2, AppendFacts, AheadAppend
  <2> QED
    BY <2>1, <2>2
<1>6. OnTheWay'
  <2>1. \A d \in Calls \ Control, e \in Epochs : Coming(d, e)' => Coming(d, e) \/ d = c
    BY <1>1, <1>4 DEF Coming
  <2> QED
    BY <1>5, <2>1 DEF OrderInv, OnTheWay
<1>7. InOrder'
  <2> SUFFICES ASSUME NEW b \in Calls \ Control, NEW d \in Calls \ Control, NEW e \in Epochs, Precedes(b, d, e)'
               PROVE  Ahead(accepted', b, d)
    BY DEF InOrder
  <2>1. Precedes(b, d, e) \/ (d = c /\ Coming(b, e))
    BY <1>1, <1>4 DEF Precedes, Coming
  <2>2. CASE Precedes(b, d, e)
    BY <1>5, <2>2 DEF OrderInv, InOrder
  <2>3. CASE d = c /\ Coming(b, e)
    <3>1. Contains(accepted, b)
      BY <2>3 DEF OrderInv, OnTheWay
    <3> QED
      BY <1>5, <2>3, <3>1
  <2> QED
    BY <2>1, <2>2, <2>3
<1> QED
  BY <1>3, <1>6, <1>7 DEF OrderInv

LEMMA CallerOrder ==
    ASSUME OrderInv, Types', NEW c \in Calls, Caller(c)
    PROVE  OrderInv'
<1>1. CASE ~Enqueue(c)
  <2>1. UNCHANGED <<queue, control, data, frame, wire, accepted>>
    BY <1>1 DEF Caller, Issue, EnqueueRefused, AwaitTimeout, Abandon, chanVars, writerVars
  <2> QED
    BY <2>1, ShorterOrder
<1> QED
  BY <1>1, EnqueueOrder

LEMMA HandleOrder ==
    ASSUME OrderInv, Types', handle_command
    PROVE  OrderInv'
<1>1. PICK c \in Calls : c = Head(queue)
  BY HandleFacts DEF OrderInv
<1>2. Types /\ epoch \in Epochs /\ queue # <<>> /\ queue' = Tail(queue) /\ accepted' = accepted
  BY HandleFacts DEF OrderInv
<1>3. CASE Skips \/ Refuses(c) \/ Lost({c} \cup Pending(tracker))
  <2>1. UNCHANGED <<control, data, frame, wire>>
    BY <1>3 DEF Skips, Refuses, Lost
  <2> QED
    BY <1>2, <2>1, ShorterOrder
<1>4. CASE Pushes(c)
  <2>1. queue \in Seq(Calls) /\ LaneTypes
    BY <1>2 DEF Types, QueueTypes
  <2>2. /\ Contains(queue, c)
        /\ \A d : Contains(queue', d) => Contains(queue, d) /\ Ahead(queue, c, d)
        /\ \A b, d : Ahead(queue', b, d) => Ahead(queue, b, d)
    BY <1>1, <1>2, <2>1, TailFacts, AheadTail
  <2>3. UNCHANGED <<frame, wire>>
    BY <1>4 DEF Pushes, PushFrame
  <2>4. CASE c \in Control
    <3>1. control' = [control EXCEPT ![epoch] = Append(@, c)] /\ data' = data
      BY <1>4, <2>4 DEF Pushes, PushFrame
    <3>2. ControlLane'
      <4> SUFFICES ASSUME NEW e \in Epochs, NEW d \in Calls, Contains(control'[e], d)
                   PROVE  d \in Control
        BY DEF ControlLane
      <4>1. control[e] \in Seq(Items) /\ c \in Items /\ control'[e] \in {control[e], Append(control[e], c)}
        BY <1>2, <2>1, <3>1 DEF LaneTypes, Items
      <4>2. Contains(control[e], d) \/ d = c
        BY <4>1, AppendFacts, ZenonT(20)
      <4> QED
        BY <2>4, <4>2 DEF OrderInv, ControlLane
    <3>3. \A b, d \in Calls \ Control, e \in Epochs : Precedes(b, d, e)' => Precedes(b, d, e)
      BY <2>2, <2>3, <3>1 DEF Precedes
    <3>4. \A d \in Calls \ Control, e \in Epochs : Coming(d, e)' => Coming(d, e)
      BY <2>2, <2>3, <3>1 DEF Coming
    <3> QED
      BY <1>2, <3>2, <3>3, <3>4, OrderStep
  <2>5. CASE c \notin Control
    <3>1. data' = [data EXCEPT ![epoch] = Append(@, c)] /\ control' = control
      BY <1>4, <2>5 DEF Pushes, PushFrame
    <3>2. ControlLane'
      BY <3>1 DEF OrderInv, ControlLane
    <3>3. \A e \in Epochs : /\ \A d : Contains(data'[e], d) => Contains(data[e], d) \/ d = c
                            /\ \A b, d : Ahead(data'[e], b, d) => Ahead(data[e], b, d) \/ (Contains(data[e], b) /\ d = c)
      <4> SUFFICES ASSUME NEW e \in Epochs
                   PROVE  /\ \A d : Contains(data'[e], d) => Contains(data[e], d) \/ d = c
                          /\ \A b, d : Ahead(data'[e], b, d) => Ahead(data[e], b, d) \/ (Contains(data[e], b) /\ d = c)
        OBVIOUS
      <4>1. data[e] \in Seq(Calls) /\ data'[e] \in {data[e], Append(data[e], c)}
        BY <1>2, <2>1, <3>1 DEF LaneTypes
      <4>2. CASE data'[e] = data[e]
        BY <4>2
      <4>3. CASE data'[e] = Append(data[e], c)
        <5>1. \A d : Contains(Append(data[e], c), d) => Contains(data[e], d) \/ d = c
          BY <4>1, AppendFacts
        <5>2. \A b, d : Ahead(Append(data[e], c), b, d) => Ahead(data[e], b, d) \/ (Contains(data[e], b) /\ d = c)
          BY <4>1, AheadAppend
        <5> QED
          BY <4>3, <5>1, <5>2
      <4> QED
        BY <4>1, <4>2, <4>3
    <3>4. \A b, d \in Calls \ Control, e \in Epochs : Precedes(b, d, e)' => Precedes(b, d, e)
      BY <2>2, <2>3, <3>3 DEF Precedes
    <3>5. \A d \in Calls \ Control, e \in Epochs : Coming(d, e)' => Coming(d, e)
      BY <2>2, <2>3, <3>3 DEF Coming
    <3> QED
      BY <1>2, <3>2, <3>4, <3>5, OrderStep
  <2> QED
    BY <2>4, <2>5
<1> QED
  BY <1>1, <1>3, <1>4, HandleFacts DEF OrderInv

LEMMA LoopOrder ==
    ASSUME OrderInv, Types', HandleCancel \/ Ping \/ LoopLost \/ LoopClosed \/ LoopRejected
    PROVE  OrderInv'
<1>1. CASE HandleCancel \/ LoopLost
  <2>1. UNCHANGED <<control, data, frame, wire, queue, accepted>>
    BY <1>1 DEF HandleCancel, LoopLost, Lost, writerVars, chanVars
  <2> QED
    BY <2>1, ShorterOrder
<1>2. CASE Ping \/ LoopClosed \/ LoopRejected
  <2>1. /\ sess = "loop" /\ UNCHANGED <<queue, data, frame, wire, accepted>>
        /\ \/ control' = control
           \/ \E x \in {"Ping", "Close", "Stop"} : control' = [control EXCEPT ![epoch] = Append(@, x)]
    BY <1>2 DEF Ping, LoopClosed, LoopRejected, LoopStops, chanVars
  <2>2. epoch \in Epochs /\ LaneTypes
    BY <2>1 DEF OrderInv, Types, SessTypes
  <2>3. ControlLane'
    <3>1. ASSUME NEW x \in {"Ping", "Close", "Stop"}, control' = [control EXCEPT ![epoch] = Append(@, x)],
                 NEW e \in Epochs, NEW c \in Calls, Contains(control'[e], c)
          PROVE  Contains(control[e], c)
      <4>1. x \in Items /\ x # c
        BY NoCallIsNoCall DEF Items
      <4>2. control[e] \in Seq(Items) /\ control'[e] \in {control[e], Append(control[e], x)}
        BY <2>2, <3>1 DEF LaneTypes
      <4>3. Contains(Append(control[e], x), c) => Contains(control[e], c) \/ c = x
        BY <4>1, <4>2, AppendFacts
      <4> QED
        BY <3>1, <4>1, <4>2, <4>3
    <3>2. \A e \in Epochs : \A c \in Calls : Contains(control'[e], c) => Contains(control[e], c)
      BY <2>1, <3>1
    <3> QED
      BY <3>2 DEF OrderInv, ControlLane
  <2>4. \A b, d \in Calls \ Control, e \in Epochs : Precedes(b, d, e)' => Precedes(b, d, e)
    BY <2>1 DEF Precedes
  <2>5. \A d \in Calls \ Control, e \in Epochs : Coming(d, e)' => Coming(d, e)
    BY <2>1 DEF Coming
  <2> QED
    BY <2>1, <2>3, <2>4, <2>5, OrderStep
<1> QED
  BY <1>1, <1>2

LEMMA TakeOrder ==
    ASSUME OrderInv, Types', NEW e \in Epochs, WriterTake(e)
    PROVE  OrderInv'
<1>1. Types /\ LaneTypes /\ TaskTypes
  BY DEF OrderInv, Types
<1>2. UNCHANGED <<queue, wire, accepted>>
  BY <1>1, TakeFacts
<1>3. \A f \in Epochs : f # e => control'[f] = control[f] /\ data'[f] = data[f] /\ frame'[f] = frame[f]
  BY <1>1, TakeFacts DEF LaneTypes, TaskTypes
<1>4. CASE control[e] # <<>> /\ control' = [control EXCEPT ![e] = Tail(@)] /\ data' = data
           /\ frame' = [frame EXCEPT ![e] = Head(control[e])]
  <2>1. control[e] \in Seq(Items) /\ control'[e] = Tail(control[e]) /\ frame'[e] = Head(control[e])
    BY <1>1, <1>4 DEF LaneTypes, TaskTypes
  <2>2. Contains(control[e], Head(control[e])) /\ \A c : Contains(control'[e], c) => Contains(control[e], c)
    BY <1>4, <2>1, TailFacts
  <2>3. ControlLane' /\ frame'[e] \notin Calls \ Control
    BY <1>3, <2>1, <2>2 DEF OrderInv, ControlLane
  <2>4. \A b, d \in Calls \ Control, f \in Epochs : Precedes(b, d, f)' => Precedes(b, d, f)
    BY <1>2, <1>3, <1>4, <2>3 DEF Precedes
  <2>5. \A d \in Calls \ Control, f \in Epochs : Coming(d, f)' => Coming(d, f)
    BY <1>2, <1>3, <1>4, <2>3 DEF Coming
  <2> QED
    BY <1>2, <2>3, <2>4, <2>5, OrderStep
<1>5. CASE data[e] # <<>> /\ data' = [data EXCEPT ![e] = Tail(@)] /\ control' = control
           /\ frame' = [frame EXCEPT ![e] = Head(data[e])]
  <2>1. data[e] \in Seq(Calls) /\ data'[e] = Tail(data[e]) /\ frame'[e] = Head(data[e])
    BY <1>1, <1>5 DEF LaneTypes, TaskTypes
  <2>2. /\ Contains(data[e], frame'[e])
        /\ \A d : Contains(data'[e], d) => Contains(data[e], d) /\ Ahead(data[e], frame'[e], d)
        /\ \A b, d : Ahead(data'[e], b, d) => Ahead(data[e], b, d)
    BY <1>5, <2>1, TailFacts, AheadTail
  <2>3. ControlLane'
    BY <1>5 DEF OrderInv, ControlLane
  <2>4. \A b, d \in Calls \ Control, f \in Epochs : Precedes(b, d, f)' => Precedes(b, d, f)
    BY <1>2, <1>3, <2>2 DEF Precedes
  <2>5. \A d \in Calls \ Control, f \in Epochs : Coming(d, f)' => Coming(d, f)
    BY <1>2, <1>3, <2>2 DEF Coming
  <2> QED
    BY <1>2, <2>3, <2>4, <2>5, OrderStep
<1> QED
  BY <1>1, <1>4, <1>5, TakeFacts

LEMMA WriteOrder ==
    ASSUME OrderInv, Types', NEW e \in Epochs,
           WriterStops(e) \/ WriterFailed(e) \/ WriterAborted(e) \/ WriterWrote(e)
    PROVE  OrderInv'
<1>1. Types /\ wire[e] \in Seq(Calls)
  BY DEF OrderInv, Types, TaskTypes
<1>2. \A f \in Epochs : f # e => /\ control'[f] = control[f] /\ data'[f] = data[f]
                                 /\ frame'[f] = frame[f] /\ wire'[f] = wire[f]
  BY <1>1, WriteFacts
<1>3. /\ control'[e] \in {control[e], <<>>} /\ data'[e] \in {data[e], <<>>} /\ frame'[e] = NoCall
      /\ wire'[e] = wire[e] \/ (frame[e] \in Calls /\ wire'[e] = Append(wire[e], frame[e]))
      /\ UNCHANGED <<queue, accepted>>
  BY <1>1, WriteFacts
<1>4. \A c, d : /\ Contains(control'[e], c) => Contains(control[e], c)
                /\ Contains(data'[e], c) => Contains(data[e], c)
                /\ Ahead(data'[e], c, d) => Ahead(data[e], c, d)
  BY <1>3, EmptyFacts, AheadEmpty
<1>5. \A c, d : /\ Contains(wire'[e], c) => Contains(wire[e], c) \/ c = frame[e]
                /\ Ahead(wire'[e], c, d) => Ahead(wire[e], c, d) \/ (Contains(wire[e], c) /\ d = frame[e])
  <2>1. CASE frame[e] \in Calls /\ wire'[e] = Append(wire[e], frame[e])
    BY <1>1, <2>1, AppendFacts, AheadAppend
  <2> QED
    BY <1>3, <2>1
<1>6. ControlLane'
  BY <1>2, <1>4 DEF OrderInv, ControlLane
<1>7. \A b, d \in Calls \ Control, f \in Epochs : Precedes(b, d, f)' => Precedes(b, d, f)
  <2> SUFFICES ASSUME NEW b \in Calls \ Control, NEW d \in Calls \ Control, NEW f \in Epochs, Precedes(b, d, f)'
               PROVE  Precedes(b, d, f)
    OBVIOUS
  <2>1. CASE f # e
    BY <1>2, <1>3, <2>1 DEF Precedes
  <2>2. CASE f = e
    BY <1>3, <1>4, <1>5, <2>2, NoCallIsNoCall DEF Precedes
  <2> QED
    BY <2>1, <2>2
<1>8. \A d \in Calls \ Control, f \in Epochs : Coming(d, f)' => Coming(d, f)
  BY <1>2, <1>3, <1>4, <1>5, NoCallIsNoCall DEF Coming
<1> QED
  BY <1>3, <1>6, <1>7, <1>8, OrderStep

LEMMA OrdersStep ==
    ASSUME OrderInv, [Next]_vars
    PROVE  OrderInv'
<1>1. Types /\ Types'
  BY TypesStep DEF OrderInv
<1>2. CASE \E c \in Calls : Caller(c)
  BY <1>1, <1>2, CallerOrder
<1>3. CASE \E c \in Calls : ReadAnswer(c) \/ PeerAnswers(c)
  <2>1. UNCHANGED <<queue, control, data, frame, wire, accepted>>
    BY <1>3, ReadFacts DEF PeerAnswers, chanVars, writerVars
  <2> QED
    BY <1>1, <2>1, ShorterOrder
<1>4. CASE \E e \in Epochs : Writer(e)
  BY <1>1, <1>4, TakeOrder, WriteOrder DEF Writer
<1>5. CASE Loop
  BY <1>1, <1>5, HandleOrder, LoopOrder DEF Loop
<1>6. CASE SessionEnds \/ Between
  <2>1. /\ UNCHANGED <<control, data, frame, wire, accepted>>
        /\ queue' \in {queue, <<>>} \/ (queue # <<>> /\ queue' = Tail(queue))
    BY <1>1, <1>6, BetweenFacts
  <2> QED
    BY <1>1, <2>1, ShorterOrder
<1>7. CASE UNCHANGED vars
  <2>1. UNCHANGED <<queue, control, data, frame, wire, accepted>>
    BY <1>7 DEF vars, chanVars, writerVars
  <2> QED
    BY <1>1, <2>1, ShorterOrder
<1> QED
  BY <1>2, <1>3, <1>4, <1>5, <1>6, <1>7 DEF Next, Finished

\* The session takes commands from one queue, each connection has one data lane and one
\* writer, and a connection that ends loses what it still holds: so two frames of the
\* data lane reach the peer in the order in which their commands were queued, whatever
\* is refused, dropped or overtaken by control frames in between.
THEOREM FramesKeepTheirOrder == Spec => []DataFrameOrder
<1>1. Init => OrderInv
  <2> SUFFICES ASSUME Init
               PROVE  OrderInv
    OBVIOUS
  <2>1. \A c, d \in Calls, e \in Epochs : ~Precedes(c, d, e) /\ ~Coming(c, e) /\ ~Contains(control[e], c)
    BY EmptyFacts, AheadEmpty, NoCallIsNoCall DEF Init, Precedes, Coming
  <2> QED
    BY <2>1, InitTypes DEF OrderInv, ControlLane, OnTheWay, InOrder
<1>2. OrderInv /\ [Next]_vars => OrderInv'
  BY OrdersStep
<1>3. OrderInv => DataFrameOrder
  <2> SUFFICES ASSUME OrderInv, NEW e \in Epochs, NEW i \in DOMAIN wire[e], NEW j \in DOMAIN wire[e],
                      i <= j, {wire[e][i], wire[e][j]} \cap Control = {}
               PROVE  \E k, l \in DOMAIN accepted : /\ accepted[k] = wire[e][i] /\ accepted[l] = wire[e][j]
                                                    /\ i < j => k < l
    BY DEF DataFrameOrder
  <2>1. wire[e] \in Seq(Calls) /\ accepted \in Seq(Calls)
    BY DEF OrderInv, Types, TaskTypes, QueueTypes
  <2>2. DOMAIN wire[e] = 1..Len(wire[e]) /\ DOMAIN accepted = 1..Len(accepted) /\ Len(wire[e]) \in Nat
    BY <2>1
  <2>3. wire[e][i] \in Calls \ Control /\ wire[e][j] \in Calls \ Control
    BY <2>1
  <2>4. Contains(wire[e], wire[e][i])
    BY <2>2 DEF Contains
  <2>5. Contains(accepted, wire[e][i])
    BY <2>3, <2>4 DEF OrderInv, OnTheWay, Coming
  <2>6. CASE i < j
    <3>1. Ahead(wire[e], wire[e][i], wire[e][j])
      BY <2>2, <2>6 DEF Ahead
    <3>2. Ahead(accepted, wire[e][i], wire[e][j])
      BY <2>3, <3>1 DEF OrderInv, InOrder, Precedes
    <3> QED
      BY <2>2, <3>2 DEF Ahead
  <2>7. CASE i = j
    BY <2>2, <2>5, <2>7 DEF Contains
  <2> QED
    BY <2>2, <2>6, <2>7
<1> QED
  BY <1>1, <1>2, <1>3, PTL DEF Spec
==============================================================================
