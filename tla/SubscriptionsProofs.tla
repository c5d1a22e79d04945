------------------------- MODULE SubscriptionsProofs -------------------------
(***************************************************************************)
(* For any channels, mints and numbers of changes and connections: the     *)
(* acknowledgement deadline belongs to the change in flight; every variable*)
(* keeps its type; and the target is established whenever a session is     *)
(* ready with nothing in flight.                                           *)
(***************************************************************************)
EXTENDS Subscriptions, TLAPS

\* Unless a leaf names its prover: Zenon for what it finds at once, SMT, and Zenon again.
USE ZenonT(2), SMTT(20), ZenonT(20)

\* Request ids are handed out in order, so the change in flight and the receipt
\* that is awaited, if any, are those of the latest change.
DeadlineInv ==
    /\ changes \in Nat
    /\ pending = [id |-> pending.id, previous |-> pending.previous]
    /\ pending.id \in {0, changes}
    /\ receipt \in {0, changes}
    /\ DeadlineOfChange

\* A new change finds no deadline armed and becomes the latest.
LEMMA ChangeStep ==
    ASSUME DeadlineInv, NEW frame \in Frames, Change(frame)
    PROVE  DeadlineInv'
<1>1. /\ pending' = [id |-> changes + 1, previous |-> target]
      /\ changes' = changes + 1
      /\ receipt' = changes + 1
      /\ deadline' = deadline
  BY DEF Change, begin
<1>2. deadline = 0
  BY DEF Change, DeadlineInv, DeadlineOfChange
<1>3. changes + 1 \in Nat
  BY DEF DeadlineInv
<1> QED
  BY <1>1, <1>2, <1>3 DEF DeadlineInv, DeadlineOfChange

\* A receipt arms the deadline only for a change that is still in flight.
LEMMA WrittenStep ==
    ASSUME DeadlineInv, Written
    PROVE  DeadlineInv'
<1>1. /\ receipt' = 0
      /\ deadline' = IF has_pending THEN receipt ELSE deadline
      /\ pending' = pending
      /\ changes' = changes
  BY DEF Written
<1> QED
  BY <1>1 DEF DeadlineInv, DeadlineOfChange, has_pending

\* A reply takes the deadline away together with the change it resolves.
LEMMA ReplyStep ==
    ASSUME DeadlineInv, ReadReply
    PROVE  DeadlineInv'
<1>1. /\ \/ pending' = NoChange
         \/ pending' = pending
      /\ deadline' = IF pending'.id = 0 THEN 0 ELSE deadline
      /\ receipt' = receipt
      /\ changes' = changes
  BY DEF ReadReply, resolve
<1>2. CASE pending' = NoChange
  BY <1>1, <1>2 DEF DeadlineInv, DeadlineOfChange, has_pending, NoChange
<1>3. CASE pending' = pending
  BY <1>1, <1>3 DEF DeadlineInv, DeadlineOfChange, has_pending
<1> QED
  BY <1>1, <1>2, <1>3

\* Nothing of a change in flight outlives its connection.
LEMMA LostStep ==
    ASSUME DeadlineInv, connection_lost
    PROVE  DeadlineInv'
BY DEF DeadlineInv, DeadlineOfChange, has_pending, connection_lost, NoChange

\* Every step keeps the invariant.
LEMMA DeadlineStep == DeadlineInv /\ [Next]_vars => DeadlineInv'
<1> SUFFICES ASSUME DeadlineInv, [Next]_vars
             PROVE  DeadlineInv'
  OBVIOUS
<1>1. CASE \E frame \in Frames : Change(frame)
  BY <1>1, ChangeStep
<1>2. CASE Written
  BY <1>2, WrittenStep
<1>3. CASE ReadReply
  BY <1>3, ReplyStep
<1>4. CASE Lost \/ RecoveryRejected \/ DeadlinePasses
  BY <1>4, LostStep DEF Lost, RecoveryRejected, DeadlinePasses
<1>5. ASSUME UNCHANGED clientVars
      PROVE  DeadlineInv'
  BY <1>5 DEF DeadlineInv, DeadlineOfChange, has_pending, clientVars
<1>6. CASE Connect \/ ReadSnapshot \/ RecoveryAck
  BY <1>5, <1>6 DEF Connect, ReadSnapshot, RecoveryAck
<1>7. CASE ReadUnreadable \/ WriterFlushes \/ WriterReceipt \/ ServerAnswers
  BY <1>5, <1>7 DEF ReadUnreadable, WriterFlushes, WriterReceipt, ServerAnswers
<1>8. CASE Finished \/ UNCHANGED vars
  BY <1>5, <1>8 DEF Finished, vars
<1> QED
  BY <1>1, <1>2, <1>3, <1>4, <1>6, <1>7, <1>8 DEF Next, Readiness, Loop

\* The deadline that ends a session for a missing acknowledgement is always that
\* of the change in flight (the subscription_written, read and command branches of
\* run_session, in any order).
THEOREM DeadlinesAreOfChanges == Spec => []DeadlineOfChange
<1>1. Init => DeadlineInv
  BY DEF Init, DeadlineInv, DeadlineOfChange, NoChange
<1>2. DeadlineInv => DeadlineOfChange
  BY DEF DeadlineInv
<1> QED
  BY <1>1, <1>2, DeadlineStep, PTL DEF Spec
------------------------------------------------------------------------------
(* Where the frames are *)

\* A frame on its way to the server: a change, or a request of the recovery.
WireFrames == Frames \cup [op : {"GetSubscriptions"}]
              \cup [op : {"Unsubscribe"}, channels : SUBSET Channels, mints : {{}}]

Requests == [id : 0..MaxChanges, frame : WireFrames]
ChangeRequests == [id : 1..MaxChanges, frame : Frames]

\* The types of what the client and its writer hold, of what is sent, and of what
\* the server has.
ClientTypes ==
    /\ changes \in 0..MaxChanges
    /\ receipt \in 0..MaxChanges
    /\ deadline \in 0..MaxChanges
    /\ pending \in [id : 0..MaxChanges, previous : Scopes]
    /\ target \in Scopes
WriterTypes ==
    /\ flushed \in 0..MaxChanges
    /\ receipts \subseteq 1..MaxChanges
    /\ lane = <<>> \/ \E request \in ChangeRequests : lane = <<request>>
ServerTypes ==
    /\ inbox \in Seq(Requests)
    /\ actual \in Scopes

\* The answer to a request, as the server sends it.
Answered(kind, id, scope) == <<[kind |-> kind, id |-> id, scope |-> scope]>>

\* A request of the recovery is out, or its answer is: Before and After are what is
\* then known of the server.
Asking(frame, Before, After) ==
    \/ inbox = <<[id |-> 0, frame |-> frame]>> /\ outbox = <<>> /\ Before
    \/ inbox = <<>> /\ outbox = Answered("Ack", 0, Nothing) /\ After
    \/ inbox = <<>> /\ outbox = Answered("RequestError", 0, Nothing)

\* The server has no channel the client does not want.
NoExtra(channels) == channels \subseteq target.channels

SnapshotFlow ==
    \/ inbox = <<[id |-> 0, frame |-> [op |-> "GetSubscriptions"]]>> /\ outbox = <<>>
    \/ inbox = <<>> /\ outbox = Answered("Subscriptions", 0, actual)
RemovingFlow ==
    \E extra \in SUBSET Channels :
        Asking([op |-> "Unsubscribe", channels |-> extra, mints |-> {}],
               NoExtra(actual.channels \ extra), NoExtra(actual.channels))
AddingFlow ==
    /\ target.products
    /\ Asking([op |-> "Subscribe", channels |-> target.channels, mints |-> target.mints],
              NoExtra(actual.channels), actual = target)

\* Nothing is on its way, and the server has what the client wants.
Settled ==
    /\ ~has_pending
    /\ lane = <<>> /\ inbox = <<>> /\ outbox = <<>>
    /\ Initial => actual = target

\* The change in flight, wherever its frame or its answer is, or after its answer
\* could not be read.
InFlight(frame) ==
    LET request == <<[id |-> pending.id, frame |-> frame]>> IN
    /\ has_pending
    /\ target = apply(pending.previous, frame)
    /\ \/ /\ lane = request /\ inbox = <<>> /\ outbox = <<>>
          /\ Initial => actual = pending.previous
       \/ /\ lane = <<>> /\ inbox = request /\ outbox = <<>>
          /\ Initial => actual = pending.previous
       \/ /\ lane = <<>> /\ inbox = <<>> /\ outbox = Answered("Ack", pending.id, Nothing)
          /\ Initial => actual = target
       \/ /\ lane = <<>> /\ inbox = <<>> /\ outbox = Answered("RequestError", pending.id, Nothing)
          /\ Initial => actual = pending.previous
       \/ lane = <<>> /\ inbox = <<>> /\ outbox = <<>>

ReadyFlow == Settled \/ \E frame \in Frames : InFlight(frame)

\* During the recovery no change is in flight and the writer has nothing.
Recovering == pending = NoChange /\ lane = <<>>

Flow ==
    /\ conn \in {"down", "snapshot", "removing", "adding", "ready"}
    /\ epoch \in 0..MaxEpoch
    /\ conn = "down" => pending = NoChange
    /\ conn = "snapshot" => Recovering /\ SnapshotFlow
    /\ conn = "removing" => Recovering /\ RemovingFlow
    /\ conn = "adding" => Recovering /\ AddingFlow
    /\ conn = "ready" => ReadyFlow

\* A session with initial subscriptions always wants products.
Wanted == Initial => target.products /\ (has_pending => pending.previous.products)

FlowInv == ClientTypes /\ WriterTypes /\ ServerTypes /\ Wanted /\ Flow
------------------------------------------------------------------------------
(* What the operators do with a frame *)

\* What a change names, and what it leaves alone.
LEMMA FrameFacts ==
    ASSUME NEW f \in Frames
    PROVE  /\ f.op \in {"Subscribe", "AddChannels", "RemoveChannels", "Unsubscribe",
                        "AddMints", "RemoveMints"}
           /\ f.channels \in SUBSET Channels
           /\ f.mints \in SUBSET Mints
           /\ f.op \in {"AddChannels", "RemoveChannels", "Unsubscribe"} => f.mints = {}
           /\ f.op \in {"AddMints", "RemoveMints"} => f.channels = {}
BY DEF Frames

\* The same of the frames of a recovery, the question for the snapshot apart.
LEMMA WireFrameFacts ==
    ASSUME NEW f \in WireFrames, f.op # "GetSubscriptions"
    PROVE  f.channels \in SUBSET Channels /\ f.mints \in SUBSET Mints
BY FrameFacts DEF WireFrames

LEMMA ScopeFacts ==
    ASSUME NEW s \in Scopes
    PROVE  /\ s = [products |-> s.products, channels |-> s.channels, mints |-> s.mints]
           /\ s.products \in BOOLEAN
           /\ s.channels \in SUBSET Channels
           /\ s.mints \in SUBSET Mints
BY DEF Scopes

\* DesiredSubscriptions::apply yields a target.
LEMMA ApplyType ==
    ASSUME NEW s \in Scopes, NEW f \in Frames
    PROVE  apply(s, f) \in Scopes
BY FrameFacts, ScopeFacts DEF apply, apply_subscribe, Scopes

\* Nothing takes the products away again.
LEMMA ApplyProducts ==
    ASSUME NEW s \in Scopes, NEW f \in Frames, s.products
    PROVE  apply(s, f).products
BY FrameFacts, ScopeFacts DEF apply, apply_subscribe, Scopes

LEMMA ServerScopeType ==
    ASSUME NEW f \in WireFrames, f.op # "GetSubscriptions", actual \in Scopes
    PROVE  ServerScope(f) \in Scopes
BY WireFrameFacts, ScopeFacts DEF ServerScope, Scopes

\* The server does with an accepted change what the client did with its target.
LEMMA ServerApplies ==
    ASSUME NEW f \in Frames, actual \in Scopes, actual.products
    PROVE  ServerScope(f) = apply(actual, f)
<1>0. actual = [products |-> TRUE, channels |-> actual.channels, mints |-> actual.mints]
  BY ScopeFacts
<1>1. CASE f.op = "Subscribe"
  BY <1>1, FrameFacts, ScopeFacts DEF ServerScope, apply, apply_subscribe
<1>2. CASE f.op = "AddChannels"
  BY <1>2, FrameFacts, ScopeFacts DEF ServerScope, apply
<1>3. CASE f.op \in {"RemoveChannels", "Unsubscribe"}
  <2>1. apply(actual, f) = [actual EXCEPT !.channels = @ \ f.channels]
    BY <1>3, Zenon DEF apply
  <2>2. apply(actual, f) = [products |-> TRUE, channels |-> actual.channels \ f.channels, mints |-> actual.mints]
    BY <1>0, <2>1
  <2>3. actual.mints \cup f.mints = actual.mints
    BY <1>3, FrameFacts
  <2> QED
    BY <1>3, <2>2, <2>3 DEF ServerScope
<1>4. CASE f.op = "AddMints"
  <2>1. apply(actual, f) = [actual EXCEPT !.mints = @ \cup f.mints]
    BY <1>4, Zenon DEF apply
  <2>2. apply(actual, f) = [products |-> TRUE, channels |-> actual.channels, mints |-> actual.mints \cup f.mints]
    BY <1>0, <2>1
  <2>3. actual.channels \cup f.channels = actual.channels
    BY <1>4, FrameFacts
  <2> QED
    BY <1>4, <2>2, <2>3 DEF ServerScope
<1>5. CASE f.op = "RemoveMints"
  <2>1. apply(actual, f) = [actual EXCEPT !.mints = @ \ f.mints]
    BY <1>5, Zenon DEF apply
  <2>2. apply(actual, f) = [products |-> TRUE, channels |-> actual.channels, mints |-> actual.mints \ f.mints]
    BY <1>0, <2>1
  <2>3. actual.channels \cup f.channels = actual.channels
    BY <1>5, FrameFacts
  <2> QED
    BY <1>5, <2>2, <2>3 DEF ServerScope
<1> QED
  BY <1>1, <1>2, <1>3, <1>4, <1>5, FrameFacts
------------------------------------------------------------------------------
(* Every step keeps the frames where they are accounted for *)

LEMMA NothingIsScope == Nothing \in Scopes
BY DEF Nothing, Scopes

LEMMA RecoveryRequests ==
    /\ [op |-> "GetSubscriptions"] \in WireFrames
    /\ \A C \in SUBSET Channels : [op |-> "Unsubscribe", channels |-> C, mints |-> {}] \in WireFrames
    /\ \A C \in SUBSET Channels, M \in SUBSET Mints :
          [op |-> "Subscribe", channels |-> C, mints |-> M] \in WireFrames
BY DEF WireFrames, Frames

\* A new connection asks for the snapshot and nothing else is under way.
LEMMA ConnectFlow ==
    ASSUME FlowInv, Connect
    PROVE  FlowInv'
<1>1. ClientTypes' /\ Wanted'
  BY DEF FlowInv, Connect, clientVars, ClientTypes, Wanted, has_pending
<1>2. WriterTypes'
  <2>1. lane' = <<>> /\ flushed' = 0 /\ receipts' = {}
    BY DEF Connect
  <2> QED
    BY <2>1, SubscriptionAssumption DEF WriterTypes
<1>3. ServerTypes'
  <2>1. [id |-> 0, frame |-> [op |-> "GetSubscriptions"]] \in Requests
    BY RecoveryRequests, SubscriptionAssumption DEF Requests
  <2>2. inbox' \in Seq(Requests)
    BY <2>1 DEF Connect
  <2>3. actual' \in Scopes
    BY NothingIsScope DEF Connect, FlowInv, ServerTypes
  <2> QED
    BY <2>2, <2>3 DEF ServerTypes
<1>4. Flow'
  <2>1. pending' = NoChange /\ lane' = <<>> /\ conn' = "snapshot"
    BY DEF FlowInv, Flow, Connect, clientVars
  <2>2. SnapshotFlow'
    BY DEF SnapshotFlow, Connect
  <2>3. epoch' \in 0..MaxEpoch
    BY SubscriptionAssumption DEF FlowInv, Flow, Connect
  <2> QED
    BY <2>1, <2>2, <2>3 DEF Flow, Recovering
<1> QED
  BY <1>1, <1>2, <1>3, <1>4 DEF FlowInv

\* What the two readiness steps leave alone.
LEMMA ReadinessFrame ==
    ASSUME FlowInv, ReadSnapshot \/ RecoveryAck, inbox' \in Seq(Requests)
    PROVE  ClientTypes' /\ WriterTypes' /\ ServerTypes' /\ Wanted' /\ epoch' = epoch
<1>1. UNCHANGED <<epoch, clientVars, writerVars, actual>>
  BY DEF ReadSnapshot, RecoveryAck
<1>2. ClientTypes' /\ Wanted'
  BY <1>1 DEF FlowInv, clientVars, ClientTypes, Wanted, has_pending
<1>3. WriterTypes'
  BY <1>1 DEF FlowInv, writerVars, WriterTypes
<1>4. ServerTypes'
  BY <1>1 DEF FlowInv, ServerTypes
<1> QED
  BY <1>1, <1>2, <1>3, <1>4

\* The last request of a recovery is sent when the server has no channel too many;
\* without products to name the recovery is over.
LEMMA SubscribeFlow ==
    ASSUME FlowInv, Recovering, inbox = <<>>, NoExtra(actual.channels), Subscribe(target.products),
           outbox' = <<>>, UNCHANGED <<epoch, clientVars, writerVars, actual>>
    PROVE  Flow' /\ inbox' \in Seq(Requests)
<1>0. /\ UNCHANGED <<epoch, target, pending, lane, actual>>
      /\ pending = NoChange /\ lane = <<>> /\ epoch \in 0..MaxEpoch
  BY DEF clientVars, writerVars, Recovering, FlowInv, Flow
<1>1. CASE target.products
  <2> DEFINE request == [op |-> "Subscribe", channels |-> target.channels, mints |-> target.mints]
  <2>1. conn' = "adding" /\ inbox' = <<[id |-> 0, frame |-> request]>>
    BY <1>1 DEF Subscribe, Request
  <2>2. request \in WireFrames
    BY ScopeFacts, RecoveryRequests DEF FlowInv, ClientTypes
  <2>3. inbox' \in Seq(Requests)
    BY <2>1, <2>2, SubscriptionAssumption DEF Requests
  <2>4. AddingFlow'
    BY <1>0, <1>1, <2>1 DEF AddingFlow, Asking, NoExtra
  <2> QED
    BY <1>0, <2>1, <2>3, <2>4 DEF Flow, Recovering
<1>2. CASE ~target.products
  <2>1. conn' = "ready" /\ inbox' = <<>>
    BY <1>2 DEF Subscribe
  <2>2. ~Initial
    BY <1>2 DEF FlowInv, Wanted
  <2>3. Settled'
    BY <1>0, <2>1, <2>2 DEF Settled, has_pending, NoChange
  <2> QED
    BY <1>0, <2>1, <2>3 DEF Flow, ReadyFlow
<1> QED
  BY <1>1, <1>2

\* The snapshot says what the server has, so the plan names every channel too many.
LEMMA SnapshotStep ==
    ASSUME FlowInv, ReadSnapshot
    PROVE  FlowInv'
<1>1. Recovering /\ inbox = <<>> /\ outbox = Answered("Subscriptions", 0, actual)
  BY DEF FlowInv, Flow, ReadSnapshot, SnapshotFlow
<1>2. Head(outbox).scope = actual /\ outbox' = <<>>
  BY <1>1 DEF Answered, ReadSnapshot
<1>3. UNCHANGED <<epoch, clientVars, writerVars, actual>>
  BY DEF ReadSnapshot
<1> DEFINE extra == actual.channels \ target.channels
<1>4. CASE extra # {}
  <2> DEFINE request == [op |-> "Unsubscribe", channels |-> extra, mints |-> {}]
  <2>1. conn' = "removing" /\ inbox' = <<[id |-> 0, frame |-> request]>>
    BY <1>1, <1>2, <1>4 DEF ReadSnapshot, recovery, Request
  <2>2. extra \in SUBSET Channels
    BY ScopeFacts DEF FlowInv, ServerTypes
  <2>3. inbox' \in Seq(Requests)
    BY <2>1, <2>2, RecoveryRequests, SubscriptionAssumption DEF Requests
  <2>4. UNCHANGED <<epoch, target, pending, lane, actual>>
    BY <1>3 DEF clientVars, writerVars
  <2>5. NoExtra(actual.channels \ extra)'
    BY <2>4 DEF NoExtra
  <2>6. RemovingFlow'
    BY <1>2, <2>1, <2>2, <2>4, <2>5 DEF RemovingFlow, Asking, NoExtra
  <2>7. Flow'
    BY <1>1, <2>1, <2>4, <2>6 DEF Flow, FlowInv, Recovering
  <2> QED
    BY <2>3, <2>7, ReadinessFrame DEF FlowInv
<1>5. CASE extra = {}
  <2>1. Subscribe(target.products)
    BY <1>2, <1>5 DEF ReadSnapshot, recovery
  <2>2. NoExtra(actual.channels)
    BY <1>5 DEF NoExtra
  <2>3. Flow' /\ inbox' \in Seq(Requests)
    BY <1>1, <1>2, <1>3, <2>1, <2>2, SubscribeFlow
  <2> QED
    BY <2>3, ReadinessFrame DEF FlowInv
<1> QED
  BY <1>4, <1>5

\* An acknowledged removal leaves no channel too many; an acknowledged Subscribe
\* establishes the target.
LEMMA RecoveryAckStep ==
    ASSUME FlowInv, RecoveryAck
    PROVE  FlowInv'
<1>1. UNCHANGED <<epoch, clientVars, writerVars, actual>>
  BY DEF RecoveryAck
<1>2. CASE conn = "removing"
  <2>1. Recovering /\ inbox = <<>> /\ outbox = Answered("Ack", 0, Nothing) /\ NoExtra(actual.channels)
    <3>1. RemovingFlow /\ Recovering
      BY <1>2 DEF FlowInv, Flow
    <3>2. outbox # <<>> /\ Head(outbox).kind = "Ack"
      BY DEF RecoveryAck
    <3> QED
      BY <3>1, <3>2 DEF RemovingFlow, Asking, Answered
  <2>2. outbox' = <<>>
    BY <2>1 DEF Answered, RecoveryAck
  <2>3. Subscribe(target.products)
    BY <1>2 DEF RecoveryAck
  <2>4. Flow' /\ inbox' \in Seq(Requests)
    BY <1>1, <2>1, <2>2, <2>3, SubscribeFlow
  <2> QED
    BY <2>4, ReadinessFrame DEF FlowInv
<1>3. CASE conn = "adding"
  <2>1. Recovering /\ inbox = <<>> /\ outbox = Answered("Ack", 0, Nothing) /\ actual = target
    <3>1. AddingFlow /\ Recovering
      BY <1>3 DEF FlowInv, Flow
    <3>2. outbox # <<>> /\ Head(outbox).kind = "Ack"
      BY DEF RecoveryAck
    <3> QED
      BY <3>1, <3>2 DEF AddingFlow, Asking, Answered
  <2>2. outbox' = <<>>
    BY <2>1 DEF Answered, RecoveryAck
  <2>3. conn' = "ready" /\ inbox' = <<>>
    BY <1>3, <2>1 DEF RecoveryAck
  <2>4. UNCHANGED <<epoch, target, pending, lane, actual>>
    BY <1>1 DEF clientVars, writerVars
  <2>5. Settled'
    BY <2>1, <2>2, <2>3, <2>4 DEF Settled, Recovering, has_pending, NoChange
  <2>6. Flow' /\ inbox' \in Seq(Requests)
    BY <2>3, <2>4, <2>5 DEF Flow, FlowInv, ReadyFlow
  <2> QED
    BY <2>6, ReadinessFrame DEF FlowInv
<1> QED
  BY <1>2, <1>3 DEF RecoveryAck

\* Nothing of a change outlives its connection but its frames.
LEMMA LostFlow ==
    ASSUME FlowInv, connection_lost
    PROVE  FlowInv'
<1>1. NoChange \in [id : 0..MaxChanges, previous : Scopes]
  BY NothingIsScope, SubscriptionAssumption DEF NoChange
<1>2. ClientTypes'
  BY <1>1, SubscriptionAssumption DEF connection_lost, FlowInv, ClientTypes
<1>3. WriterTypes' /\ ServerTypes'
  BY DEF connection_lost, FlowInv, WriterTypes, ServerTypes, writerVars, serverVars
<1>4. Wanted'
  BY DEF connection_lost, FlowInv, Wanted, has_pending, NoChange
<1>5. Flow'
  BY DEF connection_lost, FlowInv, Flow
<1> QED
  BY <1>2, <1>3, <1>4, <1>5 DEF FlowInv

\* A change begins with the server at the previous target.
LEMMA ChangeFlow ==
    ASSUME FlowInv, NEW frame \in Frames, Change(frame)
    PROVE  FlowInv'
<1> DEFINE id == changes + 1
<1>1. /\ conn = "ready" /\ ~has_pending /\ conn' = conn
      /\ changes' = id /\ receipt' = id
      /\ pending' = [id |-> id, previous |-> target]
      /\ target' = apply(target, frame)
      /\ lane' = Append(lane, [id |-> id, frame |-> frame])
      /\ UNCHANGED <<epoch, deadline, flushed, receipts, inbox, outbox, actual>>
  BY DEF Change, begin, serverVars
<1>2. id \in 1..MaxChanges
  BY SubscriptionAssumption DEF Change, FlowInv, ClientTypes
<1>3. target \in Scopes /\ target' \in Scopes
  BY <1>1, ApplyType DEF FlowInv, ClientTypes
<1>4. Settled
  <2>1. ~\E f \in Frames : InFlight(f)
    BY <1>1 DEF InFlight
  <2> QED
    BY <1>1, <2>1 DEF FlowInv, Flow, ReadyFlow
<1>5. lane' = <<[id |-> id, frame |-> frame]>>
  BY <1>1, <1>4 DEF Settled
<1>6. ClientTypes'
  BY <1>1, <1>2, <1>3, SubscriptionAssumption DEF FlowInv, ClientTypes
<1>7. WriterTypes'
  <2>1. [id |-> id, frame |-> frame] \in ChangeRequests
    BY <1>2 DEF ChangeRequests
  <2> QED
    BY <1>1, <1>5, <2>1 DEF FlowInv, WriterTypes
<1>8. ServerTypes'
  BY <1>1 DEF FlowInv, ServerTypes
<1>9. Wanted'
  BY <1>1, <1>3, ApplyProducts DEF FlowInv, Wanted
<1>10. InFlight(frame)'
  <2>1. has_pending'
    BY <1>1, <1>2 DEF has_pending
  <2>2. pending'.id = id /\ pending'.previous = target
    BY <1>1
  <2>3. inbox' = <<>> /\ outbox' = <<>> /\ (Initial => actual' = target)
    BY <1>1, <1>4 DEF Settled
  <2> QED
    BY <1>1, <1>5, <2>1, <2>2, <2>3 DEF InFlight
<1>11. Flow'
  BY <1>1, <1>10 DEF FlowInv, Flow, ReadyFlow
<1> QED
  BY <1>6, <1>7, <1>8, <1>9, <1>11 DEF FlowInv

\* A receipt moves no frame.
LEMMA WrittenFlow ==
    ASSUME FlowInv, Written
    PROVE  FlowInv'
<1>1. /\ receipt' = 0
      /\ deadline' \in {receipt, deadline}
      /\ UNCHANGED <<conn, epoch, target, pending, changes, lane, flushed, receipts, inbox, outbox, actual>>
  BY DEF Written, writerVars, serverVars
<1>2. ClientTypes'
  BY <1>1, SubscriptionAssumption DEF FlowInv, ClientTypes
<1>3. WriterTypes' /\ ServerTypes' /\ Wanted'
  BY <1>1 DEF FlowInv, WriterTypes, ServerTypes, Wanted, has_pending
<1>4. Flow'
  BY <1>1 DEF FlowInv, Flow, Recovering, SnapshotFlow, RemovingFlow, AddingFlow, ReadyFlow, Asking,
              NoExtra, Settled, InFlight, has_pending
<1> QED
  BY <1>2, <1>3, <1>4 DEF FlowInv

\* The loop reads a frame only while a change is in flight, and it is the answer to it.
LEMMA ReadyReads ==
    ASSUME FlowInv, conn = "ready", outbox # <<>>
    PROVE  /\ has_pending /\ lane = <<>> /\ inbox = <<>>
           /\ \E f \in Frames : InFlight(f)
           /\ Tail(outbox) = <<>>
           /\ Head(outbox).id = pending.id
           /\ \/ Head(outbox).kind = "Ack" /\ (Initial => actual = target)
              \/ Head(outbox).kind = "RequestError" /\ (Initial => actual = pending.previous)
<1>1. PICK f \in Frames : InFlight(f)
  BY DEF FlowInv, Flow, ReadyFlow, Settled
<1>2. \/ lane = <<>> /\ inbox = <<>> /\ outbox = Answered("Ack", pending.id, Nothing)
         /\ (Initial => actual = target)
      \/ lane = <<>> /\ inbox = <<>> /\ outbox = Answered("RequestError", pending.id, Nothing)
         /\ (Initial => actual = pending.previous)
  BY <1>1 DEF InFlight
<1>3. has_pending /\ \E g \in Frames : InFlight(g)
  BY <1>1 DEF InFlight
<1>4. CASE outbox = Answered("Ack", pending.id, Nothing)
  <2>1. Tail(outbox) = <<>> /\ Head(outbox).id = pending.id /\ Head(outbox).kind = "Ack"
    BY <1>4 DEF Answered
  <2> QED
    BY <1>2, <1>3, <2>1 DEF Answered
<1>5. CASE outbox = Answered("RequestError", pending.id, Nothing)
  <2>1. Tail(outbox) = <<>> /\ Head(outbox).id = pending.id /\ Head(outbox).kind = "RequestError"
    BY <1>5 DEF Answered
  <2> QED
    BY <1>2, <1>3, <2>1 DEF Answered
<1> QED
  BY <1>2, <1>4, <1>5

\* A reply settles the change: at the target, or back at the previous one.
LEMMA ReplyFlow ==
    ASSUME FlowInv, ReadReply
    PROVE  FlowInv'
<1>1. /\ conn = "ready" /\ outbox # <<>> /\ outbox' = Tail(outbox)
      /\ deadline' \in {0, deadline}
      /\ resolve(Head(outbox))
      /\ UNCHANGED <<conn, epoch, receipt, changes, lane, flushed, receipts, inbox, actual>>
  BY DEF ReadReply, writerVars
<1>2. /\ pending' = NoChange
      /\ target' = IF Head(outbox).kind = "RequestError" THEN pending.previous ELSE target
  BY <1>1, ReadyReads DEF resolve
<1>3. pending.previous \in Scopes /\ target \in Scopes
  BY DEF FlowInv, ClientTypes
<1>4. ClientTypes'
  <2>1. NoChange \in [id : 0..MaxChanges, previous : Scopes]
    BY NothingIsScope, SubscriptionAssumption DEF NoChange
  <2>2. target' \in Scopes
    BY <1>2, <1>3
  <2> QED
    BY <1>1, <1>2, <2>1, <2>2, SubscriptionAssumption DEF FlowInv, ClientTypes
<1>5. WriterTypes' /\ ServerTypes'
  BY <1>1 DEF FlowInv, WriterTypes, ServerTypes
<1>6. ~has_pending'
  BY <1>2 DEF has_pending, NoChange
<1>7. Wanted'
  BY <1>1, <1>2, <1>6, ReadyReads DEF FlowInv, Wanted
<1>8. Settled'
  <2>1. lane' = <<>> /\ inbox' = <<>> /\ outbox' = <<>>
    BY <1>1, ReadyReads
  <2>2. Initial => actual' = target'
    BY <1>1, <1>2, ReadyReads
  <2> QED
    BY <1>6, <2>1, <2>2 DEF Settled
<1>9. Flow'
  BY <1>1, <1>8 DEF FlowInv, Flow, ReadyFlow
<1> QED
  BY <1>4, <1>5, <1>7, <1>9 DEF FlowInv

\* An answer that cannot be read leaves its change in flight with nothing on its way.
LEMMA UnreadableFlow ==
    ASSUME FlowInv, ReadUnreadable
    PROVE  FlowInv'
<1>1. /\ conn = "ready" /\ outbox # <<>> /\ outbox' = Tail(outbox)
      /\ UNCHANGED <<conn, epoch, target, pending, receipt, deadline, changes, lane, flushed, receipts, inbox, actual>>
  BY DEF ReadUnreadable, writerVars, clientVars
<1>2. ClientTypes' /\ WriterTypes' /\ ServerTypes' /\ Wanted'
  BY <1>1 DEF FlowInv, ClientTypes, WriterTypes, ServerTypes, Wanted, has_pending
<1>3. PICK f \in Frames : InFlight(f)
  BY <1>1, ReadyReads
<1>4. InFlight(f)'
  BY <1>1, <1>3, ReadyReads DEF InFlight, has_pending
<1>5. Flow'
  BY <1>1, <1>4 DEF FlowInv, Flow, ReadyFlow
<1> QED
  BY <1>2, <1>5 DEF FlowInv

\* The frame of a change passes from the lane to the wire.
LEMMA FlushFlow ==
    ASSUME FlowInv, WriterFlushes
    PROVE  FlowInv'
<1>1. /\ lane # <<>> /\ lane' = Tail(lane)
      /\ flushed' = Head(lane).id
      /\ inbox' = Append(inbox, Head(lane))
      /\ UNCHANGED <<conn, epoch, target, pending, receipt, deadline, changes, receipts, outbox, actual>>
  BY DEF WriterFlushes, clientVars
<1>2. PICK request \in ChangeRequests : lane = <<request>>
  BY <1>1 DEF FlowInv, WriterTypes
<1>3. Head(lane) \in ChangeRequests /\ Tail(lane) = <<>>
  BY <1>2
<1>4. Head(lane).id \in 1..MaxChanges /\ Head(lane) \in Requests
  BY <1>3 DEF ChangeRequests, Requests, WireFrames
<1>5. ClientTypes' /\ Wanted'
  BY <1>1 DEF FlowInv, ClientTypes, Wanted, has_pending
<1>6. WriterTypes'
  <2>1. lane' = <<>> /\ flushed' \in 0..MaxChanges
    BY <1>1, <1>3, <1>4, SubscriptionAssumption
  <2>2. receipts' \subseteq 1..MaxChanges
    BY <1>1 DEF FlowInv, WriterTypes
  <2> QED
    BY <2>1, <2>2 DEF WriterTypes
<1>7. ServerTypes'
  <2>1. inbox \in Seq(Requests) /\ actual' \in Scopes
    BY <1>1 DEF FlowInv, ServerTypes
  <2>2. Append(inbox, Head(lane)) \in Seq(Requests)
    BY <1>4, <2>1
  <2> QED
    BY <1>1, <2>1, <2>2 DEF ServerTypes
<1>8. conn \in {"down", "ready"}
  BY <1>1 DEF FlowInv, Flow, Recovering
<1>9. Flow'
  <2>1. CASE conn = "down"
    BY <1>1, <2>1 DEF FlowInv, Flow
  <2>2. CASE conn = "ready"
    <3>1. PICK f \in Frames : InFlight(f)
      BY <1>1, <2>2 DEF FlowInv, Flow, ReadyFlow, Settled
    <3>2. /\ lane = <<[id |-> pending.id, frame |-> f]>> /\ inbox = <<>> /\ outbox = <<>>
          /\ Initial => actual = pending.previous
      BY <1>1, <3>1 DEF InFlight
    <3>3. lane' = <<>> /\ inbox' = <<[id |-> pending.id, frame |-> f]>>
      BY <1>1, <3>2
    <3>4. InFlight(f)'
      BY <1>1, <3>1, <3>2, <3>3 DEF InFlight, has_pending
    <3> QED
      BY <1>1, <2>2, <3>4 DEF FlowInv, Flow, ReadyFlow
  <2> QED
    BY <1>8, <2>1, <2>2
<1> QED
  BY <1>5, <1>6, <1>7, <1>9 DEF FlowInv

\* A receipt that is sent moves no frame either.
LEMMA ReceiptFlow ==
    ASSUME FlowInv, WriterReceipt
    PROVE  FlowInv'
<1>1. /\ flushed # 0 /\ flushed' = 0
      /\ receipts' = receipts \cup {flushed}
      /\ UNCHANGED <<conn, epoch, target, pending, receipt, deadline, changes, lane, inbox, outbox, actual>>
  BY DEF WriterReceipt, clientVars, serverVars
<1>2. ClientTypes' /\ ServerTypes' /\ Wanted'
  BY <1>1 DEF FlowInv, ClientTypes, ServerTypes, Wanted, has_pending
<1>3. WriterTypes'
  BY <1>1, SubscriptionAssumption DEF FlowInv, WriterTypes
<1>4. Flow'
  BY <1>1 DEF FlowInv, Flow, Recovering, SnapshotFlow, RemovingFlow, AddingFlow, ReadyFlow, Asking,
              NoExtra, Settled, InFlight, has_pending
<1> QED
  BY <1>2, <1>3, <1>4 DEF FlowInv

\* What the server does with the one frame it has.
LEMMA ServerSteps ==
    ASSUME ServerAnswers
    PROVE  /\ inbox # <<>> /\ inbox' = Tail(inbox)
           /\ UNCHANGED <<conn, epoch, target, pending, receipt, deadline, changes, lane, flushed, receipts>>
           /\ Head(inbox).frame.op = "GetSubscriptions" =>
                /\ actual' = actual
                /\ outbox' = Append(outbox, [kind |-> "Subscriptions", id |-> Head(inbox).id, scope |-> actual])
           /\ Head(inbox).frame.op # "GetSubscriptions" =>
                \/ /\ actual' = ServerScope(Head(inbox).frame)
                   /\ outbox' = Append(outbox, [kind |-> "Ack", id |-> Head(inbox).id, scope |-> Nothing])
                \/ /\ actual' = actual
                   /\ outbox' = Append(outbox, [kind |-> "RequestError", id |-> Head(inbox).id, scope |-> Nothing])
BY DEF ServerAnswers, Reply, clientVars, writerVars

LEMMA ServerKeepsTypes ==
    ASSUME FlowInv, ServerAnswers
    PROVE  ClientTypes' /\ WriterTypes' /\ ServerTypes' /\ Wanted'
<1>1. ClientTypes' /\ Wanted'
  BY ServerSteps DEF FlowInv, ClientTypes, Wanted, has_pending
<1>2. WriterTypes'
  BY ServerSteps DEF FlowInv, WriterTypes
<1>3. Head(inbox) \in Requests /\ Tail(inbox) \in Seq(Requests)
  BY ServerSteps DEF FlowInv, ServerTypes
<1>4. Head(inbox).frame \in WireFrames
  BY <1>3 DEF Requests
<1>5. actual \in Scopes
  BY DEF FlowInv, ServerTypes
<1>6. actual' \in Scopes
  BY <1>4, <1>5, ServerSteps, ServerScopeType
<1>7. ServerTypes'
  BY <1>3, <1>6, ServerSteps DEF ServerTypes
<1> QED
  BY <1>1, <1>2, <1>7

\* The server answers a request of the recovery.
LEMMA ServerRecovers ==
    ASSUME FlowInv, ServerAnswers, conn \in {"snapshot", "removing", "adding"}
    PROVE  Flow'
<1>1. /\ Recovering /\ Recovering' /\ epoch' \in 0..MaxEpoch
      /\ UNCHANGED <<conn, target>>
  BY ServerSteps DEF FlowInv, Flow, Recovering
<1>2. actual \in Scopes /\ target \in Scopes
  BY DEF FlowInv, ClientTypes, ServerTypes
<1>3. CASE conn = "snapshot"
  <2>1. inbox = <<[id |-> 0, frame |-> [op |-> "GetSubscriptions"]]>> /\ outbox = <<>>
    BY <1>3, ServerSteps DEF FlowInv, Flow, SnapshotFlow
  <2>2. Head(inbox) = [id |-> 0, frame |-> [op |-> "GetSubscriptions"]] /\ Tail(inbox) = <<>>
    BY <2>1
  <2>3. inbox' = <<>> /\ actual' = actual /\ outbox' = Answered("Subscriptions", 0, actual)
    BY <2>1, <2>2, ServerSteps DEF Answered
  <2>4. SnapshotFlow'
    BY <2>3 DEF SnapshotFlow, Answered
  <2> QED
    BY <1>1, <1>3, <2>4 DEF Flow
<1>4. CASE conn = "removing"
  <2>1. PICK extra \in SUBSET Channels :
           Asking([op |-> "Unsubscribe", channels |-> extra, mints |-> {}],
                  NoExtra(actual.channels \ extra), NoExtra(actual.channels))
    BY <1>4 DEF FlowInv, Flow, RemovingFlow
  <2> DEFINE request == [op |-> "Unsubscribe", channels |-> extra, mints |-> {}]
  <2>2. inbox = <<[id |-> 0, frame |-> request]>> /\ outbox = <<>> /\ NoExtra(actual.channels \ extra)
    BY <2>1, ServerSteps DEF Asking
  <2>3. Head(inbox) = [id |-> 0, frame |-> request] /\ Tail(inbox) = <<>>
    BY <2>2
  <2>a. Head(inbox).frame = request /\ Head(inbox).id = 0 /\ request.op # "GetSubscriptions"
    BY <2>3
  <2>4. /\ inbox' = <<>>
        /\ \/ actual' = ServerScope(request) /\ outbox' = Answered("Ack", 0, Nothing)
           \/ outbox' = Answered("RequestError", 0, Nothing)
    BY <2>2, <2>3, <2>a, ServerSteps DEF Answered
  <2>5. ServerScope(request).channels = actual.channels \ extra
    BY DEF ServerScope
  <2>6. RemovingFlow'
    BY <1>1, <2>2, <2>4, <2>5 DEF RemovingFlow, Asking, NoExtra, Answered
  <2> QED
    BY <1>1, <1>4, <2>6 DEF Flow
<1>5. CASE conn = "adding"
  <2> DEFINE request == [op |-> "Subscribe", channels |-> target.channels, mints |-> target.mints]
  <2>1. target.products /\ inbox = <<[id |-> 0, frame |-> request]>> /\ outbox = <<>> /\ NoExtra(actual.channels)
    BY <1>5, ServerSteps DEF FlowInv, Flow, AddingFlow, Asking
  <2>2. Head(inbox) = [id |-> 0, frame |-> request] /\ Tail(inbox) = <<>>
    BY <2>1
  <2>3. /\ inbox' = <<>>
        /\ \/ actual' = ServerScope(request) /\ outbox' = Answered("Ack", 0, Nothing)
           \/ outbox' = Answered("RequestError", 0, Nothing)
    BY <2>1, <2>2, ServerSteps DEF Answered
  <2>4. ServerScope(request) = [products |-> TRUE, channels |-> target.channels, mints |-> target.mints]
    <3>1. actual.channels \cup target.channels = target.channels
      BY <2>1 DEF NoExtra
    <3> QED
      BY <3>1 DEF ServerScope
  <2>5. target = [products |-> TRUE, channels |-> target.channels, mints |-> target.mints]
    BY <1>2, <2>1, ScopeFacts
  <2>6. AddingFlow'
    BY <1>1, <2>1, <2>3, <2>4, <2>5 DEF AddingFlow, Asking, Answered
  <2> QED
    BY <1>1, <1>5, <2>6 DEF Flow
<1> QED
  BY <1>3, <1>4, <1>5

\* The server answers the change in flight: accepted, it has the new target; refused,
\* it keeps the previous one.
LEMMA ServerChanges ==
    ASSUME FlowInv, ServerAnswers, conn = "ready"
    PROVE  Flow'
<1>1. PICK f \in Frames : InFlight(f)
  BY ServerSteps DEF FlowInv, Flow, ReadyFlow, Settled
<1> DEFINE request == [id |-> pending.id, frame |-> f]
<1>2. /\ has_pending /\ target = apply(pending.previous, f)
      /\ lane = <<>> /\ inbox = <<request>> /\ outbox = <<>>
      /\ Initial => actual = pending.previous
  BY <1>1, ServerSteps DEF InFlight
<1>3. Head(inbox) = request /\ Tail(inbox) = <<>>
  BY <1>2
<1>4. request.frame = f /\ request.id = pending.id /\ f.op # "GetSubscriptions"
  BY FrameFacts
<1>5. /\ inbox' = <<>>
      /\ \/ actual' = ServerScope(f) /\ outbox' = Answered("Ack", pending.id, Nothing)
         \/ actual' = actual /\ outbox' = Answered("RequestError", pending.id, Nothing)
  BY <1>2, <1>3, <1>4, ServerSteps DEF Answered
<1>6. Initial => ServerScope(f) = target
  <2> SUFFICES ASSUME Initial
               PROVE  ServerScope(f) = target
    OBVIOUS
  <2>1. actual = pending.previous /\ actual \in Scopes /\ actual.products
    BY <1>2 DEF FlowInv, ServerTypes, Wanted
  <2> QED
    BY <1>2, <2>1, ServerApplies
<1>7. UNCHANGED <<conn, epoch, target, pending, lane>>
  BY ServerSteps
<1>8. InFlight(f)'
  BY <1>2, <1>5, <1>6, <1>7 DEF InFlight, has_pending, Answered
<1> QED
  BY <1>7, <1>8 DEF FlowInv, Flow, ReadyFlow

LEMMA ServerFlow ==
    ASSUME FlowInv, ServerAnswers
    PROVE  FlowInv'
<1>1. ASSUME conn = "down"
      PROVE  Flow'
  BY <1>1, ServerSteps DEF FlowInv, Flow
<1>2. Flow'
  BY <1>1, ServerRecovers, ServerChanges, ServerSteps DEF FlowInv, Flow
<1> QED
  BY <1>2, ServerKeepsTypes DEF FlowInv

LEMMA FlowStep == FlowInv /\ [Next]_vars => FlowInv'
<1> SUFFICES ASSUME FlowInv, [Next]_vars
             PROVE  FlowInv'
  OBVIOUS
<1>1. CASE Readiness
  BY <1>1, ConnectFlow, SnapshotStep, RecoveryAckStep, LostFlow DEF Readiness, RecoveryRejected
<1>2. CASE \E frame \in Frames : Change(frame)
  BY <1>2, ChangeFlow
<1>3. CASE Loop
  BY <1>3, WrittenFlow, ReplyFlow, UnreadableFlow, LostFlow DEF Loop, DeadlinePasses
<1>4. CASE Lost \/ WriterFlushes \/ WriterReceipt \/ ServerAnswers
  BY <1>4, LostFlow, FlushFlow, ReceiptFlow, ServerFlow DEF Lost
<1>5. CASE Finished \/ UNCHANGED vars
  <2>1. UNCHANGED <<conn, epoch, target, pending, receipt, deadline, changes, lane, flushed, receipts, inbox, outbox, actual>>
    BY <1>5 DEF Finished, vars, clientVars, writerVars, serverVars
  <2>2. ClientTypes' /\ WriterTypes' /\ ServerTypes' /\ Wanted'
    BY <2>1 DEF FlowInv, ClientTypes, WriterTypes, ServerTypes, Wanted, has_pending
  <2>3. Flow'
    BY <2>1 DEF FlowInv, Flow, Recovering, SnapshotFlow, RemovingFlow, AddingFlow, ReadyFlow, Asking,
                NoExtra, Settled, InFlight, has_pending
  <2> QED
    BY <2>2, <2>3 DEF FlowInv
<1> QED
  BY <1>1, <1>2, <1>3, <1>4, <1>5 DEF Next

LEMMA FlowInit == Init => FlowInv
<1> SUFFICES ASSUME Init
             PROVE  FlowInv
  OBVIOUS
<1>1. target \in Scopes /\ (Initial => target.products)
  <2>1. CASE Initial
    <3>1. PICK C \in SUBSET Channels, M \in SUBSET Mints :
             target = [products |-> TRUE, channels |-> C, mints |-> M]
      BY <2>1 DEF Init, from_initial
    <3> QED
      BY <3>1 DEF Scopes
  <2>2. CASE ~Initial
    BY <2>2, NothingIsScope DEF Init, from_initial
  <2> QED
    BY <2>1, <2>2
<1>2. ClientTypes /\ Wanted
  BY <1>1, NothingIsScope, SubscriptionAssumption DEF Init, ClientTypes, Wanted, NoChange, has_pending
<1>3. WriterTypes /\ ServerTypes
  BY NothingIsScope, SubscriptionAssumption DEF Init, WriterTypes, ServerTypes
<1>4. Flow
  BY SubscriptionAssumption DEF Init, Flow
<1> QED
  BY <1>2, <1>3, <1>4 DEF FlowInv

\* Every variable keeps its type, and never more than one frame of a change is
\* between the loop and the writer (one pending change at a time, handle_command).
THEOREM SubscriptionTypes == Spec => []TypeOK
<1>1. FlowInv => TypeOK
  <2> SUFFICES ASSUME FlowInv
               PROVE  TypeOK
    OBVIOUS
  <2>1. /\ conn \in {"down", "snapshot", "removing", "adding", "ready"}
        /\ epoch \in 0..MaxEpoch
    BY DEF FlowInv, Flow
  <2>2. /\ target \in Scopes /\ actual \in Scopes
        /\ pending \in [id : 0..MaxChanges, previous : Scopes]
    BY DEF FlowInv, ClientTypes, ServerTypes
  <2>3. {receipt, deadline, changes, flushed} \subseteq 0..MaxChanges /\ receipts \subseteq 1..MaxChanges
    BY DEF FlowInv, ClientTypes, WriterTypes
  <2>4. Len(lane) <= 1
    BY DEF FlowInv, WriterTypes
  <2> QED
    BY <2>1, <2>2, <2>3, <2>4 DEF TypeOK
<1> QED
  BY <1>1, FlowInit, FlowStep, PTL DEF Spec

\* With initial subscriptions configured, a ready session with no change in flight has
\* the server at exactly the client's target, whatever was accepted, refused, lost or
\* unreadable on however many connections (begin, resolve, recovery,
\* recover_subscriptions).  Without them it does not hold: see EveryTargetEstablished.
THEOREM TargetIsEstablished ==
    ASSUME Initial
    PROVE  Spec => []TargetEstablished
<1>1. FlowInv => TargetEstablished
  BY DEF FlowInv, Flow, ReadyFlow, Settled, InFlight, TargetEstablished
<1> QED
  BY <1>1, FlowInit, FlowStep, PTL DEF Spec

==============================================================================
