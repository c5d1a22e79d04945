------------------------- MODULE CommandAnswerProofs -------------------------
(***************************************************************************)
(* What callers may conclude, for any calls, buffers, limits and number of *)
(* connections: a bound command is written on its connection only, the     *)
(* tracker's two indexes agree and hold no more than the limit, and an     *)
(* answer says what became of the call.  CommandPathProofs says where a    *)
(* call is; this module follows the tracker's entries, and requests from   *)
(* the queue into the tracker.                                             *)
(***************************************************************************)
EXTENDS CommandPathProofs, FiniteSetTheorems

\* Unless a leaf names its prover: Zenon for what it finds at once, SMT, and Zenon again.
USE ZenonT(2), SMTT(20), ZenonT(20)

------------------------------------------------------------------------------
(* The invariants *)

\* Every entry of the tracker is under the key of its call.
Keyed(t) ==
    /\ Pending(t) \subseteq Awaits
    /\ IsFiniteSet(Pending(t))
    /\ \A c \in Pending(t) : t.by_id[c] = KeyOf[c]
    /\ Consistent(t)
Live == {"loop", "closing", "stopping"}
TrackerInv == Types /\ Keyed(tracker) /\ (sess \notin Live => tracker = Empty)

\* A request in the tracker has left the queue; one that is queued or in the tracker
\* waits for its answer or has given up.
Waiting == {"none", "Timeout", "Abandoned"}
Registering ==
    \A c \in Awaits :
        /\ c \in Pending(tracker) => stage[c] = "sent" /\ ~Contains(queue, c)
        /\ c \in Pending(tracker) \/ Contains(queue, c) => reply[c] \in Waiting
RegisterInv == PlaceInv /\ TrackerInv /\ Registering

------------------------------------------------------------------------------
(* The fence *)

LEMMA AtMostOne ==
    ASSUME NEW S, \A x, y \in S : x = y
    PROVE  Cardinality(S) <= 1
<1>1. CASE S = {}
  BY <1>1, FS_EmptySet
<1>2. CASE S # {}
  <2>1. PICK x \in S : S = {x}
    BY <1>2
  <2> QED
    BY <2>1, FS_Singleton
<1> QED
  BY <1>1, <1>2

\* handle_command compares the epoch a command was bound to with the epoch of the
\* session: for any calls, buffers and number of connections, a bound command is
\* written on the connection it was bound to or not at all, and no command is written
\* twice, on one connection or on two.
THEOREM FenceHolds == Spec => []EpochFence
<1>1. PlaceInv => EpochFence
  <2> SUFFICES ASSUME PlaceInv, NEW c \in Calls
               PROVE  /\ binding[c] # 0 => OnWire(c) \cup InLanes(c) \subseteq {binding[c]}
                      /\ Cardinality(OnWire(c) \cup InLanes(c)) <= 1
                      /\ \A e \in Epochs : Cardinality({i \in DOMAIN wire[e] : wire[e][i] = c}) <= 1
    BY DEF EpochFence
  <2>1. \A e \in OnWire(c) \cup InLanes(c) : binding[c] \in {0, e}
    BY FramePlaces, EpochNumbers, ZenonT(20) DEF PlaceInv, Placed, Kinds
  <2>2. ASSUME NEW e \in OnWire(c) \cup InLanes(c), NEW f \in OnWire(c) \cup InLanes(c)
        PROVE  e = f
    <3>1. PICK k \in Kinds : At(c, k, e)
      BY FramePlaces
    <3>2. PICK l \in Kinds : At(c, l, f)
      BY FramePlaces
    <3>3. e \in 0..MaxEpoch /\ f \in 0..MaxEpoch
      BY FramePlaces, EpochNumbers
    <3> QED
      BY <3>1, <3>2, <3>3 DEF PlaceInv, OnePlace
  <2>3. ASSUME NEW e \in Epochs
        PROVE  Cardinality({i \in DOMAIN wire[e] : wire[e][i] = c}) <= 1
    <3>1. Once(wire[e], c) /\ wire[e] \in Seq(Calls)
      BY DEF PlaceInv, OnePlace, Types, TaskTypes
    <3>2. DOMAIN wire[e] = 1..Len(wire[e])
      BY <3>1
    <3>3. \A i, j \in {i \in DOMAIN wire[e] : wire[e][i] = c} : i = j
      BY <3>1, <3>2 DEF Once
    <3> QED
      BY <3>3, AtMostOne
  <2>4. Cardinality(OnWire(c) \cup InLanes(c)) <= 1
    BY <2>2, AtMostOne
  <2> QED
    BY <2>1, <2>3, <2>4
<1> QED
  BY <1>1, Places, PTL

------------------------------------------------------------------------------
(* The tracker *)

LEMMA Limit == MaxPending \in Nat /\ MaxPending > 0
<1>1. MaxPending \in Nat \ {0}
  BY MaxPendingAssumption, Zenon
<1> QED
  BY <1>1

\* What the conjuncts of Keyed and Consistent say of the index.
LEMMA KeyedIndex ==
    ASSUME NEW t, Keyed(t)
    PROVE  /\ DOMAIN t.by_key = {KeyOf[c] : c \in Pending(t)}
           /\ \A c \in Pending(t) : t.by_key[KeyOf[c]] = c
           /\ \A k \in DOMAIN t.by_key : t.by_key[k] \in Pending(t) /\ KeyOf[t.by_key[k]] = k
BY DEF Keyed, Consistent

\* Entries are removed together with their keys.
LEMMA Removal ==
    ASSUME NEW t, Keyed(t), NEW S \in SUBSET Pending(t), NEW r,
           r = [by_id |-> Without(t.by_id, S), by_key |-> Without(t.by_key, {t.by_id[c] : c \in S})]
    PROVE  Keyed(r) /\ Pending(r) = Pending(t) \ S
<1>1. /\ r.by_id = Restrict(t.by_id, DOMAIN t.by_id \ S)
      /\ r.by_key = Restrict(t.by_key, DOMAIN t.by_key \ {t.by_id[c] : c \in S})
  BY DEF Without
<1>2. DOMAIN r.by_id = DOMAIN t.by_id \ S /\ \A c \in DOMAIN r.by_id : r.by_id[c] = t.by_id[c]
  BY <1>1 DEF Restrict
<1>3. /\ DOMAIN r.by_key = DOMAIN t.by_key \ {t.by_id[c] : c \in S}
      /\ \A k \in DOMAIN r.by_key : r.by_key[k] = t.by_key[k]
  BY <1>1 DEF Restrict
<1>4. Pending(r) = Pending(t) \ S
  BY <1>2 DEF Pending
<1>5. {t.by_id[c] : c \in S} = {KeyOf[c] : c \in S}
  BY DEF Keyed
<1>6. DOMAIN r.by_key = {KeyOf[c] : c \in Pending(r)}
  <2>1. DOMAIN r.by_key = {KeyOf[c] : c \in Pending(t)} \ {KeyOf[c] : c \in S}
    BY <1>3, <1>5, KeyedIndex
  <2>2. \A c, d \in Pending(t) : KeyOf[c] = KeyOf[d] => c = d
    BY KeyedIndex
  <2>3. \A c \in Pending(r) : KeyOf[c] \notin {KeyOf[d] : d \in S}
    BY <1>4, <2>2
  <2> QED
    BY <1>4, <2>1, <2>3, ZenonT(20)
<1>7. IsFiniteSet(Pending(t)) /\ Cardinality(Pending(t)) <= MaxPending /\ Pending(r) \in SUBSET Pending(t)
  BY <1>4 DEF Keyed, Consistent
<1>8. IsFiniteSet(Pending(r)) /\ Cardinality(Pending(r)) <= Cardinality(Pending(t))
  BY <1>7, FS_Subset
<1>9. Cardinality(Pending(r)) <= MaxPending
  BY <1>7, <1>8, Limit, FS_CardinalityType
<1>10. \A c \in Pending(r) : r.by_id[c] = KeyOf[c]
  BY <1>2, <1>4 DEF Keyed, Pending
<1>11. {r.by_id[c] : c \in Pending(r)} = {KeyOf[c] : c \in Pending(r)}
  BY <1>10
<1>12. ASSUME NEW c \in Pending(r)
       PROVE  r.by_key[r.by_id[c]] = c
  <2>1. KeyOf[c] \in DOMAIN r.by_key /\ c \in Pending(t)
    BY <1>4, <1>6
  <2>2. r.by_key[KeyOf[c]] = t.by_key[KeyOf[c]]
    BY <1>3, <2>1
  <2> QED
    BY <1>10, <2>1, <2>2, KeyedIndex
<1>13. Pending(r) \subseteq Awaits
  BY <1>4 DEF Keyed
<1> QED
  BY <1>4, <1>6, <1>8, <1>9, <1>10, <1>11, <1>12, <1>13 DEF Keyed, Consistent

LEMMA CancelFacts ==
    ASSUME NEW t, Keyed(t), NEW id
    PROVE  Keyed(cancel(t, id)) /\ Pending(cancel(t, id)) = Pending(t) \ {id}
<1>1. CASE id \in Pending(t)
  <2>1. {t.by_id[c] : c \in {id}} = {t.by_id[id]}
    OBVIOUS
  <2>2. cancel(t, id) = [by_id |-> Without(t.by_id, {id}), by_key |-> Without(t.by_key, {t.by_id[c] : c \in {id}})]
    BY <1>1, <2>1, Zenon DEF cancel
  <2>3. {id} \in SUBSET Pending(t)
    BY <1>1
  <2> QED
    BY <2>2, <2>3, Removal
<1>2. CASE id \notin Pending(t)
  BY <1>2 DEF cancel
<1> QED
  BY <1>1, <1>2

LEMMA PruneFacts ==
    ASSUME NEW t, Keyed(t), NEW closed
    PROVE  Keyed(prune_closed(t, closed)) /\ Pending(prune_closed(t, closed)) = Pending(t) \ closed
<1> DEFINE S == Pending(t) \cap closed
<1>1. S \in SUBSET Pending(t)
  OBVIOUS
<1>2. prune_closed(t, closed) = [by_id |-> Without(t.by_id, S), by_key |-> Without(t.by_key, {t.by_id[c] : c \in S})]
  BY DEF prune_closed
<1>3. Pending(t) \ S = Pending(t) \ closed
  OBVIOUS
<1>4. Keyed(prune_closed(t, closed)) /\ Pending(prune_closed(t, closed)) = Pending(t) \ S
  <2> HIDE DEF S
  <2> QED
    BY <1>1, <1>2, Removal
<1> QED
  BY <1>3, <1>4

\* An entry is added under a key that is free.
LEMMA Addition ==
    ASSUME NEW t, Keyed(t), ~Full(t), NEW id \in Awaits, ~Taken(t, KeyOf[id]), NEW r,
           r = [by_id |-> With(t.by_id, id, KeyOf[id]), by_key |-> With(t.by_key, KeyOf[id], id)]
    PROVE  Keyed(r) /\ Pending(r) = Pending(t) \cup {id}
<1>1. r.by_id = With(t.by_id, id, KeyOf[id]) /\ r.by_key = With(t.by_key, KeyOf[id], id)
  OBVIOUS
<1>2. Pending(r) = Pending(t) \cup {id}
  BY <1>1 DEF With, Pending
<1>3. KeyOf[id] \notin DOMAIN t.by_key /\ id \notin Pending(t)
  BY KeyedIndex DEF Taken
<1>4. \A c \in Pending(r) : r.by_id[c] = KeyOf[c]
  BY <1>1, <1>2 DEF With, Keyed, Pending
<1>5. /\ DOMAIN r.by_key = DOMAIN t.by_key \cup {KeyOf[id]}
      /\ r.by_key[KeyOf[id]] = id
      /\ \A k \in DOMAIN t.by_key : r.by_key[k] = t.by_key[k]
  BY <1>1, <1>3 DEF With
<1>6. {r.by_id[c] : c \in Pending(r)} = {KeyOf[c] : c \in Pending(t)} \cup {KeyOf[id]}
  <2>1. {r.by_id[c] : c \in Pending(r)} = {KeyOf[c] : c \in Pending(r)}
    BY <1>4
  <2>2. {KeyOf[c] : c \in Pending(t) \cup {id}} = {KeyOf[c] : c \in Pending(t)} \cup {KeyOf[id]}
    OBVIOUS
  <2> QED
    BY <1>2, <2>1, <2>2
<1>7. \A c \in Pending(r) : r.by_key[r.by_id[c]] = c
  BY <1>2, <1>4, <1>5, KeyedIndex
<1>8. IsFiniteSet(Pending(r)) /\ Cardinality(Pending(r)) <= MaxPending
  <2>1. IsFiniteSet(Pending(t)) /\ Cardinality(Pending(t)) \in Nat /\ ~(Cardinality(Pending(t)) >= MaxPending)
    BY FS_CardinalityType DEF Keyed, Full
  <2>2. IsFiniteSet(Pending(t) \cup {id}) /\ Cardinality(Pending(t) \cup {id}) = Cardinality(Pending(t)) + 1
    BY <1>3, <2>1, FS_AddElement
  <2> QED
    BY <1>2, <2>1, <2>2, Limit
<1>9. Pending(r) \subseteq Awaits
  BY <1>2 DEF Keyed
<1>10. DOMAIN r.by_key = {r.by_id[c] : c \in Pending(r)}
  BY <1>5, <1>6, KeyedIndex
<1> QED
  BY <1>2, <1>4, <1>7, <1>8, <1>9, <1>10 DEF Keyed, Consistent

\* register: what it leaves in the tracker, and what a refusal of it means.
LEMMA RegisterFacts ==
    ASSUME NEW t, Keyed(t), NEW id \in Awaits, NEW closed
    PROVE  /\ Keyed(register(t, id, KeyOf[id], closed).tracker)
           /\ register(t, id, KeyOf[id], closed).result = "ok" =>
                 Pending(register(t, id, KeyOf[id], closed).tracker) \subseteq Pending(t) \cup {id}
           /\ register(t, id, KeyOf[id], closed).result # "ok" =>
                 Pending(register(t, id, KeyOf[id], closed).tracker) \subseteq Pending(t)
           /\ register(t, id, KeyOf[id], closed).result = "TooManyPending" =>
                 Cardinality(Pending(t) \ closed) >= MaxPending
           /\ register(t, id, KeyOf[id], closed).result = "DuplicateInFlight" =>
                 KeyOf[id] \in {KeyOf[d] : d \in Pending(t) \ closed}
<1>0. PICK r : r = register(t, id, KeyOf[id], closed)
  OBVIOUS
<1>1. PICK pruned : pruned = (IF Full(t) \/ Taken(t, KeyOf[id]) THEN prune_closed(t, closed) ELSE t)
  OBVIOUS
<1>2. r = IF Full(pruned) THEN [tracker |-> pruned, result |-> "TooManyPending"]
          ELSE IF Taken(pruned, KeyOf[id]) THEN [tracker |-> pruned, result |-> "DuplicateInFlight"]
          ELSE [tracker |-> [by_id  |-> With(pruned.by_id, id, KeyOf[id]),
                             by_key |-> With(pruned.by_key, KeyOf[id], id)],
                result  |-> "ok"]
  BY <1>0, <1>1, Zenon DEF register
<1>3. Keyed(pruned) /\ Pending(pruned) \subseteq Pending(t)
  BY <1>1, PruneFacts
<1>4. Full(pruned) \/ Taken(pruned, KeyOf[id]) => pruned = prune_closed(t, closed)
  BY <1>1
<1>5. /\ Keyed(r.tracker)
      /\ r.result = "ok" => Pending(r.tracker) \subseteq Pending(t) \cup {id}
      /\ r.result # "ok" => Pending(r.tracker) \subseteq Pending(t)
      /\ r.result = "TooManyPending" => Cardinality(Pending(t) \ closed) >= MaxPending
      /\ r.result = "DuplicateInFlight" => KeyOf[id] \in {KeyOf[d] : d \in Pending(t) \ closed}
  <2>1. CASE Full(pruned)
    <3>1. r = [tracker |-> pruned, result |-> "TooManyPending"]
      BY <1>2, <2>1
    <3>2. Cardinality(Pending(t) \ closed) >= MaxPending
      BY <1>4, <2>1, PruneFacts DEF Full
    <3> QED
      BY <1>3, <3>1, <3>2
  <2>2. CASE ~Full(pruned) /\ Taken(pruned, KeyOf[id])
    <3>1. r = [tracker |-> pruned, result |-> "DuplicateInFlight"]
      BY <1>2, <2>2
    <3>2. \E d \in Pending(pruned) : KeyOf[d] = KeyOf[id]
      BY <1>3, <2>2, KeyedIndex DEF Taken
    <3>3. KeyOf[id] \in {KeyOf[d] : d \in Pending(t) \ closed}
      BY <1>4, <2>2, <3>2, PruneFacts
    <3> QED
      BY <1>3, <3>1, <3>3
  <2>3. CASE ~Full(pruned) /\ ~Taken(pruned, KeyOf[id])
    <3>1. PICK added : added = [by_id  |-> With(pruned.by_id, id, KeyOf[id]),
                                by_key |-> With(pruned.by_key, KeyOf[id], id)]
      OBVIOUS
    <3>2. r = [tracker |-> added, result |-> "ok"]
      BY <1>2, <2>3, <3>1, Zenon
    <3>3. Keyed(added) /\ Pending(added) = Pending(pruned) \cup {id}
      BY <1>3, <2>3, <3>1, Addition
    <3> QED
      BY <1>3, <3>2, <3>3
  <2> QED
    BY <2>1, <2>2, <2>3
<1> QED
  BY <1>0, <1>5, Zenon

LEMMA EmptyTracker == Keyed(Empty) /\ Pending(Empty) = {}
<1>1. Pending(Empty) = {}
  BY DEF Empty, Pending
<1>2. DOMAIN Empty.by_key = {}
  BY DEF Empty
<1>3. IsFiniteSet({}) /\ Cardinality({}) <= MaxPending
  BY FS_EmptySet, Limit
<1> QED
  BY <1>1, <1>2, <1>3 DEF Keyed, Consistent

\* What a step can do to the tracker.
LEMMA TrackerMoves ==
    ASSUME Types, [Next]_vars
    PROVE  \/ tracker' = Empty
           \/ tracker' = tracker /\ (sess' \in Live \/ sess' = sess \/ sess \notin Live)
           \/ sess = "loop" /\ sess' = "loop" /\ \E id : tracker' = cancel(tracker, id)
           \/ /\ sess = "loop" /\ sess' = "loop"
              /\ \E c \in Awaits : tracker' \in {Registered(c).tracker, cancel(Registered(c).tracker, c)}
<1>1. CASE \E c \in Calls : Caller(c)
  BY <1>1 DEF Caller, Issue, Enqueue, EnqueueRefused, AwaitTimeout, Abandon
<1>2. CASE \E c \in Calls : ReadAnswer(c) \/ PeerAnswers(c)
  BY <1>2, ReadFacts DEF PeerAnswers
<1>3. CASE \E e \in Epochs : Writer(e)
  BY <1>3, TakeFacts, OverFacts DEF Writer, WriterWrote
<1>4. CASE handle_command
  BY <1>4, HandleFacts DEF Skips, Refuses, Pushes, Lost, DrainAll
<1>5. CASE HandleCancel \/ Ping \/ LoopLost \/ LoopClosed \/ LoopRejected
  BY <1>5 DEF HandleCancel, Ping, LoopLost, Lost, DrainAll, LoopClosed, LoopRejected, LoopStops, Live
<1>6. CASE SessionEnds
  BY <1>6 DEF SessionEnds, StopTimeout, WriterJoined, Terminate, Panic, DrainAll, Live
<1>7. CASE Between
  BY <1>7 DEF Between, BecomeReady, StartFails, WindowCommand, WindowCancel, WindowElapsed, Live
<1>8. CASE UNCHANGED vars
  BY <1>8 DEF vars
<1> QED
  BY <1>1, <1>2, <1>3, <1>4, <1>5, <1>6, <1>7, <1>8 DEF Next, Loop, Finished

LEMMA TrackerStep ==
    ASSUME TrackerInv, [Next]_vars
    PROVE  TrackerInv'
<1>1. Types /\ Types' /\ Keyed(tracker)
  BY TypesStep DEF TrackerInv
<1>2. ASSUME NEW c \in Awaits
      PROVE  Keyed(Registered(c).tracker)
  BY <1>1, RegisterFacts, Zenon DEF Registered
<1>3. Keyed(tracker') /\ (sess' \notin Live => tracker' = Empty)
  <2>1. CASE tracker' = Empty
    BY <2>1, EmptyTracker
  <2>2. CASE tracker' = tracker /\ (sess' \in Live \/ sess' = sess \/ sess \notin Live)
    BY <1>1, <2>2 DEF TrackerInv
  <2>3. CASE sess' = "loop" /\ \E id : tracker' = cancel(tracker, id)
    BY <1>1, <2>3, CancelFacts DEF Live
  <2>4. CASE sess' = "loop" /\ \E c \in Awaits : tracker' \in {Registered(c).tracker, cancel(Registered(c).tracker, c)}
    BY <1>2, <2>4, CancelFacts DEF Live
  <2> QED
    BY <1>1, <2>1, <2>2, <2>3, <2>4, TrackerMoves
<1>4. Keyed(tracker)'
  BY <1>3 DEF Keyed, Consistent, Pending
<1> QED
  BY <1>1, <1>3, <1>4 DEF TrackerInv

LEMMA InitTracker == Init => TrackerInv
BY InitTypes, EmptyTracker DEF Init, TrackerInv

LEMMA Tracking == Spec => []TrackerInv
<1>1. TrackerInv /\ [Next]_vars => TrackerInv'
  BY TrackerStep
<1> QED
  BY <1>1, InitTracker, PTL DEF Spec

\* The variables of the session, the queue, the lanes of every connection and the peer
\* keep their types; the queue and both lanes of every connection keep to
\* command_buffer, whatever keepalives and closing commands compete for them.
THEOREM CommandPathTypes == Spec => []TypeOK
<1>1. TrackerInv => TypeOK
  <2> SUFFICES ASSUME TrackerInv
               PROVE  TypeOK
    OBVIOUS
  <2>1. Pending(tracker) \subseteq Awaits /\ SessTypes /\ CallTypes /\ QueueTypes /\ LaneTypes /\ TaskTypes /\ PeerTypes
    BY DEF TrackerInv, Keyed, Types
  <2> QED
    BY <2>1 DEF TypeOK, SessTypes, CallTypes, QueueTypes, LaneTypes, TaskTypes, PeerTypes, Items
<1> QED
  BY <1>1, Tracking, PTL

\* AwaitTracker's two tables agree through every registration, pruning, cancellation
\* and answer, the table keeps to max_pending_awaits, and drain_all has emptied it
\* whenever there is no session.
THEOREM TrackerStaysSound == Spec => []TrackerSound
<1>1. TrackerInv => TrackerSound
  BY EmptyTracker DEF TrackerInv, Keyed, TrackerSound, Live
<1> QED
  BY <1>1, Tracking, PTL

\* What is on a wire stays there, and what was answered stays answered.
LEMMA HistoryGrows ==
    ASSUME Types, [Next]_vars
    PROVE  /\ \A e \in Epochs, c \in Calls : Contains(wire[e], c) => Contains(wire'[e], c)
           /\ answered \subseteq answered'
<1>1. CASE \E c \in Calls : Caller(c)
  BY <1>1 DEF Caller, Issue, Enqueue, EnqueueRefused, AwaitTimeout, Abandon, writerVars, peerVars
<1>2. CASE \E c \in Calls : ReadAnswer(c) \/ PeerAnswers(c)
  BY <1>2, ReadFacts DEF PeerAnswers, writerVars
<1>3. CASE \E e \in Epochs : WriterTake(e)
  BY <1>3, TakeFacts
<1>4. ASSUME NEW e \in Epochs, WriterStops(e) \/ WriterFailed(e) \/ WriterAborted(e) \/ WriterWrote(e)
      PROVE  /\ \A f \in Epochs, c \in Calls : Contains(wire[f], c) => Contains(wire'[f], c)
             /\ answered \subseteq answered'
  <2>1. wire[e] \in Seq(Calls)
    BY DEF Types, TaskTypes
  <2>2. \A c \in Calls : Contains(wire[e], c) => Contains(wire'[e], c)
    <3>1. wire'[e] = wire[e] \/ (frame[e] \in Calls /\ wire'[e] = Append(wire[e], frame[e]))
      BY <1>4, WriteFacts
    <3>2. CASE frame[e] \in Calls /\ wire'[e] = Append(wire[e], frame[e])
      BY <2>1, <3>2, AppendFacts
    <3> QED
      BY <3>1, <3>2
  <2> QED
    BY <1>4, <2>2, WriteFacts
<1>5. CASE handle_command
  BY <1>5, HandleFacts DEF Skips, Refuses, Pushes, PushFrame, Lost
<1>6. CASE HandleCancel \/ Ping \/ LoopLost \/ LoopClosed \/ LoopRejected
  BY <1>6 DEF HandleCancel, Ping, LoopLost, Lost, LoopClosed, LoopRejected, LoopStops, writerVars, peerVars
<1>7. CASE SessionEnds \/ Between
  BY <1>7, BetweenFacts
<1>8. CASE UNCHANGED vars
  BY <1>8 DEF vars, writerVars, peerVars
<1> QED
  BY <1>1, <1>2, <1>3, <1>4, <1>5, <1>6, <1>7, <1>8 DEF Next, Loop, Writer, Finished

\* Who says ok, and who says response.
LEMMA Successes ==
    ASSUME Types, [Next]_vars, NEW c \in Calls, reply'[c] # reply[c]
    PROVE  /\ reply'[c] = "ok" => \E e \in Epochs : WriterWrote(e) /\ c = frame[e]
           /\ reply'[c] = "response" =>
                 \E d \in Calls : ReadAnswer(d) /\ d \in Awaits /\ Taken(tracker, KeyOf[d]) /\ c = tracker.by_key[KeyOf[d]]
<1>1. CASE \E d \in Calls : Caller(d)
  BY <1>1 DEF Caller, Issue, Enqueue, EnqueueRefused, AwaitTimeout, Abandon, Answer
<1>2. CASE \E d \in Calls : ReadAnswer(d) \/ PeerAnswers(d)
  BY <1>2, ReadFacts DEF PeerAnswers, callVars, Answer
<1>3. CASE \E e \in Epochs : Writer(e)
  BY <1>3, TakeFacts, OverFacts DEF Writer, WriterWrote, Answer
<1>4. CASE handle_command
  BY <1>4, HandleFacts DEF Skips, Refuses, Refusals, Pushes, Lost, DrainAll, Answer
<1>5. CASE HandleCancel \/ Ping \/ LoopLost \/ LoopClosed \/ LoopRejected
  BY <1>5 DEF HandleCancel, Ping, LoopLost, Lost, DrainAll, LoopClosed, LoopRejected, LoopStops, callVars, Answer
<1>6. CASE SessionEnds \/ Between
  BY <1>6, BetweenFacts DEF DrainAll, Answer
<1>7. CASE UNCHANGED vars
  BY <1>7 DEF vars, callVars
<1> QED
  BY <1>1, <1>2, <1>3, <1>4, <1>5, <1>6, <1>7 DEF Next, Loop, Finished

\* An answer is true: WriterWrote alone says ok, of a frame it has put on its wire; and
\* the reader looks the taker of an answer up by its correlation key, so the one who
\* gets a response asked with that key.
THEOREM AnswersStayTrue == Spec => []AnswersAreTrue
<1>1. Init => AnswersAreTrue
  BY DEF Init, AnswersAreTrue
<1>2. ASSUME TrackerInv, AnswersAreTrue, [Next]_vars
      PROVE  AnswersAreTrue'
  <2>1. Types /\ Types' /\ Keyed(tracker)
    BY <1>2, TypesStep DEF TrackerInv
  <2>2. ASSUME NEW c \in Calls, reply'[c] = "ok"
        PROVE  \E e \in Epochs : Contains(wire'[e], c)
    <3>1. CASE reply[c] = "ok"
      BY <1>2, <2>1, <3>1, HistoryGrows DEF AnswersAreTrue, OnWire
    <3>2. CASE reply[c] # "ok"
      <4>1. PICK e \in Epochs : WriterWrote(e) /\ c = frame[e]
        BY <1>2, <2>1, <2>2, <3>2, Successes
      <4>2. wire[e] \in Seq(Calls) /\ wire'[e] = Append(wire[e], c)
        BY <2>1, <4>1 DEF WriterWrote, Reached, Types, TaskTypes
      <4>3. Contains(wire'[e], c)
        BY <4>2, AppendFacts
      <4> QED
        BY <4>3
    <3> QED
      BY <3>1, <3>2
  <2>3. ASSUME NEW c \in Calls, reply'[c] = "response"
        PROVE  \E d \in answered' \cap Awaits : KeyOf[d] = KeyOf[c]
    <3>1. CASE reply[c] = "response"
      BY <1>2, <2>1, <3>1, HistoryGrows DEF AnswersAreTrue
    <3>2. CASE reply[c] # "response"
      <4>1. PICK d \in Calls : ReadAnswer(d) /\ d \in Awaits /\ Taken(tracker, KeyOf[d]) /\ c = tracker.by_key[KeyOf[d]]
        BY <1>2, <2>1, <2>3, <3>2, Successes
      <4>2. KeyOf[c] = KeyOf[d]
        <5>1. \A k \in DOMAIN tracker.by_key : KeyOf[tracker.by_key[k]] = k
          BY <2>1, KeyedIndex
        <5> QED
          BY <4>1, <5>1 DEF Taken
      <4>3. d \in answers /\ answered' = answered /\ answers \subseteq answered
        BY <2>1, <4>1 DEF ReadAnswer, Types, PeerTypes
      <4> QED
        BY <4>1, <4>2, <4>3
    <3> QED
      BY <3>1, <3>2
  <2>4. \A c \in Calls : reply'[c] = "ok" => OnWire(c)' # {}
    BY <2>2 DEF OnWire
  <2> QED
    BY <2>3, <2>4 DEF AnswersAreTrue
<1> QED
  BY <1>1, <1>2, Tracking, PTL DEF Spec

\* What has to be shown of a step.
LEMMA RegisterStep ==
    ASSUME PlaceInv', TrackerInv',
           \A c \in Awaits : /\ c \in Pending(tracker') => stage'[c] = "sent" /\ ~Contains(queue', c)
                             /\ c \in Pending(tracker') \/ Contains(queue', c) => reply'[c] \in Waiting
    PROVE  RegisterInv'
<1>1. Registering'
  BY DEF Registering, Pending
<1> QED
  BY <1>1 DEF RegisterInv

\* A step that brings nothing to the queue or the tracker and answers none that it
\* leaves there.
LEMMA RegisterLess ==
    ASSUME RegisterInv, PlaceInv', TrackerInv', Pending(tracker') \subseteq Pending(tracker),
           \A c \in Awaits : Contains(queue', c) => Contains(queue, c),
           \A c \in Awaits : stage[c] = "sent" => stage'[c] = "sent",
           \A c \in Awaits : c \in Pending(tracker') \/ Contains(queue', c) =>
               reply'[c] = reply[c] \/ reply'[c] \in Waiting
    PROVE  RegisterInv'
<1>1. \A c \in Awaits : /\ c \in Pending(tracker') => stage'[c] = "sent" /\ ~Contains(queue', c)
                        /\ c \in Pending(tracker') \/ Contains(queue', c) => reply'[c] \in Waiting
  BY DEF RegisterInv, Registering
<1> QED
  BY <1>1, RegisterStep

LEMMA AwaitsAreCalls == Awaits \subseteq Calls
BY CommandAssumption, Zenon

LEMMA QueuedFacts ==
    ASSUME PlaceInv, NEW c \in Calls, Contains(queue, c)
    PROVE  stage[c] = "sent"
<1>1. At(c, "queue", 0) /\ "queue" \in Kinds
  BY DEF At, Kinds
<1> QED
  BY <1>1, EpochNumbers DEF PlaceInv, Placed

LEMMA CallerRegister ==
    ASSUME RegisterInv, PlaceInv', TrackerInv', NEW c \in Calls, Caller(c)
    PROVE  RegisterInv'
<1>1. CallTypes /\ queue \in Seq(Calls) /\ tracker' = tracker
  BY DEF RegisterInv, PlaceInv, Types, QueueTypes, Caller, Issue, Enqueue, EnqueueRefused, AwaitTimeout, Abandon
<1>2. \A d \in Awaits : d \in Pending(tracker) \/ Contains(queue, d) => stage[d] = "sent"
  BY QueuedFacts, AwaitsAreCalls DEF RegisterInv, Registering
<1>3. CASE Enqueue(c)
  <2>1. stage[c] = "issued" /\ reply[c] = "none" /\ queue' = Append(queue, c) /\ reply' = reply
        /\ stage' = [stage EXCEPT ![c] = "sent"]
    BY <1>3 DEF Enqueue
  <2>2. \A d : Contains(queue', d) => Contains(queue, d) \/ d = c
    BY <1>1, <2>1, AppendFacts
  <2>3. \A d \in Awaits : /\ d \in Pending(tracker') => stage'[d] = "sent" /\ ~Contains(queue', d)
                          /\ d \in Pending(tracker') \/ Contains(queue', d) => reply'[d] \in Waiting
    BY <1>1, <1>2, <2>1, <2>2, AwaitsAreCalls DEF RegisterInv, Registering, Waiting, CallTypes
  <2> QED
    BY <2>3, RegisterStep
<1>4. CASE ~Enqueue(c)
  <2>1. queue' = queue
    BY <1>4 DEF Caller, Issue, EnqueueRefused, AwaitTimeout, Abandon, chanVars
  <2>2. \A d \in Calls : stage[d] = "sent" => stage'[d] = "sent" /\ (reply'[d] = reply[d] \/ reply'[d] \in Waiting)
    BY <1>1, <1>4 DEF Caller, Issue, EnqueueRefused, AwaitTimeout, Abandon, CallTypes, Answer, Waiting
  <2> QED
    BY <1>1, <1>2, <2>1, <2>2, AwaitsAreCalls, RegisterLess
<1> QED
  BY <1>3, <1>4

LEMMA HandleRegister ==
    ASSUME RegisterInv, PlaceInv', TrackerInv', handle_command
    PROVE  RegisterInv'
<1>1. PICK c \in Calls : c = Head(queue)
  BY HandleFacts DEF RegisterInv, PlaceInv
<1>2. Types /\ Keyed(tracker) /\ queue # <<>> /\ queue' = Tail(queue) /\ UNCHANGED <<stage, binding>>
  BY HandleFacts DEF RegisterInv, TrackerInv
<1>3. queue \in Seq(Calls)
  BY <1>2 DEF Types, QueueTypes
<1>4. Contains(queue, c) /\ Once(queue, c)
  BY <1>1, <1>2, <1>3, TailFacts DEF RegisterInv, PlaceInv, OnePlace
<1>5. ~Contains(queue', c) /\ \A d : Contains(queue', d) => Contains(queue, d)
  BY <1>1, <1>2, <1>3, <1>4, TailFacts
<1>6. ASSUME c \in Awaits
      PROVE  /\ c \notin Pending(tracker) /\ reply[c] \in Waiting
             /\ Keyed(Registered(c).tracker)
             /\ Registered(c).result = "ok" => Pending(Registered(c).tracker) \subseteq Pending(tracker) \cup {c}
             /\ Registered(c).result # "ok" => Pending(Registered(c).tracker) \subseteq Pending(tracker)
  <2>1. c \notin Pending(tracker) /\ reply[c] \in Waiting
    BY <1>4, <1>6 DEF RegisterInv, Registering
  <2>2. /\ Keyed(Registered(c).tracker)
        /\ Registered(c).result = "ok" => Pending(Registered(c).tracker) \subseteq Pending(tracker) \cup {c}
        /\ Registered(c).result # "ok" => Pending(Registered(c).tracker) \subseteq Pending(tracker)
    BY <1>2, <1>6, RegisterFacts, Zenon DEF Registered
  <2> QED
    BY <2>1, <2>2
<1>7. CASE Skips
  BY <1>2, <1>5, <1>7, RegisterLess DEF Skips
<1>8. CASE Refuses(c)
  <2>1. \A d \in Calls \ {c} : reply'[d] = reply[d]
    BY <1>8 DEF Refuses, Answer
  <2>2. Pending(tracker') \subseteq Pending(tracker)
    <3>1. CASE tracker' = tracker
      BY <3>1
    <3>2. CASE tracker' = cancel(tracker, c)
      BY <1>2, <3>2, CancelFacts
    <3>3. CASE c \in Awaits /\ tracker' = Registered(c).tracker /\ Registered(c).result # "ok"
      BY <1>6, <3>3
    <3>4. CASE c \in Awaits /\ Registered(c).result = "ok" /\ tracker' = cancel(Registered(c).tracker, c)
      BY <1>6, <3>4, CancelFacts
    <3> QED
      BY <1>8, <3>1, <3>2, <3>3, <3>4 DEF Refuses
  <2>3. \A d \in Awaits : d \in Pending(tracker') \/ Contains(queue', d) => reply'[d] = reply[d]
    BY <1>5, <1>6, <2>1, <2>2, AwaitsAreCalls
  <2> QED
    BY <1>2, <1>5, <2>2, <2>3, RegisterLess
<1>9. CASE Lost({c} \cup Pending(tracker))
  <2>1. tracker' = Empty /\ reply' = Answer({c} \cup Pending(tracker), "Disconnected")
    BY <1>9 DEF Lost, DrainAll
  <2>2. Pending(tracker') = {}
    BY <2>1, EmptyTracker
  <2>3. \A d \in Awaits : Contains(queue', d) => d \notin {c} \cup Pending(tracker)
    BY <1>5 DEF RegisterInv, Registering
  <2>4. \A d \in Awaits : d \in Pending(tracker') \/ Contains(queue', d) => reply'[d] = reply[d]
    BY <2>1, <2>2, <2>3, AwaitsAreCalls DEF Answer
  <2> QED
    BY <1>2, <1>5, <2>2, <2>4, RegisterLess
<1>10. CASE Pushes(c)
  <2>1. reply' = reply
    BY <1>10 DEF Pushes
  <2>2. CASE c \in Sends /\ tracker' = tracker
    BY <1>2, <1>5, <2>1, <2>2, RegisterLess
  <2>3. CASE c \in Awaits /\ Registered(c).result = "ok" /\ tracker' = Registered(c).tracker
    <3>1. Pending(tracker') \subseteq Pending(tracker) \cup {c}
      BY <1>6, <2>3
    <3>2. stage[c] = "sent"
      BY <1>4, QueuedFacts DEF RegisterInv
    <3>3. \A d \in Awaits : /\ d \in Pending(tracker') => stage'[d] = "sent" /\ ~Contains(queue', d)
                            /\ d \in Pending(tracker') \/ Contains(queue', d) => reply'[d] \in Waiting
      BY <1>2, <1>5, <1>6, <2>1, <2>3, <3>1, <3>2 DEF RegisterInv, Registering
    <3> QED
      BY <3>3, RegisterStep
  <2> QED
    BY <1>10, <2>2, <2>3 DEF Pushes
<1> QED
  BY <1>1, <1>2, <1>7, <1>8, <1>9, <1>10, HandleFacts

LEMMA ReadRegister ==
    ASSUME RegisterInv, PlaceInv', TrackerInv', NEW c \in Calls, ReadAnswer(c)
    PROVE  RegisterInv'
<1>1. Keyed(tracker) /\ UNCHANGED <<stage, queue>>
  BY ReadFacts DEF RegisterInv, TrackerInv
<1>2. CASE reply' = reply /\ tracker' = tracker
  BY <1>1, <1>2, RegisterLess
<1>3. CASE /\ c \in Awaits /\ Taken(tracker, KeyOf[c])
           /\ \E what \in {"response", "UnreadableResponse"} : reply' = Answer({tracker.by_key[KeyOf[c]]}, what)
           /\ tracker' = cancel(tracker, tracker.by_key[KeyOf[c]])
  <2>1. PICK d : d = tracker.by_key[KeyOf[c]]
    OBVIOUS
  <2>2. d \in Pending(tracker)
    BY <1>1, <1>3, <2>1, KeyedIndex DEF Taken
  <2>3. Pending(tracker') = Pending(tracker) \ {d}
    BY <1>1, <1>3, <2>1, CancelFacts
  <2>4. d \in Awaits /\ ~Contains(queue, d)
    BY <1>1, <2>2 DEF Keyed, RegisterInv, Registering
  <2>5. \A b \in Calls \ {d} : reply'[b] = reply[b]
    BY <1>3, <2>1 DEF Answer
  <2>6. \A b \in Awaits : b \in Pending(tracker') \/ Contains(queue', b) => reply'[b] = reply[b]
    BY <1>1, <2>3, <2>4, <2>5, AwaitsAreCalls
  <2> QED
    BY <1>1, <2>3, <2>6, RegisterLess
<1> QED
  BY <1>2, <1>3, ReadFacts

\* The session loses its tracker with everybody it answers, or answers only what it
\* takes from the queue while there is no tracker.
LEMMA EndRegister ==
    ASSUME RegisterInv, PlaceInv', TrackerInv', SessionEnds \/ Between \/ LoopLost
    PROVE  RegisterInv'
<1>1. Types /\ (sess \notin Live => tracker = Empty) /\ queue \in Seq(Calls)
  BY DEF RegisterInv, TrackerInv, Types, QueueTypes
<1>2. stage' = stage
  BY <1>1, BetweenFacts DEF LoopLost
<1>3. \A c \in Awaits : Contains(queue', c) => Contains(queue, c)
  <2>1. queue' \in {queue, <<>>} \/ (queue # <<>> /\ queue' = Tail(queue))
    BY <1>1, BetweenFacts DEF LoopLost, chanVars
  <2>2. CASE queue' = <<>>
    BY <2>2, EmptyFacts
  <2>3. CASE queue # <<>> /\ queue' = Tail(queue)
    BY <1>1, <2>3, TailFacts
  <2> QED
    BY <2>1, <2>2, <2>3
<1>4. CASE UNCHANGED <<reply, tracker>>
  BY <1>2, <1>3, <1>4, RegisterLess
<1>5. CASE /\ tracker' = Empty
           /\ \/ queue' = <<>>
              \/ queue' = queue /\ reply' = Answer(Pending(tracker), "Disconnected")
  <2>1. Pending(tracker') = {}
    BY <1>5, EmptyTracker
  <2>2. \A c \in Awaits : Contains(queue', c) => reply'[c] = reply[c]
    <3>1. CASE queue' = <<>>
      BY <3>1, EmptyFacts
    <3>2. CASE queue' = queue /\ reply' = Answer(Pending(tracker), "Disconnected")
      BY <3>2, AwaitsAreCalls DEF Answer, RegisterInv, Registering
    <3> QED
      BY <1>5, <3>1, <3>2
  <2> QED
    BY <1>2, <1>3, <2>1, <2>2, RegisterLess
<1>6. CASE WindowCommand
  <2>1. /\ sess = "window" /\ queue # <<>> /\ queue' = Tail(queue) /\ tracker' = tracker
        /\ reply' = Answer({Head(queue)}, "Disconnected")
    BY <1>6 DEF WindowCommand
  <2>2. Pending(tracker') = {} /\ Pending(tracker') \subseteq Pending(tracker)
    BY <1>1, <2>1, EmptyTracker DEF Live
  <2>3. Head(queue) \in Calls /\ (Once(queue, Head(queue)) => ~Contains(queue', Head(queue)))
    BY <1>1, <2>1, TailFacts
  <2>4. ~Contains(queue', Head(queue))
    BY <2>3 DEF RegisterInv, PlaceInv, OnePlace
  <2>5. \A c \in Awaits : Contains(queue', c) => reply'[c] = reply[c]
    BY <2>1, <2>4, AwaitsAreCalls DEF Answer
  <2> QED
    BY <1>2, <1>3, <2>2, <2>5, RegisterLess
<1>7. CASE Terminate
  <2>1. sess \notin Live /\ queue' = <<>> /\ tracker' = tracker
    BY <1>7 DEF Terminate, DropChannels, Live
  <2> QED
    BY <1>1, <1>5, <2>1
<1>8. CASE StopTimeout \/ BecomeReady \/ StartFails \/ WindowCancel \/ WindowElapsed
  BY <1>4, <1>8 DEF StopTimeout, BecomeReady, StartFails, WindowCancel, WindowElapsed, callVars
<1>9. CASE WriterJoined \/ Panic \/ LoopLost
  <2>1. /\ tracker' = Empty
        /\ \/ queue' = <<>>
           \/ queue' = queue /\ reply' = Answer(Pending(tracker), "Disconnected")
    BY <1>9 DEF WriterJoined, Panic, LoopLost, Lost, DrainAll, DropChannels, chanVars
  <2> QED
    BY <1>5, <2>1
<1> QED
  BY <1>6, <1>7, <1>8, <1>9 DEF SessionEnds, Between

LEMMA RegistersStep ==
    ASSUME RegisterInv, [Next]_vars
    PROVE  RegisterInv'
<1>1. Types /\ PlaceInv' /\ TrackerInv' /\ Keyed(tracker)
  BY PlacesStep, TrackerStep DEF RegisterInv, TrackerInv
<1>2. CASE \E c \in Calls : Caller(c)
  BY <1>1, <1>2, CallerRegister
<1>3. CASE \E c \in Calls : ReadAnswer(c)
  BY <1>1, <1>3, ReadRegister
<1>4. CASE (\E c \in Calls : PeerAnswers(c)) \/ Ping \/ LoopClosed \/ LoopRejected \/ UNCHANGED vars
  <2>1. UNCHANGED <<tracker, queue, stage, reply>>
    BY <1>4 DEF PeerAnswers, Ping, LoopClosed, LoopRejected, LoopStops, vars, callVars, chanVars
  <2> QED
    BY <1>1, <2>1, RegisterLess
<1>5. CASE \E e \in Epochs : Writer(e)
  <2>1. UNCHANGED <<tracker, queue, stage>> /\ \A c \in Awaits : reply'[c] = reply[c]
    BY <1>1, <1>5, TakeFacts, OverFacts, AwaitsAreCalls DEF Writer, WriterWrote, Answer, Sends, chanVars
  <2> QED
    BY <1>1, <2>1, RegisterLess
<1>6. CASE handle_command
  BY <1>1, <1>6, HandleRegister
<1>7. CASE HandleCancel
  <2>1. UNCHANGED <<queue, stage, reply>> /\ tracker' = cancel(tracker, Head(cancels))
    BY <1>7 DEF HandleCancel, callVars
  <2>2. Pending(tracker') \subseteq Pending(tracker)
    BY <1>1, <2>1, CancelFacts
  <2> QED
    BY <1>1, <2>1, <2>2, RegisterLess
<1>8. CASE SessionEnds \/ Between \/ LoopLost
  BY <1>1, <1>8, EndRegister
<1> QED
  BY <1>2, <1>3, <1>4, <1>5, <1>6, <1>7, <1>8 DEF Next, Loop, Finished

\* Only handle_command, which asks register, refuses a request for the requests before it.
LEMMA RegisterRefuses ==
    ASSUME Types, [Next]_vars, NEW c \in Awaits, reply[c] = "none",
           reply'[c] \in {"TooManyPending", "DuplicateInFlight"}
    PROVE  reply'[c] = Registered(c).result
<1>1. c \in Calls /\ reply'[c] # reply[c]
  BY AwaitsAreCalls
<1>2. CASE \E d \in Calls : Caller(d)
  BY <1>1, <1>2 DEF Caller, Issue, Enqueue, EnqueueRefused, AwaitTimeout, Abandon, Answer
<1>3. CASE \E d \in Calls : ReadAnswer(d) \/ PeerAnswers(d)
  BY <1>1, <1>3, ReadFacts DEF PeerAnswers, callVars, Answer
<1>4. CASE \E e \in Epochs : Writer(e)
  BY <1>1, <1>4, TakeFacts, OverFacts DEF Writer, WriterWrote, Answer
<1>5. CASE handle_command
  BY <1>1, <1>5, HandleFacts DEF Skips, Refuses, Pushes, Lost, DrainAll, Answer
<1>6. CASE HandleCancel \/ Ping \/ LoopLost \/ LoopClosed \/ LoopRejected
  BY <1>1, <1>6 DEF HandleCancel, Ping, LoopLost, Lost, DrainAll, LoopClosed, LoopRejected, LoopStops, callVars, Answer
<1>7. CASE SessionEnds \/ Between
  BY <1>1, <1>7, BetweenFacts DEF DrainAll, Answer
<1>8. CASE UNCHANGED vars
  BY <1>1, <1>8 DEF vars, callVars
<1> QED
  BY <1>2, <1>3, <1>4, <1>5, <1>6, <1>7, <1>8 DEF Next, Loop, Finished

\* register looks for callers that have gone whenever one might be in the way: a request
\* is turned down as one too many or as a duplicate only for requests whose callers
\* still wait, however many have timed out or been abandoned without being cancelled.
THEOREM RefusedForLiveRequests == Spec => OnlyLiveRequestsRefuse
<1> DEFINE live == {d \in Pending(tracker) : reply[d] = "none"}
<1>1. Init => RegisterInv
  <2> SUFFICES ASSUME Init
               PROVE  RegisterInv
    OBVIOUS
  <2>1. \A c \in Awaits : c \notin Pending(tracker) /\ ~Contains(queue, c)
    BY EmptyTracker, EmptyFacts DEF Init
  <2> QED
    BY <2>1, InitPlaces, InitTracker DEF RegisterInv, Registering
<1>2. RegisterInv /\ [Next]_vars => RegisterInv'
  BY RegistersStep
<1>3. ASSUME RegisterInv, [Next]_vars, NEW c \in Awaits, reply[c] = "none"
      PROVE  /\ reply'[c] = "TooManyPending" => Cardinality(live) >= MaxPending
             /\ reply'[c] = "DuplicateInFlight" => \E d \in live : KeyOf[d] = KeyOf[c]
  <2>1. Types /\ Keyed(tracker)
    BY <1>3 DEF RegisterInv, TrackerInv
  <2>2. live = Pending(tracker) \ Gone
    <3>1. \A d \in Pending(tracker) : d \in Calls /\ reply[d] \in Waiting
      BY <1>3, <2>1, AwaitsAreCalls DEF RegisterInv, Registering, Keyed
    <3> QED
      BY <3>1 DEF Gone, Waiting
  <2>3. /\ Registered(c).result = "TooManyPending" => Cardinality(Pending(tracker) \ Gone) >= MaxPending
        /\ Registered(c).result = "DuplicateInFlight" => \E d \in Pending(tracker) \ Gone : KeyOf[d] = KeyOf[c]
    <3>1. Registered(c) = register(tracker, c, KeyOf[c], Gone)
      BY DEF Registered
    <3>2. Keyed(tracker) /\ c \in Awaits
      BY <1>3, <2>1
    <3>3. register(tracker, c, KeyOf[c], Gone).result = "TooManyPending" =>
             Cardinality(Pending(tracker) \ Gone) >= MaxPending
      BY <3>2, RegisterFacts, Zenon
    <3>4. register(tracker, c, KeyOf[c], Gone).result = "DuplicateInFlight" =>
             KeyOf[c] \in {KeyOf[d] : d \in Pending(tracker) \ Gone}
      BY <3>2, RegisterFacts, Zenon
    <3> QED
      BY <3>1, <3>3, <3>4
  <2>4. reply'[c] \in {"TooManyPending", "DuplicateInFlight"} => reply'[c] = Registered(c).result
    BY <1>3, <2>1, RegisterRefuses
  <2> HIDE DEF live
  <2> QED
    BY <2>2, <2>3, <2>4
<1>4. RegisterInv /\ [Next]_vars =>
         [\A c \in Awaits :
             LET old == {d \in Pending(tracker) : reply[d] = "none"} IN
             reply[c] = "none" =>
               /\ reply'[c] = "TooManyPending" => Cardinality(old) >= MaxPending
               /\ reply'[c] = "DuplicateInFlight" => \E d \in old : KeyOf[d] = KeyOf[c]
         ]_vars
  BY <1>3
<1> QED
  BY <1>1, <1>2, <1>4, PTL DEF Spec, OnlyLiveRequestsRefuse
==============================================================================
