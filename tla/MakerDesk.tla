------------------------------ MODULE MakerDesk ------------------------------
(***************************************************************************)
(* A maker's desk on this SDK: tasks that quote RFQs with one nonce        *)
(* generator (nonce.rs, examples/managed_quote.rs), the trackers that say  *)
(* what became of each order (QuoteOutcome) from the session's inbound     *)
(* stream, and the funding of what was filled (Funding).  The venue is     *)
(* external, modelled from the messages the trackers handle.               *)
(***************************************************************************)
EXTENDS Funding, QuoteBinding, QuoteOutcome

CONSTANTS Program,    \* ACTA_PROGRAM_ID
          Entropies,  \* what the OS may draw, zero excepted
          Nonces,     \* 2^64
          Capacity,   \* messages the inbound ring keeps
          Deadline,   \* of a tracker
          Prices,     \* settlement prices
          MaxPicks,   \* bound on selections
          MaxFaults   \* bound on failures of the RPC, the sockets and the node, and on moves of the wallet

ASSUME DeskAssumption ==
    /\ Nonces \in Nat \ {0} /\ Entropies \subseteq 1..(Nonces - 1)
    /\ Capacity \in Nat \ {0} /\ Deadline \in Nat /\ Prices \subseteq Nat

VARIABLES gen,       \* AtomicNonceGenerator: [base, counter]
          tasks,     \* each quoting task: [at, rfq, epoch, base, draw, nonce]
          trackers,  \* each task's tracker: a set of at most one
          venue,     \* [open, picks, orders], orders by id: Open, Selected, Filled or Dead
          link,      \* the session: [up, epoch, out, down], quotes and messages on the way
          ring,      \* the inbound stream: [items, lagged]
          now,       \* the monotonic clock
          deal       \* the spread opened by a fill: a set of at most one [legs, locked]

deskVars == <<gen, tasks, trackers, venue, link, ring, now, deal>>
chainVars == <<txs, conf, node, fundVars>>
vars == <<deskVars, chainVars, faults>>

Step(i, t) == tasks' = [tasks EXCEPT ![i] = t]
At(i, at) == Step(i, [tasks[i] EXCEPT !.at = at])
Quoting == UNCHANGED <<venue, ring, now, deal, chainVars>>

-----------------------------------------------------------------------------
(* A task: managed_quote's handling of one broadcast. *)

\* from_broadcast_for_program; a broadcast that does not bind ends the task.
Bind(i) ==
    /\ tasks[i].at = "New"
    /\ At(i, IF from_broadcast(tasks[i].rfq, Program) = {} THEN "Stopped" ELSE "Load")
    /\ UNCHANGED <<gen, trackers, link, faults>> /\ Quoting

\* next_u64: the entropy base, if it is there.
LoadBase(i) ==
    /\ tasks[i].at = "Load"
    /\ Step(i, [tasks[i] EXCEPT !.at = IF gen.base = 0 THEN "Draw" ELSE "Count", !.base = gen.base])
    /\ UNCHANGED <<gen, trackers, link, faults>> /\ Quoting

\* init: entropy is drawn if there still is none; the OS may refuse.
DrawEntropy(i) ==
    /\ tasks[i].at = "Draw"
    /\ \/ gen.base # 0 /\ At(i, "Reload") /\ UNCHANGED faults
       \/ gen.base = 0 /\ UNCHANGED faults
          /\ \E e \in Entropies : Step(i, [tasks[i] EXCEPT !.at = "Store", !.draw = e])
       \/ gen.base = 0 /\ Fails /\ At(i, "Stopped")
    /\ UNCHANGED <<gen, trackers, link>> /\ Quoting

\* Mutant of Stored: the task's own draw is stored, whatever is there.
StoredAlways(base, draw) == draw

\* compare_exchange(0, entropy)
Stored(base, draw) == IF base = 0 THEN draw ELSE base

StoreEntropy(i) ==
    /\ tasks[i].at = "Store"
    /\ gen' = [gen EXCEPT !.base = Stored(gen.base, tasks[i].draw)]
    /\ Step(i, [tasks[i] EXCEPT !.at = "Reload", !.draw = 0])
    /\ UNCHANGED <<trackers, link, faults>> /\ Quoting

ReloadBase(i) ==
    /\ tasks[i].at = "Reload"
    /\ Step(i, [tasks[i] EXCEPT !.at = "Count", !.base = gen.base])
    /\ UNCHANGED <<gen, trackers, link, faults>> /\ Quoting

\* fetch_add, and the nonce.
TakeNonce(i) ==
    /\ tasks[i].at = "Count"
    /\ gen' = [gen EXCEPT !.counter = (@ + 1) % Nonces]
    /\ Step(i, [tasks[i] EXCEPT !.at = "Sign", !.nonce = (tasks[i].base + gen.counter) % Nonces, !.base = 0])
    /\ UNCHANGED <<trackers, link, faults>> /\ Quoting

\* The example's quote: its terms, a price and an expiry of its own.
Quote(t) == [terms |-> t.rfq.terms, price |-> t.rfq.price, valid_until |-> t.rfq.valid_until, nonce |-> t.nonce, maker |-> "Maker"]

\* The order is signed and tracked; one past its market's expiry is passed over, another error ends the task.
SignQuote(i) ==
    /\ tasks[i].at = "Sign"
    /\ \E b \in from_broadcast(tasks[i].rfq, Program) :
         LET q == Quote(tasks[i])
             ids == sign(b, q, tasks[i].rfq.min_valid_until, tasks[i].rfq.buffer_end)
         IN IF ids = {}
            THEN At(i, IF PastMarket(b, q) THEN "Skipped" ELSE "Stopped") /\ UNCHANGED trackers
            ELSE /\ trackers' = [trackers EXCEPT ![i] = {Track(b.rfq, id, tasks[i].epoch, Deadline) : id \in ids}]
                 /\ At(i, "Send")
    /\ UNCHANGED <<gen, link, faults>> /\ Quoting

\* quote_in_epoch: NotReady outside the epoch the task recovered in, and then nothing is tracked; any other error ends
\* the task, and leaves open whether the quote went out.
SendQuote(i) ==
    /\ tasks[i].at = "Send"
    /\ LET ready == link.up /\ link.epoch = tasks[i].epoch
           goes == \E t \in trackers[i] : link' = [link EXCEPT !.out = Append(@, [rfq |-> t.rfq, order |-> t.order])]
       IN \/ ready /\ goes /\ At(i, "Sent") /\ UNCHANGED <<trackers, faults>>
          \/ ~ready /\ At(i, "Skipped") /\ trackers' = [trackers EXCEPT ![i] = {}] /\ UNCHANGED <<link, faults>>
          \/ ready /\ (goes \/ UNCHANGED link) /\ Fails /\ At(i, "Stopped") /\ UNCHANGED trackers
    /\ UNCHANGED gen /\ Quoting

TaskNext == \E i \in DOMAIN tasks :
    \/ Bind(i) \/ LoadBase(i) \/ DrawEntropy(i) \/ StoreEntropy(i) \/ ReloadBase(i) \/ TakeNonce(i) \/ SignQuote(i)
    \/ SendQuote(i)

-----------------------------------------------------------------------------
(* The session's inbound stream, and the desk's reading of it. *)

\* Mutant of Dropped: a frame that cannot be decoded leaves no trace.
DroppedSilently(items) == items

\* publish_unreadable: the place of a frame that could not be decoded.
Dropped(items) == Append(items, [message |-> [type |-> "Unreadable"], epoch |-> 0, at |-> 0])

\* The ring keeps the last messages, and its reader learns that it lost some.
Ringed(items) ==
    [items |-> SubSeq(items, Len(items) - Least(Len(items), Capacity) + 1, Len(items)),
     lagged |-> ring.lagged \/ Len(items) > Capacity]

\* InboundPublisher::publish, with the epoch and the time of receipt.
Publish ==
    /\ link.up /\ link.down # <<>>
    /\ link' = [link EXCEPT !.down = Tail(@)]
    /\ \/ /\ ring' = Ringed(Append(ring.items, [message |-> Head(link.down), epoch |-> link.epoch, at |-> now]))
          /\ UNCHANGED faults
       \/ Fails /\ ring' = Ringed(Dropped(ring.items))
    /\ UNCHANGED <<gen, tasks, trackers, venue, now, deal, chainVars>>

Trackers(f(_)) == trackers' = [i \in DOMAIN trackers |-> {f(t) : t \in trackers[i]}]
AllUnknown == Trackers(mark_unknown)

\* ManagedMessageReceiver::recv: a lag or an undecodable frame is a gap, and a gap leaves every order unknown; so does
\* the end of the stream.
Receive ==
    /\ \/ ring.lagged /\ AllUnknown /\ ring' = [ring EXCEPT !.lagged = FALSE]
       \/ /\ ~ring.lagged /\ ring.items # <<>>
          /\ ring' = [ring EXCEPT !.items = Tail(@)]
          /\ LET seen(t) == observe(t, Head(ring.items))
             IN IF Head(ring.items).message.type = "Unreadable" THEN AllUnknown ELSE Trackers(seen)
       \/ ~link.up /\ ~ring.lagged /\ ring.items = <<>> /\ AllUnknown /\ UNCHANGED ring
    /\ UNCHANGED <<gen, tasks, venue, link, now, deal, chainVars, faults>>

\* The desk checks its trackers against the client's epoch and the clock.
CheckTrackers ==
    /\ LET checked(t) == check(t, link.epoch, now) IN Trackers(checked)
    /\ UNCHANGED <<gen, tasks, venue, link, ring, now, deal, chainVars, faults>>

Tick == now < Deadline /\ now' = now + 1 /\ UNCHANGED <<gen, tasks, trackers, venue, link, ring, deal, chainVars, faults>>

\* The connection is lost with what was on the way and the session is ready again in the next epoch, or it has ended.
Disconnect ==
    /\ link.up /\ Fails
    /\ link' \in {[up |-> up, epoch |-> link.epoch + 1, out |-> <<>>, down |-> <<>>] : up \in BOOLEAN}
    /\ UNCHANGED <<gen, tasks, trackers, venue, ring, now, deal, chainVars>>

StreamNext == Publish \/ Receive \/ CheckTrackers \/ Tick \/ Disconnect

-----------------------------------------------------------------------------
(* The venue: one RFQ, one order selected at a time, told to the maker before it is filled. *)

None == [order |-> <<>>, status |-> "None"]
Says(type, order) == [type |-> type, rfq |-> 1, order |-> order]
Closes(reason, your) == [type |-> "RfqClosed", rfq |-> 1, reason |-> reason, your |-> your]
Tell(ms) == link' = IF link.up THEN [link EXCEPT !.down = @ \o ms] ELSE link
Orders(ids, status) ==
    [id \in ids \cup DOMAIN venue.orders |-> IF id \in ids THEN status ELSE venue.orders[id]]
Live == {id \in DOMAIN venue.orders : venue.orders[id] \in {"Open", "Selected"}}
Of(status) == {id \in DOMAIN venue.orders : venue.orders[id] = status}

Answer(type, id) == link' = [link EXCEPT !.out = Tail(@), !.down = Append(@, Says(type, id))]

\* An order is acknowledged or rejected; one whose id is known is a duplicate.
VenueTakes ==
    /\ link.out # <<>>
    /\ \E id \in {Head(link.out).order} :
         \/ /\ venue.open /\ id \notin DOMAIN venue.orders
            /\ Answer("QuoteAcknowledged", id) /\ venue' = [venue EXCEPT !.orders = Orders({id}, "Open")]
         \/ /\ Answer("QuoteRejected", id)
            /\ venue' = [venue EXCEPT !.orders = Orders({id} \ DOMAIN venue.orders, "Dead")]
    /\ UNCHANGED deal

\* The taker selects an order; its transaction may fail and release it.
VenueSelects ==
    /\ venue.open /\ Of("Selected") = {} /\ venue.picks < MaxPicks
    /\ \E id \in Of("Open") :
         venue' = [venue EXCEPT !.orders = Orders({id}, "Selected"), !.picks = @ + 1] /\ Tell(<<Says("QuoteSelected", id)>>)
    /\ UNCHANGED deal

VenueReleases ==
    /\ Of("Selected") # {}
    /\ venue' = [venue EXCEPT !.orders = Orders(Of("Selected"), "Open")]
    /\ Tell(<<[type |-> "RfqAvailableAgain", rfq |-> 1]>>)
    /\ UNCHANGED deal

\* The legs of a spread order, as its id fixes them, and what its position locks.
Opened(id) ==
    LET legs == [kind |-> id.type, lower |-> id.strike, upper |-> id.upper, quantity |-> id.quantity, quote_scale |-> 1,
                 underlying_scale |-> 10]
    IN IF is_spread(id.type) THEN {[legs |-> legs, locked |-> c] : c \in collateral(legs)} ELSE {}

\* The selected order is filled: its fill and the close in either order, the other orders cancelled or not mentioned.
VenueFills ==
    /\ \E id \in Of("Selected") :
         LET others == Live \ {id}
             fill == Says("QuoteFilled", id)
             cancel == [type |-> "QuoteCancelled", rfq |-> 1, orders |-> others, reason |-> "RfqAccepted"]
         IN /\ venue' = [venue EXCEPT !.open = FALSE, !.orders = [o \in DOMAIN venue.orders |-> IF o = id THEN "Filled" ELSE "Dead"]]
            /\ \E your \in {None, [order |-> id, status |-> "Filled"]}, first \in {<<>>, <<cancel>>} :
                 \/ Tell(first \o <<fill, Closes("Filled", your)>>)
                 \/ Tell(first \o <<Closes("Filled", your), fill>>)
            /\ deal' = Opened(id)
    /\ position' = "Open" /\ UNCHANGED <<txs, conf, node, args, wallet, fund>>

Kill(ids) == [venue EXCEPT !.orders = Orders(ids, "Dead")]

\* The RFQ closes otherwise, another maker's fill included: the maker's order is named with its status, or is not.
VenueCloses ==
    /\ venue.open /\ Of("Selected") = {}
    /\ venue' = [Kill(Live) EXCEPT !.open = FALSE]
    /\ \E reason \in {"Filled", "Expired", "Cancelled"} :
       \E your \in {None} \cup {[order |-> id, status |-> IF reason = "Filled" THEN "Outbid" ELSE reason] : id \in Live} :
         Tell(<<Closes(reason, your)>>)
    /\ UNCHANGED deal

\* An order that is not selected expires or is cancelled.
VenueDrops ==
    /\ \E id \in Of("Open") :
         /\ venue' = Kill({id})
         /\ \/ Tell(<<Says("QuoteExpired", id)>>)
            \/ Tell(<<[type |-> "QuoteCancelled", rfq |-> 1, orders |-> {id}, reason |-> "Requested"]>>)
    /\ UNCHANGED deal

VenueNext ==
    /\ VenueFills \/ ((VenueTakes \/ VenueSelects \/ VenueReleases \/ VenueCloses \/ VenueDrops) /\ UNCHANGED chainVars)
    /\ UNCHANGED <<gen, tasks, trackers, ring, now, faults>>

-----------------------------------------------------------------------------
(* What the maker does with a position. *)

\* build_cash_settle_ix: an open spread of a finalised market of its type.
MaySettle(d) ==
    /\ position = "Open" /\ args.finalized
    /\ args.is_put = (d.legs.kind = "PutSpread")
    /\ width(d.legs.lower, d.legs.upper) # {}

CashSettle ==
    /\ \E d \in deal, price \in Prices : MaySettle(d) /\ settle(d.legs, price, d.locked) # {}
    /\ position' = "Settled" /\ UNCHANGED <<gen, tasks, trackers, venue, link, ring, now, deal, txs, conf, node, args, wallet, fund, faults>>

Finalize ==
    /\ deal # {} /\ ~args.finalized
    /\ args' = [args EXCEPT !.finalized = TRUE]
    /\ UNCHANGED <<deskVars, txs, conf, node, wallet, position, fund, faults>>

\* Only a fill a tracker reports is funded.
Funds ==
    /\ args.funds
    /\ fund.at = "Idle" => \E t \in UNION Range(trackers) : t.outcome = "Filled"
    /\ FundNext /\ UNCHANGED deskVars

\* A desk that starts: its tasks have a broadcast each, and nothing was sent.
Fresh(rfqs) ==
    /\ \A r \in rfqs : r.terms \in OptionTerms /\ r.quantity \in 0..MaxU64
    /\ gen \in [base : 0..(Nonces - 1), counter : 0..(Nonces - 1)]
    /\ tasks \in Seq([at : {"New"}, rfq : rfqs, epoch : Nat, base : {0}, draw : {0}, nonce : {0}]) /\ Len(tasks) < Nonces
    /\ trackers = [i \in DOMAIN tasks |-> {}]
    /\ venue \in [open : BOOLEAN, picks : Nat, orders : {<<>>}]
    /\ link \in [up : BOOLEAN, epoch : Nat, out : {<<>>}, down : {<<>>}]
    /\ ring = [items |-> <<>>, lagged |-> FALSE] /\ now \in Nat /\ deal = {}

Next == TaskNext \/ StreamNext \/ VenueNext \/ CashSettle \/ Finalize \/ Funds

-----------------------------------------------------------------------------
\* What a tracker reports is so: a filled order is filled, and one that is rejected, expired, cancelled or lost was not
\* filled and never will be, for every order in which messages come, are lost, or come too late, and although two tasks
\* seed one nonce generator (QuoteOutcomeTracker, ManagedMessageReceiver, AtomicNonceGenerator).
QuoteOutcomeIsTrue ==
    \A t \in UNION Range(trackers) :
      LET is(status) == t.order \in DOMAIN venue.orders /\ venue.orders[t.order] = status
      IN /\ t.outcome = "Filled" => is("Filled")
         /\ t.outcome \in {"Rejected", "Expired", "Cancelled", "Lost"}
              => is("Dead") \/ (~venue.open /\ t.order \notin DOMAIN venue.orders)

\* What a filled spread locked pays every settlement price in full (spreads.rs: collateral, payoff, settle).
SpreadIsCovered == \A d \in deal, price \in Prices : Covered(d.legs, price, d.locked)

=============================================================================
