---------------------------- MODULE QuoteOutcome ----------------------------
(***************************************************************************)
(* QuoteOutcomeTracker (ws/maker/outcome.rs): what became of one sent      *)
(* order, from the messages of one connection epoch.  A tracker is         *)
(* [rfq, order, epoch, deadline, outcome].  What comes in is [message,     *)
(* epoch, at], the message [type, rfq, ...] with the fields its type has.  *)
(***************************************************************************)
EXTENDS Integers

Pending == {"Pending", "Acked", "Selected"}
is_terminal(t) == t.outcome \notin Pending

Track(rfq, order, epoch, deadline) ==
    [rfq |-> rfq, order |-> order, epoch |-> epoch, deadline |-> deadline, outcome |-> "Pending"]

Becomes(t, outcome) == [t EXCEPT !.outcome = outcome]

\* Unknown(EpochChanged | TimedOut | StreamGap | StreamClosed); a terminal outcome stays.
mark_unknown(t) == IF is_terminal(t) THEN t ELSE Becomes(t, "Unknown")

\* The current epoch is another one, or the deadline is reached.
check(t, epoch, now) == IF epoch # t.epoch \/ now >= t.deadline THEN mark_unknown(t) ELSE t

\* Messages about the order itself, and what they make of it.
OfOrder == [QuoteAcknowledged |-> "Acked", QuoteRejected |-> "Rejected", QuoteSelected |-> "Selected",
            QuoteFilled |-> "Filled", QuoteExpired |-> "Expired"]

\* Mutant of Closed: every RFQ that closes is lost, also while its fill is on the way.
ClosedLost(t, m) == IF m.your.order = t.order /\ m.your.status = "Filled" THEN t ELSE Becomes(t, "Lost")

\* RfqClosed: the order's own final status if it is given; a fill of its own is awaited.  Otherwise the order is lost,
\* except that a filled RFQ says nothing of an order not acknowledged yet or already selected.
Closed(t, m) ==
    LET mine == m.your.order = t.order
        final == [Expired |-> "Expired", Cancelled |-> "Cancelled", Outbid |-> "Lost", Filled |-> t.outcome]
    IN IF mine THEN Becomes(t, final[m.your.status])
       ELSE IF m.reason = "Filled" /\ t.outcome # "Acked" THEN t
       ELSE Becomes(t, "Lost")

\* A late acknowledgement does not undo a selection; a selection that failed does.
Ignored(t, m) ==
    \/ m.rfq # t.rfq
    \/ m.type \in DOMAIN OfOrder /\ m.order # t.order
    \/ m.type = "QuoteAcknowledged" /\ t.outcome = "Selected"
    \/ m.type = "QuoteCancelled" /\ t.order \notin m.orders
    \/ m.type = "RfqAvailableAgain" /\ t.outcome # "Selected"

apply(t, m) ==
    IF Ignored(t, m) THEN t
    ELSE CASE m.type = "RfqClosed" -> Closed(t, m)
           [] m.type = "RfqAvailableAgain" -> Becomes(t, "Acked")
           [] m.type = "QuoteCancelled" -> Becomes(t, IF m.reason = "RfqAccepted" THEN "Lost" ELSE "Cancelled")
           [] OTHER -> Becomes(t, OfOrder[m.type])

\* A message of an earlier epoch says nothing; a later one, or one received too late, ends the tracking.
observe(t, inbound) ==
    LET checked == check(t, inbound.epoch, inbound.at)
    IN IF inbound.epoch < t.epoch THEN t
       ELSE IF is_terminal(checked) THEN checked ELSE apply(checked, inbound.message)
=============================================================================
