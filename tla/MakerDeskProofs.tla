--------------------------- MODULE MakerDeskProofs ---------------------------
(***************************************************************************)
(* What the desk promises for any number of tasks, RFQs, prices and        *)
(* transactions, any length of stream, and any order of the messages.      *)
(***************************************************************************)
EXTENDS MakerDesk, TLAPS

\* Unless a leaf names its prover: Zenon for what it finds at once, SMT, and Zenon again.
USE ZenonT(2), SMTT(20), ZenonT(20)

-----------------------------------------------------------------------------
(* The arithmetic of spreads. *)

\* A quotient is a natural number, and what is left of a division is not negative.
LEMMA Quotient ==
    ASSUME NEW n \in Nat, NEW d \in Nat \ {0}
    PROVE  n \div d \in Nat /\ n % d \in Nat
BY SMT

\* Rounding down preserves the order.
LEMMA FloorMonotone ==
    ASSUME NEW a \in Nat, NEW b \in Nat, NEW d \in Nat \ {0}, a <= b
    PROVE  a \div d <= b \div d
BY SMT

\* Rounding up preserves the order too.
LEMMA CeilMonotone ==
    ASSUME NEW a \in Nat, NEW b \in Nat, NEW d \in Nat \ {0}, a <= b
    PROVE  a \div d + (IF a % d # 0 THEN 1 ELSE 0) <= b \div d + (IF b % d # 0 THEN 1 ELSE 0)
BY SMT

\* So does a product.
LEMMA ProductMonotone ==
    ASSUME NEW a \in Nat, NEW b \in Nat, NEW m \in Nat, a <= b
    PROVE  a * m \in Nat /\ b * m \in Nat /\ a * m <= b * m
BY SMT

\* The divisor of quote_amount is positive where it divides, and its factor where it multiplies.
LEMMA ScaleFactors ==
    ASSUME NEW q \in Nat \ {0}, NEW d \in Nat \ {0}
    PROVE  /\ q <= d => d \div q \in Nat \ {0}
           /\ q \div d \in Nat
BY SMT

\* quote_amount (spreads.rs) of a lower price is no greater, and is representable where the greater one is.
LEMMA QuoteMonotone ==
    ASSUME NEW t \in SpreadTerms, NEW up \in BOOLEAN, NEW p \in Nat, NEW q \in Nat, p <= q,
           NEW b \in quote_amount(q, t, up)
    PROVE  /\ b \in Nat
           /\ \E a \in quote_amount(p, t, up) : a \in Nat /\ a <= b
<1> DEFINE den == PriceScale * t.underlying_scale
           divisor == den \div t.quote_scale
           Up(n) == IF up /\ n % divisor # 0 THEN 1 ELSE 0
           Amount(n) == IF t.quote_scale <= den THEN n \div divisor + Up(n) ELSE n * (t.quote_scale \div den)
           supported == {t.quote_scale, t.underlying_scale} \subseteq Scales
<1>0. /\ t.quote_scale \in Nat \ {0} /\ t.underlying_scale \in Nat \ {0} /\ t.quantity \in Nat
      /\ den \in Nat \ {0} /\ MaxU64 \in Nat
  <2>1. t.quote_scale \in Nat \ {0} /\ t.underlying_scale \in Nat \ {0} /\ t.quantity \in Nat /\ MaxU64 \in Nat
    BY SpreadAssumption DEF SpreadTerms
  <2>2. den \in Nat \ {0}
    BY <2>1, SpreadAssumption, SMT
  <2> QED
    BY <2>1, <2>2
<1>1. t.quote_scale <= den => divisor \in Nat \ {0}
  BY <1>0, ScaleFactors
<1>2. t.quote_scale \div den \in Nat
  BY <1>0, ScaleFactors
<1>3. p * t.quantity \in Nat /\ q * t.quantity \in Nat /\ p * t.quantity <= q * t.quantity
  BY <1>0, ProductMonotone
<1>4. ASSUME NEW x \in Nat, NEW y \in Nat, x <= y
      PROVE  Amount(x) \in Nat /\ Amount(y) \in Nat /\ Amount(x) <= Amount(y)
  <2>1. CASE t.quote_scale <= den /\ up
    <3>1. /\ x \div divisor \in Nat /\ y \div divisor \in Nat
          /\ x \div divisor + (IF x % divisor # 0 THEN 1 ELSE 0) <= y \div divisor + (IF y % divisor # 0 THEN 1 ELSE 0)
      BY <2>1, <1>1, <1>4, Quotient, CeilMonotone, Zenon
    <3> QED
      BY <3>1, <2>1
  <2>2. CASE t.quote_scale <= den /\ ~up
    <3>1. x \div divisor \in Nat /\ y \div divisor \in Nat /\ x \div divisor <= y \div divisor
      BY <2>2, <1>1, <1>4, Quotient, FloorMonotone
    <3> QED
      BY <3>1, <2>2
  <2>3. CASE ~(t.quote_scale <= den)
    <3>1. /\ x * (t.quote_scale \div den) \in Nat /\ y * (t.quote_scale \div den) \in Nat
          /\ x * (t.quote_scale \div den) <= y * (t.quote_scale \div den)
      BY <1>2, <1>4, ProductMonotone
    <3> QED
      BY <3>1, <2>3
  <2> QED
    BY <2>1, <2>2, <2>3
<1>5. Amount(p * t.quantity) \in Nat /\ Amount(q * t.quantity) \in Nat
      /\ Amount(p * t.quantity) <= Amount(q * t.quantity)
  BY <1>3, <1>4
<1>6. /\ quote_amount(q, t, up) = {v \in {Amount(q * t.quantity)} : supported /\ Amount(q * t.quantity) <= MaxU64}
      /\ quote_amount(p, t, up) = {v \in {Amount(p * t.quantity)} : supported /\ Amount(p * t.quantity) <= MaxU64}
  BY DEF quote_amount, If
<1> HIDE DEF Amount, supported
<1>7. b = Amount(q * t.quantity) /\ supported /\ Amount(q * t.quantity) <= MaxU64
  BY <1>6
<1>8. Amount(p * t.quantity) <= MaxU64
  BY <1>5, <1>7, <1>0
<1>9. Amount(p * t.quantity) \in quote_amount(p, t, up)
  BY <1>6, <1>7, <1>8
<1> QED
  BY <1>5, <1>7, <1>9

\* An amount is a natural number.
LEMMA QuoteNat ==
    ASSUME NEW t \in SpreadTerms, NEW up \in BOOLEAN, NEW q \in Nat, NEW b \in quote_amount(q, t, up)
    PROVE  b \in Nat
<1>1. q <= q
  OBVIOUS
<1> QED
  BY <1>1, QuoteMonotone

\* SpreadTerms::settle (spreads.rs) never fails for want of collateral: for every settlement price, whatever was locked
\* beyond collateral() covers the payoff, and the two sides share exactly what was locked.
THEOREM SpreadIsAlwaysCovered ==
    ASSUME NEW t \in SpreadTerms, NEW price \in Nat, NEW locked \in Nat
    PROVE  Covered(t, price, locked)
<1> SUFFICES ASSUME NEW c \in collateral(t), c <= locked
             PROVE  \E s \in settle(t, price, locked) :
                      s.holder_payoff \in 0..locked /\ s.writer_return = locked - s.holder_payoff
  BY DEF Covered
<1>1. t.lower \in Nat /\ t.upper \in Nat
  BY SpreadAssumption DEF SpreadTerms
<1>2. t.upper > t.lower /\ width(t.lower, t.upper) = {t.upper - t.lower} /\ t.upper - t.lower \in Nat
  <2>1. t.upper > t.lower
    BY Zenon DEF collateral, width, If
  <2> QED
    BY <2>1, <1>1 DEF width, If
<1>3. c \in quote_amount(t.upper - t.lower, t, TRUE)
  BY <1>2, Zenon DEF collateral
<1>4. intrinsic(t, price) \in Nat /\ intrinsic(t, price) <= t.upper - t.lower
  BY <1>1, <1>2 DEF intrinsic, Least, Less
<1>5. c \in Nat /\ \E a \in quote_amount(intrinsic(t, price), t, TRUE) : a \in Nat /\ a <= c
  BY <1>2, <1>3, <1>4, QuoteMonotone, Zenon
<1>6. PICK a \in quote_amount(intrinsic(t, price), t, TRUE) : a \in Nat /\ a <= c
  BY <1>5, Zenon
<1>7. a \in payoff(t, price)
  BY <1>2, <1>6, Zenon DEF payoff
<1>8. a <= locked
  BY <1>5, <1>6
<1>9. [holder_payoff |-> a, writer_return |-> locked - a] \in settle(t, price, locked)
  BY <1>7, <1>8 DEF settle
<1> QED
  BY <1>6, <1>8, <1>9

\* A fee of at most the whole takes at most the amount.
LEMMA FeeBound ==
    ASSUME NEW a \in Nat, NEW bps \in Nat, bps <= Bps
    PROVE  fee(a, bps) \in Nat /\ fee(a, bps) <= a
<1>1. Bps \in Nat \ {0}
  BY SpreadAssumption
<1>2. a * bps \in Nat /\ a * bps <= a * Bps
  BY <1>1, SMT
<1>3. (a * bps) \div Bps \in Nat /\ (a * bps) \div Bps <= (a * Bps) \div Bps
  BY <1>1, <1>2, Quotient, FloorMonotone
<1>4. (a * Bps) \div Bps = a
  BY <1>1, SMT
<1> QED
  BY <1>3, <1>4 DEF fee

\* SpreadTerms::premium (spreads.rs): whatever the rates, the fee never exceeds the premium, the maker is never owed a
\* negative premium and always locks something, never more than the collateral.
THEOREM PremiumIsSplit ==
    ASSUME NEW t \in SpreadTerms, NEW price \in Nat, NEW pb \in Nat, NEW vb \in Nat,
           NEW s \in premium(t, price, pb, vb)
    PROVE  /\ 0 <= s.protocol_fee /\ s.protocol_fee <= s.gross_premium
           /\ s.net_premium + s.protocol_fee = s.gross_premium
           /\ 0 < s.prefunded_quote /\ s.prefunded_quote <= s.collateral
<1>1. PICK c \in collateral(t), g \in quote_amount(price, t, FALSE),
           x \in UNION {quote_amount(w, t, FALSE) : w \in width(t.lower, t.upper)},
           r \in quote_amount(price - fee(price, pb), t, FALSE) :
        /\ pb <= Bps /\ vb <= Bps /\ g < c
        /\ s = Split(c, g, Least(g - r, fee(x, vb)))
  BY Zenon DEF premium
<1>2. t.upper - t.lower \in Nat /\ width(t.lower, t.upper) = {t.upper - t.lower}
  <2>1. t.lower \in Nat /\ t.upper \in Nat
    BY SpreadAssumption DEF SpreadTerms
  <2>2. t.upper > t.lower
    BY <1>1, Zenon DEF collateral, width, If
  <2> QED
    BY <2>1, <2>2 DEF width, If
<1>3. c \in quote_amount(t.upper - t.lower, t, TRUE) /\ x \in quote_amount(t.upper - t.lower, t, FALSE)
  BY <1>1, <1>2, Zenon DEF collateral
<1>4. c \in Nat /\ x \in Nat /\ g \in Nat
  <2>1. c \in Nat
    BY <1>2, <1>3, QuoteNat, Zenon
  <2>2. x \in Nat
    BY <1>2, <1>3, QuoteNat, Zenon
  <2>3. g \in Nat
    BY QuoteNat, Zenon
  <2> QED
    BY <2>1, <2>2, <2>3
<1>5. fee(price, pb) \in Nat /\ price - fee(price, pb) \in Nat /\ price - fee(price, pb) <= price
  BY <1>1, FeeBound
<1>6. \E a \in quote_amount(price - fee(price, pb), t, FALSE) : a \in Nat /\ a <= g
  BY <1>5, QuoteMonotone, Zenon
<1>7. r \in Nat /\ r <= g
  BY <1>6, <1>1 DEF quote_amount, If
<1>8. fee(x, vb) \in Nat
  BY <1>1, <1>4, FeeBound
<1>9. Least(g - r, fee(x, vb)) \in 0..g
  BY <1>4, <1>7, <1>8 DEF Least
<1> QED
  BY <1>1, <1>4, <1>9 DEF Split

-----------------------------------------------------------------------------
(* Types of the desk, by the broadcasts it was given. *)

TaskStages == {"New", "Load", "Draw", "Store", "Reload", "Count", "Sign", "Send", "Sent", "Skipped", "Stopped"}
TaskType(rfqs) ==
    [at : TaskStages, rfq : rfqs, epoch : Nat, base : 0..(Nonces - 1), draw : 0..(Nonces - 1), nonce : 0..(Nonces - 1)]

\* The orders the desk can make, and the RFQs it can name.
Ids(rfqs) == UNION {UNION {order_id(b, Quote(t)) : b \in from_broadcast(t.rfq, Program)} : t \in TaskType(rfqs)}
Names(rfqs) == {r.id : r \in rfqs}

Outcomes == Pending \cup {"Filled", "Rejected", "Expired", "Cancelled", "Lost", "Unknown"}
TrackerType(rfqs) == [rfq : Names(rfqs), order : Ids(rfqs), epoch : Nat, deadline : Nat, outcome : Outcomes]

Statuses == {"Open", "Selected", "Filled", "Dead"}
Books(rfqs) == UNION {[ids -> Statuses] : ids \in SUBSET Ids(rfqs)}

Reports(rfqs) ==
    [type : {"QuoteAcknowledged", "QuoteRejected", "QuoteSelected", "QuoteFilled", "QuoteExpired"}, rfq : {1}, order : Ids(rfqs)]
Yours(rfqs) == {None} \cup [order : Ids(rfqs), status : {"Filled", "Expired", "Cancelled", "Outbid"}]
Closings(rfqs) ==
    [type : {"RfqClosed"}, rfq : {1}, reason : {"Filled", "Expired", "Cancelled"}, your : Yours(rfqs)]
Releases == [type : {"RfqAvailableAgain"}, rfq : {1}]
Cancels(rfqs) == [type : {"QuoteCancelled"}, rfq : {1}, orders : SUBSET Ids(rfqs), reason : {"RfqAccepted", "Requested"}]
Messages(rfqs) == Reports(rfqs) \cup Closings(rfqs) \cup Releases \cup Cancels(rfqs)
Items(rfqs) == [message : Messages(rfqs) \cup [type : {"Unreadable"}], epoch : Nat, at : Nat]

DealType(d) == d.legs \in SpreadTerms /\ d.locked \in collateral(d.legs)

DeskTypes(rfqs) ==
    /\ \A r \in rfqs : r.terms \in OptionTerms /\ r.quantity \in 0..MaxU64
    /\ gen \in [base : 0..(Nonces - 1), counter : 0..(Nonces - 1)]
    /\ tasks \in Seq(TaskType(rfqs))
    /\ trackers \in [DOMAIN tasks -> SUBSET TrackerType(rfqs)]
    /\ venue \in [open : BOOLEAN, picks : Nat, orders : Books(rfqs)]
    /\ link \in [up : BOOLEAN, epoch : Nat, out : Seq([rfq : Names(rfqs), order : Ids(rfqs)]), down : Seq(Messages(rfqs))]
    /\ ring \in [items : Seq(Items(rfqs)), lagged : BOOLEAN]
    /\ now \in Nat
    /\ \A d \in deal : DealType(d)

\* What an order's preimage says of it.
LEMMA IdOf ==
    ASSUME NEW rfqs, \A r \in rfqs : r.terms \in OptionTerms /\ r.quantity \in 0..MaxU64, NEW id \in Ids(rfqs)
    PROVE  /\ id.type \in {"CoveredCall", "CashSecuredPut", "CallSpread", "PutSpread"}
           /\ id.strike \in 0..MaxU64 /\ id.upper \in 0..MaxU64 /\ id.quantity \in 0..MaxU64
           /\ id # <<>>
<1>0. PICK t \in TaskType(rfqs) : \E b \in from_broadcast(t.rfq, Program) : id \in order_id(b, Quote(t))
    BY DEF Ids
<1>1. PICK b \in from_broadcast(t.rfq, Program) : id \in order_id(b, Quote(t))
    BY <1>0
<1>2. t.rfq \in rfqs
    BY <1>0 DEF TaskType
<1>3. Quote(t).terms = t.rfq.terms /\ b.quantity = t.rfq.quantity
    BY <1>1 DEF Quote, from_broadcast, If
<1>4. PICK terms \in OptionTerms : terms = t.rfq.terms
    BY <1>2
<1>5. PICK chain : chain = to_chain(terms)
    OBVIOUS
<1>6. 0 \in 0..MaxU64
    BY SpreadAssumption
<1>7. /\ chain.type \in {"CoveredCall", "CashSecuredPut", "CallSpread", "PutSpread"}
      /\ chain.strike \in 0..MaxU64 /\ chain.upper \in 0..MaxU64
    BY <1>4, <1>5, <1>6 DEF to_chain, OptionTerms
<1>8. PICK upper \in {0, chain.upper} :
        id = [program |-> b.program, side |-> b.side, type |-> chain.type, market |-> b.market, strike |-> chain.strike,
              upper |-> upper, quantity |-> b.quantity, price |-> Quote(t).price, valid_until |-> Quote(t).valid_until,
              maker |-> Quote(t).maker, taker |-> b.taker, nonce |-> Quote(t).nonce]
    BY <1>1, <1>3, <1>4, <1>5 DEF order_id
<1>9. id.type = chain.type /\ id.strike = chain.strike /\ id.upper = upper /\ id.quantity = b.quantity
    BY <1>8
<1>10. "type" \in DOMAIN id /\ DOMAIN <<>> = {}
    BY <1>8
<1>11. b.quantity \in 0..MaxU64
    BY <1>2, <1>3
<1>12. id # <<>>
    BY <1>10
<1> QED BY <1>6, <1>7, <1>9, <1>11, <1>12

\* What a fill opens is a spread, with its collateral.
LEMMA OpenedType ==
    ASSUME NEW rfqs, \A r \in rfqs : r.terms \in OptionTerms /\ r.quantity \in 0..MaxU64, NEW id \in Ids(rfqs),
           NEW d \in Opened(id)
    PROVE  DealType(d)
<1> DEFINE legs == [kind |-> id.type, lower |-> id.strike, upper |-> id.upper, quantity |-> id.quantity,
                    quote_scale |-> 1, underlying_scale |-> 10]
<1>1. /\ id.type \in {"CoveredCall", "CashSecuredPut", "CallSpread", "PutSpread"}
      /\ id.strike \in 0..MaxU64 /\ id.upper \in 0..MaxU64 /\ id.quantity \in 0..MaxU64
    BY IdOf
<1>2. is_spread(id.type)
    BY DEF Opened
<1>3. PICK c \in collateral(legs) : d = [legs |-> legs, locked |-> c]
    BY <1>2 DEF Opened
<1>4. id.type \in {"CallSpread", "PutSpread"}
    BY <1>1, <1>2 DEF is_spread
<1>5. PICK one \in Nat \ {0}, ten \in Nat \ {0} : one = 1 /\ ten = 10
    OBVIOUS
<1>6. [kind |-> id.type, lower |-> id.strike, upper |-> id.upper, quantity |-> id.quantity,
       quote_scale |-> one, underlying_scale |-> ten] \in SpreadTerms
    BY <1>1, <1>4, <1>5 DEF SpreadTerms
<1>7. legs \in SpreadTerms
    BY <1>5, <1>6
<1> HIDE DEF legs
<1> QED BY <1>3, <1>7 DEF DealType

-----------------------------------------------------------------------------
(* What a tracker makes of a message. *)

LEMMA BecomesType ==
    ASSUME NEW rfqs, NEW t \in TrackerType(rfqs), NEW o \in Outcomes
    PROVE  /\ Becomes(t, o) \in TrackerType(rfqs)
           /\ Becomes(t, o).order = t.order /\ Becomes(t, o).epoch = t.epoch /\ Becomes(t, o).rfq = t.rfq
           /\ Becomes(t, o).outcome = o
<1>1. Becomes(t, o) \in TrackerType(rfqs)
    BY DEF Becomes, TrackerType
<1>2. Becomes(t, o).order = t.order /\ Becomes(t, o).epoch = t.epoch /\ Becomes(t, o).rfq = t.rfq
      /\ Becomes(t, o).outcome = o
    BY DEF Becomes, TrackerType
<1> QED BY <1>1, <1>2

LEMMA OfOrders ==
    /\ DOMAIN OfOrder = {"QuoteAcknowledged", "QuoteRejected", "QuoteSelected", "QuoteFilled", "QuoteExpired"}
    /\ OfOrder["QuoteAcknowledged"] = "Acked" /\ OfOrder["QuoteRejected"] = "Rejected"
    /\ OfOrder["QuoteSelected"] = "Selected" /\ OfOrder["QuoteFilled"] = "Filled" /\ OfOrder["QuoteExpired"] = "Expired"
BY DEF OfOrder

\* A report is of its order; a late acknowledgement does not undo a selection.
LEMMA ApplyReport ==
    ASSUME NEW rfqs, NEW t, NEW m \in Reports(rfqs)
    PROVE  \/ apply(t, m) = t /\ (m.order # t.order \/ m.rfq # t.rfq \/ (m.type = "QuoteAcknowledged" /\ t.outcome = "Selected"))
           \/ /\ m.order = t.order /\ ~(m.type = "QuoteAcknowledged" /\ t.outcome = "Selected")
              /\ apply(t, m) = Becomes(t, OfOrder[m.type])
<1>1. m.type \in DOMAIN OfOrder
    BY OfOrders DEF Reports
<1>2. m.type \notin {"RfqClosed", "RfqAvailableAgain", "QuoteCancelled"}
    BY DEF Reports
<1>3. CASE Ignored(t, m)
    <2>1. apply(t, m) = t
        BY <1>3 DEF apply
    <2> QED BY <1>2, <1>3, <2>1 DEF Ignored
<1>4. CASE ~Ignored(t, m)
    <2>1. apply(t, m) = Becomes(t, OfOrder[m.type])
        BY <1>2, <1>4 DEF apply
    <2> QED BY <1>1, <1>4, <2>1 DEF Ignored
<1> QED BY <1>3, <1>4

\* A close: of another RFQ it says nothing.
LEMMA ApplyClosing ==
    ASSUME NEW rfqs, NEW t, NEW m \in Closings(rfqs)
    PROVE  apply(t, m) = t \/ apply(t, m) = Closed(t, m)
<1>1. m.type = "RfqClosed"
    BY DEF Closings
<1> QED BY <1>1, Zenon DEF apply

LEMMA ApplyRelease ==
    ASSUME NEW t, NEW m \in Releases
    PROVE  apply(t, m) = t \/ (t.outcome = "Selected" /\ apply(t, m) = Becomes(t, "Acked"))
<1>1. m.type = "RfqAvailableAgain"
    BY DEF Releases
<1>2. CASE Ignored(t, m)
    BY <1>2 DEF apply
<1>3. CASE ~Ignored(t, m)
    <2>1. apply(t, m) = Becomes(t, "Acked")
        BY <1>1, <1>3 DEF apply
    <2>2. t.outcome = "Selected"
        BY <1>1, <1>3 DEF Ignored
    <2> QED BY <2>1, <2>2
<1> QED BY <1>2, <1>3

LEMMA ApplyCancel ==
    ASSUME NEW rfqs, NEW t, NEW m \in Cancels(rfqs)
    PROVE  apply(t, m) = t \/ (t.order \in m.orders /\ apply(t, m) \in {Becomes(t, "Lost"), Becomes(t, "Cancelled")})
<1>1. m.type = "QuoteCancelled"
    BY DEF Cancels
<1>2. CASE Ignored(t, m)
    BY <1>2 DEF apply
<1>3. CASE ~Ignored(t, m)
    <2>1. apply(t, m) = Becomes(t, IF m.reason = "RfqAccepted" THEN "Lost" ELSE "Cancelled")
        BY <1>1, <1>3 DEF apply
    <2>2. t.order \in m.orders
        BY <1>1, <1>3 DEF Ignored
    <2> QED BY <2>1, <2>2
<1> QED BY <1>2, <1>3

\* What a close makes of an order it names, and of one it does not.
LEMMA ClosedIs ==
    ASSUME NEW rfqs, NEW t, t.order \in Ids(rfqs), NEW m \in Closings(rfqs), Ids(rfqs) \subseteq {i \in Ids(rfqs) : i # <<>>}
    PROVE  \/ m.your.order = t.order /\ m.your.status = "Filled" /\ Closed(t, m) = Becomes(t, t.outcome)
           \/ /\ m.your.order = t.order /\ m.your.status \in {"Expired", "Cancelled", "Outbid"}
              /\ Closed(t, m) \in {Becomes(t, "Expired"), Becomes(t, "Cancelled"), Becomes(t, "Lost")}
           \/ m.your.order # t.order /\ m.reason = "Filled" /\ t.outcome # "Acked" /\ Closed(t, m) = t
           \/ m.your.order # t.order /\ ~(m.reason = "Filled" /\ t.outcome # "Acked") /\ Closed(t, m) = Becomes(t, "Lost")
<1>1. CASE m.your.order # t.order
    BY <1>1 DEF Closed
<1>2. CASE m.your.order = t.order
    <2>1. m.your # None
        BY <1>2 DEF None
    <2>2. m.your \in [order : Ids(rfqs), status : {"Filled", "Expired", "Cancelled", "Outbid"}]
        BY <2>1 DEF Closings, Yours
    <2>3. m.your.status \in {"Filled", "Expired", "Cancelled", "Outbid"}
        BY <2>2
    <2>4. CASE m.your.status = "Filled"
        BY <1>2, <2>4 DEF Closed
    <2>5. CASE m.your.status = "Expired"
        BY <1>2, <2>5 DEF Closed
    <2>6. CASE m.your.status = "Cancelled"
        BY <1>2, <2>6 DEF Closed
    <2>7. CASE m.your.status = "Outbid"
        BY <1>2, <2>7 DEF Closed
    <2> QED BY <1>2, <2>3, <2>4, <2>5, <2>6, <2>7
<1> QED BY <1>1, <1>2
\* A tracker changes nothing but its outcome.
LEMMA MarkType ==
    ASSUME NEW rfqs, NEW t \in TrackerType(rfqs)
    PROVE  \E o \in Outcomes : mark_unknown(t) = Becomes(t, o)
<1>1. t = Becomes(t, t.outcome) /\ t.outcome \in Outcomes
    BY DEF TrackerType, Becomes
<1>2. "Unknown" \in Outcomes
    BY DEF Outcomes
<1> QED BY <1>1, <1>2 DEF mark_unknown

LEMMA CheckType ==
    ASSUME NEW rfqs, NEW t \in TrackerType(rfqs), NEW epoch, NEW at
    PROVE  \E o \in Outcomes : check(t, epoch, at) = Becomes(t, o)
<1>1. t = Becomes(t, t.outcome) /\ t.outcome \in Outcomes
    BY DEF TrackerType, Becomes
<1> QED BY <1>1, MarkType DEF check

LEMMA ApplyType ==
    ASSUME NEW rfqs, NEW t \in TrackerType(rfqs), NEW m \in Messages(rfqs),
           \A r \in rfqs : r.terms \in OptionTerms /\ r.quantity \in 0..MaxU64
    PROVE  \E o \in Outcomes : apply(t, m) = Becomes(t, o)
<1>1. t = Becomes(t, t.outcome) /\ t.outcome \in Outcomes /\ t.order \in Ids(rfqs)
    BY DEF TrackerType, Becomes
<1>2. {"Acked", "Rejected", "Selected", "Filled", "Expired", "Lost", "Cancelled"} \subseteq Outcomes
    BY DEF Outcomes, Pending
<1>3. CASE m \in Reports(rfqs)
    <2>1. OfOrder[m.type] \in Outcomes
        BY <1>2, <1>3, OfOrders DEF Reports
    <2> QED BY <1>1, <1>3, <2>1, ApplyReport
<1>4. CASE m \in Closings(rfqs)
    <2>1. Ids(rfqs) \subseteq {i \in Ids(rfqs) : i # <<>>}
        BY IdOf
    <2>2. \E o \in Outcomes : Closed(t, m) = Becomes(t, o)
        BY <1>1, <1>2, <1>4, <2>1, ClosedIs
    <2> QED BY <1>1, <1>4, <2>2, ApplyClosing
<1>5. CASE m \in Releases
    BY <1>1, <1>2, <1>5, ApplyRelease
<1>6. CASE m \in Cancels(rfqs)
    BY <1>1, <1>2, <1>6, ApplyCancel
<1> QED BY <1>3, <1>4, <1>5, <1>6 DEF Messages

LEMMA ObserveType ==
    ASSUME NEW rfqs, NEW t \in TrackerType(rfqs), NEW item, item.message \in Messages(rfqs),
           \A r \in rfqs : r.terms \in OptionTerms /\ r.quantity \in 0..MaxU64
    PROVE  \E o \in Outcomes : observe(t, item) = Becomes(t, o)
<1>1. t = Becomes(t, t.outcome) /\ t.outcome \in Outcomes
    BY DEF TrackerType, Becomes
<1>2. PICK c : c = check(t, item.epoch, item.at)
    OBVIOUS
<1>3. PICK o \in Outcomes : c = Becomes(t, o)
    BY <1>2, CheckType
<1>4. c \in TrackerType(rfqs)
    BY <1>3, BecomesType
<1>5. PICK p \in Outcomes : apply(c, item.message) = Becomes(c, p)
    BY <1>4, ApplyType
<1>6. Becomes(c, p) = Becomes(t, p)
    BY <1>3 DEF Becomes, TrackerType
<1> QED BY <1>1, <1>2, <1>3, <1>5, <1>6 DEF observe

-----------------------------------------------------------------------------
(* The types of the desk are kept. *)

LEMMA Modulo ==
    ASSUME NEW n \in Nat
    PROVE  n % Nonces \in 0..(Nonces - 1)
BY DeskAssumption

\* A task's step replaces that task.
LEMMA TaskStepType ==
    ASSUME NEW rfqs, tasks \in Seq(TaskType(rfqs)), NEW i \in DOMAIN tasks, NEW x \in TaskType(rfqs), Step(i, x)
    PROVE  /\ tasks' \in Seq(TaskType(rfqs)) /\ DOMAIN tasks' = DOMAIN tasks /\ Len(tasks') = Len(tasks)
           /\ tasks'[i] = x /\ \A j \in DOMAIN tasks \ {i} : tasks'[j] = tasks[j]
<1>1. PICK s \in Seq(TaskType(rfqs)) : s = tasks
    OBVIOUS
<1>2. i \in 1..Len(s) /\ DOMAIN s = 1..Len(s)
    BY <1>1
<1>3. [s EXCEPT ![i] = x] \in Seq(TaskType(rfqs))
    BY <1>2
<1>4. Len([s EXCEPT ![i] = x]) = Len(s)
    BY <1>2
<1> QED BY <1>1, <1>2, <1>3, <1>4 DEF Step

\* A task of its type, with another stage.
LEMMA StageType ==
    ASSUME NEW rfqs, NEW t \in TaskType(rfqs), NEW at \in TaskStages
    PROVE  [t EXCEPT !.at = at] \in TaskType(rfqs)
BY DEF TaskType

LEMMA QuietTypes ==
    ASSUME NEW rfqs, DeskTypes(rfqs), NEW i \in DOMAIN tasks, Bind(i) \/ LoadBase(i) \/ DrawEntropy(i) \/ ReloadBase(i)
    PROVE  DeskTypes(rfqs)'
<1>0. tasks[i] \in TaskType(rfqs) /\ gen.base \in 0..(Nonces - 1) /\ tasks \in Seq(TaskType(rfqs))
    BY DEF DeskTypes
<1>1. {"Stopped", "Load", "Draw", "Count", "Reload", "Store"} \subseteq TaskStages
    BY DEF TaskStages
<1>2. PICK b \in 0..(Nonces - 1) : b = gen.base
    BY <1>0
<1>3. \E x \in TaskType(rfqs) : Step(i, x)
    <2>1. CASE Bind(i)
        BY <1>0, <1>1, <2>1, StageType DEF Bind, At
    <2>2. CASE LoadBase(i)
        <3>1. PICK at \in TaskStages : Step(i, [tasks[i] EXCEPT !.at = at, !.base = b])
            BY <1>1, <1>2, <2>2 DEF LoadBase
        <3>2. [tasks[i] EXCEPT !.at = at, !.base = b] \in TaskType(rfqs)
            BY <1>0, <3>1 DEF TaskType
        <3> QED BY <3>1, <3>2
    <2>3. CASE DrawEntropy(i)
        <3>1. CASE At(i, "Reload") \/ At(i, "Stopped")
            BY <1>0, <1>1, <3>1, StageType DEF At
        <3>2. CASE \E e \in Entropies : Step(i, [tasks[i] EXCEPT !.at = "Store", !.draw = e])
            <4>1. PICK e \in Entropies : Step(i, [tasks[i] EXCEPT !.at = "Store", !.draw = e])
                BY <3>2
            <4>2. e \in 0..(Nonces - 1)
                BY DeskAssumption
            <4>3. PICK at \in TaskStages : at = "Store"
                BY <1>1
            <4>4. [tasks[i] EXCEPT !.at = at, !.draw = e] \in TaskType(rfqs)
                BY <1>0, <4>2 DEF TaskType
            <4> QED BY <4>1, <4>3, <4>4
        <3> QED BY <2>3, <3>1, <3>2, Zenon DEF DrawEntropy
    <2>4. CASE ReloadBase(i)
        <3>1. PICK at \in TaskStages : Step(i, [tasks[i] EXCEPT !.at = at, !.base = b])
            BY <1>1, <1>2, <2>4 DEF ReloadBase
        <3>2. [tasks[i] EXCEPT !.at = at, !.base = b] \in TaskType(rfqs)
            BY <1>0, <3>1 DEF TaskType
        <3> QED BY <3>1, <3>2
    <2> QED BY <2>1, <2>2, <2>3, <2>4
<1>4. tasks' \in Seq(TaskType(rfqs)) /\ DOMAIN tasks' = DOMAIN tasks
    BY <1>0, <1>3, TaskStepType
<1>5. UNCHANGED <<gen, trackers, link, venue, ring, now, deal>>
    BY DEF Bind, LoadBase, DrawEntropy, ReloadBase, Quoting
<1> QED BY <1>4, <1>5 DEF DeskTypes

LEMMA StoreTypes ==
    ASSUME NEW rfqs, DeskTypes(rfqs), NEW i \in DOMAIN tasks, StoreEntropy(i)
    PROVE  DeskTypes(rfqs)'
<1>0. tasks[i] \in TaskType(rfqs) /\ gen \in [base : 0..(Nonces - 1), counter : 0..(Nonces - 1)] /\ tasks \in Seq(TaskType(rfqs))
    BY DEF DeskTypes
<1>1. PICK at \in TaskStages : at = "Reload"
    BY DEF TaskStages
<1>2. PICK z \in 0..(Nonces - 1) : z = 0
    BY DeskAssumption
<1>3. [tasks[i] EXCEPT !.at = at, !.draw = z] \in TaskType(rfqs)
    BY <1>0 DEF TaskType
<1>4. Step(i, [tasks[i] EXCEPT !.at = at, !.draw = z])
    BY <1>1, <1>2 DEF StoreEntropy
<1>5. tasks' \in Seq(TaskType(rfqs)) /\ DOMAIN tasks' = DOMAIN tasks
    BY <1>0, <1>3, <1>4, TaskStepType
<1>6. PICK b \in 0..(Nonces - 1) : b = Stored(gen.base, tasks[i].draw)
    BY <1>0 DEF Stored, TaskType
<1>7. gen' \in [base : 0..(Nonces - 1), counter : 0..(Nonces - 1)]
    BY <1>0, <1>6 DEF StoreEntropy
<1>8. UNCHANGED <<trackers, link, venue, ring, now, deal>>
    BY DEF StoreEntropy, Quoting
<1> QED BY <1>5, <1>7, <1>8 DEF DeskTypes

LEMMA NonceTypes ==
    ASSUME NEW rfqs, DeskTypes(rfqs), NEW i \in DOMAIN tasks, TakeNonce(i)
    PROVE  DeskTypes(rfqs)'
<1>0. tasks[i] \in TaskType(rfqs) /\ gen \in [base : 0..(Nonces - 1), counter : 0..(Nonces - 1)] /\ tasks \in Seq(TaskType(rfqs))
    BY DEF DeskTypes
<1>1. PICK at \in TaskStages : at = "Sign"
    BY DEF TaskStages
<1>2. PICK z \in 0..(Nonces - 1) : z = 0
    BY DeskAssumption
<1>3. tasks[i].base + gen.counter \in Nat /\ gen.counter + 1 \in Nat
    <2>1. tasks[i].base \in Nat /\ gen.counter \in Nat
        BY <1>0, DeskAssumption DEF TaskType
    <2> QED BY <2>1
<1>4. PICK n \in 0..(Nonces - 1) : n = (tasks[i].base + gen.counter) % Nonces
    BY <1>3, Modulo
<1>5. PICK c \in 0..(Nonces - 1) : c = (gen.counter + 1) % Nonces
    BY <1>3, Modulo
<1>6. [tasks[i] EXCEPT !.at = at, !.nonce = n, !.base = z] \in TaskType(rfqs)
    BY <1>0 DEF TaskType
<1>7. Step(i, [tasks[i] EXCEPT !.at = at, !.nonce = n, !.base = z])
    BY <1>1, <1>2, <1>4 DEF TakeNonce
<1>8. tasks' \in Seq(TaskType(rfqs)) /\ DOMAIN tasks' = DOMAIN tasks
    BY <1>0, <1>6, <1>7, TaskStepType
<1>9. gen' = [gen EXCEPT !.counter = c]
    BY <1>5 DEF TakeNonce
<1>10. gen' \in [base : 0..(Nonces - 1), counter : 0..(Nonces - 1)]
    BY <1>0, <1>9
<1>11. UNCHANGED <<trackers, link, venue, ring, now, deal>>
    BY DEF TakeNonce, Quoting
<1> QED BY <1>8, <1>10, <1>11 DEF DeskTypes
\* What is signed is an order of the task's RFQ.
LEMMA SignedIs ==
    ASSUME NEW rfqs, DeskTypes(rfqs), NEW i \in DOMAIN tasks, NEW b \in from_broadcast(tasks[i].rfq, Program),
           NEW id \in sign(b, Quote(tasks[i]), tasks[i].rfq.min_valid_until, tasks[i].rfq.buffer_end)
    PROVE  Track(b.rfq, id, tasks[i].epoch, Deadline) \in TrackerType(rfqs)
<1>1. PICK t \in TaskType(rfqs) : t = tasks[i]
    BY DEF DeskTypes
<1>2. id \in order_id(b, Quote(t))
    BY <1>1 DEF sign
<1>3. id \in Ids(rfqs)
    BY <1>1, <1>2 DEF Ids
<1>4. b.rfq = t.rfq.id
    BY <1>1 DEF from_broadcast, If
<1>5. b.rfq \in Names(rfqs) /\ t.epoch \in Nat
    BY <1>1, <1>4 DEF TaskType, Names
<1>6. "Pending" \in Outcomes /\ Deadline \in Nat
    BY DeskAssumption DEF Outcomes, Pending
<1> QED BY <1>1, <1>3, <1>5, <1>6 DEF Track, TrackerType

LEMMA SignTypes ==
    ASSUME NEW rfqs, DeskTypes(rfqs), NEW i \in DOMAIN tasks, SignQuote(i)
    PROVE  DeskTypes(rfqs)'
<1>0. tasks[i] \in TaskType(rfqs) /\ tasks \in Seq(TaskType(rfqs))
    BY DEF DeskTypes
<1>1. {"Skipped", "Stopped", "Send"} \subseteq TaskStages
    BY DEF TaskStages
<1>2. PICK b \in from_broadcast(tasks[i].rfq, Program) :
        LET ids == sign(b, Quote(tasks[i]), tasks[i].rfq.min_valid_until, tasks[i].rfq.buffer_end)
        IN IF ids = {}
           THEN At(i, IF PastMarket(b, Quote(tasks[i])) THEN "Skipped" ELSE "Stopped") /\ UNCHANGED trackers
           ELSE /\ trackers' = [trackers EXCEPT ![i] = {Track(b.rfq, id, tasks[i].epoch, Deadline) : id \in ids}]
                /\ At(i, "Send")
    BY Zenon DEF SignQuote
<1>3. \E at \in TaskStages : At(i, at)
    BY <1>1, <1>2
<1>4. tasks' \in Seq(TaskType(rfqs)) /\ DOMAIN tasks' = DOMAIN tasks
    BY <1>0, <1>3, StageType, TaskStepType DEF At
<1>5. trackers' \in [DOMAIN tasks -> SUBSET TrackerType(rfqs)]
    <2>1. trackers \in [DOMAIN tasks -> SUBSET TrackerType(rfqs)]
        BY DEF DeskTypes
    <2>2. PICK ids : ids = sign(b, Quote(tasks[i]), tasks[i].rfq.min_valid_until, tasks[i].rfq.buffer_end)
        OBVIOUS
    <2>3. PICK set : set = {Track(b.rfq, id, tasks[i].epoch, Deadline) : id \in ids}
        OBVIOUS
    <2>4. set \subseteq TrackerType(rfqs)
        BY <2>2, <2>3, SignedIs
    <2>5. trackers' = trackers \/ trackers' = [trackers EXCEPT ![i] = set]
        BY <1>2, <2>2, <2>3
    <2> QED BY <2>1, <2>4, <2>5
<1>6. UNCHANGED <<gen, link, venue, ring, now, deal>>
    BY Zenon DEF SignQuote, Quoting
<1> QED BY <1>4, <1>5, <1>6 DEF DeskTypes

LEMMA SendTypes ==
    ASSUME NEW rfqs, DeskTypes(rfqs), NEW i \in DOMAIN tasks, SendQuote(i)
    PROVE  DeskTypes(rfqs)'
<1>0. tasks[i] \in TaskType(rfqs) /\ tasks \in Seq(TaskType(rfqs))
    BY DEF DeskTypes
<1>1. {"Skipped", "Sent", "Stopped"} \subseteq TaskStages
    BY DEF TaskStages
<1>2. \E at \in TaskStages : At(i, at)
    BY <1>1 DEF SendQuote
<1>3. tasks' \in Seq(TaskType(rfqs)) /\ DOMAIN tasks' = DOMAIN tasks
    BY <1>0, <1>2, StageType, TaskStepType DEF At
<1>4. trackers' \in [DOMAIN tasks -> SUBSET TrackerType(rfqs)]
    BY DEF SendQuote, DeskTypes
<1>5. link' \in [up : BOOLEAN, epoch : Nat, out : Seq([rfq : Names(rfqs), order : Ids(rfqs)]), down : Seq(Messages(rfqs))]
    <2>0. link \in [up : BOOLEAN, epoch : Nat, out : Seq([rfq : Names(rfqs), order : Ids(rfqs)]), down : Seq(Messages(rfqs))]
        BY DEF DeskTypes
    <2>1. CASE link' = link
        BY <2>0, <2>1
    <2>2. CASE \E t \in trackers[i] : link' = [link EXCEPT !.out = Append(@, [rfq |-> t.rfq, order |-> t.order])]
        <3>1. PICK t \in TrackerType(rfqs) : link' = [link EXCEPT !.out = Append(@, [rfq |-> t.rfq, order |-> t.order])]
            BY <2>2 DEF DeskTypes
        <3>2. PICK q \in [rfq : Names(rfqs), order : Ids(rfqs)] : q = [rfq |-> t.rfq, order |-> t.order]
            BY DEF TrackerType
        <3>3. PICK out \in Seq([rfq : Names(rfqs), order : Ids(rfqs)]) : out = Append(link.out, q)
            <4>1. PICK S : S = [rfq : Names(rfqs), order : Ids(rfqs)]
                OBVIOUS
            <4>2. link.out \in Seq(S) /\ q \in S
                BY <2>0, <3>2, <4>1
            <4>3. Append(link.out, q) \in Seq(S)
                BY <4>2
            <4> QED BY <4>1, <4>3
        <3>4. link' = [link EXCEPT !.out = out]
            BY <2>0, <3>1, <3>2, <3>3
        <3> QED BY <2>0, <3>4
    <2> QED BY <2>1, <2>2 DEF SendQuote
<1>6. UNCHANGED <<gen, venue, ring, now, deal>>
    BY Zenon DEF SendQuote, Quoting
<1> QED BY <1>3, <1>4, <1>5, <1>6 DEF DeskTypes

LEMMA TaskTypes ==
    ASSUME NEW rfqs, DeskTypes(rfqs), TaskNext
    PROVE  DeskTypes(rfqs)'
BY QuietTypes, StoreTypes, NonceTypes, SignTypes, SendTypes DEF TaskNext
\* The first of a sequence, and the rest.
LEMMA Rest ==
    ASSUME NEW S, NEW s \in Seq(S), s # <<>>
    PROVE  /\ Head(s) \in S /\ Tail(s) \in Seq(S) /\ Len(s) \in Nat \ {0} /\ Len(Tail(s)) = Len(s) - 1
           /\ Head(s) = s[1] /\ \A k \in 1..Len(Tail(s)) : Tail(s)[k] = s[k + 1]
OBVIOUS

LEMMA Joined ==
    ASSUME NEW S, NEW s \in Seq(S), NEW u \in Seq(S)
    PROVE  /\ s \o u \in Seq(S) /\ Len(s \o u) = Len(s) + Len(u) /\ Len(s) \in Nat /\ Len(u) \in Nat
           /\ \A k \in 1..Len(s \o u) : (s \o u)[k] = IF k <= Len(s) THEN s[k] ELSE u[k - Len(s)]
OBVIOUS

LEMMA Appended ==
    ASSUME NEW S, NEW s \in Seq(S), NEW x \in S
    PROVE  /\ Append(s, x) \in Seq(S) /\ Len(Append(s, x)) = Len(s) + 1 /\ Len(s) \in Nat
           /\ \A k \in 1..Len(Append(s, x)) : Append(s, x)[k] = IF k <= Len(s) THEN s[k] ELSE x
OBVIOUS

\* Every tracker's next state is one of its own with another outcome.
LEMMA TrackersType ==
    ASSUME NEW rfqs, trackers \in [DOMAIN tasks -> SUBSET TrackerType(rfqs)],
           DOMAIN trackers' = DOMAIN trackers, trackers' = [i \in DOMAIN trackers |-> trackers'[i]],
           \A i \in DOMAIN trackers : \A u \in trackers'[i] : \E t \in trackers[i], o \in Outcomes : u = Becomes(t, o)
    PROVE  trackers' \in [DOMAIN tasks -> SUBSET TrackerType(rfqs)]
<1>1. \A i \in DOMAIN trackers : trackers'[i] \subseteq TrackerType(rfqs)
    BY BecomesType
<1> QED BY <1>1

LEMMA UnknownType ==
    ASSUME NEW rfqs, trackers \in [DOMAIN tasks -> SUBSET TrackerType(rfqs)], AllUnknown
    PROVE  trackers' \in [DOMAIN tasks -> SUBSET TrackerType(rfqs)]
<1>1. trackers' = [i \in DOMAIN trackers |-> {mark_unknown(t) : t \in trackers[i]}]
    BY DEF AllUnknown, Trackers
<1>2. \A i \in DOMAIN trackers : \A u \in trackers'[i] : \E t \in trackers[i], o \in Outcomes : u = Becomes(t, o)
    BY <1>1, MarkType
<1>3. DOMAIN trackers' = DOMAIN trackers /\ trackers' = [i \in DOMAIN trackers |-> trackers'[i]]
    BY <1>1
<1> QED BY <1>2, <1>3, TrackersType

\* The ring keeps the last items.
LEMMA RingedIs ==
    ASSUME NEW S, NEW items \in Seq(S)
    PROVE  \E k \in Nat : /\ k <= Len(items)
                          /\ Ringed(items) = [items |-> SubSeq(items, k + 1, Len(items)), lagged |-> ring.lagged \/ k > 0]
                          /\ SubSeq(items, k + 1, Len(items)) \in Seq(S)
<1>1. PICK n \in Nat : n = Len(items)
    OBVIOUS
<1>2. PICK k \in Nat : k = n - Least(n, Capacity)
    <2>1. Least(n, Capacity) \in 0..n
        BY <1>1, DeskAssumption DEF Least
    <2>2. n - Least(n, Capacity) \in Nat
        BY <1>1, <2>1
    <2> QED BY <2>2
<1>3. k <= n /\ (n > Capacity <=> k > 0)
    BY <1>1, <1>2, DeskAssumption DEF Least
<1>4. \A j \in (k + 1)..n : items[j] \in S
    BY <1>1
<1>5. SubSeq(items, k + 1, n) \in Seq(S)
    BY <1>1, <1>3, <1>4
<1>6. Ringed(items) = [items |-> SubSeq(items, k + 1, n), lagged |-> ring.lagged \/ k > 0]
    BY <1>1, <1>2, <1>3 DEF Ringed
<1> QED BY <1>1, <1>3, <1>5, <1>6

LEMMA PublishTypes ==
    ASSUME NEW rfqs, DeskTypes(rfqs), Publish
    PROVE  DeskTypes(rfqs)'
<1>0. /\ link \in [up : BOOLEAN, epoch : Nat, out : Seq([rfq : Names(rfqs), order : Ids(rfqs)]), down : Seq(Messages(rfqs))]
      /\ ring \in [items : Seq(Items(rfqs)), lagged : BOOLEAN] /\ now \in Nat
    BY DEF DeskTypes
<1>1. link.down \in Seq(Messages(rfqs)) /\ link.down # <<>>
    BY <1>0 DEF Publish
<1>2. Head(link.down) \in Messages(rfqs)
    BY <1>1
<1>3. PICK down \in Seq(Messages(rfqs)) : down = Tail(link.down)
    BY <1>1, Rest
<1>4. link' = [link EXCEPT !.down = down]
    BY <1>3 DEF Publish
<1>5. link' \in [up : BOOLEAN, epoch : Nat, out : Seq([rfq : Names(rfqs), order : Ids(rfqs)]), down : Seq(Messages(rfqs))]
    BY <1>0, <1>4
<1>6. PICK item \in Items(rfqs) : ring' = Ringed(Append(ring.items, item))
    <2>1. [message |-> Head(link.down), epoch |-> link.epoch, at |-> now] \in Items(rfqs)
        BY <1>0, <1>2 DEF Items
    <2>2. [message |-> [type |-> "Unreadable"], epoch |-> 0, at |-> 0] \in Items(rfqs)
        BY DEF Items
    <2> QED BY <2>1, <2>2 DEF Publish, Dropped
<1>7. Append(ring.items, item) \in Seq(Items(rfqs))
    BY <1>0
<1>8. PICK k \in Nat :
        /\ Ringed(Append(ring.items, item))
             = [items |-> SubSeq(Append(ring.items, item), k + 1, Len(Append(ring.items, item))), lagged |-> ring.lagged \/ k > 0]
        /\ SubSeq(Append(ring.items, item), k + 1, Len(Append(ring.items, item))) \in Seq(Items(rfqs))
    BY <1>7, RingedIs
<1>9. ring' \in [items : Seq(Items(rfqs)), lagged : BOOLEAN]
    BY <1>0, <1>6, <1>8
<1>10. UNCHANGED <<gen, tasks, trackers, venue, now, deal>>
    BY DEF Publish
<1> QED BY <1>5, <1>9, <1>10 DEF DeskTypes

LEMMA ReceiveTypes ==
    ASSUME NEW rfqs, DeskTypes(rfqs), Receive
    PROVE  DeskTypes(rfqs)'
<1>0. /\ trackers \in [DOMAIN tasks -> SUBSET TrackerType(rfqs)] /\ ring \in [items : Seq(Items(rfqs)), lagged : BOOLEAN]
      /\ \A r \in rfqs : r.terms \in OptionTerms /\ r.quantity \in 0..MaxU64
    BY DEF DeskTypes
<1>1. UNCHANGED <<gen, tasks, venue, link, now, deal>>
    BY Zenon DEF Receive
<1>2. /\ trackers' \in [DOMAIN tasks -> SUBSET TrackerType(rfqs)]
      /\ ring' \in [items : Seq(Items(rfqs)), lagged : BOOLEAN]
    <2>1. CASE AllUnknown /\ ring' = [ring EXCEPT !.lagged = FALSE]
        BY <1>0, <2>1, UnknownType
    <2>2. CASE /\ ring.items # <<>> /\ ring' = [ring EXCEPT !.items = Tail(@)]
               /\ LET seen(t) == observe(t, Head(ring.items))
                  IN IF Head(ring.items).message.type = "Unreadable" THEN AllUnknown ELSE Trackers(seen)
        <3>1. PICK items \in Seq(Items(rfqs)) : items = Tail(ring.items)
            <4>1. ring.items \in Seq(Items(rfqs)) /\ ring.items # <<>>
                BY <1>0, <2>2
            <4> QED BY <4>1, Rest
        <3>2. ring' = [ring EXCEPT !.items = items]
            BY <2>2, <3>1
        <3>3. ring' \in [items : Seq(Items(rfqs)), lagged : BOOLEAN]
            BY <1>0, <3>2
        <3>4. PICK item \in Items(rfqs) : item = Head(ring.items)
            <4>1. ring.items \in Seq(Items(rfqs)) /\ ring.items # <<>>
                BY <1>0, <2>2
            <4> QED BY <4>1, Rest
        <3>5. CASE AllUnknown
            BY <1>0, <3>3, <3>5, UnknownType
        <3>6. CASE item.message.type # "Unreadable" /\ trackers' = [i \in DOMAIN trackers |-> {observe(t, item) : t \in trackers[i]}]
            <4>1. item.message \in Messages(rfqs)
                BY <3>6 DEF Items
            <4>2. \A i \in DOMAIN trackers : \A u \in trackers'[i] : \E t \in trackers[i] : u = observe(t, item)
                BY <3>6
            <4>3. \A t \in TrackerType(rfqs) : \E o \in Outcomes : observe(t, item) = Becomes(t, o)
                BY <1>0, <4>1, ObserveType
            <4>4. \A i \in DOMAIN trackers : \A u \in trackers'[i] : \E t \in trackers[i], o \in Outcomes : u = Becomes(t, o)
                BY <1>0, <4>2, <4>3
            <4>5. DOMAIN trackers' = DOMAIN trackers /\ trackers' = [i \in DOMAIN trackers |-> trackers'[i]]
                BY <3>6
            <4>6. trackers' \in [DOMAIN tasks -> SUBSET TrackerType(rfqs)]
                BY <1>0, <4>4, <4>5, TrackersType
            <4> QED BY <3>3, <4>6
        <3> QED BY <2>2, <3>4, <3>5, <3>6 DEF Trackers
    <2>3. CASE AllUnknown /\ UNCHANGED ring
        BY <1>0, <2>3, UnknownType
    <2> QED BY <2>1, <2>2, <2>3, Zenon DEF Receive
<1> QED BY <1>1, <1>2 DEF DeskTypes

LEMMA StreamTypes ==
    ASSUME NEW rfqs, DeskTypes(rfqs), StreamNext
    PROVE  DeskTypes(rfqs)'
<1>1. CASE CheckTrackers
    <2>0. trackers \in [DOMAIN tasks -> SUBSET TrackerType(rfqs)]
        BY DEF DeskTypes
    <2>1. trackers' = [i \in DOMAIN trackers |-> {check(t, link.epoch, now) : t \in trackers[i]}]
        BY <1>1 DEF CheckTrackers, Trackers
    <2>2. \A i \in DOMAIN trackers : \A u \in trackers'[i] : \E t \in trackers[i], o \in Outcomes : u = Becomes(t, o)
        BY <2>0, <2>1, CheckType
    <2>3. DOMAIN trackers' = DOMAIN trackers /\ trackers' = [i \in DOMAIN trackers |-> trackers'[i]]
        BY <2>1
    <2>4. trackers' \in [DOMAIN tasks -> SUBSET TrackerType(rfqs)]
        BY <2>0, <2>2, <2>3, TrackersType
    <2>5. UNCHANGED <<gen, tasks, venue, link, ring, now, deal>>
        BY <1>1, Zenon DEF CheckTrackers
    <2> QED BY <2>4, <2>5 DEF DeskTypes
<1>2. CASE Tick
    <2>1. now' \in Nat
        BY <1>2 DEF Tick, DeskTypes
    <2>2. UNCHANGED <<gen, tasks, trackers, venue, link, ring, deal>>
        BY <1>2 DEF Tick
    <2> QED BY <2>1, <2>2 DEF DeskTypes
<1>3. CASE Disconnect
    <2>1. PICK up \in BOOLEAN : link' = [up |-> up, epoch |-> link.epoch + 1, out |-> <<>>, down |-> <<>>]
        BY <1>3 DEF Disconnect
    <2>2. link.epoch + 1 \in Nat
        BY DEF DeskTypes
    <2>3. <<>> \in Seq([rfq : Names(rfqs), order : Ids(rfqs)]) /\ <<>> \in Seq(Messages(rfqs))
        OBVIOUS
    <2>4. link' \in [up : BOOLEAN, epoch : Nat, out : Seq([rfq : Names(rfqs), order : Ids(rfqs)]), down : Seq(Messages(rfqs))]
        BY <2>1, <2>2, <2>3
    <2>5. UNCHANGED <<gen, tasks, trackers, venue, ring, now, deal>>
        BY <1>3 DEF Disconnect
    <2> QED BY <2>4, <2>5 DEF DeskTypes
<1> QED BY <1>1, <1>2, <1>3, PublishTypes, ReceiveTypes DEF StreamNext
\* The venue's book, some of its orders given a status.
LEMMA OrdersType ==
    ASSUME NEW rfqs, venue.orders \in Books(rfqs), NEW ids \in SUBSET Ids(rfqs), NEW status \in Statuses
    PROVE  /\ Orders(ids, status) \in Books(rfqs) /\ DOMAIN Orders(ids, status) = ids \cup DOMAIN venue.orders
           /\ \A id \in ids : Orders(ids, status)[id] = status
           /\ \A id \in DOMAIN venue.orders \ ids : Orders(ids, status)[id] = venue.orders[id]
<1>1. PICK D \in SUBSET Ids(rfqs) : venue.orders \in [D -> Statuses]
    BY DEF Books
<1>2. Orders(ids, status) = [id \in ids \cup D |-> IF id \in ids THEN status ELSE venue.orders[id]]
    BY <1>1 DEF Orders
<1>3. Orders(ids, status) \in [ids \cup D -> Statuses]
    BY <1>1, <1>2
<1>4. ids \cup D \in SUBSET Ids(rfqs)
    OBVIOUS
<1> QED BY <1>1, <1>2, <1>3, <1>4 DEF Books

LEMMA BookType ==
    ASSUME NEW rfqs, DeskTypes(rfqs)
    PROVE  /\ venue \in [open : BOOLEAN, picks : Nat, orders : Books(rfqs)] /\ venue.orders \in Books(rfqs)
           /\ DOMAIN venue.orders \subseteq Ids(rfqs) /\ \A id \in DOMAIN venue.orders : venue.orders[id] \in Statuses
           /\ Live \subseteq Ids(rfqs) /\ \A s : Of(s) \subseteq Ids(rfqs)
<1>1. venue \in [open : BOOLEAN, picks : Nat, orders : Books(rfqs)]
    BY DEF DeskTypes
<1>2. venue.orders \in Books(rfqs)
    BY <1>1
<1>3. DOMAIN venue.orders \subseteq Ids(rfqs) /\ \A id \in DOMAIN venue.orders : venue.orders[id] \in Statuses
    BY <1>2 DEF Books
<1> QED BY <1>1, <1>2, <1>3 DEF Live, Of

LinkType(rfqs) ==
    [up : BOOLEAN, epoch : Nat, out : Seq([rfq : Names(rfqs), order : Ids(rfqs)]), down : Seq(Messages(rfqs))]

\* The venue's messages, after those on the way.
LEMMA TellType ==
    ASSUME NEW rfqs, link \in LinkType(rfqs), NEW ms \in Seq(Messages(rfqs)), Tell(ms)
    PROVE  /\ link' \in LinkType(rfqs) /\ link'.out = link.out /\ link'.up = link.up /\ link'.epoch = link.epoch
           /\ link'.down = IF link.up THEN link.down \o ms ELSE link.down
<1>1. PICK down \in Seq(Messages(rfqs)) : down = link.down \o ms
    <2>1. link.down \in Seq(Messages(rfqs))
        BY DEF LinkType
    <2> QED BY <2>1, Joined
<1>2. link' = IF link.up THEN [link EXCEPT !.down = down] ELSE link
    BY <1>1 DEF Tell
<1>3. link' \in LinkType(rfqs)
    BY <1>2 DEF LinkType
<1>4. link'.out = link.out /\ link'.up = link.up /\ link'.epoch = link.epoch
      /\ link'.down = IF link.up THEN down ELSE link.down
    BY <1>2 DEF LinkType
<1> QED BY <1>1, <1>3, <1>4

LEMMA SaysType ==
    ASSUME NEW rfqs, NEW id \in Ids(rfqs), NEW type \in {"QuoteAcknowledged", "QuoteRejected", "QuoteSelected", "QuoteFilled", "QuoteExpired"}
    PROVE  Says(type, id) \in Reports(rfqs)
BY DEF Says, Reports

LEMMA OneMessage ==
    ASSUME NEW rfqs, NEW m \in Messages(rfqs)
    PROVE  <<m>> \in Seq(Messages(rfqs)) /\ Len(<<m>>) = 1 /\ <<m>>[1] = m
OBVIOUS

LEMMA TakesTypes ==
    ASSUME NEW rfqs, DeskTypes(rfqs), VenueTakes
    PROVE  link' \in LinkType(rfqs) /\ venue' \in [open : BOOLEAN, picks : Nat, orders : Books(rfqs)]
<1>0. link \in LinkType(rfqs)
    BY DEF DeskTypes, LinkType
<1>1. PICK out : out = link.out
    OBVIOUS
<1>2. PICK Q : Q = [rfq : Names(rfqs), order : Ids(rfqs)]
    OBVIOUS
<1>3. out \in Seq(Q) /\ out # <<>> /\ link.down \in Seq(Messages(rfqs))
    BY <1>0, <1>1, <1>2 DEF VenueTakes, LinkType
<1>4. Head(out) \in Q /\ Tail(out) \in Seq(Q)
    BY <1>3, Rest
<1>5. PICK id \in Ids(rfqs) : id = Head(link.out).order
    BY <1>1, <1>2, <1>4
<1>6. PICK type \in {"QuoteAcknowledged", "QuoteRejected"}, book \in Books(rfqs) :
        Answer(type, id) /\ venue' = [venue EXCEPT !.orders = book]
    <2>0. {id} \in SUBSET Ids(rfqs) /\ {id} \ DOMAIN venue.orders \in SUBSET Ids(rfqs) /\ {"Open", "Dead"} \subseteq Statuses
        BY DEF Statuses
    <2>1. Orders({id}, "Open") \in Books(rfqs) /\ Orders({id} \ DOMAIN venue.orders, "Dead") \in Books(rfqs)
        BY <2>0, BookType, OrdersType, ZenonT(20)
    <2> QED BY <1>5, <2>1 DEF VenueTakes
<1>7. Says(type, id) \in Messages(rfqs)
    BY SaysType DEF Messages
<1>8. PICK down \in Seq(Messages(rfqs)) : down = Append(link.down, Says(type, id))
    BY <1>3, <1>7, Appended
<1>9. PICK rest \in Seq(Q) : rest = Tail(out)
    BY <1>4
<1>10. link' = [link EXCEPT !.out = rest, !.down = down]
    BY <1>1, <1>6, <1>8, <1>9 DEF Answer
<1>11. link' \in LinkType(rfqs)
    BY <1>0, <1>2, <1>10 DEF LinkType
<1>12. venue' \in [open : BOOLEAN, picks : Nat, orders : Books(rfqs)]
    BY <1>6, BookType
<1> QED BY <1>11, <1>12

LEMMA SelectsTypes ==
    ASSUME NEW rfqs, DeskTypes(rfqs), VenueSelects \/ VenueReleases \/ VenueDrops
    PROVE  link' \in LinkType(rfqs) /\ venue' \in [open : BOOLEAN, picks : Nat, orders : Books(rfqs)]
<1>0. link \in LinkType(rfqs)
    BY DEF DeskTypes, LinkType
<1>1. CASE VenueSelects
    <2>1. PICK id \in Of("Open") : /\ venue' = [venue EXCEPT !.orders = Orders({id}, "Selected"), !.picks = @ + 1]
                                   /\ Tell(<<Says("QuoteSelected", id)>>)
        BY <1>1 DEF VenueSelects
    <2>2. PICK book \in Books(rfqs) : book = Orders({id}, "Selected")
        <3>1. {id} \in SUBSET Ids(rfqs) /\ "Selected" \in Statuses
            BY <2>1, BookType DEF Statuses
        <3> QED BY <3>1, BookType, OrdersType
    <2>3. PICK picks \in Nat : picks = venue.picks + 1
        BY BookType
    <2>4. venue' = [venue EXCEPT !.orders = book, !.picks = picks]
        BY <2>1, <2>2, <2>3
    <2>5. Says("QuoteSelected", id) \in Messages(rfqs)
        BY <2>1, BookType, SaysType DEF Messages
    <2>6. link' \in LinkType(rfqs)
        BY <1>0, <2>1, <2>5, OneMessage, TellType
    <2> QED BY <2>4, <2>6, BookType
<1>2. CASE VenueReleases
    <2>1. PICK m : m = [type |-> "RfqAvailableAgain", rfq |-> 1]
        OBVIOUS
    <2>2. m \in Messages(rfqs)
        BY <2>1 DEF Messages, Releases
    <2>3. Tell(<<m>>) /\ venue' = [venue EXCEPT !.orders = Orders(Of("Selected"), "Open")]
        BY <1>2, <2>1 DEF VenueReleases
    <2>4. PICK book \in Books(rfqs) : book = Orders(Of("Selected"), "Open")
        BY BookType, OrdersType DEF Statuses
    <2>5. link' \in LinkType(rfqs)
        BY <1>0, <2>2, <2>3, OneMessage, TellType
    <2> QED BY <2>3, <2>4, <2>5, BookType
<1>3. CASE VenueDrops
    <2>1. PICK id \in Of("Open") :
            /\ venue' = Kill({id})
            /\ \/ Tell(<<Says("QuoteExpired", id)>>)
               \/ Tell(<<[type |-> "QuoteCancelled", rfq |-> 1, orders |-> {id}, reason |-> "Requested"]>>)
        BY <1>3 DEF VenueDrops
    <2>2. PICK m \in Messages(rfqs) : Tell(<<m>>)
        <3>1. id \in Ids(rfqs)
            BY <2>1, BookType
        <3>2. Says("QuoteExpired", id) \in Messages(rfqs)
            BY <3>1, SaysType DEF Messages
        <3>3. [type |-> "QuoteCancelled", rfq |-> 1, orders |-> {id}, reason |-> "Requested"] \in Messages(rfqs)
            BY <3>1 DEF Messages, Cancels
        <3> QED BY <2>1, <3>2, <3>3
    <2>3. PICK book \in Books(rfqs) : book = Orders({id}, "Dead")
        <3>1. {id} \in SUBSET Ids(rfqs) /\ "Dead" \in Statuses
            BY <2>1, BookType DEF Statuses
        <3> QED BY <3>1, BookType, OrdersType
    <2>4. venue' = [venue EXCEPT !.orders = book]
        BY <2>1, <2>3 DEF Kill
    <2>5. link' \in LinkType(rfqs)
        BY <1>0, <2>2, OneMessage, TellType
    <2> QED BY <2>4, <2>5, BookType
<1> QED BY <1>1, <1>2, <1>3
LEMMA FillsTypes ==
    ASSUME NEW rfqs, DeskTypes(rfqs), VenueFills
    PROVE  /\ link' \in LinkType(rfqs) /\ venue' \in [open : BOOLEAN, picks : Nat, orders : Books(rfqs)]
           /\ \A d \in deal' : DealType(d)
<1>0. link \in LinkType(rfqs)
    BY DEF DeskTypes, LinkType
<1>1. PICK id \in Of("Selected") :
        /\ venue' = [venue EXCEPT !.open = FALSE, !.orders = [o \in DOMAIN venue.orders |-> IF o = id THEN "Filled" ELSE "Dead"]]
        /\ \E your \in {None, [order |-> id, status |-> "Filled"]},
              first \in {<<>>, <<[type |-> "QuoteCancelled", rfq |-> 1, orders |-> Live \ {id}, reason |-> "RfqAccepted"]>>} :
             \/ Tell(first \o <<Says("QuoteFilled", id), Closes("Filled", your)>>)
             \/ Tell(first \o <<Closes("Filled", your), Says("QuoteFilled", id)>>)
        /\ deal' = Opened(id)
    BY Zenon DEF VenueFills
<1>2. id \in Ids(rfqs)
    BY <1>1, BookType
<1>3. PICK your \in {None, [order |-> id, status |-> "Filled"]},
           first \in {<<>>, <<[type |-> "QuoteCancelled", rfq |-> 1, orders |-> Live \ {id}, reason |-> "RfqAccepted"]>>} :
        \/ Tell(first \o <<Says("QuoteFilled", id), Closes("Filled", your)>>)
        \/ Tell(first \o <<Closes("Filled", your), Says("QuoteFilled", id)>>)
    BY <1>1
<1>4. PICK fill \in Messages(rfqs) : fill = Says("QuoteFilled", id)
    BY <1>2, SaysType DEF Messages
<1>5. PICK close \in Messages(rfqs) : close = Closes("Filled", your)
    BY <1>2, <1>3 DEF Messages, Closings, Yours, Closes
<1>6. first \in Seq(Messages(rfqs))
    <2>1. Live \ {id} \subseteq Ids(rfqs)
        BY BookType
    <2>2. PICK m \in Messages(rfqs) : m = [type |-> "QuoteCancelled", rfq |-> 1, orders |-> Live \ {id}, reason |-> "RfqAccepted"]
        BY <2>1 DEF Messages, Cancels
    <2>3. <<>> \in Seq(Messages(rfqs)) /\ <<m>> \in Seq(Messages(rfqs))
        OBVIOUS
    <2> QED BY <1>3, <2>2, <2>3
<1>7. <<fill, close>> \in Seq(Messages(rfqs)) /\ <<close, fill>> \in Seq(Messages(rfqs))
    OBVIOUS
<1>8. first \o <<fill, close>> \in Seq(Messages(rfqs)) /\ first \o <<close, fill>> \in Seq(Messages(rfqs))
    BY <1>6, <1>7, Joined
<1>9. link' \in LinkType(rfqs)
    BY <1>0, <1>3, <1>4, <1>5, <1>8, TellType
<1>10. PICK book \in Books(rfqs) : book = [o \in DOMAIN venue.orders |-> IF o = id THEN "Filled" ELSE "Dead"]
    <2>1. PICK D \in SUBSET Ids(rfqs) : D = DOMAIN venue.orders
        BY BookType
    <2>2. [o \in D |-> IF o = id THEN "Filled" ELSE "Dead"] \in [D -> Statuses]
        BY DEF Statuses
    <2> QED BY <2>1, <2>2 DEF Books
<1>11. venue' = [venue EXCEPT !.open = FALSE, !.orders = book]
    BY <1>1, <1>10
<1>12. venue' \in [open : BOOLEAN, picks : Nat, orders : Books(rfqs)]
    BY <1>11, BookType
<1>13. \A d \in deal' : DealType(d)
    BY <1>1, <1>2, OpenedType DEF DeskTypes
<1> QED BY <1>9, <1>12, <1>13

LEMMA ClosesTypes ==
    ASSUME NEW rfqs, DeskTypes(rfqs), VenueCloses
    PROVE  link' \in LinkType(rfqs) /\ venue' \in [open : BOOLEAN, picks : Nat, orders : Books(rfqs)]
<1>0. link \in LinkType(rfqs)
    BY DEF DeskTypes, LinkType
<1>1. PICK reason \in {"Filled", "Expired", "Cancelled"} :
      \E your \in {None} \cup {[order |-> id, status |-> IF reason = "Filled" THEN "Outbid" ELSE reason] : id \in Live} :
        Tell(<<Closes(reason, your)>>)
    BY DEF VenueCloses
<1>2. PICK your \in {None} \cup {[order |-> id, status |-> IF reason = "Filled" THEN "Outbid" ELSE reason] : id \in Live} :
        Tell(<<Closes(reason, your)>>)
    BY <1>1
<1>3. your \in Yours(rfqs)
    BY <1>1, <1>2, BookType DEF Yours
<1>4. Closes(reason, your) \in Messages(rfqs)
    BY <1>3 DEF Messages, Closings, Closes
<1>5. link' \in LinkType(rfqs)
    BY <1>0, <1>2, <1>4, OneMessage, TellType
<1>6. PICK book \in Books(rfqs) : book = Orders(Live, "Dead")
    BY BookType, OrdersType DEF Statuses
<1>7. venue' = [[venue EXCEPT !.orders = book] EXCEPT !.open = FALSE]
    BY <1>6 DEF VenueCloses, Kill
<1>8. [venue EXCEPT !.orders = book] \in [open : BOOLEAN, picks : Nat, orders : Books(rfqs)]
    BY BookType
<1>9. venue' \in [open : BOOLEAN, picks : Nat, orders : Books(rfqs)]
    BY <1>7, <1>8
<1> QED BY <1>5, <1>9

LEMMA VenueTypes ==
    ASSUME NEW rfqs, DeskTypes(rfqs), VenueNext
    PROVE  DeskTypes(rfqs)'
<1>1. UNCHANGED <<gen, tasks, trackers, ring, now>>
    BY DEF VenueNext
<1>2. link' \in LinkType(rfqs) /\ venue' \in [open : BOOLEAN, picks : Nat, orders : Books(rfqs)]
    BY TakesTypes, SelectsTypes, FillsTypes, ClosesTypes DEF VenueNext
<1>3. \A d \in deal' : DealType(d)
    <2>1. VenueFills \/ deal' = deal
        BY DEF VenueNext, VenueTakes, VenueSelects, VenueReleases, VenueCloses, VenueDrops
    <2>2. \A d \in deal : DealType(d)
        BY DEF DeskTypes
    <2> QED BY <2>1, <2>2, FillsTypes
<1> QED BY <1>1, <1>2, <1>3 DEF DeskTypes, LinkType

LEMMA DeskTypesStep ==
    ASSUME NEW rfqs, DeskTypes(rfqs), [Next]_vars
    PROVE  DeskTypes(rfqs)'
<1>1. CASE UNCHANGED deskVars
    BY <1>1 DEF deskVars, DeskTypes
<1>2. CASE CashSettle
    BY <1>1, <1>2 DEF CashSettle, deskVars
<1> QED BY <1>1, <1>2, TaskTypes, StreamTypes, VenueTypes DEF Next, vars, Finalize, Funds

LEMMA FreshTypes ==
    ASSUME NEW rfqs, Fresh(rfqs)
    PROVE  DeskTypes(rfqs)
<1>1. PICK N : N = 0..(Nonces - 1)
    OBVIOUS
<1>2. 0 \in N /\ "New" \in TaskStages
    BY <1>1, DeskAssumption DEF TaskStages
<1>3. [at : {"New"}, rfq : rfqs, epoch : Nat, base : {0}, draw : {0}, nonce : {0}] \subseteq TaskType(rfqs)
    BY <1>1, <1>2 DEF TaskType
<1>4. tasks \in Seq(TaskType(rfqs))
    <2>1. PICK S : S = [at : {"New"}, rfq : rfqs, epoch : Nat, base : {0}, draw : {0}, nonce : {0}]
        OBVIOUS
    <2>2. tasks \in Seq(S) /\ S \subseteq TaskType(rfqs)
        BY <1>3, <2>1 DEF Fresh
    <2> QED BY <2>2
<1>5. trackers \in [DOMAIN tasks -> SUBSET TrackerType(rfqs)]
    BY DEF Fresh
<1>6. venue \in [open : BOOLEAN, picks : Nat, orders : Books(rfqs)]
    <2>1. <<>> \in [{} -> Statuses]
        OBVIOUS
    <2>2. PICK e : e = <<>>
        OBVIOUS
    <2>3. e \in Books(rfqs)
        BY <2>1, <2>2 DEF Books
    <2> QED BY <2>2, <2>3 DEF Fresh
<1>7. link \in LinkType(rfqs) /\ ring \in [items : Seq(Items(rfqs)), lagged : BOOLEAN]
    <2>1. PICK e : e = <<>>
        OBVIOUS
    <2>2. e \in Seq([rfq : Names(rfqs), order : Ids(rfqs)]) /\ e \in Seq(Messages(rfqs)) /\ e \in Seq(Items(rfqs))
        BY <2>1
    <2> QED BY <2>1, <2>2 DEF Fresh, LinkType
<1> QED BY <1>4, <1>5, <1>6, <1>7 DEF Fresh, DeskTypes, LinkType

LEMMA CollateralNat ==
    ASSUME NEW t \in SpreadTerms, NEW c \in collateral(t)
    PROVE  c \in Nat
<1>1. t.lower \in Nat /\ t.upper \in Nat
    BY SpreadAssumption DEF SpreadTerms
<1>2. t.upper > t.lower
    BY Zenon DEF collateral, width, If
<1>3. t.upper - t.lower \in Nat /\ width(t.lower, t.upper) = {t.upper - t.lower}
    BY <1>1, <1>2 DEF width, If
<1>4. c \in quote_amount(t.upper - t.lower, t, TRUE)
    BY <1>3, Zenon DEF collateral
<1> QED BY <1>3, <1>4, QuoteNat, Zenon

\* What a filled spread locked pays every settlement price in full, for any strikes, quantities and prices, whichever of
\* the desk's orders the venue fills (spreads.rs: collateral, payoff, settle).
THEOREM SpreadsStayCovered ==
    ASSUME NEW rfqs
    PROVE  Fresh(rfqs) /\ [][Next]_vars => []SpreadIsCovered
<1>1. Fresh(rfqs) => DeskTypes(rfqs)
    BY FreshTypes
<1>2. DeskTypes(rfqs) /\ [Next]_vars => DeskTypes(rfqs)'
    BY DeskTypesStep
<1>3. DeskTypes(rfqs) => SpreadIsCovered
    <2>1. ASSUME NEW d, DealType(d), NEW price \in Prices
          PROVE  Covered(d.legs, price, d.locked)
        <3>1. price \in Nat /\ d.legs \in SpreadTerms /\ d.locked \in collateral(d.legs)
            BY <2>1, DeskAssumption DEF DealType
        <3>2. d.locked \in Nat
            BY <3>1, CollateralNat
        <3> QED BY <3>1, <3>2, SpreadIsAlwaysCovered
    <2> QED BY <2>1 DEF DeskTypes, SpreadIsCovered
<1> QED BY <1>1, <1>2, <1>3, PTL
-----------------------------------------------------------------------------
(* Funding in the desk. *)

LEMMA NextMoves ==
    ASSUME [Next]_vars
    PROVE  Moves
<1>1. CASE UNCHANGED vars
    BY <1>1 DEF vars, chainVars, fundVars, Moves, Around
<1>2. CASE TaskNext
    <2>1. UNCHANGED chainVars
        BY <1>2 DEF TaskNext, Bind, LoadBase, DrawEntropy, StoreEntropy, ReloadBase, TakeNonce, SignQuote, SendQuote, Quoting
    <2> QED BY <2>1 DEF chainVars, fundVars, Moves, Around
<1>3. CASE StreamNext
    <2>1. UNCHANGED chainVars
        BY <1>3 DEF StreamNext, Publish, Receive, CheckTrackers, Tick, Disconnect
    <2> QED BY <2>1 DEF chainVars, fundVars, Moves, Around
<1>4. CASE VenueNext
    <2>1. UNCHANGED <<txs, conf, node, wallet, fund, args>>
        BY <1>4 DEF VenueNext, VenueFills, chainVars, fundVars
    <2> QED BY <2>1 DEF Moves, Around
<1>5. CASE CashSettle \/ Finalize
    BY <1>5 DEF CashSettle, Finalize, Moves, Around
<1>6. CASE Funds
    BY <1>6 DEF Funds, Moves
<1> QED BY <1>1, <1>2, <1>3, <1>4, <1>5, <1>6 DEF Next

\* The desk implements funding: whatever its tasks, its stream and its venue do, what a call and its confirmation promise
\* (FundingProofs) holds of the desk.
THEOREM DeskImplementsFunding == Ready /\ [][Next]_vars => FundSpec
<1>1. [Next]_vars => [Moves]_<<txs, conf, node, wallet, fund, args>>
    BY NextMoves
<1> QED BY <1>1, PTL DEF FundSpec
=============================================================================
