---------------------------- MODULE QuoteBinding ----------------------------
(***************************************************************************)
(* A quote from an RFQ broadcast (quote.rs, orders/): RfqBinding checks    *)
(* the broadcast against the deployment the maker trusts, QuoteBuilder     *)
(* fixes the order and signs its hash.  Terms are [type, strike, upper];   *)
(* an order id is the preimage it hashes, so that equal ids are equal      *)
(* orders.                                                                 *)
(***************************************************************************)
EXTENDS Spreads, Sequences, Functions

OptionTerms ==
    [type : {"CoveredCall", "CashSecuredPut", "CallSpread", "PutSpread", "CashPut"}, strike : 0..MaxU64, upper : 0..MaxU64]

is_spread(type) == type \in {"CallSpread", "PutSpread", "CashPut"}
is_put(type) == type \in {"CashSecuredPut", "PutSpread", "CashPut"}

\* A cash put is the put spread from zero.
to_chain(terms) ==
    IF terms.type = "CashPut" THEN [type |-> "PutSpread", strike |-> 0, upper |-> terms.strike] ELSE terms

market_pda(program, m) == <<"market", program, m.underlying, m.quote, m.expiry, m.is_put>>

\* validate_market_binding: the market descriptor is of this program and these terms, and its address follows from it.
MarketBound(rfq, program) ==
    LET m == rfq.market
        legs == IF is_spread(rfq.terms.type) THEN <<m.quote, m.quote>>
                ELSE IF m.is_put THEN <<m.quote, m.underlying>> ELSE <<m.underlying, m.quote>>
    IN /\ m.chain = 0 /\ m.program = program
       /\ m.is_put = is_put(rfq.terms.type)
       /\ <<m.collateral, m.settlement>> = legs
       /\ m.whole_seconds
       /\ m.pda = market_pda(program, m)

\* from_broadcast_for_program: a spread is offered alone, a physical option with others of its type.
TermsOffered(rfq) ==
    LET chain == to_chain(rfq.terms)
    IN IF is_spread(rfq.terms.type)
       THEN /\ rfq.terms.strike # 0
            /\ validate_strikes(chain.type, chain.strike, chain.upper) # {}
            /\ rfq.quantity # 0
            /\ rfq.options = <<rfq.terms>>
       ELSE \A o \in Range(rfq.options) : o.type = rfq.terms.type

from_broadcast(rfq, program) ==
    If(TermsOffered(rfq) /\ MarketBound(rfq, program),
       [rfq |-> rfq.id, program |-> program, market |-> rfq.market.pda, expiry |-> rfq.market.expiry,
        taker |-> rfq.taker, quantity |-> rfq.quantity, side |-> rfq.side, offered |-> {rfq.terms} \cup Range(rfq.options)])

\* QuoteBuilder::resolve with everything set: offered terms, and an expiry within the market's and the venue's window.
PastMarket(b, quote) == quote.valid_until > b.expiry

Resolves(b, quote, min_valid_until, buffer_end) ==
    /\ quote.terms \in b.offered
    /\ ~PastMarket(b, quote)
    /\ quote.valid_until >= min_valid_until
    /\ quote.valid_until > buffer_end

\* The preimage of each layout, a physical one without an upper strike; a spread's premium must lie within its width.
order_id(b, quote) ==
    LET chain == to_chain(quote.terms)
        legs == [kind |-> chain.type, lower |-> chain.strike, upper |-> chain.upper, quantity |-> b.quantity]
        preimage(upper) ==
            [program |-> b.program, side |-> b.side, type |-> chain.type, market |-> b.market, strike |-> chain.strike,
             upper |-> upper, quantity |-> b.quantity, price |-> quote.price, valid_until |-> quote.valid_until,
             maker |-> quote.maker, taker |-> b.taker, nonce |-> quote.nonce]
    IN IF is_spread(quote.terms.type)
       THEN {preimage(chain.upper) : p \in validate_premium(legs, quote.price)}
       ELSE {preimage(0)}

sign(b, quote, min_valid_until, buffer_end) ==
    {id \in order_id(b, quote) : Resolves(b, quote, min_valid_until, buffer_end)}
=============================================================================
