------------------------------ MODULE Spreads ------------------------------
(***************************************************************************)
(* Cash spreads (spreads.rs): what a spread locks, pays and costs, in      *)
(* quote atoms.  An operator that can fail returns the set of what it      *)
(* computed, empty for an error.                                           *)
(***************************************************************************)
EXTENDS Integers

CONSTANTS PriceScale,   \* 1e9: prices are per unit of the underlying
          Scales,       \* the powers of ten of the supported decimals, 0 to 18
          MaxU64,       \* the largest amount
          Bps           \* 10 000: a whole in basis points

ASSUME SpreadAssumption ==
    /\ PriceScale \in Nat \ {0} /\ Bps \in Nat \ {0} /\ MaxU64 \in Nat
    /\ Scales \subseteq Nat \ {0}

SpreadTerms ==
    [kind : {"CallSpread", "PutSpread"}, lower : 0..MaxU64, upper : 0..MaxU64, quantity : 0..MaxU64,
     quote_scale : Nat \ {0}, underlying_scale : Nat \ {0}]

If(cond, value) == {v \in {value} : cond}
Least(a, b) == IF a <= b THEN a ELSE b
Less(a, b) == IF a > b THEN a - b ELSE 0

width(lower, upper) == If(upper > lower, upper - lower)

\* A call spread needs a lower strike.
validate_strikes(kind, lower, upper) ==
    If(kind = "CallSpread" => lower # 0, upper - lower) \cap width(lower, upper)

\* price * quantity * quote_scale / (PriceScale * underlying_scale), rounded down or up: one division or one product.
quote_amount(price, t, up) ==
    LET denominator == PriceScale * t.underlying_scale
        numerator == price * t.quantity
        divisor == denominator \div t.quote_scale
        amount == IF t.quote_scale <= denominator
                  THEN numerator \div divisor + (IF up /\ numerator % divisor # 0 THEN 1 ELSE 0)
                  ELSE numerator * (t.quote_scale \div denominator)
    IN If({t.quote_scale, t.underlying_scale} \subseteq Scales /\ amount <= MaxU64, amount)

\* Mutant of collateral: rounded down, as the premium is.
CollateralDown(t) == UNION {quote_amount(w, t, FALSE) : w \in width(t.lower, t.upper)}

\* What the writer locks: the widest payoff, rounded up.
collateral(t) == UNION {quote_amount(w, t, TRUE) : w \in width(t.lower, t.upper)}

intrinsic(t, price) ==
    Least(IF t.kind = "CallSpread" THEN Less(price, t.lower) ELSE Less(t.upper, price), t.upper - t.lower)

payoff(t, price) == UNION {quote_amount(intrinsic(t, price), t, TRUE) : w \in width(t.lower, t.upper)}

settle(t, price, locked) ==
    {[holder_payoff |-> p, writer_return |-> locked - p] :
       p \in {p \in payoff(t, price) : p <= locked /\ \E c \in collateral(t) : c <= locked}}

\* A locked collateral pays every settlement price in full, and nothing is made or lost.
Covered(t, price, locked) ==
    (\E c \in collateral(t) : c <= locked)
    => \E s \in settle(t, price, locked) :
         s.holder_payoff \in 0..locked /\ s.writer_return = locked - s.holder_payoff

validate_premium(t, price) ==
    If(t.quantity # 0 /\ price # 0, price) \cap {p \in {price} : \E w \in validate_strikes(t.kind, t.lower, t.upper) : p < w}

fee(amount, bps) == (amount * bps) \div Bps

\* The premium and how it is split: the writer locks the collateral less the net premium.
Split(c, g, f) ==
    [collateral |-> c, gross_premium |-> g, protocol_fee |-> f, net_premium |-> g - f, prefunded_quote |-> c - (g - f)]

\* The fee is the smaller of the premium's and the exposure's.
premium(t, price, premium_bps, volume_bps) ==
    LET exposure == UNION {quote_amount(w, t, FALSE) : w \in width(t.lower, t.upper)}
        amounts == collateral(t) \X quote_amount(price, t, FALSE) \X exposure
                   \X quote_amount(price - fee(price, premium_bps), t, FALSE)
    IN {Split(a[1], a[2], Least(a[2] - a[4], fee(a[3], volume_bps))) :
          a \in {a \in amounts : /\ validate_premium(t, price) # {}
                                 /\ premium_bps <= Bps /\ volume_bps <= Bps
                                 /\ a[2] # 0 /\ a[2] < a[1] /\ a[3] # 0}}
=============================================================================
