---------------------------- MODULE PriceRoutes ----------------------------
(***************************************************************************)
(* Price routes (chain/vault/price_route.rs) and the off-chain midpoint    *)
(* estimate that screens quotes (router_price.rs).                         *)
(*                                                                         *)
(* A price is a fraction <<numerator, denominator>>; a float that is not   *)
(* finite is a zero denominator.  A stored brick names its kind, the       *)
(* length of its discriminator and its freshness unit; the widths and      *)
(* offsets of its fields are left out.                                     *)
(***************************************************************************)
EXTENDS Integers, VaultAccounts, SequencesExt

CONSTANT MaxU64         \* the largest amount

MaxPriceBricks == 6
MaxRatioDiscriminatorLen == 8
PythDrift == 5          \* seconds a Pyth price may be ahead of the clock
MaxMintDecimals == 18

account_count(brick) == CASE brick.kind = "Pyth" -> 1 [] brick.kind = "AccountRatio" -> 2 [] OTHER -> 0

BrickDecodes(b) ==
    \/ b.kind \in {"Pyth", "MaturityDiscount", "ClampMax", "GrowthCap"}
    \/ /\ b.kind = "AccountRatio"
       /\ b.discriminator_len <= MaxRatioDiscriminatorLen
       /\ b.freshness \in {"none", "Epoch", "Slot", "UnixSecond"}

\* PriceRoute::from_account and parse: the account is the program's, and lists what its bricks read.
parse_route(account, program) ==
    {[mint |-> account.mint, max_skew |-> account.max_skew, bricks |-> account.bricks]
     : ok \in {TRUE} \cap
        {/\ account.owner = program
         /\ account.header = "price_route"
         /\ Len(account.bricks) \in 1..MaxPriceBricks
         /\ \A i \in DOMAIN account.bricks : BrickDecodes(account.bricks[i])
         /\ FoldLeft(LAMBDA n, b : n + account_count(b), 0, account.bricks) = account.account_count}}

pyth_price_feed_account(feed, shard) == <<"pyth", feed, shard>>

\* One leg of a price section: the route, then the accounts of its bricks.
price_accounts(route, address, shard) ==
    FoldLeft(LAMBDA acc, b :
                acc \o (CASE b.kind = "Pyth" -> <<R(pyth_price_feed_account(b.feed, shard))>>
                          [] b.kind = "AccountRatio" -> Reads(<<b.account, b.program_data>>)
                          [] OTHER -> <<>>),
             <<R(address)>>, route.bricks)

-----------------------------------------------------------------------------
(* The midpoint. *)

Times(p, q) == <<p[1] * q[1], p[2] * q[2]>>
Power10(p, e) == IF e >= 0 THEN <<p[1] * 10^e, p[2]>> ELSE <<p[1], p[2] * 10^(-e)>>
Below(p, q) == p[1] * q[2] < q[1] * p[2]

\* (1 + apy)^-years, a year being one unit of the clock and apy a whole number.
Discount(b, now) ==
    FoldLeft(LAMBDA p, i : Times(p, <<1, 1 + b.apy_mid>>), <<1, 1>>,
             [i \in 1..(IF b.maturity > now THEN b.maturity - now ELSE 0) |-> i])

\* The factor of each brick on the running midpoint; {} when its source is unusable.
Factor(mid, b, accounts, shard, now) ==
    CASE b.kind = "Pyth" ->
           LET key == pyth_price_feed_account(b.feed, shard)
           IN {Times(mid, Power10(<<accounts[key].price, 1>>, accounts[key].exp))
               : ok \in {TRUE} \cap
                  {/\ key \in DOMAIN accounts
                   /\ accounts[key].price > 0
                   /\ accounts[key].published <= now + PythDrift
                   /\ now <= accounts[key].published + b.max_age}}
      [] b.kind = "AccountRatio" ->
           {Times(mid, Power10(<<accounts[b.account].numerator, accounts[b.account].denominator>>, b.scale_exp))
            : ok \in {TRUE} \cap {b.account \in DOMAIN accounts}}
      [] b.kind = "MaturityDiscount" -> {Times(mid, Discount(b, now))}
      [] b.kind = "ClampMax" -> {IF Below(b.max, mid) THEN b.max ELSE mid}
      [] OTHER -> {mid}

PublishTimes(route, accounts, shard) ==
    {accounts[pyth_price_feed_account(b.feed, shard)].published : b \in {x \in Range(route.bricks) : x.kind = "Pyth"}}

\* The reads run brick by brick; the route must hold a Pyth brick and its prices lie close together.
evaluate(route, accounts, shard, now) ==
    LET mids == FoldLeft(LAMBDA acc, b : UNION {Factor(mid, b, accounts, shard, now) : mid \in acc},
                         {<<1, 1>>}, route.bricks)
    IN {[mint |-> route.mint, usd |-> mid, decimals |-> accounts[route.mint].decimals]
        : mid \in {p \in mids :
            /\ route.mint \in DOMAIN accounts
            /\ accounts[route.mint].decimals <= MaxMintDecimals
            /\ p[1] > 0 /\ p[2] > 0
            /\ LET times == PublishTimes(route, accounts, shard)
               IN times # {} /\ \A s, t \in times : s - t <= route.max_skew}}

\* OraclePrice::convert: whole units, at least one and within u64, of the other mint.
convert(from, amount, to) ==
    LET value == (amount * from.usd[1] * to.usd[2] * 10^to.decimals)
                   \div (from.usd[2] * to.usd[1] * 10^from.decimals)
    IN {v \in {value} : v \in 1..MaxU64}

\* OraclePrice::check_quote: the output is worth at least 99% of the input.
check_oracle(from, amount, to, output) ==
    100 * output * to.usd[1] * from.usd[2] * 10^from.decimals
        >= 99 * amount * from.usd[1] * to.usd[2] * 10^to.decimals
=============================================================================
