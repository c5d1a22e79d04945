----------------------------- MODULE ServedSwap -----------------------------
(***************************************************************************)
(* Verification of a served vault swap against the operator's request and  *)
(* the quoted terms (chain/vault/served.rs, price_route.rs).               *)
(*                                                                         *)
(* request: [vault, id, mode, direction, amount, slippage_bps]; quote: [id, *)
(* mode, staging, in_amount, quoted_out, minimum_out, valid_until, tx];    *)
(* account: the vault as read before the request.  An amount is the number *)
(* its text spells; one that does not fit 64 bits does not parse.          *)
(***************************************************************************)
EXTENDS Served, PriceRoutes

CONSTANTS Bps

Fits(v) == v <= MaxU64

-----------------------------------------------------------------------------
(* Price sections. *)

KeysMatch(want, served) ==
    /\ Len(served) >= Len(want)
    /\ \A i \in DOMAIN want : served[i].key = want[i].key

served_price_section(legs, shards, served) ==
    FoldLeft(LAMBDA acc, leg :
                UNION {{s \o want : want \in
                          {w \in {price_accounts(leg.route, leg.address, shard) : shard \in shards} :
                              KeysMatch(w, SubSeq(served, Len(s) + 1, Len(served)))}} : s \in acc},
             {<<>>}, legs)

-----------------------------------------------------------------------------
(* Setup instructions before the swap. *)

PinnedPools(routes) ==
    {b.account : b \in {x \in UNION {Range(r.bricks) : r \in {routes.main, routes.second} \cup routes.staging} :
                            x.kind = "AccountRatio"}}

swap_setup(m, routes, payer, ix) ==
    LET key(i) == ix.accounts[i].key
    IN IF ix.program = Ata
       THEN {create_ata_idempotent(payer, m.addresses.vault, key(4), key(6))
             : ok \in {TRUE} \cap
                {/\ Len(ix.accounts) >= 6
                 /\ key(4) \notin {m.args.main_mint, m.args.second_mint, m.args.share_mint}
                 /\ key(6) \in TokenPrograms}}
       ELSE {update_stake_pool_balance(ix.program, <<key(1), key(3), key(4), key(5), key(6), key(7)>>)
             : ok \in {TRUE} \cap
                {/\ ix.program \in StakePools
                 /\ Len(ix.accounts) >= 7
                 /\ key(1) \in PinnedPools(routes)
                 /\ key(7) \in TokenPrograms}}

\* Each account the setup creates is used by the route, and is created once.
require_route_atas(setup, hops) ==
    LET created == {i \in DOMAIN setup : setup[i].program = Ata}
        key(i) == setup[i].accounts[2].key
        used == {hops[j].destination : j \in 1..(Len(hops) - 1)}
                \cup UNION {KeysOf(hops[j].accounts) : j \in DOMAIN hops}
    IN /\ {key(i) : i \in created} \subseteq used
       /\ \A i, j \in created : key(i) = key(j) => i = j

\* Splits the hops back out of the flat account list.
served_hops(data, accounts) ==
    FoldLeft(LAMBDA acc, h :
                {[rest |-> SubSeq(a.rest, 4 + h.count, Len(a.rest)),
                  hops |-> Append(a.hops, [program |-> a.rest[1].key, source |-> a.rest[2].key,
                                           destination |-> a.rest[3].key,
                                           accounts |-> SubSeq(a.rest, 4, 3 + h.count),
                                           data |-> h.data, amount_offset |-> h.offset])]
                 : a \in {x \in acc : Len(x.rest) >= 3 + h.count}},
             {[rest |-> accounts, hops |-> <<>>]}, data)

-----------------------------------------------------------------------------
(* What the quote must say before its transaction is looked at. *)

KindOf(request) ==
    LET blank == [op |-> request.mode, step |-> "None", leg |-> "Main", mint |-> Default, program |-> Default,
                  generation |-> 0, second_to_main |-> request.direction = "SecondToMain", main_prices |-> <<>>]
    IN {k \in {blank} : k.op = "Rebalance" \/ (k.op \in {"Recovery", "Closing"} /\ k.second_to_main)}

\* An unstage spends the whole slot; everything else spends the requested amount.
AmountAgreed(request, quote, slot) ==
    CASE quote.staging = "Unstage" -> slot.amount # 0 /\ quote.in_amount = slot.amount
      [] quote.staging = "Stage" -> slot.amount = 0 /\ quote.in_amount = request.amount
      [] OTHER -> quote.in_amount = request.amount

OutputAgreed(request, quote, floor) ==
    /\ request.slippage_bps <= Bps
    /\ quote.quoted_out # 0
    /\ quote.minimum_out # 0
    /\ quote.minimum_out >= (quote.quoted_out * (Bps - request.slippage_bps)) \div Bps
    /\ quote.staging # "Stage" => quote.minimum_out >= floor

TermsAgreed(m, request, quote, floor, account) ==
    /\ ensure_current(m, account)
    /\ request.vault = m.addresses.vault
    /\ quote.id = request.id
    /\ quote.mode = request.mode
    /\ \A v \in {quote.in_amount, quote.quoted_out, quote.minimum_out, quote.valid_until} : Fits(v)
    /\ AmountAgreed(request, quote, account.staging)
    /\ OutputAgreed(request, quote, floor)

\* The kind of a staged leg: the mint is one the operator accepts and the generation is the slot's.
StagingLeg(quote, request) ==
    IF (quote.staging = "Stage") = (request.direction = "MainToSecond") THEN "Main" ELSE "Second"

SlotGeneration(step, slot) == IF step = "Unstage" THEN slot.generation ELSE slot.generation + 1

GenerationAt == 7   \* after tag, step, leg, amount, minimum and validity

StagedKinds(kind, routes, request, quote, slot, ix) ==
    {[kind EXCEPT !.op = "Staging", !.step = quote.staging, !.leg = StagingLeg(quote, request),
                  !.mint = ix.accounts[10].key, !.program = ix.accounts[11].key,
                  !.generation = SlotGeneration(quote.staging, slot)]
     : ok \in {TRUE} \cap
        {/\ Len(ix.accounts) >= 11
         /\ \E r \in routes.staging : r.mint = ix.accounts[10].key
         /\ quote.staging = "Unstage" => slot.mint = ix.accounts[10].key
         /\ Fits(SlotGeneration(quote.staging, slot))
         /\ Len(ix.data) >= GenerationAt
         /\ ix.data[GenerationAt] = SlotGeneration(quote.staging, slot)}}

PricedLegs(m, routes, kind) ==
    LET main == [address |-> m.addresses.main_price_route, route |-> routes.main]
        second == [address |-> m.addresses.second_price_route, route |-> routes.second]
        staging == [address |-> price_route(m.args.program_id, kind.mint),
                    route |-> CHOOSE r \in routes.staging : r.mint = kind.mint]
    IN CASE ~Staged(kind) -> <<main, second>>
         [] OTHER -> <<IF kind.leg = "Main" THEN main ELSE second, staging>>

\* A stage during recovery also carries the main leg's account, program and prices.
RecoveryKinds(m, routes, request, kind, tail) ==
    IF request.mode # "Recovery" \/ kind.op # "Staging" \/ kind.step # "Stage" THEN {kind}
    ELSE {[kind EXCEPT !.op = "RecoveryStage", !.main_prices = prices]
          : prices \in {p \in served_price_section(<<PricedLegs(m, routes, [kind EXCEPT !.op = "Rebalance"])[1]>>,
                                                   routes.shards, SubSeq(tail, 3, Len(tail))) : Len(tail) >= 2}}

-----------------------------------------------------------------------------
(* The whole verification. *)

\* Mutant of RouteSafe: a hop may write an account the swap only reads.
RouteSafeUnpinned(m, kind, plan, ix, hop_accounts) ==
    KeysOf(hop_accounts)
        \cap {m.args.actor, m.args.share_mint, ata(m.addresses.vault, m.args.share_mint, Token)} = {}

\* The route may not name the payer, the share mint, the vault's shares, nor write a pinned account.
RouteSafe(m, kind, plan, ix, hop_accounts) ==
    LET fixed == SwapFixed(m, kind)
        mints == {m.args.main_mint, m.args.second_mint} \cup (IF Staged(kind) THEN {kind.mint} ELSE {})
        pinned == {fixed[i] : i \in {j \in DOMAIN fixed : fixed[j].key \notin mints}}
                  \cup Range(RecoveryTail(m, kind))
                  \cup UNION {{R(h.program), W(h.source), W(h.destination)} : h \in Range(plan.hops)}
    IN /\ KeysOf(hop_accounts)
            \cap {m.args.actor, m.args.share_mint, ata(m.addresses.vault, m.args.share_mint, Token)} = {}
       /\ \A i \in DOMAIN hop_accounts :
            hop_accounts[i].writable => ~\E p \in pinned : p.key = hop_accounts[i].key /\ ~p.writable

\* The first vault instruction after the compute budget.
SwapIndex(s, program) ==
    {i \in DOMAIN s.instructions :
        /\ i > 2
        /\ s.instructions[i].program = program
        /\ \A j \in 3..(i - 1) : s.instructions[j].program # program}

HeaderLen(kind) == 4 + Len(SwapPrefix(kind)) + (IF Staged(kind) THEN 1 ELSE 0)

\* Rebuilds the served swap instruction from what it says and what was agreed.
Rebuilt(m, routes, request, quote, account, setup, ix) ==
    LET kinds == UNION {IF quote.staging = "None" THEN {k}
                        ELSE StagedKinds(k, routes, request, quote, account.staging, ix) : k \in KindOf(request)}
        from(n) == SubSeq(ix.accounts, n + 1, Len(ix.accounts))
        plans(k0) ==
          UNION {UNION {
            LET skip == Len(SwapFixed(m, k0)) + Len(section) + Len(RecoveryTail(m, k))
            IN {[kind |-> k, hop_accounts |-> from(skip),
                 plan |-> [price_section |-> section, amount_in |-> quote.in_amount,
                           minimum_out |-> quote.minimum_out, valid_until |-> quote.valid_until,
                           hops |-> split.hops]]
                : split \in IF Len(ix.data) = HeaderLen(k) + 1
                            THEN served_hops(ix.data[Len(ix.data)], from(skip)) ELSE {}}
            : k \in RecoveryKinds(m, routes, request, k0, from(Len(SwapFixed(m, k0)) + Len(section)))}
            : section \in served_price_section(PricedLegs(m, routes, k0), routes.shards, from(Len(SwapFixed(m, k0))))}
    IN UNION {{built \in swap(m, p.kind, p.plan) :
                 /\ RouteSafe(m, p.kind, p.plan, ix, p.hop_accounts)
                 /\ require_route_atas(setup, p.plan.hops)} : p \in UNION {plans(k) : k \in kinds}}

verify_vault_swap(tx, m, routes, request, quote, floor, account, tables, bounds) ==
    /\ TermsAgreed(m, request, quote, floor, account)
    /\ routes.main.mint = m.args.main_mint
    /\ routes.second.mint = m.args.second_mint
    /\ \E s \in decode(tx, tables) : \E budget \in compute_budget(s, bounds) :
         \E n \in SwapIndex(s, m.args.program_id) :
           \E rebuilt \in {[i \in 1..(n - 3) |-> swap_setup(m, routes, m.args.actor, s.instructions[i + 2])]} :
             /\ \A i \in DOMAIN rebuilt : rebuilt[i] # {}
             /\ \E setup \in {budget \o [i \in DOMAIN rebuilt |-> CHOOSE x \in rebuilt[i] : TRUE]} :
                  \E ix \in Rebuilt(m, routes, request, quote, account, setup, s.instructions[n]) :
                    \E ixs \in {Append(setup, ix)} : matches(s, m.args.actor, ixs)
=============================================================================
