---------------------------- MODULE VaultTrading ----------------------------
(***************************************************************************)
(* The position opens and swaps a vault takes part in                      *)
(* (chain/vault/trading.rs), the spread limits (spreads.rs) and the order  *)
(* ids (orders/) they rest on.                                             *)
(*                                                                         *)
(* An order id is the tuple its preimage encodes: the layouts are          *)
(* injective and the hash is taken to be.  Terms are records; "kind" is    *)
(* "Physical", "CallSpread" or "PutSpread".                                *)
(***************************************************************************)
EXTENDS VaultAccounts

MaxHops == 4
MaxPathAccounts == 128
MaxHopAccounts == 64

InstructionsSysvar == <<"sysvar", "instructions">>

\* spreads.rs: the width is positive and a call has a positive lower strike.
validate_strikes(kind, lower, upper) == lower < upper /\ ~(kind = "CallSpread" /\ lower = 0)

validate_premium(t) ==
    /\ validate_strikes(t.kind, t.lower_strike, t.upper_strike)
    /\ t.quantity # 0 /\ t.price # 0
    /\ t.price < t.upper_strike - t.lower_strike

build_physical_order_preimage(program, t, market, maker, taker) ==
    <<"ACTA", program, t.side, t.is_put, market, t.strike, t.quantity, t.price,
      t.valid_until, maker, taker, t.nonce>>

build_spread_order_preimage(program, t, market, maker, taker) ==
    <<"ACTA", program, t.side, t.kind, market, t.lower_strike, t.quantity, t.price,
      t.valid_until, maker, taker, t.nonce, t.upper_strike>>

-----------------------------------------------------------------------------
(* Terms. *)

PhysicalValid(t) ==
    /\ 0 \notin {t.expiry_ts, t.strike, t.quantity, t.price, t.valid_until}
    /\ t.valid_until <= t.expiry_ts

SpreadValid(t) ==
    /\ validate_premium(t)
    /\ 0 \notin {t.expiry_ts, t.valid_until}
    /\ t.valid_until <= t.expiry_ts

PhysicalMarket(t, program) ==
    market_pda(program, t.underlying_mint, t.quote_mint, t.expiry_ts, t.is_put)

SpreadMarket(t, program) ==
    market_pda(program, t.underlying_mint, t.quote_mint, t.expiry_ts, t.kind = "PutSpread")

physical_order_id(t, program, maker, taker) ==
    build_physical_order_preimage(program, t, PhysicalMarket(t, program), maker, taker)

spread_order_id(t, program, maker, taker) ==
    build_spread_order_preimage(program, t, SpreadMarket(t, program), maker, taker)

physical_args(t, order) ==
    <<t.is_put, t.strike, t.quantity, t.price, t.valid_until, t.nonce, order>>

spread_args(t, order) ==
    <<t.kind, t.lower_strike, t.quantity, t.price, t.valid_until, t.nonce, order, t.upper_strike>>

\* The vault's two legs in the roles of the market's mints; none when they are other mints.
bind(m, underlying, quote) ==
    LET main == [mint |-> m.args.main_mint, program |-> m.args.main_token_program,
                 vault_ata |-> m.addresses.vault_main_ata]
        second == [mint |-> m.args.second_mint, program |-> m.args.second_token_program,
                   vault_ata |-> m.addresses.vault_second_ata]
    IN {legs \in {[underlying |-> main, quote |-> second], [underlying |-> second, quote |-> main]} :
            legs.underlying.mint = underlying /\ legs.quote.mint = quote}

collateral(legs, put) == IF put THEN legs.quote ELSE legs.underlying
settlement(legs, put) == IF put THEN legs.underlying ELSE legs.quote

PositionAddresses(m, legs, market, held, order) ==
    LET p == m.args.program_id
        position == position_of(p, order)
        config == premium_config(p, legs.quote.mint)
    IN [market |-> market, position |-> position, collateral_mint |-> held.mint,
        collateral_token_program |-> held.program,
        collateral_ata |-> ata(position, held.mint, held.program), config |-> config,
        protocol_fee_ata |-> ata(config, legs.quote.mint, legs.quote.program)]

position_addresses(m, legs, t, order) ==
    PositionAddresses(m, legs, PhysicalMarket(t, m.args.program_id),
                      collateral(legs, t.is_put), order)

\* A spread escrows quote atoms whichever way it points.
spread_addresses(m, legs, t, order) ==
    PositionAddresses(m, legs, SpreadMarket(t, m.args.program_id), legs.quote, order)

market_tail(m, legs) ==
    Reads(<<InstructionsSysvar, legs.underlying.mint, legs.quote.mint, legs.underlying.program,
            legs.quote.program, System, m.addresses.global_config>>)

-----------------------------------------------------------------------------
(* Account lists of the opens. *)

\* Slot 2 signs, slot 8 is the holder and slot 9 pays the premium.
open_as_writer(m, tag, keeper, participant, counterparty, byte, legs, order, at, args) ==
    LET a == m.addresses
    IN [order_id |-> order, addresses |-> at,
        instruction |-> VaultInstruction(m, tag,
            <<SW(keeper), SW(participant), W(a.vault), R(a.policy), R(a.delegate),
              W(a.vault_main_ata), W(a.vault_second_ata), R(counterparty),
              W(ata(counterparty, legs.quote.mint, legs.quote.program)), W(at.market),
              W(at.position), W(at.collateral_ata), R(at.config), W(at.protocol_fee_ata)>>
            \o market_tail(m, legs) \o Reads(<<m.args.share_mint, a.manager_stake_ata>>),
            Append(args, byte))]

open_as_holder(m, tag, keeper, taker, legs, order, at, args) ==
    LET a == m.addresses
    IN [order_id |-> order, addresses |-> at,
        instruction |-> VaultInstruction(m, tag,
            <<SW(keeper), SW(taker), W(a.vault), R(a.policy), R(a.delegate),
              W(legs.quote.vault_ata), W(ata(taker, legs.underlying.mint, legs.underlying.program)),
              W(ata(taker, legs.quote.mint, legs.quote.program)), W(at.market), W(at.position),
              W(at.collateral_ata), R(at.config), W(at.protocol_fee_ata)>>
            \o market_tail(m, legs) \o Reads(<<m.args.share_mint, a.manager_stake_ata>>), args)]

open_between_vaults(m, tag, keeper, h, hlegs, legs, order, at, args) ==
    LET w == m.addresses
    IN [order_id |-> order, addresses |-> at,
        instruction |-> VaultInstruction(m, tag,
            <<SW(keeper), SW(m.args.actor), W(w.vault), R(w.policy), R(w.delegate),
              W(w.vault_main_ata), W(w.vault_second_ata), W(h.addresses.vault),
              R(h.addresses.policy), R(h.addresses.delegate), W(hlegs.quote.vault_ata),
              W(at.market), W(at.position), W(at.collateral_ata), R(at.config),
              W(at.protocol_fee_ata)>>
            \o market_tail(m, legs)
            \o Reads(<<m.args.share_mint, w.manager_stake_ata, h.args.share_mint,
                       h.addresses.manager_stake_ata>>), args)]

-----------------------------------------------------------------------------
(* The opens: the set of what the builder returns, empty when it refuses.  *)

PhysicalLegs(m, t, side) ==
    {legs \in bind(m, t.underlying_mint, t.quote_mint) : PhysicalValid(t) /\ t.side = side}
SpreadLegs(m, t, side) ==
    {legs \in bind(m, t.underlying_mint, t.quote_mint) : SpreadValid(t) /\ t.side = side}

open_position_as_writer(m, keeper, maker_owner, t) ==
    LET order == physical_order_id(t, m.args.program_id, maker_owner, m.addresses.vault)
    IN {open_as_writer(m, "OpenPositionForVaultWriter", keeper, m.args.actor,
                       maker_pda(m.args.program_id, maker_owner), 0, legs, order,
                       position_addresses(m, legs, t, order), physical_args(t, order))
        : legs \in PhysicalLegs(m, t, "Sell")}

open_spread_as_writer(m, keeper, maker_owner, t) ==
    LET order == spread_order_id(t, m.args.program_id, maker_owner, m.addresses.vault)
    IN {open_as_writer(m, "OpenSpreadForVaultWriter", keeper, m.args.actor,
                       maker_pda(m.args.program_id, maker_owner), 0, legs, order,
                       spread_addresses(m, legs, t, order), spread_args(t, order))
        : legs \in SpreadLegs(m, t, "Sell")}

open_position_for_wallet_holder(m, keeper, holder, t) ==
    LET order == physical_order_id(t, m.args.program_id, m.addresses.vault, holder)
    IN {open_as_writer(m, "OpenPositionForVaultWriter", keeper, holder, holder, 1, legs, order,
                       position_addresses(m, legs, t, order), physical_args(t, order))
        : legs \in PhysicalLegs(m, t, "Buy")}

open_spread_for_wallet_holder(m, keeper, holder, t) ==
    LET order == spread_order_id(t, m.args.program_id, m.addresses.vault, holder)
    IN {open_as_writer(m, "OpenSpreadForVaultWriter", keeper, holder, holder, 1, legs, order,
                       spread_addresses(m, legs, t, order), spread_args(t, order))
        : legs \in SpreadLegs(m, t, "Buy")}

open_position_as_holder(m, keeper, taker, t) ==
    LET order == physical_order_id(t, m.args.program_id, m.addresses.vault, taker)
    IN {open_as_holder(m, "OpenPositionForVaultHolder", keeper, taker, legs, order,
                       position_addresses(m, legs, t, order), physical_args(t, order))
        : legs \in PhysicalLegs(m, t, "Sell")}

open_spread_as_holder(m, keeper, taker, t) ==
    LET order == spread_order_id(t, m.args.program_id, m.addresses.vault, taker)
    IN {open_as_holder(m, "OpenSpreadForVaultHolder", keeper, taker, legs, order,
                       spread_addresses(m, legs, t, order), spread_args(t, order))
        : legs \in SpreadLegs(m, t, "Sell")}

DistinctPair(m, h, legs, hlegs) ==
    /\ m.addresses.vault # h.addresses.vault
    /\ m.args.program_id = h.args.program_id
    /\ hlegs.underlying.program = legs.underlying.program
    /\ hlegs.quote.program = legs.quote.program

open_position_with_vault_holder(m, keeper, h, t) ==
    LET order == physical_order_id(t, m.args.program_id, h.addresses.vault, m.addresses.vault)
    IN {open_between_vaults(m, "OpenPositionBetweenVaults", keeper, h, pair[2], pair[1], order,
                            position_addresses(m, pair[1], t, order), physical_args(t, order))
        : pair \in {p \in PhysicalLegs(m, t, "Sell") \X bind(h, t.underlying_mint, t.quote_mint) :
                        DistinctPair(m, h, p[1], p[2])}}

open_spread_with_vault_holder(m, keeper, h, t) ==
    LET order == spread_order_id(t, m.args.program_id, h.addresses.vault, m.addresses.vault)
    IN {open_between_vaults(m, "OpenSpreadBetweenVaults", keeper, h, pair[2], pair[1], order,
                            spread_addresses(m, pair[1], t, order), spread_args(t, order))
        : pair \in {p \in SpreadLegs(m, t, "Sell") \X bind(h, t.underlying_mint, t.quote_mint) :
                        DistinctPair(m, h, p[1], p[2])}}

-----------------------------------------------------------------------------
(* Swaps.  A kind is [op, step, leg, mint, program, generation, second_to_main, main_prices];    *)
(* the fields an op does not use are its caller's.                                     *)

StagingAta(m, kind) == ata(m.addresses.vault, kind.mint, kind.program)
LegAta(m, leg) == IF leg = "Main" THEN m.addresses.vault_main_ata ELSE m.addresses.vault_second_ata

Staged(kind) == kind.op \in {"Staging", "RecoveryStage"}

\* Input and output token accounts; RecoveryStage is a stage out of the second leg.
swap_legs(m, kind) ==
    IF ~Staged(kind)
    THEN {IF kind.op = "Rebalance" /\ ~kind.second_to_main
          THEN <<LegAta(m, "Main"), LegAta(m, "Second")>>
          ELSE <<LegAta(m, "Second"), LegAta(m, "Main")>>}
    ELSE {pair \in {IF kind.step = "Stage" THEN <<LegAta(m, kind.leg), StagingAta(m, kind)>>
                                           ELSE <<StagingAta(m, kind), LegAta(m, kind.leg)>>} :
            /\ kind.mint \notin {m.args.main_mint, m.args.second_mint, m.args.share_mint}
            /\ kind.program \in TokenPrograms}

PathAccounts(hops) == MapThenSumSet(LAMBDA i : Len(hops[i].accounts) + 3, DOMAIN hops)

HopValid(m, hops, i, input, output) ==
    LET hop == hops[i]
        last == i = Len(hops)
    IN /\ Len(hop.accounts) \in 1..MaxHopAccounts
       /\ hop.data # <<>>
       /\ hop.amount_offset => i > 1
       /\ hop.source = (IF i = 1 THEN input ELSE hops[i - 1].destination)
       /\ last => hop.destination = output
       /\ ~last => hop.destination \notin {input, output}
       /\ \A j \in DOMAIN hop.accounts :
            /\ hop.accounts[j].signer => hop.accounts[j].key = m.addresses.vault
            /\ hop.accounts[j].key \in {input, output}
                 => hop.accounts[j].key \in {hop.source, hop.destination}
       /\ {m.addresses.vault, hop.source, hop.destination} \subseteq KeysOf(hop.accounts)

validate_swap(m, kind, plan) ==
    /\ 0 \notin {plan.amount_in, plan.minimum_out, plan.valid_until}
    /\ Len(plan.hops) \in 1..MaxHops
    /\ PathAccounts(plan.hops) <= MaxPathAccounts
    /\ \E legs \in swap_legs(m, kind) :
         \A i \in DOMAIN plan.hops : HopValid(m, plan.hops, i, legs[1], legs[2])

HopAccounts(hops) ==
    LET of(hop) == <<R(hop.program), W(hop.source), W(hop.destination)>>
                   \o [j \in DOMAIN hop.accounts |-> [hop.accounts[j] EXCEPT !.signer = FALSE]]
    IN Joined(LAMBDA i : of(hops[i]), Len(hops))

HopData(hops) ==
    Listed([i \in DOMAIN hops |-> [count |-> Len(hops[i].accounts), offset |-> hops[i].amount_offset,
                                   data |-> hops[i].data]])

SwapTag(kind) ==
    CASE kind.op = "Rebalance" -> "VaultSpotRebalance"
      [] kind.op = "Recovery" -> "RecoveryConvertToMain"
      [] kind.op = "Closing" -> "ClosingConvertToMain"
      [] OTHER -> "VaultStagingSwap"

SwapPrefix(kind) ==
    CASE kind.op = "Rebalance" -> <<kind.second_to_main>>
      [] kind.op = "Staging" -> <<kind.step, kind.leg>>
      [] kind.op = "RecoveryStage" -> <<"RecoveryStage", kind.leg>>
      [] OTHER -> <<>>

SwapFixed(m, kind) ==
    LET a == m.addresses
        g == m.args
        head == <<SR(g.actor), W(a.vault), R(a.policy)>>
        pair == <<W(a.vault_main_ata), W(a.vault_second_ata)>>
                \o Reads(<<g.main_mint, g.second_mint, g.main_token_program, g.second_token_program>>)
        main == kind.leg = "Main"
    IN Append(
        CASE kind.op = "Rebalance" ->
               head \o Reads(<<a.delegate, a.global_config>>) \o pair
                    \o Reads(<<g.share_mint, a.manager_stake_ata>>)
          [] kind.op = "Recovery" -> head \o pair \o <<R(g.share_mint)>>
          [] kind.op = "Closing" -> head \o pair \o <<R(a.global_config)>>
          [] OTHER ->
               head \o <<R(a.delegate), R(a.global_config), W(LegAta(m, kind.leg)),
                         R(IF main THEN g.main_mint ELSE g.second_mint),
                         R(IF main THEN g.main_token_program ELSE g.second_token_program),
                         W(StagingAta(m, kind)), R(kind.mint), R(kind.program),
                         R(g.share_mint), R(a.manager_stake_ata)>>,
        R(a.swap_venues))

\* A recovery stage values the main leg too, between the price section and the hops.
RecoveryTail(m, kind) ==
    IF kind.op # "RecoveryStage" THEN <<>>
    ELSE <<W(m.addresses.vault_main_ata), R(m.args.main_token_program)>> \o kind.main_prices

\* The main leg's price section of a recovery stage: not empty, and only read.
RecoveryPriced(kind) ==
    kind.op = "RecoveryStage" =>
        kind.main_prices # <<>> /\ \A i \in DOMAIN kind.main_prices :
                                      ~kind.main_prices[i].writable /\ ~kind.main_prices[i].signer

swap(m, kind, plan) ==
    {VaultInstruction(m, SwapTag(kind),
        SwapFixed(m, kind) \o plan.price_section \o RecoveryTail(m, kind) \o HopAccounts(plan.hops),
        SwapPrefix(kind) \o <<plan.amount_in, plan.minimum_out, plan.valid_until>>
        \o (IF Staged(kind) THEN <<kind.generation>> ELSE <<>>) \o <<HopData(plan.hops)>>)
     : ok \in {TRUE} \cap {validate_swap(m, kind, plan) /\ RecoveryPriced(kind)}}
=============================================================================
