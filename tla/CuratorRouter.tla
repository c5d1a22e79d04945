--------------------------- MODULE CuratorRouter ---------------------------
(***************************************************************************)
(* The curator's plans: the router (chain/vault/router.rs) and what the    *)
(* curator feeds it (curator.rs).                                          *)
(*                                                                         *)
(* A router is the record of what one snapshot held: [manager, account,    *)
(* main, second, staging, registry, market, sy, core, tables, shard, now,  *)
(* valid_until, base_program, setup, prices].  A plan is [plan, parts,     *)
(* rest]: "Single", "Staged" with the unstage preview in rest, or "NoFit", *)
(* the one error that makes the curator ask for a smaller quote.           *)
(***************************************************************************)
EXTENDS SwapRoutes, VaultCapital

CONSTANTS MaxAccountLocks,   \* 64
          MaxBytes           \* 1232

ComputeBudget == <<"program", "compute_budget">>
LookupTables == <<"program", "address_lookup_table">>
Clock == <<"sysvar", "clock">>
NoQuote == {}
NoFit == [plan |-> "NoFit"]

Buying(intent) == intent.way = "Buy"

-----------------------------------------------------------------------------
(* Fit. *)

TxKeys(parts, payer) ==
    {payer} \cup UNION {KeysOf(ix.accounts) \cup {ix.program} : ix \in Range(parts.instructions)}

\* Signers and programs are static; what a table lists is loaded through it.
StaticKeys(parts, payer) ==
    {payer} \cup {ix.program : ix \in Range(parts.instructions)}
    \cup (TxKeys(parts, payer) \ UNION {Range(t.addresses) : t \in Range(parts.tables)})

\* A message's bytes: one signature, its header, static keys, tables, and per instruction its indexes and data.
fit(parts, payer) ==
    [account_locks |-> Cardinality(TxKeys(parts, payer)),
     bytes |-> 105 + 32 * Cardinality(StaticKeys(parts, payer)) + 34 * Len(parts.tables)
               + FoldLeft(LAMBDA n, ix : n + 4 + Len(ix.accounts) + 9 * Len(ix.data), 0, parts.instructions)]

fits(parts, payer) ==
    LET f == fit(parts, payer)
    IN f.account_locks <= MaxAccountLocks /\ f.bytes <= MaxBytes

-----------------------------------------------------------------------------
(* Router. *)

table(rt, key) == {t.addresses : t \in {x \in Range(rt.tables) : x.key = key}}

route_prices(rt, kind) ==
    LET at(route) == price_accounts(route, price_route(rt.manager.args.program_id, route.mint), rt.shard)
    IN IF kind.op = "Staging" THEN {at(IF kind.leg = "Main" THEN rt.main ELSE rt.second) \o at(rt.staging)}
       ELSE price_section(rt.manager, rt.main, rt.second, rt.shard)

\* Setup that creates an account is kept only for accounts a hop uses.
UsedSetup(rt, hops) ==
    SelectSeq(rt.setup, LAMBDA ix : ix.program = Ata => \E h \in Range(hops) : ix.accounts[2].key \in KeysOf(h.accounts))

\* The tables of the snapshot and of the quote; {} when they disagree on one.
MergedTables(rt, quote) ==
    LET more == UNION {Range(q.tables) : q \in quote}
        known == {t.key : t \in Range(rt.tables)}
    IN {rt.tables \o SetToSeq({t \in more : t.key \notin known})
        : ok \in {TRUE} \cap {\A t \in more, u \in Range(rt.tables) : t.key = u.key => t.addresses = u.addresses}}

parts(rt, kind, amount, minimum, hops, quote) ==
    {[instructions |-> Append(UsedSetup(rt, hops), ix), tables |-> tables, kind |-> kind]
     : ix \in IF \A h \in Range(hops) : allows(rt.registry, h)
              THEN UNION {swap(rt.manager, kind,
                               [price_section |-> prices, amount_in |-> amount, minimum_out |-> minimum,
                                valid_until |-> rt.valid_until, hops |-> hops])
                          : prices \in route_prices(rt, kind)}
              ELSE {},
       tables \in MergedTables(rt, quote)}

stage_kind(rt, leg, step, generation) ==
    [op |-> "Staging", step |-> step, leg |-> leg, mint |-> rt.sy.base, program |-> rt.base_program,
     generation |-> generation]

\* Which way to go: an open slot decides it, the intent only without one.
recovery_buy(v, intent, now, maturity) ==
    IF HasSlot(v)
    THEN {/\ v.open.from_leg = "Main"
          /\ now <= maturity
          /\ v.safety = "Normal"
          /\ v.phase = "Active"
          /\ now < v.active_expiry}
    ELSE {Buying(intent) : ok \in {TRUE} \cap
            {/\ Buying(intent) => now < maturity
             /\ intent.way = "Sell" => now <= maturity
             /\ intent.way = "Redeem" => now > maturity}}

validate(rt, intent) ==
    {buy \in recovery_buy(rt.account, intent, rt.now, rt.core.maturity) :
        /\ ensure_current(rt.manager, rt.account)
        /\ rt.valid_until > rt.now
        /\ IF HasSlot(rt.account) THEN rt.account.open.mint = rt.sy.base ELSE intent.amount # 0}

check_quote(rt, q, buy, amount) ==
    /\ q.request.amount = amount
    /\ IF buy THEN check_oracle(rt.prices[1], amount, rt.prices[3], q.output)
              ELSE check_oracle(rt.prices[3], amount, rt.prices[1], q.output)

single_fitting(rt, txs) ==
    {IF fits(tx, rt.manager.args.actor) THEN [plan |-> "Single", parts |-> tx] ELSE NoFit : tx \in txs}

\* Mint SY and buy PT with it; the first hop takes the amount given unless it is patched.
BuyTail(rt, amount, patch) ==
    {<<mint, buy>> : mint \in sy_hop(rt.sy, rt.manager.addresses.vault, rt.base_program, amount, TRUE, patch),
                     buy \in UNION {trade(rt.market, rt.manager.addresses.vault, 0, TRUE, t, TRUE)
                                    : t \in table(rt, rt.market.lookup_table)}}

\* PT into SY, by merging after maturity or by selling before it, and the SY into its base.
SellHead(rt, intent) ==
    LET owner == rt.manager.addresses.vault
    IN {<<hop, redeem>>
        : hop \in IF intent.way = "Redeem"
                  THEN UNION {merge(rt.core, owner, intent.amount, rt.now, t) : t \in table(rt, rt.core.lookup_table)}
                  ELSE UNION {trade(rt.market, owner, intent.amount, FALSE, t, FALSE)
                              : t \in table(rt, rt.market.lookup_table)},
          redeem \in sy_hop(rt.sy, owner, rt.base_program, 0, FALSE, TRUE)}

\* The open slot is unstaged whole.
PlanUnstage(rt, buy, quote, minimum_out) ==
    LET slot == rt.account.open
        hops == IF buy THEN BuyTail(rt, slot.amount, FALSE)
                ELSE {<<quote_hop(q, FALSE)>> : q \in {x \in quote : check_quote(rt, x, FALSE, slot.amount)}}
        kind == stage_kind(rt, IF buy THEN "Second" ELSE "Main", "Unstage", rt.account.generation)
    IN single_fitting(rt, UNION {parts(rt, kind, slot.amount, minimum_out, h, quote) : h \in hops})

\* One rebalance if it fits, else a stage of the head and an unstage of the tail, both of which must.
PlanRoute(rt, intent, buy, q, minimum_out, minimum_staged) ==
    LET staged == IF buy THEN q.output ELSE q.request.amount
        heads == IF buy THEN {<<quote_hop(q, FALSE)>>} ELSE SellHead(rt, intent)
        tails(patch) == IF buy THEN BuyTail(rt, staged, patch) ELSE {<<quote_hop(q, patch)>>}
        next == rt.account.generation + 1
        payer == rt.manager.args.actor
        single == single_fitting(rt, UNION {
            parts(rt, [op |-> "Rebalance", second_to_main |-> ~buy], intent.amount, minimum_out, h \o t, {q})
            : h \in heads, t \in tails(TRUE)})
        stage == UNION {parts(rt, stage_kind(rt, IF buy THEN "Main" ELSE "Second", "Stage", next),
                              intent.amount, minimum_staged, h, {q}) : h \in heads}
        unstage == UNION {parts(rt, stage_kind(rt, IF buy THEN "Second" ELSE "Main", "Unstage", next),
                                staged, minimum_out, t, {q}) : t \in tails(FALSE)}
    IN IF heads = {} \/ tails(TRUE) = {} THEN {}
       ELSE IF single \ {NoFit} # {} THEN single
       ELSE IF minimum_staged = 0 \/ next > MaxU64 THEN {}
       ELSE {IF fits(s, payer) /\ fits(u, payer) THEN [plan |-> "Staged", parts |-> s, rest |-> u] ELSE NoFit
             : s \in stage, u \in unstage}

route_plan(rt, intent, quote, minimum_out, minimum_staged) ==
    UNION {IF HasSlot(rt.account) THEN PlanUnstage(rt, buy, quote, minimum_out)
           ELSE UNION {PlanRoute(rt, intent, buy, q, minimum_out, minimum_staged)
                       : q \in {x \in quote : check_quote(rt, x, buy, IF buy THEN intent.amount ELSE x.request.amount)}}
           : buy \in {b \in validate(rt, intent) : minimum_out # 0}}
=============================================================================
