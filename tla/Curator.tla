------------------------------ MODULE Curator ------------------------------
(***************************************************************************)
(* The curator (chain/vault/curator.rs): the manifest it discovers once,   *)
(* the plan it makes of one snapshot of it and of Jupiter's answers, and   *)
(* the checks by which it carries a staged plan through.                   *)
(*                                                                         *)
(* A snapshot is a function from keys to accounts.                         *)
(***************************************************************************)
EXTENDS CuratorRouter

CONSTANTS SlippageBps, LifetimeSecs

QuoteBudgets == <<48, 36, 24, 12>>

fetch_snapshot(accounts, keys) == [k \in keys \cap DOMAIN accounts |-> accounts[k]]

account(snapshot, key) == {snapshot[k] : k \in {key} \cap DOMAIN snapshot}
account_data(snapshot, key, owner) == {a \in account(snapshot, key) : a.owner = owner}

\* A lookup table that is not being deactivated.
lookup_table(snapshot, key) ==
    {[key |-> key, addresses |-> a.addresses]
     : a \in {x \in account_data(snapshot, key, LookupTables) : x.kind = "lookup_table" /\ x.active}}

\* Every table a quote names holds on chain what the quote says.
verify_quote_tables(q, accounts) ==
    LET snapshot == fetch_snapshot(accounts, {t.key : t \in Range(q.tables)})
    IN \A t \in Range(q.tables) : t \in lookup_table(snapshot, t.key)

route_at(snapshot, key, program) == UNION {parse_route(a, program) : a \in account(snapshot, key)}

MarketAt(snapshot, key) == UNION {parse_market(key, a) : a \in account_data(snapshot, key, Clmm)}
SyAt(snapshot, key) == UNION {parse_sy(a) : a \in account_data(snapshot, key, GenericSy)}
CoreAt(snapshot, key) == UNION {parse_core(key, a) : a \in account_data(snapshot, key, Core)}
VaultAt(snapshot, key, program) == UNION {vault_from_account(a, program) : a \in account(snapshot, key)}

-----------------------------------------------------------------------------
(* Config::discover. *)

\* The venue is the one that trades the vault's second leg.
VenueMatches(v, m, s, c) ==
    /\ m.pt = v.second_mint
    /\ m.sy = s.mint
    /\ m.vault = c.address
    /\ c.pt = m.pt
    /\ c.sy = s.mint

\* Accounts the plans may have to create: the base, the SY and the YT account of the vault.
AtaSetup(actor, vault, base_program, s, c) ==
    <<create_ata_idempotent(actor, vault, s.base, base_program),
      create_ata_idempotent(actor, vault, s.mint, Token),
      create_ata_idempotent(actor, vault, c.yt, Token)>>

\* The manifest, once each route prices the mint it stands for.
Manifest(mg, v, m, s, c, base_program, routes, shard, setup) ==
    {mg.addresses.vault, m.address, s.address, c.address, Clock, mg.addresses.swap_venues, m.lookup_table,
     c.lookup_table, v.main_mint, v.second_mint, s.base}
    \cup Range(s.interface_accounts)
    \cup UNION {KeysOf(price_accounts(r.route, r.key, shard)) : r \in routes}
    \cup {ix.accounts[2].key : ix \in Range(setup)}

discover(accounts, program, vault, actor, at, shard) ==
    LET first == fetch_snapshot(accounts, {vault, at.market, at.sy, at.core})
        found == {<<v, mg, m, s, c>> \in VaultAt(first, vault, program)
                    \X (UNION {from_vault(program, actor, v) : v \in VaultAt(first, vault, program)})
                    \X MarketAt(first, at.market) \X SyAt(first, at.sy) \X CoreAt(first, at.core) :
                    mg.addresses.vault = vault /\ VenueMatches(v, m, s, c)}
        of(v, mg, m, s, c) ==
            LET mints == {v.main_mint, v.second_mint, s.base}
                second == fetch_snapshot(accounts, {price_route(program, x) : x \in mints} \cup {s.base})
                routes == UNION {{[key |-> price_route(program, x), route |-> r]
                                  : r \in {y \in route_at(second, price_route(program, x), program) : y.mint = x}}
                                 : x \in mints}
            IN {[manager |-> mg, market |-> at.market, sy |-> at.sy, core |-> at.core, shard |-> shard,
                 keys |-> Manifest(mg, v, m, s, c, base.owner, routes, shard, AtaSetup(actor, vault, base.owner, s, c)),
                 ata_setup |-> AtaSetup(actor, vault, base.owner, s, c)]
                : base \in {b \in account(second, s.base) : Cardinality(routes) = Cardinality(mints)}}
    IN UNION {of(f[1], f[2], f[3], f[4], f[5]) : f \in found}

\* Curator::new.
CuratorValid(cfg, signer) ==
    /\ signer = cfg.manager.args.actor
    /\ SlippageBps <= 100
    /\ LifetimeSecs # 0

-----------------------------------------------------------------------------
(* Curator::plan. *)

missing_ata_setup(setup, snapshot) == SelectSeq(setup, LAMBDA ix : ix.accounts[2].key \notin DOMAIN snapshot)

discounted(value) == (value * (10000 - SlippageBps)) \div 10000

\* What a sale of the second leg is expected to bring in the base mint.
sell_quote_amount(input, amount, base) == {discounted(n) : n \in convert(input, amount, base)}

\* StakePool::update, when the pool has not been brought to the clock's epoch.
update_pool(p) ==
    update_stake_pool_balance(p.owner, <<p.address, p.validator_list, p.reserve, p.fee, p.mint, p.token_program>>)

PoolSetup(snapshot, s, base_program, epoch) ==
    {IF p.epoch < epoch THEN <<update_pool(p)>> ELSE <<>>
     : p \in {x \in UNION {parse_stake_pool(a) : a \in account(snapshot, s.interface_accounts[1])} :
                x.mint = s.base /\ x.token_program = base_program}}

\* The midpoints of the main, the second and the staging mint.
Priced3(mg, s, snapshot, shard, now) ==
    LET price(mint) == UNION {evaluate(r, snapshot, shard, now)
                              : r \in route_at(snapshot, price_route(mg.args.program_id, mint), mg.args.program_id)}
    IN price(mg.args.main_mint) \X price(mg.args.second_mint) \X price(s.base)

\* The router of a snapshot of the manifest: every dependency present, decoded and priced.
RouterOf(cfg, snapshot) ==
    LET mg == cfg.manager
        program == mg.args.program_id
        of(v, m, s, c, clock, base) ==
            {[manager |-> mg, account |-> v, main |-> p[1], second |-> p[2], staging |-> p[3], registry |-> reg,
              market |-> m, sy |-> s, core |-> c, tables |-> <<t[1], t[2]>>, shard |-> cfg.shard, now |-> clock.now,
              valid_until |-> clock.now + LifetimeSecs, base_program |-> base.owner,
              setup |-> <<Instruction(ComputeBudget, <<>>, <<"set_compute_unit_limit", 1400000>>)>>
                        \o missing_ata_setup(cfg.ata_setup, snapshot) \o pool,
              prices |-> q]
             : p \in route_at(snapshot, mg.addresses.main_price_route, program)
                     \X route_at(snapshot, mg.addresses.second_price_route, program)
                     \X route_at(snapshot, price_route(program, s.base), program),
               q \in Priced3(mg, s, snapshot, cfg.shard, clock.now),
               reg \in UNION {parse_venues(a) : a \in account_data(snapshot, mg.addresses.swap_venues, program)},
               t \in lookup_table(snapshot, m.lookup_table) \X lookup_table(snapshot, c.lookup_table),
               pool \in PoolSetup(snapshot, s, base.owner, clock.epoch)}
    IN UNION {of(x[1], x[2], x[3], x[4], x[5], y)
              : x \in VaultAt(snapshot, mg.addresses.vault, program) \X MarketAt(snapshot, cfg.market)
                      \X SyAt(snapshot, cfg.sy) \X CoreAt(snapshot, cfg.core) \X account(snapshot, Clock),
                y \in UNION {account(snapshot, s.base) : s \in SyAt(snapshot, cfg.sy)}}

\* What the curator asks Jupiter for: the way in from the main leg, or the way out to it.
QuoteRequest(rt, buy, amount) ==
    LET a == rt.manager.addresses
        base == ata(a.vault, rt.sy.base, rt.base_program)
        main == rt.account.main_mint
    IN [owner |-> a.vault, payer |-> rt.manager.args.actor, amount |-> amount, slippage_bps |-> SlippageBps,
        input_mint |-> IF buy THEN main ELSE rt.sy.base, output_mint |-> IF buy THEN rt.sy.base ELSE main,
        source |-> IF buy THEN a.vault_main_ata ELSE base, destination |-> IF buy THEN base ELSE a.vault_main_ata]

QuoteAmounts(rt, intent, buy) ==
    IF HasSlot(rt.account) /\ ~buy THEN {rt.account.open.amount}
    ELSE IF buy THEN {intent.amount}
    ELSE sell_quote_amount(rt.prices[2], intent.amount, rt.prices[3])

\* Planning with one quote: the least it must bring, and the least it must stage.
PlanQuoted(rt, intent, buy, q) ==
    LET minimum_out == IF buy THEN {discounted(n) : n \in convert(rt.prices[1], intent.amount, rt.prices[2])}
                       ELSE {q.minimum}
        staged == IF buy THEN q.minimum ELSE q.request.amount
    IN UNION {route_plan(rt, intent, {q}, out, staged) : out \in minimum_out}

\* Smaller and smaller quotes, until one fits or the planner refuses for another reason.
fit_with_quotes(Plans(_)) ==
    LET at == SelectInSeq(QuoteBudgets, LAMBDA b : Plans(b) # {NoFit})
    IN IF at = 0 THEN {} ELSE Plans(QuoteBudgets[at])

\* What is left of the answers once they are read and their lookup tables found on chain.
VerifiedQuotes(accounts, request, responses) ==
    {q \in UNION {into_quote(r, request) : r \in responses} : verify_quote_tables(q, accounts)}

\* A slot that is open on the way in needs no quote to be unstaged.
PlanOpenSlot(rt, intent) ==
    UNION {route_plan(rt, intent, NoQuote, discounted(n), 0)
           : n \in convert(rt.prices[3], rt.account.open.amount, rt.prices[2])} \ {NoFit}

\* Answer: for each quote budget what Jupiter builds for a request.
curator_plan(cfg, accounts, intent, Answer(_, _)) ==
    LET rts == RouterOf(cfg, fetch_snapshot(accounts, cfg.keys))
        quoted(rt, buy, request) ==
            fit_with_quotes(LAMBDA b : UNION {PlanQuoted(rt, intent, buy, q)
                                              : q \in VerifiedQuotes(accounts, request, Answer(request, b))})
        of(rt, buy) ==
            IF HasSlot(rt.account) /\ buy THEN PlanOpenSlot(rt, intent)
            ELSE UNION {quoted(rt, buy, QuoteRequest(rt, buy, n)) : n \in QuoteAmounts(rt, intent, buy)}
    IN UNION {UNION {of(rt, buy) : buy \in validate(rt, intent)} : rt \in rts}

-----------------------------------------------------------------------------
(* execute. *)

\* Mutant of Completes: any unstage will do.
CompletesAny(stage, next) == next.plan = "Single" /\ next.parts.kind.op = "Staging" /\ next.parts.kind.step = "Unstage"

\* The refreshed plan unstages the very slot the confirmed stage opened.
Completes(stage, next) ==
    /\ next.plan = "Single"
    /\ next.parts.kind.op = "Staging"
    /\ next.parts.kind.step = "Unstage"
    /\ next.parts.kind.mint = stage.mint
    /\ next.parts.kind.program = stage.program
    /\ next.parts.kind.generation = stage.generation

\* A single transaction that unstages finished an older slot; so did a completion into the leg staged from.
OutcomeOfSingle(kind) == IF kind.op = "Staging" /\ kind.step = "Unstage" THEN "Recovered" ELSE "Executed"
OutcomeOfStaged(stage, completion) == IF completion.leg = stage.leg THEN "Recovered" ELSE "Executed"
=============================================================================
