---------------------------- MODULE MCVaultCycle ----------------------------
(***************************************************************************)
(* A world for VaultCycle: one vault of USDC and a principal token of a    *)
(* staked SOL, its price routes, the venues of two principal tokens, and   *)
(* the states its behaviours start from.                                   *)
(***************************************************************************)
EXTENDS VaultCycle

MCProgram == <<"acta">>
MCOperator == <<"key", "op">>
Owner == <<"key", "owner">>
Heir == <<"key", "heir">>
Backup == <<"key", "backup">>
Alice == <<"key", "alice">>
Bob == <<"key", "bob">>
MCUsers == {Alice, Bob}

Usdc == <<"mint", "usdc">>
Base == <<"mint", "base">>
Share == <<"mint", "share">>
PT(n) == <<"mint", "pt", n>>
SY(n) == <<"mint", "sy", n>>
YT(n) == <<"mint", "yt", n>>
Pool == <<"key", "pool">>
At(what, n) == <<"key", what, n>>

MCDerivationSteps ==
    (Alice :> [request |-> 1, escrow |-> 2, escrow_ata |-> 1, main |-> 1, share |-> 3])
    @@ (Bob :> [request |-> 2, escrow |-> 1, escrow_ata |-> 1, main |-> 2, share |-> 1])
MCCommonSteps == [vault |-> 1, manager |-> 2]

Mint(program) == [owner |-> program, kind |-> "mint", decimals |-> 0]
Pyth(feed) == [kind |-> "Pyth", feed |-> feed, max_age |-> 100]
Ratio == [kind |-> "AccountRatio", account |-> Pool, program_data |-> <<"key", "pool_program_data">>,
          discriminator_len |-> 1, freshness |-> "Epoch", scale_exp |-> -1]
Route(mint, count, bricks) ==
    price_route(MCProgram, mint) :>
        [owner |-> MCProgram, header |-> "price_route", mint |-> mint, max_skew |-> 2, account_count |-> count,
         bricks |-> bricks]
Feed(feed, price, exp) == pyth_price_feed_account(feed, 0) :> [price |-> price, exp |-> exp, published |-> 0]

MaturesAt == 3

\* The market, the SY, the core vault and the tables of one principal token.
Venue(n) ==
    (PT(n) :> Mint(Token))
    @@ Route(PT(n), 3, <<Pyth("sol"), Ratio, [kind |-> "MaturityDiscount", apy_mid |-> 1, maturity |-> MaturesAt]>>)
    @@ (At("market", n) :>
          [kind |-> "market_three", owner |-> Clmm, address |-> At("market", n), sy_program |-> GenericSy,
           lookup_table |-> At("market_table", n), pt |-> PT(n), sy |-> SY(n), vault |-> At("core", n),
           pt_escrow |-> At("pt_escrow", n), sy_escrow |-> At("sy_escrow", n), fee_sy |-> At("fee_sy", n),
           fee_pt |-> At("fee_pt", n), ticks |-> At("ticks", n),
           cpi |-> <<[index |-> 1, writable |-> FALSE], [index |-> 2, writable |-> TRUE]>>])
    @@ (At("sy", n) :>
          [kind |-> "generic_sy", owner |-> GenericSy, address |-> At("sy", n), mint |-> SY(n), base |-> Base,
           index |-> 11, interface |-> "spl_stake_pool", hook |-> "none", interface_accounts |-> <<Pool>>,
           emissions |-> <<>>])
    @@ (At("core", n) :>
          [kind |-> "core_vault", owner |-> Core, sy_program |-> GenericSy, sy |-> SY(n), yt |-> YT(n), pt |-> PT(n),
           escrow_sy |-> At("escrow_sy", n), yield_position |-> At("yield", n), lookup_table |-> At("core_table", n),
           authority |-> At("authority", n), start |-> 1, duration |-> MaturesAt - 1,
           cpi |-> <<[index |-> 1, writable |-> TRUE]>>])
    @@ (At("market_table", n) :>
          [kind |-> "lookup_table", owner |-> LookupTables, active |-> TRUE,
           addresses |-> <<At("core", n), At("sy", n), At("market", n), At("ticks", n), At("pt_escrow", n),
                           At("sy_escrow", n), At("fee_sy", n), At("fee_pt", n)>>])
    @@ (At("core_table", n) :>
          [kind |-> "lookup_table", owner |-> LookupTables, active |-> TRUE,
           addresses |-> <<At("sy", n), At("escrow_sy", n), At("yield", n), At("authority", n)>>])

MCStatic ==
    (Usdc :> Mint(Token)) @@ (Base :> Mint(Token))
    @@ Route(Usdc, 1, <<Pyth("usdc")>>) @@ Route(Base, 3, <<Pyth("sol"), Ratio>>)
    @@ Feed("usdc", 1, 0) @@ Feed("sol", 20, -1)
    @@ (Pool :> [kind |-> "stake_pool", owner |-> <<"program", "stake_pool">>, address |-> Pool,
                 validator_list |-> At("pool", 1), reserve |-> At("pool", 2), fee |-> At("pool", 3), mint |-> Base,
                 token_program |-> Token, epoch |-> 0, numerator |-> 11, denominator |-> 1])
    @@ (swap_venues(MCProgram) :>
          [kind |-> "swap_venues", owner |-> MCProgram,
           venues |-> <<[program |-> Jupiter, selectors |-> <<<<"route">>>>],
                        [program |-> Clmm, selectors |-> <<<<"trade">>>>],
                        [program |-> Core, selectors |-> <<<<"merge">>>>],
                        [program |-> GenericSy, selectors |-> <<<<"mint_sy">>, <<"redeem_sy">>>>]>>])
    @@ Venue(1) @@ Venue(2)

MCVenues == [mint \in {PT(1), PT(2)} |->
                [market |-> At("market", mint[3]), sy |-> At("sy", mint[3]), core |-> At("core", mint[3])]]

\* Jupiter answers small routes, large ones until asked for less, or nothing.
MCJupiterAnswers ==
    {[b \in {48, 36, 24, 12} |-> 2],
     [b \in {48, 36, 24, 12} |-> b],
     [b \in {48, 36, 24, 12} |-> 0]}

-----------------------------------------------------------------------------
(* Initial states. *)

Raw ==
    [owner |-> MCProgram, header |-> "vault", vault_id |-> <<"v">>, phase |-> 0, safety |-> 0, flags |-> 0,
     governance_authority |-> Owner, primary_delegate |-> MCOperator, pending_governance_authority |-> Default,
     fee_recipient |-> Bob, main_mint |-> Usdc, second_mint |-> PT(1), share_mint |-> Share,
     main_token_program |-> Token, second_token_program |-> Token, active_expiry |-> 0, pending_deposit_count |-> 0,
     pending_withdraw_count |-> 0, staged_kind |-> 0, staged_leg |-> 0, staged_amount |-> 0, staged_mint |-> Default,
     staged_generation |-> 0, second_leg_generation |-> 0]

None == [u \in MCUsers |-> 0]
Holding == [None EXCEPT ![Alice] = 2]

Vault == [raw |-> Raw, shares |-> Holding, deposit |-> None, withdraw |-> None, stake |-> 1, second |-> 0,
          proposals |-> <<>>, wallets |-> {}, disabled |-> FALSE, closed |-> FALSE]

Quiet == [crank |-> TRUE, requests |-> 0, trades |-> 0, others |-> 0, late |-> 0, restarts |-> 0, calls |-> 0,
          windows |-> FALSE, intents |-> {[way |-> "Sell", amount |-> 168]}]

\* A vault in its deposit and trading windows, with a late landing, a restart or a trade.
Windows(late, restarts, trades) ==
    [now |-> 0, ops |-> <<>>, chain |-> [Vault EXCEPT !.raw.flags = IF trades = 0 THEN AcceptingDeposits ELSE 0],
     left |-> [Quiet EXCEPT !.requests = 1, !.trades = trades, !.late = late, !.restarts = restarts, !.windows = TRUE]]

Trading == [Vault EXCEPT !.raw.phase = 1, !.raw.active_expiry = 3]

\* Two operators swap the legs of a trading vault, about the time it expires and its principal token matures.
Swapping(second, intents, others) ==
    [now |-> 2, ops |-> <<>>, chain |-> [Trading EXCEPT !.second = second],
     left |-> [Quiet EXCEPT !.crank = FALSE, !.calls = 1, !.others = others, !.late = 1,
                            !.intents = {[way |-> w, amount |-> IF w = "Buy" THEN 44 ELSE 168] : w \in intents}]]

\* A withdrawal waits for a swap left staged when trading ended.
LeftStaged ==
    [now |-> 2, ops |-> <<>>, left |-> Quiet,
     chain |-> Settled([Trading EXCEPT !.raw.staged_amount = 50, !.raw.staged_mint = Base, !.raw.staged_generation = 1,
                                       !.withdraw[Alice] = 1, !.shares[Alice] = 1])]

\* All shares but the manager's, or all of them, are queued for redemption in the phase and safety given.
Leaving(phase, safety, stake) ==
    [now |-> 3, ops |-> <<>>, left |-> [Quiet EXCEPT !.late = 1],
     chain |-> Settled([Vault EXCEPT !.raw.phase = phase, !.raw.safety = safety, !.stake = stake, !.shares = None,
                                     !.withdraw = [Holding EXCEPT ![Bob] = 1], !.deposit[Bob] = 1])]

Op(actor, name) == [name |-> name, actor |-> actor, optional |-> FALSE, amount |-> 1]
With(op, field, value) == (field :> value) @@ op
Maybe(op) == [op EXCEPT !.optional = TRUE]
Propose(actor, kind, value) == With(Op(actor, "Propose"), "update", [kind |-> kind, value |-> value])
Apply(kind) == With(Op(Owner, "Apply"), "kind", kind)

\* The owner winds the vault down, with or without a second leg.
Closing(second) ==
    [now |-> 3, chain |-> Settled([Vault EXCEPT !.second = second, !.deposit[Bob] = second]),
     ops |-> <<Op(Owner, "StartShutdown"), Op(Owner, "FinalizeShutdown"), Op(Owner, "Unlock"), Op(Owner, "CloseSequence")>>,
     left |-> [Quiet EXCEPT !.late = 1 - second]]

\* A vault whose second leg has no price route; its delegate is turned off.
Unpriced ==
    [now |-> 2, chain |-> [Vault EXCEPT !.raw.phase = 3, !.raw.second_mint = PT(3)], ops |-> <<Op(Owner, "Disable")>>,
     left |-> Quiet]

Fees == [performance_bps |-> 100, management_bps |-> 10]

\* The owner rolls the second leg, changes the delegate, the fees and the fee recipient, and hands the vault over.
Governing ==
    [now |-> 3, chain |-> [Vault EXCEPT !.stake = 0, !.shares = None],
     ops |-> <<With([Op(Owner, "Bootstrap") EXCEPT !.amount = MinBootstrap], "to", Bob),
               Propose(Owner, "SecondLeg", PT(2)), Apply("SecondLeg"),
               With(With(Op(Owner, "Rotate"), "to", Backup), "expires_at", 9), Op(Owner, "Disable"),
               With(With(Op(Owner, "Rotate"), "to", MCOperator), "expires_at", 9),
               Op(Owner, "TopUp"), Propose(Owner, "Fees", Fees), Apply("Fees"),
               Propose(Owner, "CapLimit", 5), With(Op(Owner, "Cancel"), "kind", "CapLimit"),
               With(Op(Owner, "FeeRecipient"), "to", Alice),
               Propose(Owner, "GovernanceAuthority", Backup), Apply("GovernanceAuthority"), Op(Owner, "Revoke"),
               Propose(Owner, "GovernanceAuthority", Heir), Apply("GovernanceAuthority"), Op(Heir, "Accept"),
               Maybe(Op(Owner, "StartShutdown"))>>,
     left |-> [Quiet EXCEPT !.calls = 1]]

MCScenarios ==
    {Windows(1, 0, 0), Windows(0, 1, 0), Windows(0, 0, 1), Swapping(0, {"Buy"}, 2),
     Swapping(1, {"Sell", "Redeem"}, 0), LeftStaged,
     Leaving(0, 1, 1), Leaving(3, 0, 0), Closing(0), Closing(1), Unpriced, Governing}
=============================================================================
