-------------------------- MODULE VaultScenarios --------------------------
(***************************************************************************)
(* A small deployment for VaultSale: two vaults over the same pair, one    *)
(* maker, and for every job the message the protocol calls for next to     *)
(* messages that differ from it in one respect.                            *)
(***************************************************************************)
EXTENDS SaleTerms, ServedSwap

mint(name) == <<"mint", name>>
wallet(name) == <<"wallet", name>>

MCProgram == <<"program", "acta">>
MCKeeper == wallet("keeper")
MCOperator == wallet("operator")

VaultAccount(id, share, delegate, staging) ==
    [vault_id |-> wallet(id), primary_delegate |-> delegate, main_mint |-> mint("SOL"),
     second_mint |-> mint("USDC"), share_mint |-> mint(share), main_token_program |-> Token,
     second_token_program |-> Token2022, second_leg_generation |-> 1, staging |-> staging]

EmptySlot == [amount |-> 0, mint |-> Default, generation |-> 4]
FullSlot == [amount |-> 30, mint |-> mint("PT"), generation |-> 5]

Own == VaultAccount("own", "own_shares", MCOperator, EmptySlot)
Peer == VaultAccount("peer", "peer_shares", wallet("peer"), EmptySlot)
ManagerOf(v, actor) == CHOOSE m \in from_vault(MCProgram, actor, v) : TRUE
Writer == ManagerOf(Own, MCOperator)
Holder == ManagerOf(Peer, wallet("peer"))

MCVaults == Holder.addresses.vault :> Peer
MCMakers == wallet("maker") :> [owner |-> wallet("maker"), quote_signer |-> wallet("hot")]

MCTable ==
    <<InstructionsSysvar, mint("SOL"), mint("USDC"), Writer.addresses.vault_main_ata,
      Writer.addresses.vault_second_ata, Writer.addresses.policy, Ed25519, mint("PT")>>
MCTables == wallet("table") :> MCTable
MCBounds == [limit |-> 6, price |-> 5]

-----------------------------------------------------------------------------
(* Messages. *)

\* Each key once, in the order of its first use.
Distinct(keys) ==
    LET at == SelectSeq([i \in DOMAIN keys |-> i], LAMBDA i : \A j \in 1..(i - 1) : keys[j] # keys[i])
    IN Listed([i \in DOMAIN at |-> keys[at[i]]])

Position(keys, key) == CHOOSE i \in DOMAIN keys : keys[i] = key

FlatMap(op(_), ixs) == FoldLeft(LAMBDA acc, ix : acc \o op(ix), <<>>, ixs)

The(S) == CHOOSE x \in S : TRUE

\* A v0 message: signers first, writable before read-only, the keys of "looked" through one table.
Laid(ixs, groups, static, all, contents) ==
    LET in_table(ks) == Listed([i \in DOMAIN ks |-> Position(contents, ks[i])])
        signers == Len(groups[1]) + Len(groups[2])
    IN [version0 |-> TRUE, signatures |-> signers, required |-> signers,
        ro_signed |-> Len(groups[2]), ro_unsigned |-> Len(groups[4]), static |-> static,
        lookups |-> IF static = all THEN <<>>
                    ELSE <<[table |-> wallet("table"), writable |-> in_table(groups[5]), readonly |-> in_table(groups[6])]>>,
        ixs |-> Listed([i \in DOMAIN ixs |->
                   [program |-> Position(all, ixs[i].program),
                    accounts |-> Listed([j \in DOMAIN ixs[i].accounts |-> Position(all, ixs[i].accounts[j].key)]),
                    data |-> ixs[i].data]]),
        wire_len |-> 1, trailing |-> FALSE]

Groups(keys, signers, written, looked) ==
    LET pick(s, w, l) == SelectSeq(keys, LAMBDA k : (k \in signers) = s /\ (k \in written) = w /\ (k \in looked) = l)
    IN <<pick(TRUE, TRUE, FALSE), pick(TRUE, FALSE, FALSE), pick(FALSE, TRUE, FALSE), pick(FALSE, FALSE, FALSE),
         pick(FALSE, TRUE, TRUE), pick(FALSE, FALSE, TRUE)>>

With(S, op(_)) == The({op(x) : x \in S})

Compile(payer, list, among, extra) ==
    With({list}, LAMBDA ixs : With({among}, LAMBDA looked : With({MCTable}, LAMBDA contents :
    With({<<SW(payer)>> \o extra \o FlatMap(LAMBDA ix : ix.accounts, ixs)
          \o FlatMap(LAMBDA ix : <<R(ix.program)>>, ixs)}, LAMBDA metas :
    With({Listed([i \in DOMAIN metas |-> metas[i].key])}, LAMBDA uses :
    With({{uses[i] : i \in {j \in DOMAIN metas : metas[j].signer}}}, LAMBDA signers :
    With({{uses[i] : i \in {j \in DOMAIN metas : metas[j].writable}}}, LAMBDA written :
    With({Distinct(uses)}, LAMBDA keys :
    With({Groups(keys, signers, written, looked)}, LAMBDA g :
    With({g[1] \o g[2] \o g[3] \o g[4]}, LAMBDA static :
    With({static \o g[5] \o g[6]}, LAMBDA all : Laid(ixs, g, static, all, contents))))))))))))

Budget(limit, price) ==
    <<Instruction(ComputeBudget, <<>>, <<"limit", limit>>), Instruction(ComputeBudget, <<>>, <<"price", price>>)>>

Transfer(from) == Instruction(System, <<SW(from), W(wallet("third"))>>, <<"transfer">>)

Common == Range(MCTable) \ {Ed25519}

Swapped(ixs, i) == [ixs EXCEPT ![i] = ixs[i + 1], ![i + 1] = ixs[i]]

\* A message to compile: the payer, the instructions, the keys looked up and the keys mentioned beyond
\* what the instructions need.
Draft(payer, ixs, looked, extra) == [payer |-> payer, ixs |-> ixs, looked |-> looked, extra |-> extra]

\* The ways in which a message may differ whatever it carries.
CommonDrafts(payer, ixs) ==
    LET draft(list) == Draft(payer, list, Common, <<>>)
        mentions(meta) == Draft(payer, ixs, Common, <<meta>>)
    IN [Honest |-> draft(ixs),
        Limit |-> draft([ixs EXCEPT ![1].data[2] = 7]),
        Price |-> draft([ixs EXCEPT ![2].data[2] = 6]),
        Payer |-> Draft(wallet("third"), ixs, Common, <<>>),
        Extra |-> draft(Append(ixs, Transfer(MCOperator))),
        Missing |-> draft(SubSeq(ixs, 1, 2) \o SubSeq(ixs, 4, Len(ixs))),
        Reordered |-> draft(Swapped(ixs, Len(ixs) - 1)),
        Promoted |-> mentions(W(Writer.addresses.delegate)),
        PromotedLookup |-> mentions(W(Writer.addresses.policy)),
        Signer |-> mentions(SR(wallet("third"))),
        Unused |-> mentions(R(wallet("third"))),
        Index |-> draft(ixs), Unknown |-> draft(ixs), Twice |-> draft(ixs), Header |-> draft(ixs),
        Trailing |-> draft(ixs), Long |-> draft(ixs)]

\* The message of a draft; some differ from a draft only in their encoding.
Encoded(name, tx) ==
    CASE name = "Index" -> [tx EXCEPT !.lookups[1].readonly[1] = 99]
      [] name = "Unknown" -> [tx EXCEPT !.lookups[1].table = wallet("elsewhere")]
      [] name = "Twice" -> [tx EXCEPT !.static = Append(@, mint("SOL")), !.ro_unsigned = @ + 1]
      [] name = "Header" -> [tx EXCEPT !.ro_signed = tx.required]
      [] name = "Trailing" -> [tx EXCEPT !.trailing = TRUE]
      [] name = "Long" -> [tx EXCEPT !.wire_len = MaxWire + 1]
      [] OTHER -> tx

Message(j, name) ==
    With({j.drafts[name]}, LAMBDA d :
    With({Compile(d.payer, d.ixs, d.looked, d.extra)}, LAMBDA tx : Encoded(name, tx)))

-----------------------------------------------------------------------------
(* Opens. *)

Market(put) ==
    [underlying_mint |-> mint("SOL"), quote_mint |-> mint("USDC"), expiry_ts |-> 9, is_put |-> put]

MarketPda(m) == market_pda(MCProgram, m.underlying_mint, m.quote_mint, m.expiry_ts, m.is_put)

SaleOf(product, put, strike, upper) ==
    [op |-> "Sale", epoch |-> 1, rfq |-> <<"rfq", 1>>, market |-> Market(put), market_pda |-> MarketPda(Market(put)),
     terms |-> [product |-> product, strike |-> strike, upper |-> upper], quantity |-> 3, writer |-> Writer]

OpenIxs(intent) ==
    With(OpenOf(intent), LAMBDA open :
       Budget(6, 5) \o TakerAta(intent) \o CollateralAta(intent, open)
       \o <<Instruction(Ed25519, <<>>, <<"inline", QuoteSigner(intent),
                       SignatureOf(QuoteSigner(intent), open.order_id), open.order_id>>), open.instruction>>)

OpenDrafts(ixs, other) ==
    LET n == Len(ixs)
        draft(list) == Draft(MCKeeper, list, Common, <<>>)
    IN CommonDrafts(MCKeeper, ixs) @@
       [Terms |-> draft(other),
        Signature |-> draft([ixs EXCEPT ![n - 1].data[3] = SignatureOf(wallet("third"), ixs[n - 1].data[4])]),
        Account |-> draft([ixs EXCEPT ![n].accounts[6].key = wallet("third")]),
        Looked |-> Draft(MCKeeper, ixs, Range(MCTable), <<>>),
        Static |-> Draft(MCKeeper, ixs, {}, <<>>)]

\* What is served for an intent: its own order, or one of another size.
OpenJob(intent) ==
    With({Listed([i \in 1..2 |-> OpenIxs([intent EXCEPT !.terms.quantity = i + 2])])}, LAMBDA ixs :
        [order |-> ixs[1][Len(ixs[1]) - 1].data[4],
         other |-> ixs[2][Len(ixs[2]) - 1].data[4],
         drafts |-> OpenDrafts(ixs[1], ixs[2])])

\* A sale job: the agreed quote, one of other terms, and one whose order is not its terms'.
Sales ==
    [CoveredCall |-> <<"CoveredCall", FALSE, 3, 0, wallet("maker")>>,
     PutSpread |-> <<"PutSpread", TRUE, 3, 7, wallet("maker")>>,
     SecuredPut |-> <<"CashSecuredPut", TRUE, 3, 0, Holder.addresses.vault>>,
     CashPut |-> <<"CashPut", TRUE, 7, 7, Holder.addresses.vault>>,
     OtherMarket |-> <<"CoveredCall", FALSE, 3, 0, wallet("maker")>>,
     NoWidth |-> <<"CallSpread", FALSE, 3, 7, wallet("maker")>>]

SaleJob(name) ==
    With({Sales[name]}, LAMBDA p :
    With({SaleOf(p[1], p[2], p[3], p[4])}, LAMBDA s :
    With({[rfq |-> s.rfq, maker |-> p[5], terms |-> s.terms, side |-> "Sell", price |-> 2, valid_until |-> 5,
           nonce |-> 1, quantity |-> s.quantity]}, LAMBDA quote :
    With({OpenJob(The({sale_intent(c, s.writer, MCKeeper, signed_terms(s, quote)) : c \in load(p[5])}))}, LAMBDA open :
        [s EXCEPT !.market.is_put = (name = "OtherMarket") # @,
                  !.terms.upper = IF name = "NoWidth" THEN s.terms.strike ELSE @] @@
        [quotes |-> [Agreed |-> quote @@ [order_id |-> open.order],
                     Terms |-> [quote EXCEPT !.terms.strike = 9] @@ [order_id |-> open.other],
                     Order |-> [quote EXCEPT !.price = 1, !.quantity = 4] @@ [order_id |-> open.order]],
         drafts |-> open.drafts,
         agreed |-> [market |-> s.market_pda, quantity |-> s.quantity, price |-> 2, maker |-> p[5],
                     taker |-> s.writer.addresses.vault]]))))

\* A fill or a buy the operator is a wallet party to, against the peer's vault.
Parties ==
    [FillPhysical |-> <<"Fill", "CoveredCall">>, FillSpread |-> <<"Fill", "CallSpread">>,
     BuyPhysical |-> <<"Buy", "CoveredCall">>, BuySpread |-> <<"Buy", "CallSpread">>]

PartyJob(name) ==
    With({Parties[name]}, LAMBDA p :
    With({signed_terms(SaleOf(p[2], FALSE, 3, 7),
                       [side |-> IF p[1] = "Fill" THEN "Sell" ELSE "Buy", price |-> 2, valid_until |-> 5,
                        nonce |-> 1, quantity |-> 3])}, LAMBDA terms :
    With({[op |-> p[1], keeper |-> MCKeeper, taker |-> MCOperator, terms |-> terms]
          @@ (IF p[1] = "Fill" THEN [holder |-> Holder] ELSE [writer |-> Holder])}, LAMBDA intent :
    With({OpenJob(intent)}, LAMBDA open :
        [op |-> p[1], epoch |-> 1, intent |-> intent,
         quotes |-> [Agreed |-> [order_id |-> open.order], Order |-> [order_id |-> open.other]],
         drafts |-> open.drafts,
         agreed |-> [market |-> MarketPda(Market(FALSE)), quantity |-> 3, price |-> 2,
                     maker |-> Holder.addresses.vault, taker |-> MCOperator]]))))

-----------------------------------------------------------------------------
(* Swaps. *)

pyth(feed) == [kind |-> "Pyth", feed |-> feed]
Routes ==
    [main |-> [mint |-> mint("SOL"), bricks |-> <<pyth("SOL")>>],
     second |-> [mint |-> mint("USDC"),
                 bricks |-> <<[kind |-> "AccountRatio", account |-> wallet("pool"), program_data |-> wallet("code")],
                              [kind |-> "ClampMax"]>>],
     staging |-> {[mint |-> mint("PT"), bricks |-> <<pyth("PT")>>]},
     shards |-> {1, 2}]

Prices(kind, shard) ==
    FlatMap(LAMBDA leg : price_accounts(leg.route, leg.address, shard), PricedLegs(Writer, Routes, kind))

Transit == ata(Writer.addresses.vault, mint("JUP"), Token)
Cpi(source, destination) ==
    <<R(Writer.addresses.vault), W(source), W(destination), W(wallet("amm"))>>

PlanOf(kind, q, shard) ==
    LET legs == CHOOSE l \in swap_legs(Writer, kind) : TRUE
        hop(program, a, b) == [program |-> wallet(program), source |-> a, destination |-> b,
                               accounts |-> Cpi(a, b), data |-> <<"swap">>, amount_offset |-> FALSE]
    IN [price_section |-> Prices(kind, shard), amount_in |-> q.in_amount, minimum_out |-> q.minimum_out,
        valid_until |-> q.valid_until, hops |-> <<hop("venue1", legs[1], Transit), hop("venue2", Transit, legs[2])>>]

Setup ==
    <<create_ata_idempotent(MCOperator, Writer.addresses.vault, mint("JUP"), Token),
      update_stake_pool_balance(<<"program", "stake_pool">>,
         <<wallet("pool"), wallet("validators"), wallet("reserve"), wallet("fee"), mint("LST"), Token>>)>>

SwapIx(kind, q, shard) == The(UNION {swap(Writer, kind, plan) : plan \in {PlanOf(kind, q, shard)}})

\* One key of a hop replaced, or given other privileges.
Rekey(ix, from, to) ==
    [ix EXCEPT !.accounts = Listed([i \in DOMAIN @ |-> IF @[i].key = from THEN to ELSE @[i]])]

SwapDrafts(ixs, shard2, shard3, partial, slipped, staged) ==
    LET n == Len(ixs)
        ix == ixs[n]
        share == ata(Writer.addresses.vault, Writer.args.share_mint, Token)
        draft(list) == Draft(MCOperator, list, Common, <<>>)
        with(i) == draft([ixs EXCEPT ![n] = i])
        creates(m) == draft(Budget(6, 5) \o <<create_ata_idempotent(MCOperator, Writer.addresses.vault, m, Token)>>
                            \o SubSeq(ixs, 3, n))
    IN CommonDrafts(MCOperator, ixs) @@
       [Shard |-> with(shard2),
        NoShard |-> with(shard3),
        Partial |-> with(partial),
        Slipped |-> with(slipped),
        Generation |-> with([ix EXCEPT !.data = Listed([i \in DOMAIN @ |-> IF staged /\ i = GenerationAt THEN 9 ELSE @[i]])]),
        Shares |-> with(Rekey(ix, wallet("amm"), W(share))),
        ShareMint |-> with(Rekey(ix, wallet("amm"), R(Writer.args.share_mint))),
        PayerRouted |-> with(Rekey(ix, wallet("amm"), R(MCOperator))),
        Pinned |-> with(Rekey(ix, wallet("amm"), W(Writer.addresses.swap_venues))),
        Elsewhere |-> with([ix EXCEPT !.accounts[Len(ix.accounts) - 4].key = wallet("third")]),
        Truncated |-> with([ix EXCEPT !.accounts = SubSeq(@, 1, Len(@) - 1)]),
        LegCreated |-> creates(mint("SOL")),
        UnusedCreated |-> creates(mint("ORCA")),
        CreatedTwice |-> creates(mint("JUP")),
        Pool |-> draft([ixs EXCEPT ![4] = Rekey(@, wallet("pool"), W(wallet("third")))]),
        Other |-> draft([ixs EXCEPT ![4] = Transfer(MCOperator)])]

Swaps ==
    [BuySecond |-> <<"Rebalance", "MainToSecond", "None", EmptySlot>>,
     SellSecond |-> <<"Rebalance", "SecondToMain", "None", EmptySlot>>,
     Recover |-> <<"Recovery", "SecondToMain", "None", EmptySlot>>,
     Close |-> <<"Closing", "SecondToMain", "None", EmptySlot>>,
     Stage |-> <<"Rebalance", "MainToSecond", "Stage", EmptySlot>>,
     Unstage |-> <<"Rebalance", "SecondToMain", "Unstage", FullSlot>>,
     RecoverStage |-> <<"Recovery", "SecondToMain", "Stage", EmptySlot>>]

SwapKind(asked, quote, slot) ==
    With(KindOf(asked), LAMBDA blank :
        IF quote.staging = "None" THEN blank
        ELSE [blank EXCEPT !.op = IF asked.mode = "Recovery" /\ quote.staging = "Stage" THEN "RecoveryStage" ELSE "Staging",
                           !.step = quote.staging, !.leg = StagingLeg(quote, asked),
                           !.mint = mint("PT"), !.program = Token,
                           !.generation = SlotGeneration(quote.staging, slot),
                           !.main_prices = price_accounts(Routes.main, Writer.addresses.main_price_route, 1)])

SwapJob(name) ==
    With({Swaps[name]}, LAMBDA p :
    With({[vault |-> Writer.addresses.vault, id |-> 1, mode |-> p[1], direction |-> p[2], amount |-> 40,
           slippage_bps |-> 5]}, LAMBDA asked :
    With({[id |-> 1, mode |-> p[1], staging |-> p[3], in_amount |-> IF p[3] = "Unstage" THEN p[4].amount ELSE 40,
           quoted_out |-> 100, minimum_out |-> 96, valid_until |-> 5]}, LAMBDA quote :
    With({[Agreed |-> quote,
           Partial |-> [quote EXCEPT !.in_amount = 20],
           Slipped |-> [quote EXCEPT !.quoted_out = 98, !.minimum_out = 94],
           Below |-> [quote EXCEPT !.minimum_out = 94],
           Id |-> [quote EXCEPT !.id = 2],
           Direct |-> [quote EXCEPT !.staging = IF @ = "None" THEN "Unstage" ELSE "None"],
           Long |-> [quote EXCEPT !.valid_until = MaxU64 + 1]]}, LAMBDA quotes :
    With({SwapKind(asked, quote, p[4])}, LAMBDA kind :
    With({Listed([i \in 1..5 |-> SwapIx(kind, quotes[<<"Agreed", "Agreed", "Agreed", "Partial", "Slipped">>[i]],
                                       <<1, 2, 3, 1, 1>>[i])])}, LAMBDA ix :
        [op |-> "Swap", epoch |-> 1, writer |-> Writer, routes |-> Routes, request |-> asked, floor |-> 95,
         account |-> [Own EXCEPT !.staging = p[4]], staging_mint |-> mint("PT"), quotes |-> quotes,
         drafts |-> SwapDrafts(Budget(6, 5) \o Append(Setup, ix[1]), ix[2], ix[3], ix[4], ix[5], Staged(kind))]))))))

-----------------------------------------------------------------------------

JobNames == DOMAIN Sales \cup DOMAIN Parties \cup DOMAIN Swaps

JobOf(name) ==
    CASE name \in DOMAIN Sales -> SaleJob(name)
      [] name \in DOMAIN Parties -> PartyJob(name)
      [] name \in DOMAIN Swaps -> SwapJob(name)

\* Which transaction comes with which quote: every one with the agreed quote, and the agreed one, or the
\* one made for it, with every other quote.
Served(j) ==
    {<<"Agreed", n>> : n \in DOMAIN j.drafts}
        \cup UNION {{<<q, n>> : n \in {"Honest", q} \cap DOMAIN j.drafts} : q \in DOMAIN j.quotes}
=============================================================================
