----------------------------- MODULE SwapRoutes -----------------------------
(***************************************************************************)
(* The venues a curator swaps through (chain/vault/venues/): the registry  *)
(* of allowed programs, the Exponent market, SY and core vault, and the    *)
(* Jupiter quote.                                                          *)
(*                                                                         *)
(* Instruction data is <<selector, amount, ...>>; an amount offset names   *)
(* the amount, so a selector of more than one element covers it.  A stored *)
(* account is the record its layout spells; "kind" is its discriminator.   *)
(***************************************************************************)
EXTENDS VaultTrading, PriceRoutes

CONSTANT IndexOne       \* INDEX_ONE: the fixed point of a SY index

MaxVenues == 32
MaxSelectors == 8
Clmm == <<"program", "clmm">>
GenericSy == <<"program", "generic_sy">>
Core == <<"program", "exponent_core">>
Jupiter == <<"program", "jupiter">>
EventAuthority(program) == <<"event_authority", program>>

parse_venues(raw) ==
    {raw.venues : ok \in {TRUE} \cap
        {/\ raw.kind = "swap_venues"
         /\ Len(raw.venues) <= MaxVenues
         /\ \A i \in DOMAIN raw.venues :
              /\ Len(raw.venues[i].selectors) \in 1..MaxSelectors
              /\ \A j \in DOMAIN raw.venues[i].selectors : raw.venues[i].selectors[j] # <<>>}}

allows(venues, hop) ==
    \E v \in Range(venues) : v.program = hop.program /\ \E s \in Range(v.selectors) :
        IsPrefix(s, hop.data) /\ (hop.amount_offset => Len(s) <= 1)

Hop(program, source, destination, accounts, data, patch) ==
    [program |-> program, source |-> source, destination |-> destination, accounts |-> accounts,
     data |-> data, amount_offset |-> patch]

-----------------------------------------------------------------------------
(* Exponent. *)

\* resolve: indexes into the lookup table, each key once, writable if any mention is.
resolve(cpi, table) ==
    {FoldLeft(LAMBDA acc, c :
                LET at == {i \in DOMAIN acc : acc[i].key = table[c.index]}
                IN IF at = {} THEN Append(acc, Meta(table[c.index], FALSE, c.writable))
                   ELSE [i \in DOMAIN acc |-> IF i \in at THEN [acc[i] EXCEPT !.writable = @ \/ c.writable] ELSE acc[i]],
              <<>>, cpi)
     : ok \in {TRUE} \cap {\A i \in DOMAIN cpi : cpi[i].index \in DOMAIN table}}

parse_market(address, raw) ==
    {m \in {raw} : m.kind = "market_three" /\ m.address = address /\ m.sy_program = GenericSy}

\* MarketThree trade: SY for PT when buying, PT for SY when selling.
trade(m, owner, amount, buy, table, patch) ==
    LET sy == ata(owner, m.sy, Token)
        pt == ata(owner, m.pt, Token)
    IN {Hop(Clmm, IF buy THEN sy ELSE pt, IF buy THEN pt ELSE sy,
            <<SW(owner)>> \o Writes(<<m.address, m.ticks, sy, pt, m.sy_escrow, m.pt_escrow>>)
            \o Reads(<<m.lookup_table, Token, GenericSy>>) \o Writes(<<m.fee_sy, m.fee_pt>>)
            \o Reads(<<EventAuthority(Clmm), Clmm>>) \o rest
            \o (IF m.vault \in KeysOf(rest) THEN <<>> ELSE <<R(m.vault)>>),
            <<"trade", amount, buy>>, patch)
        : rest \in resolve(m.cpi, table)}

parse_sy(raw) ==
    {s \in {raw} : /\ s.kind = "generic_sy"
                   /\ s.index # 0
                   /\ s.index <= MaxU64
                   /\ s.interface = "spl_stake_pool"
                   /\ s.hook = "none"
                   /\ s.interface_accounts # <<>>}

\* The most SY whose cost, rounded down, the base amount covers.
mint_amount(s, base) == {n \in {((base + 1) * s.index - 1) \div IndexOne} : n <= MaxU64}

SyData(s, amount, mint, patch) ==
    IF patch THEN {0} ELSE IF mint THEN mint_amount(s, amount) ELSE {amount}

\* GenericSy::hop: base into SY when minting, SY into base when redeeming.
sy_hop(s, owner, base_program, amount, mint, patch) ==
    LET base == ata(owner, s.base, base_program)
        sy == ata(owner, s.mint, Token)
        escrow == ata(s.address, s.base, base_program)
        fixed == IF mint
                 THEN <<W(s.mint), R(s.base), W(base), W(escrow), W(sy)>>
                 ELSE <<W(base), W(escrow), W(sy), W(s.mint), R(s.base)>>
    IN {Hop(GenericSy, IF mint THEN base ELSE sy, IF mint THEN sy ELSE base,
            <<SW(owner), W(s.address)>> \o fixed \o Reads(<<base_program, Token>>)
            \o Writes(s.interface_accounts) \o Reads(s.emissions),
            <<IF mint THEN "mint_sy" ELSE "redeem_sy", value>>, patch)
        : value \in SyData(s, amount, mint, patch)}

\* CoreVault::parse: the maturity is the start plus the duration.
parse_core(address, raw) ==
    {[address |-> address, sy |-> c.sy, yt |-> c.yt, pt |-> c.pt, escrow_sy |-> c.escrow_sy,
      yield_position |-> c.yield_position, lookup_table |-> c.lookup_table, authority |-> c.authority,
      maturity |-> c.start + c.duration, cpi |-> c.cpi]
     : c \in {x \in {raw} : x.kind = "core_vault" /\ x.sy_program = GenericSy}}

\* CoreVault::merge: PT redeemed into SY, after maturity only.
merge(c, owner, amount, now, table) ==
    LET sy == ata(owner, c.sy, Token)
        pt == ata(owner, c.pt, Token)
    IN {Hop(Core, pt, sy,
            <<SW(owner)>> \o Writes(<<c.authority, c.address, sy, c.escrow_sy, ata(owner, c.yt, Token), pt, c.yt, c.pt>>)
            \o Reads(<<Token, GenericSy, c.lookup_table>>) \o <<W(c.yield_position)>>
            \o Reads(<<EventAuthority(Core), Core>>) \o rest,
            <<"merge", amount>>, FALSE)
        : rest \in IF now <= c.maturity THEN {} ELSE resolve(c.cpi, table)}

parse_stake_pool(raw) == {p \in {raw} : p.kind = "stake_pool" /\ p.owner \in StakePools}

-----------------------------------------------------------------------------
(* Jupiter.  A build response is [in_amount, out_amount, threshold, slippage_bps, mode, side, program,  *)
(* data, accounts, tables]; "side" is whether it carries side instructions.                    *)

ExactInSelectors == {"route", "shared_accounts_route", "route_v2", "shared_accounts_route_v2"}

into_quote(response, request) ==
    {[request |-> request, output |-> response.out_amount, minimum |-> response.threshold,
      hop |-> Hop(Jupiter, request.source, request.destination, response.accounts, response.data, FALSE),
      tables |-> response.tables]
     : ok \in {TRUE} \cap
        {/\ request.amount # 0
         /\ response.in_amount = request.amount
         /\ response.slippage_bps = request.slippage_bps
         /\ response.mode \in {"none", "ExactIn"}
         /\ response.threshold # 0
         /\ response.threshold <= response.out_amount
         /\ response.threshold >= (response.out_amount * (10000 - request.slippage_bps)) \div 10000
         /\ ~response.side
         /\ response.program = Jupiter
         /\ response.data[1] \in ExactInSelectors
         /\ response.data[2] = request.amount}}

\* Quote::hop: the amount is patched on chain when the hop follows another.
quote_hop(q, patch) == [q.hop EXCEPT !.amount_offset = patch]
=============================================================================
