----------------------------- MODULE VaultOwner -----------------------------
(***************************************************************************)
(* The owner's side of a vault: governance updates and delegates           *)
(* (chain/vault/governance.rs), bootstrap, stake, handover and shutdown    *)
(* (lifecycle.rs), and the same built from what the chain holds            *)
(* (owner_rpc.rs).                                                         *)
(*                                                                         *)
(* "chain" is what the RPC node answers: [program_id, accounts], accounts  *)
(* a function from keys.  A capability mask is a set of capabilities.      *)
(***************************************************************************)
EXTENDS VaultCapital

CapabilitiesKnown == {"write", "hold", "rebalance"}
MaxRebalanceDriftBps == 200
MinBootstrap == 100000000
NoPrices == <<>>

-----------------------------------------------------------------------------
(* Governance.  An update is [kind, value]. *)

PayloadValid(update) ==
    LET v == update.value
    IN CASE update.kind \in {"CapLimit", "HwmReset"} -> TRUE
         [] update.kind = "Fees" -> v.performance_bps <= 10000 /\ v.management_bps <= 1000
         [] update.kind = "Capabilities" -> /\ v.mask # {}
                                            /\ v.value \subseteq v.mask
                                            /\ v.mask \subseteq CapabilitiesKnown
         [] update.kind = "Policy" -> /\ v.max_open_positions # 0
                                      /\ v.max_rebalance_drift_bps \in 1..MaxRebalanceDriftBps
                                      /\ v.min_main_liquidity_bps <= 10000
         [] OTHER -> v # Default

payload(update) == {u.value : u \in {x \in {update} : PayloadValid(x)}}

pending(m, kind) == pending_update(m.args.program_id, m.addresses.vault, kind)

propose_update(m, update) ==
    {VaultInstruction(m, "ProposeVaultUpdate",
        <<SW(m.args.actor), W(m.addresses.vault), W(pending(m, update.kind)), R(System),
          R(m.addresses.global_config)>>, <<update.kind, value>>)
     : value \in payload(update)}

Priced == {"Fees", "HwmReset"}

\* Equity accounts without the vault, the policy and the delegate.
SettlingAccounts(m, prices) ==
    LET equity == process_equity(m, prices).accounts
    IN <<equity[1]>> \o SubSeq(equity, 5, Len(equity))

\* prices: the set of the section given, empty for none.
apply_update(m, kind, payer, prices) ==
    {VaultInstruction(m, "ApplyVaultUpdate",
        Writes(<<m.addresses.vault, m.addresses.policy, pending(m, kind), payer>>) \o rest, <<kind>>)
     : rest \in IF kind \in Priced THEN {SettlingAccounts(m, p) : p \in prices}
                 ELSE {<<>>} \ {<<>> : k \in {kind} \cap {"SecondLeg"}}}

apply_second_leg(m, payer, new_mint, prices) ==
    LET a == m.addresses
        g == m.args
    IN {VaultInstruction(m, "ApplyVaultUpdate",
            Writes(<<a.vault, a.policy, pending(m, "SecondLeg"), payer>>)
            \o <<SW(g.actor), W(g.second_mint), W(a.vault_second_ata), R(g.second_token_program), R(new_mint),
                 W(ata(a.vault, new_mint, g.second_token_program))>>
            \o Reads(<<g.second_token_program, price_route(g.program_id, new_mint), a.second_price_route,
                       System, Ata, a.vault_main_ata>>) \o prices, <<"SecondLeg">>)
        : ok \in {TRUE} \cap {new_mint \notin {g.main_mint, g.second_mint, g.share_mint, Default}}}

cancel_update(m, kind, payer) ==
    VaultInstruction(m, "CancelVaultUpdate",
        <<SR(m.args.actor)>> \o Writes(<<m.addresses.vault, pending(m, kind), payer>>), <<kind>>)

rotate_delegate(m, new_delegate, permissions, expires_at) ==
    {VaultInstruction(m, "RotateVaultDelegate",
        <<SW(m.args.actor)>>
        \o Writes(<<m.addresses.vault, m.addresses.delegate,
                    vault_delegate(m.args.program_id, m.addresses.vault, new_delegate)>>)
        \o <<R(System)>>, <<new_delegate, permissions, expires_at>>)
     : ok \in {TRUE} \cap {new_delegate # Default /\ permissions # {} /\ permissions \subseteq CapabilitiesKnown}}

disable_delegate(m) ==
    VaultInstruction(m, "DisableVaultDelegate",
        <<SR(m.args.actor), R(m.addresses.vault), W(m.addresses.delegate)>>, <<>>)

-----------------------------------------------------------------------------
(* Lifecycle. *)

bootstrap(m, fee_recipient, amount) ==
    {VaultInstruction(m, "Bootstrap",
        <<SR(m.args.actor)>>
        \o Writes(<<m.addresses.vault, m.args.share_mint, m.addresses.manager_stake_ata, main_ata(m, m.args.actor),
                    m.addresses.vault_main_ata>>)
        \o Reads(<<m.args.main_mint, m.args.main_token_program, Token>>), <<amount, fee_recipient>>)
     : ok \in {TRUE} \cap {amount >= MinBootstrap /\ fee_recipient # Default}}

\* Mutant of owner_equity_accounts: the delegate the owner does not need is left in.
OwnerEquityWithDelegate(m) == process_equity(m, NoPrices).accounts

owner_equity_accounts(m) == RemoveAt(process_equity(m, NoPrices).accounts, 4)

top_up_manager_stake(m, amount, prices) ==
    {VaultInstruction(m, "TopUpManagerStake",
        Append(owner_equity_accounts(m), W(main_ata(m, m.args.actor))) \o prices, <<amount>>)
     : ok \in {TRUE} \cap {amount # 0 /\ prices # NoPrices}}

unlock_manager_stake(m, fee_recipient, shares) ==
    {VaultInstruction(m, "UnlockManagerStake",
        <<SR(m.args.actor), W(m.addresses.vault), R(manager_stake(m.args.program_id, m.addresses.vault)),
          W(m.addresses.manager_stake_ata), W(destination), R(m.args.share_mint), R(Token)>>, <<shares>>)
     : destination \in {d \in {share_ata(m, fee_recipient)} : shares # 0 /\ d # m.addresses.manager_stake_ata}}

unlock_manager_stake_sequence(m, fee_recipient, shares) ==
    {<<create_ata_idempotent(m.args.actor, fee_recipient, m.args.share_mint, Token), unlock>>
     : unlock \in unlock_manager_stake(m, fee_recipient, shares)}

owner_instruction(m, tag, data) ==
    VaultInstruction(m, tag, <<SR(m.args.actor), W(m.addresses.vault)>>, data)

accept_governance(m) == owner_instruction(m, "AcceptGovernance", <<>>)

revoke_governance_nomination(m, expected) ==
    {owner_instruction(m, "RevokeGovernanceNomination", <<n>>) : n \in {expected} \ {Default}}

apply_fee_recipient_update(m, expected, recipient) ==
    {owner_instruction(m, "ApplyFeeRecipientUpdate", <<expected, recipient>>)
     : ok \in {TRUE} \cap {expected # recipient /\ Default \notin {expected, recipient}}}

start_shutdown(m) == owner_instruction(m, "StartShutdown", <<>>)

finalize_shutdown(m, prices) == VaultInstruction(m, "FinalizeShutdown", owner_equity_accounts(m) \o prices, <<>>)

close_vault(m) ==
    LET a == m.addresses
        g == m.args
    IN VaultInstruction(m, "CloseVault",
        <<SW(g.actor), W(a.vault), W(a.delegate), W(a.policy), R(g.share_mint), W(a.vault_main_ata),
          W(a.vault_second_ata)>>
        \o Reads(<<g.main_mint, g.second_mint, g.main_token_program, g.second_token_program,
                   manager_stake(g.program_id, a.vault)>>)
        \o <<W(a.manager_stake_ata), R(Token), W(main_ata(m, g.actor)),
             W(ata(g.actor, g.second_mint, g.second_token_program))>>, <<>>)

close_vault_sequence(m) ==
    <<create_ata_idempotent(m.args.actor, m.args.actor, m.args.main_mint, m.args.main_token_program),
      create_ata_idempotent(m.args.actor, m.args.actor, m.args.second_mint, m.args.second_token_program),
      close_vault(m)>>

-----------------------------------------------------------------------------
(* The same from the chain: each reads the vault account again first. *)

vault_manager(chain, vault, actor) ==
    {m \in UNION {from_vault(chain.program_id, actor, v) : v \in vault_from_account(chain.accounts[vault], chain.program_id)} :
        m.addresses.vault = vault}

\* The stored vault, if it is still the one this manager was built for.
current_owner_state(m, chain) ==
    {v \in UNION {vault_from_account(chain.accounts[key], chain.program_id)
                  : key \in {m.addresses.vault} \cap DOMAIN chain.accounts} :
        /\ chain.program_id = m.args.program_id
        /\ ensure_current(m, v)
        /\ v.primary_delegate = m.args.delegate_authority}

require_governance(m, v) == m.args.actor = v.governance_authority
require_unstaged(v) == ~HasSlot(v)

RouteAt(chain, key) ==
    UNION {parse_route(chain.accounts[k], chain.program_id) : k \in {key} \cap DOMAIN chain.accounts}

load_price_section(m, chain, shard) ==
    UNION {price_section(m, main, second, shard)
           : main \in RouteAt(chain, m.addresses.main_price_route),
             second \in RouteAt(chain, m.addresses.second_price_route)}

\* The balance of a token account: a native one holds what its lamports exceed the reserve by.
SecondBalance(m, chain) ==
    LET t == chain.accounts[m.addresses.vault_second_ata]
        synced == IF t.native THEN t.lamports - t.reserve ELSE t.amount
    IN {n \in {synced} :
            /\ t.owner = m.args.second_token_program
            /\ t.mint = m.args.second_mint
            /\ t.authority = m.addresses.vault
            /\ t.initialized
            /\ t.native => t.lamports >= t.reserve /\ synced >= t.amount}

\* An empty second leg needs no prices.
prices_for_second_balance(m, chain, shard) ==
    UNION {IF n = 0 THEN {NoPrices} ELSE load_price_section(m, chain, shard) : n \in SecondBalance(m, chain)}

fetch_proposal(m, chain, kind) ==
    {[payer |-> p.payer, payload |-> p.payload]
     : p \in {x \in {chain.accounts[k] : k \in {pending(m, kind)} \cap DOMAIN chain.accounts} :
                /\ x.owner = chain.program_id
                /\ x.header = "pending_update"
                /\ x.kind = kind
                /\ x.vault = m.addresses.vault
                /\ x.payer # Default}}

\* Which readings each operation insists on.
NeedsGovernance == {"TopUp", "Unlock", "FeeRecipient", "Revoke", "StartShutdown", "Close"}
NeedsUnstaged == {"TopUp", "FinalizeShutdown", "StartShutdown", "Close"}

Insists(m, op, v) ==
    /\ op.name \in NeedsGovernance => require_governance(m, v)
    /\ \/ op.name \in NeedsUnstaged
       \/ op.name = "Apply" /\ op.kind \in Priced \cup {"SecondLeg"}
       => require_unstaged(v)

apply_update_from_chain(m, chain, kind, shard) ==
    UNION {IF kind = "SecondLeg"
           THEN UNION {apply_second_leg(m, p.payer, p.payload, prices)
                       : prices \in prices_for_second_balance(m, chain, shard)}
           ELSE apply_update(m, kind, p.payer, IF kind \in Priced THEN load_price_section(m, chain, shard) ELSE {})
           : p \in fetch_proposal(m, chain, kind)}

\* Only the cold authority cancels a high-water-mark reset.
cancel_update_from_chain(m, chain, kind) ==
    {cancel_update(m, kind, p.payer) : p \in {x \in fetch_proposal(m, chain, kind) : kind # "HwmReset"}}

\* The instruction sequences of one owner operation on the state v it read.
OwnerBuilds(m, op, v, chain, shard) ==
    LET one(ixs) == {<<ix>> : ix \in ixs}
    IN CASE op.name = "TopUp" ->
              one(UNION {top_up_manager_stake(m, op.amount, p) : p \in load_price_section(m, chain, shard)})
         [] op.name = "FinalizeShutdown" ->
              one({finalize_shutdown(m, p) : p \in prices_for_second_balance(m, chain, shard)})
         [] op.name = "Unlock" -> unlock_manager_stake_sequence(m, v.fee_recipient, op.amount)
         [] op.name = "FeeRecipient" -> one(apply_fee_recipient_update(m, v.fee_recipient, op.to))
         [] op.name = "Revoke" -> one(revoke_governance_nomination(m, v.pending_governance_authority))
         [] op.name = "Apply" -> one(apply_update_from_chain(m, chain, op.kind, shard))
         [] op.name = "Cancel" -> one(cancel_update_from_chain(m, chain, op.kind))
         [] op.name = "StartShutdown" -> {<<start_shutdown(m)>>}
         [] op.name = "Close" -> {<<close_vault(m)>>}
         [] op.name = "CloseSequence" -> {close_vault_sequence(m)}
         [] op.name = "Bootstrap" -> one(bootstrap(m, op.to, op.amount))
         [] op.name = "Propose" -> one(propose_update(m, op.update))
         [] op.name = "Rotate" -> one(rotate_delegate(m, op.to, {"write"}, op.expires_at))
         [] op.name = "Disable" -> {<<disable_delegate(m)>>}
         [] OTHER -> {<<accept_governance(m)>>}

FromChain == {"TopUp", "FinalizeShutdown", "Unlock", "FeeRecipient", "Revoke", "Apply", "Cancel", "StartShutdown",
              "Close"}

owner_operation(m, op, chain, shard) ==
    UNION {IF Insists(m, op, v) THEN OwnerBuilds(m, op, v, chain, shard) ELSE {}
           : v \in IF op.name \in FromChain THEN current_owner_state(m, chain)
                    ELSE vault_from_account(chain.accounts[m.addresses.vault], chain.program_id)}
=============================================================================
