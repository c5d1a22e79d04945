---------------------------- MODULE VaultProgram ----------------------------
(***************************************************************************)
(* The vault program as the SDK uses it.  It is not part of the            *)
(* repository: what it accepts and what it changes is taken from the       *)
(* instructions the SDK builds, from what the SDK's readers expect to find *)
(* afterwards, and from the tests and notes kept with them.                *)
(*                                                                         *)
(* The chain is [raw, shares, deposit, withdraw, stake, second, proposals, *)
(* wallets, disabled, closed]: the vault account, shares and requests by   *)
(* user, the manager's shares, the second leg's balance, update proposals  *)
(* by kind, token accounts that exist, and whether the delegate is turned  *)
(* off and the vault gone.  An instruction is [tag, keys, args]; Applied   *)
(* is the set of chains it may leave, empty when it is refused.            *)
(***************************************************************************)
EXTENDS Curator, VaultOwner

CONSTANTS Program

Wire(ix) == [tag |-> ix.data[1], keys |-> [i \in DOMAIN ix.accounts |-> ix.accounts[i].key], args |-> Tail(ix.data)]

Code(s, x) == CHOOSE i \in 0..(Len(s) - 1) : s[i + 1] = x
Stored(c) == CHOOSE v \in parse_vault(c.raw) : TRUE
Owns(c, actor) == from_vault(Program, actor, Stored(c))

Supply(c) == c.stake + MapThenSumSet(LAMBDA u : c.shares[u] + c.withdraw[u], DOMAIN c.shares)
Pending(c) == {u \in DOMAIN c.deposit : c.deposit[u] + c.withdraw[u] > 0}
Slot(c) == c.raw.staged_amount # 0

\* Counts follow the requests; an idle vault's equity lapses when its queue drains.
Settled(c) ==
    LET count(f) == Cardinality({u \in DOMAIN f : f[u] > 0})
        lapse == c.raw.phase = 0 /\ Pending(c) = {} /\ c.raw.flags % 2 = EquityComputed
    IN [c EXCEPT !.raw.pending_deposit_count = count(c.deposit), !.raw.pending_withdraw_count = count(c.withdraw),
                 !.raw.flags = IF lapse THEN @ - EquityComputed ELSE @]

Flagged(c, equity, accepting) ==
    [c EXCEPT !.raw.flags = (IF equity THEN EquityComputed ELSE 0) + (IF accepting THEN AcceptingDeposits ELSE 0)]

\* The keys an instruction must name where the program looks for them.
Roles(tag, m) ==
    LET a == m.addresses
        custody == <<a.vault_main_ata, a.vault_second_ata, a.manager_stake_ata>>
    IN CASE tag = "ProcessVaultEquity" -> <<<<2, <<a.vault, a.policy, a.delegate>>>>, <<6, custody>>>>
         [] tag \in {"FinalizeShutdown", "TopUpManagerStake"} -> <<<<2, <<a.vault, a.policy>>>>, <<5, custody>>>>
         [] tag = "SetAcceptingDeposits" -> <<<<2, <<a.vault, a.delegate>>>>>>
         [] tag \in {"ProcessDeposits", "ProcessWithdrawals"} ->
              <<<<2, <<a.vault, a.delegate>>>>, <<5, <<a.vault_main_ata>>>>>>
         [] tag = "ProcessFinalWithdrawal" ->
              <<<<2, <<a.vault, a.delegate>>>>, <<9, <<a.vault_main_ata, a.vault_second_ata>>>>>>
         [] tag = "FinalizeVaultCycle" -> <<<<2, <<a.vault, a.policy, a.delegate, a.vault_main_ata>>>>>>
         [] tag \in {"VaultSpotRebalance", "VaultStagingSwap"} -> <<<<2, <<a.vault, a.policy, a.delegate>>>>>>
         [] tag = "CloseVault" -> <<<<2, <<a.vault, a.delegate, a.policy>>>>, <<6, <<a.vault_main_ata, a.vault_second_ata>>>>>>
         [] tag = "ApplyVaultUpdate" -> <<<<1, <<a.vault, a.policy>>>>>>
         [] tag \in {"RotateVaultDelegate", "DisableVaultDelegate"} -> <<<<2, <<a.vault, a.delegate>>>>>>
         [] OTHER -> <<<<2, <<a.vault>>>>>>

RolesHold(ix, m) ==
    \A r \in Range(Roles(ix.tag, m)) : \A j \in DOMAIN r[2] : ix.keys[r[1] + j - 1] = r[2][j]

\* Governance may do all; the delegate what runs the cycle.
Cycle == {"SetAcceptingDeposits", "ProcessVaultEquity", "ProcessDeposits", "ProcessWithdrawals",
          "ProcessFinalWithdrawal", "FinalizeVaultCycle", "VaultSpotRebalance", "VaultStagingSwap"}
Anyone == {"ApplyVaultUpdate", "FinalizeShutdown", "AcceptGovernance"}

Authorized(c, ix) ==
    \/ ix.tag \in Anyone
    \/ ix.keys[1] = c.raw.governance_authority
    \/ ix.tag \in Cycle /\ ix.keys[1] = c.raw.primary_delegate /\ ~c.disabled

-----------------------------------------------------------------------------
(* Capital. *)

\* The groups of seven accounts of a batch, from the given position on.
Groups(ix, from) ==
    [i \in 1..((Len(ix.keys) - from + 1) \div 7) |-> SubSeq(ix.keys, from + 7 * (i - 1), from + 7 * i - 1)]

DepositGroup(c, g, m) ==
    LET vault == m.addresses.vault
        escrow == deposit_escrow(Program, vault, g[1])
    IN /\ g[1] \in DOMAIN c.deposit
       /\ c.deposit[g[1]] > 0
       /\ SubSeq(g, 2, 5) = <<deposit_request(Program, vault, g[1]), escrow, main_ata(m, escrow), main_ata(m, g[1])>>

WithdrawGroup(c, g, m) ==
    LET vault == m.addresses.vault
        escrow == withdraw_escrow(Program, vault, g[1])
    IN /\ g[1] \in DOMAIN c.withdraw
       /\ c.withdraw[g[1]] > 0
       /\ SubSeq(g, 2, 5) = <<withdraw_request(Program, vault, g[1]), escrow, share_ata(m, escrow), main_ata(m, g[1])>>

Refunding(c) == Safeties[c.raw.safety + 1] \in {"Frozen", "Closing", "WithdrawOnly"}
HasEquity(c) == c.raw.flags % 2 = EquityComputed

\* A deposit becomes shares at the computed equity, or goes back when the vault winds down.
Deposited(c, ix, m) ==
    LET gs == Groups(ix, 12)
        users == {gs[i][1] : i \in DOMAIN gs}
    IN {[c EXCEPT !.deposit = [u \in DOMAIN @ |-> IF u \in users THEN 0 ELSE @[u]],
                  !.shares = [u \in DOMAIN @ |-> IF u \in users /\ ~Refunding(c) THEN @[u] + c.deposit[u] ELSE @[u]]]
        : ok \in {TRUE} \cap {/\ \A i \in DOMAIN gs : DepositGroup(c, gs[i], m)
                              /\ Refunding(c) \/ (HasEquity(c) /\ Phases[c.raw.phase + 1] \in {"Idle", "ProcessingCapital"})}}

\* A batch that would redeem every share is refused: the last holder takes the final redemption.
Withdrawn(c, ix, m) ==
    LET gs == Groups(ix, 11)
        users == {gs[i][1] : i \in DOMAIN gs}
    IN {[c EXCEPT !.withdraw = [u \in DOMAIN @ |-> IF u \in users THEN 0 ELSE @[u]]]
        : ok \in {TRUE} \cap {/\ \A i \in DOMAIN gs : WithdrawGroup(c, gs[i], m)
                              /\ HasEquity(c) \/ Safeties[c.raw.safety + 1] = "WithdrawOnly"
                              /\ MapThenSumSet(LAMBDA u : c.withdraw[u], users) < Supply(c)}}

WithdrawnFinal(c, ix, m) ==
    LET u == ix.keys[4]
        escrow == withdraw_escrow(Program, m.addresses.vault, u)
    IN {[c EXCEPT !.withdraw[u] = 0, !.second = 0]
        : ok \in {TRUE} \cap {/\ u \in DOMAIN c.withdraw
                              /\ SubSeq(ix.keys, 5, 7) = <<withdraw_request(Program, m.addresses.vault, u), escrow,
                                                           share_ata(m, escrow)>>
                              /\ c.withdraw[u] = Supply(c)
                              /\ ~Slot(c)
                              /\ HasEquity(c) \/ Safeties[c.raw.safety + 1] = "WithdrawOnly"}}

\* The units a batch burns: every address it checks and the accounts it really has to create.
BatchCost(c, ix, m) ==
    LET kind == IF ix.tag = "ProcessDeposits" THEN "Deposit" ELSE "Withdraw"
        gs == Groups(ix, IF kind = "Deposit" THEN 12 ELSE 11)
        created == UNION {{<<gs[i][1], d>> : d \in {"main", "share"}} : i \in DOMAIN gs} \ c.wallets
    IN BaseUnits + Len(gs) * UnitsPerUser + Cardinality(created) * UnitsPerCreated
       + UnitsPerStep * (CommonSteps.vault * main_checks(m) + (IF kind = "Deposit" THEN CommonSteps.manager ELSE 0)
                         + SumSeq([i \in DOMAIN gs |-> UserSteps(m, kind, gs[i][1])])
                         + MapThenSumSet(LAMBDA x : DerivationSteps[x[1]][x[2]], created))

-----------------------------------------------------------------------------
(* Swaps, each of one unit of the second leg.  A stage opens the next slot; an unstage takes all of it. *)

Rebalanced(c, ix, now) ==
    {[c EXCEPT !.second = IF ix.args[1] THEN @ - 1 ELSE @ + 1]
     : ok \in {TRUE} \cap {/\ ix.args[4] >= now
                           /\ ~Slot(c)
                           /\ ix.args[1] \/ (c.raw.phase = 1 /\ c.raw.safety = 0)
                           /\ ix.args[1] => c.second > 0}}

\* What arrives in the slot is more than the least asked for.
StageSwapped(c, ix, now) ==
    LET leg == ix.args[2]
        generation == ix.args[6]
    IN IF ix.args[1] = "Stage"
       THEN {[c EXCEPT !.raw.staged_amount = ix.args[4] + 1, !.raw.staged_mint = ix.keys[10],
                       !.raw.staged_leg = Code(Legs, leg), !.raw.staged_generation = generation,
                       !.second = IF leg = "Second" THEN @ - 1 ELSE @]
             : ok \in {TRUE} \cap {/\ ix.args[5] >= now
                                   /\ ~Slot(c)
                                   /\ generation = c.raw.staged_generation + 1
                                   /\ leg = "Second" => c.second > 0
                                   /\ leg = "Main" => c.raw.phase = 1 /\ c.raw.safety = 0}}
       ELSE {[c EXCEPT !.raw.staged_amount = 0, !.second = IF leg = "Second" THEN @ + 1 ELSE @]
             : ok \in {TRUE} \cap {/\ ix.args[5] >= now
                                   /\ Slot(c)
                                   /\ generation = c.raw.staged_generation
                                   /\ ix.args[3] = c.raw.staged_amount
                                   /\ ix.keys[10] = c.raw.staged_mint}}

-----------------------------------------------------------------------------
(* The owner's instructions. *)

InMode(c, phase, safety) == Phases[c.raw.phase + 1] = phase /\ Safeties[c.raw.safety + 1] = safety

\* An update is applied with the payer that proposed it; a new second leg with the mint proposed.
UpdateApplied(c, ix) ==
    LET kind == ix.args[1]
        done == [c EXCEPT !.proposals = [k \in DOMAIN @ \ {kind} |-> @[k]]]
    IN {CASE kind = "GovernanceAuthority" -> [done EXCEPT !.raw.pending_governance_authority = c.proposals[kind].payload]
          [] kind = "SecondLeg" -> [done EXCEPT !.raw.second_mint = c.proposals[kind].payload,
                                                !.raw.second_leg_generation = @ + 1, !.second = 0]
          [] OTHER -> done
        : ok \in {TRUE} \cap {/\ kind \in DOMAIN c.proposals
                              /\ ix.keys[4] = c.proposals[kind].payer
                              /\ kind \in Priced \cup {"SecondLeg"} => ~Slot(c)
                              /\ kind = "SecondLeg" => /\ InMode(c, "Idle", "Normal")
                                                       /\ c.second > 0 => Len(ix.keys) > 16
                                                       /\ ix.keys[9] = c.proposals[kind].payload}}

OwnerApplied(c, ix, m) ==
    LET actor == ix.keys[1]
        when(cond, d) == {x \in {d} : cond}
    IN CASE ix.tag = "Bootstrap" -> when(Supply(c) = 0 /\ InMode(c, "Idle", "Normal"),
              [c EXCEPT !.stake = 1, !.raw.fee_recipient = ix.args[2]])
         [] ix.tag = "TopUpManagerStake" -> when(~Slot(c) /\ InMode(c, "Idle", "Normal"), [c EXCEPT !.stake = @ + 1])
         [] ix.tag = "UnlockManagerStake" ->
              when(/\ c.stake >= ix.args[1]
                   /\ c.stake > ix.args[1] \/ Safeties[c.raw.safety + 1] = "WithdrawOnly"
                   /\ ix.keys[5] = share_ata(m, c.raw.fee_recipient),
                   [c EXCEPT !.stake = @ - ix.args[1], !.shares[c.raw.fee_recipient] = @ + ix.args[1]])
         [] ix.tag = "AcceptGovernance" -> when(actor = c.raw.pending_governance_authority,
              [c EXCEPT !.raw.governance_authority = actor, !.raw.pending_governance_authority = Default])
         [] ix.tag = "RevokeGovernanceNomination" -> when(ix.args[1] = c.raw.pending_governance_authority,
              [c EXCEPT !.raw.pending_governance_authority = Default])
         [] ix.tag = "ApplyFeeRecipientUpdate" -> when(ix.args[1] = c.raw.fee_recipient,
              [c EXCEPT !.raw.fee_recipient = ix.args[2]])
         [] ix.tag = "StartShutdown" -> when(~Slot(c) /\ InMode(c, "Idle", "Normal"),
              Flagged([c EXCEPT !.raw.safety = Code(Safeties, "Closing")], FALSE, FALSE))
         [] ix.tag = "FinalizeShutdown" ->
              when(~Slot(c) /\ InMode(c, "Idle", "Closing") /\ (c.second > 0 => Len(ix.keys) > 12),
                   [c EXCEPT !.raw.safety = Code(Safeties, "WithdrawOnly")])
         [] ix.tag = "CloseVault" ->
              when(/\ InMode(c, "Idle", "WithdrawOnly")
                   /\ Supply(c) = 0 /\ Pending(c) = {}
                   /\ {ix.keys[15], ix.keys[16]} \subseteq c.wallets,
                   [c EXCEPT !.closed = TRUE])
         [] ix.tag = "ProposeVaultUpdate" ->
              when(ix.args[1] \notin DOMAIN c.proposals,
                   [c EXCEPT !.proposals = (ix.args[1] :> [payer |-> actor, payload |-> ix.args[2]]) @@ @])
         [] ix.tag = "CancelVaultUpdate" ->
              when(ix.args[1] \in DOMAIN c.proposals /\ ix.keys[4] = c.proposals[ix.args[1]].payer,
                   [c EXCEPT !.proposals = [k \in DOMAIN @ \ {ix.args[1]} |-> @[k]]])
         [] ix.tag = "RotateVaultDelegate" -> {[c EXCEPT !.raw.primary_delegate = ix.args[1], !.disabled = FALSE]}
         [] OTHER -> {[c EXCEPT !.disabled = TRUE]}

-----------------------------------------------------------------------------
(* One instruction, and a transaction: all of its instructions or none. *)

Performed(c, ix, m, now) ==
    CASE ix.tag = "SetAcceptingDeposits" ->
           {Flagged(c, HasEquity(c), ix.args[1]) : ok \in {TRUE} \cap {InMode(c, "Idle", "Normal")}}
      [] ix.tag = "ProcessVaultEquity" ->
           {Flagged(c, TRUE, FALSE) : ok \in {TRUE} \cap
                {/\ ~Slot(c)
                 /\ c.raw.phase \in {0, 3}
                 /\ c.raw.safety \in {0, 1}
                 /\ c.raw.flags \div AcceptingDeposits = 0}}
      [] ix.tag = "ProcessDeposits" -> Deposited(c, ix, m)
      [] ix.tag = "ProcessWithdrawals" -> Withdrawn(c, ix, m)
      [] ix.tag = "ProcessFinalWithdrawal" -> WithdrawnFinal(c, ix, m)
      [] ix.tag = "FinalizeVaultCycle" ->
           {Flagged([c EXCEPT !.raw.phase = 0], FALSE, FALSE)
            : ok \in {TRUE} \cap {c.raw.phase = 3 /\ HasEquity(c) /\ Pending(c) = {} /\ ~Slot(c)}}
      [] ix.tag = "VaultSpotRebalance" -> Rebalanced(c, ix, now)
      [] ix.tag = "VaultStagingSwap" -> StageSwapped(c, ix, now)
      [] ix.tag = "ApplyVaultUpdate" -> UpdateApplied(c, ix)
      [] ix.tag = "create_idempotent" -> {[c EXCEPT !.wallets = @ \cup {ix.keys[2]}]}
      [] OTHER -> OwnerApplied(c, ix, m)

Outside == {"create_idempotent", "set_compute_unit_limit", "update_stake_pool_balance"}

Batched(ix) == ix.tag \in {"ProcessDeposits", "ProcessWithdrawals"}

Allowed(c, ix, m, units) ==
    \/ ix.tag \in Outside
    \/ /\ Authorized(c, ix)
       /\ RolesHold(ix, m)
       /\ Batched(ix) => BatchCost(c, ix, m) <= units

Applied(c, ix, units, now) ==
    IF ix.tag \in Outside \ {"create_idempotent"} THEN {c}
    ELSE UNION {{Settled(d) : d \in IF Allowed(c, ix, m, units) THEN Performed(c, ix, m, now) ELSE {}}
                : m \in Owns(c, ix.keys[1])}

Lands(c, ixs, units, now) ==
    IF c.closed THEN {} ELSE FoldLeft(LAMBDA cs, ix : UNION {Applied(d, ix, units, now) : d \in cs}, {c}, ixs)
=============================================================================
