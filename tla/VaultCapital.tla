---------------------------- MODULE VaultCapital ----------------------------
(***************************************************************************)
(* The capital cycle of a vault: decoding its account and its requests     *)
(* (chain/vault/account.rs), the crank's decision (crank.rs) and the       *)
(* instructions it sends (manager.rs).                                     *)
(*                                                                         *)
(* A stored account keeps the codes of the layout: numbers for the phase,  *)
(* the safety mode, the accounting flags and the staged leg.               *)
(***************************************************************************)
EXTENDS PriceRoutes

CONSTANTS BatchUsers,       \* VAULT_CAPITAL_BATCH_USERS
          DerivationSteps,  \* [user -> [request, escrow, escrow_ata, main, share]]: the searches of each address
          CommonSteps       \* [vault, manager]: the searches of the vault's own addresses

Phases == <<"Idle", "Active", "Settling", "ProcessingCapital">>
Safeties == <<"Normal", "Frozen", "EmergencyUnwind", "WithdrawOnly", "Closing">>
Legs == <<"Main", "Second">>

EquityComputed == 1
AcceptingDeposits == 2

NoSlot == [mint |-> Default, from_leg |-> "Main", amount |-> 0]

\* VaultAccount::parse; an amount of zero is no open slot.
parse_vault(raw) ==
    {[vault_id |-> raw.vault_id, phase |-> Phases[raw.phase + 1], safety |-> Safeties[raw.safety + 1],
      equity_computed |-> raw.flags % 2 = EquityComputed, accepting_deposits |-> raw.flags \div AcceptingDeposits = 1,
      governance_authority |-> raw.governance_authority, primary_delegate |-> raw.primary_delegate,
      pending_governance_authority |-> raw.pending_governance_authority, fee_recipient |-> raw.fee_recipient,
      main_mint |-> raw.main_mint, second_mint |-> raw.second_mint, share_mint |-> raw.share_mint,
      main_token_program |-> raw.main_token_program, second_token_program |-> raw.second_token_program,
      active_expiry |-> raw.active_expiry, pending_deposit_count |-> raw.pending_deposit_count,
      pending_withdraw_count |-> raw.pending_withdraw_count,
      generation |-> raw.staged_generation,
      open |-> IF raw.staged_amount = 0 THEN NoSlot
               ELSE [mint |-> raw.staged_mint, from_leg |-> Legs[raw.staged_leg + 1], amount |-> raw.staged_amount],
      second_leg_generation |-> raw.second_leg_generation]
     : ok \in {TRUE} \cap
        {/\ raw.header = "vault"
         /\ raw.flags < EquityComputed + AcceptingDeposits + 1
         /\ raw.staged_kind = 0
         /\ raw.staged_amount # 0 => raw.staged_leg + 1 \in DOMAIN Legs
         /\ raw.phase + 1 \in DOMAIN Phases
         /\ raw.safety + 1 \in DOMAIN Safeties
         /\ {raw.main_token_program, raw.second_token_program} \subseteq TokenPrograms}}

vault_from_account(raw, program) == {v \in parse_vault(raw) : raw.owner = program}

HasSlot(v) == v.open.amount # 0

-----------------------------------------------------------------------------
(* The crank's decision. *)

\* Mutant of observe: a flip keeps the time of the earlier state.
ObserveKeepsTime(tracker, open, now) ==
    IF tracker = <<>> THEN <<[open |-> open, since |-> now]>> ELSE <<[tracker[1] EXCEPT !.open = open]>>

\* WindowTracker::observe: the tracker after it has seen the window open or closed.
observe(tracker, open, now) ==
    IF tracker # <<>> /\ tracker[1].open = open THEN tracker ELSE <<[open |-> open, since |-> now]>>

\* WindowClock: how long the tracker has seen the window in this state.
Held(tracker, open, now) == IF tracker[1].open = open THEN now - tracker[1].since ELSE 0

\* A match: the value of the first arm <<guard, value>> whose guard holds.
FirstMatch(arms) == arms[SelectInSeq(arms, LAMBDA arm : arm[1])][2]

\* The match of next_step.
WantedStep(v, tracker, now, policy) ==
    LET deposits == v.pending_deposit_count > 0
        withdrawals == v.pending_withdraw_count > 0
        pending == deposits \/ withdrawals
        in(safeties, phases) == v.safety \in safeties /\ v.phase \in phases
        idle(safety) == in({safety}, {"Idle"})
        when(cond, step) == IF cond THEN step ELSE "None"
        arms ==
          <<<<idle("WithdrawOnly") /\ withdrawals, "ProcessWithdrawals">>,
            <<in({"Frozen", "Closing", "WithdrawOnly"}, Range(Phases)) /\ deposits, "ProcessDeposits">>,
            <<in({"Normal", "Frozen"}, {"ProcessingCapital"}) /\ ~v.equity_computed, "ComputeEquity">>,
            <<in({"Normal"}, {"ProcessingCapital"}) /\ deposits, "ProcessDeposits">>,
            <<in({"Normal", "Frozen"}, {"ProcessingCapital"}) /\ withdrawals, "ProcessWithdrawals">>,
            <<in({"Normal", "Frozen"}, {"ProcessingCapital"}), "FinalizeCycle">>,
            <<idle("Frozen") /\ withdrawals, IF v.equity_computed THEN "ProcessWithdrawals" ELSE "ComputeEquity">>,
            <<idle("Normal") /\ ~pending /\ v.accepting_deposits,
              when(Held(tracker, TRUE, now) >= policy.deposit_window, "CloseDeposits")>>,
            <<idle("Normal") /\ ~pending,
              when(policy.reopen /\ ~v.equity_computed /\ Held(tracker, FALSE, now) >= policy.trading_window,
                   "OpenDeposits")>>,
            <<idle("Normal") /\ v.accepting_deposits, "CloseDeposits">>,
            <<idle("Normal") /\ ~v.equity_computed, "ComputeEquity">>,
            <<idle("Normal") /\ deposits, "ProcessDeposits">>,
            <<idle("Normal"), "ProcessWithdrawals">>,
            <<TRUE, "None">>>>
    IN CHOOSE step \in {FirstMatch(a) : a \in {arms}} : TRUE

\* Equity and finalization wait for the operator to unstage.
next_step(v, tracker, now, policy) ==
    LET step == WantedStep(v, tracker, now, policy)
    IN IF HasSlot(v) /\ step \in {"ComputeEquity", "FinalizeCycle"} THEN "None" ELSE step

\* requests: a sequence of [user, amount] in scan order.  A queue
\* that would drain the supply holds its largest request back for the final redemption.
plan_withdrawals(requests, total_shares) ==
    LET queued == FoldLeft(LAMBDA sum, r : sum + r.amount, 0, requests)
        ordered == SortSeq(requests, LAMBDA a, b : a.amount > b.amount)
        users(s) == [i \in DOMAIN s |-> s[i].user]
    IN IF Len(requests) = 1 /\ requests[1].amount = total_shares
       THEN [partial |-> <<>>, final |-> {requests[1].user}]
       ELSE [partial |-> users(IF requests # <<>> /\ queued >= total_shares THEN Tail(ordered) ELSE requests),
             final |-> {}]

chunks(s, n) ==
    [i \in 1..((Len(s) + n - 1) \div n) |-> SubSeq(s, (i - 1) * n + 1, IF i * n < Len(s) THEN i * n ELSE Len(s))]

-----------------------------------------------------------------------------
(* Instructions. *)

set_accepting_deposits(m, open) ==
    VaultInstruction(m, "SetAcceptingDeposits",
        <<SR(m.args.actor), W(m.addresses.vault)>>
        \o Reads(<<m.addresses.delegate, m.args.share_mint, m.addresses.manager_stake_ata>>), <<open>>)

price_section(m, main, second, shard) ==
    {price_accounts(main, m.addresses.main_price_route, shard)
     \o price_accounts(second, m.addresses.second_price_route, shard)
     : ok \in {TRUE} \cap {main.mint = m.args.main_mint /\ second.mint = m.args.second_mint}}

process_equity(m, prices) ==
    LET a == m.addresses
        g == m.args
    IN VaultInstruction(m, "ProcessVaultEquity",
        <<SR(g.actor), W(a.vault), R(a.policy), R(a.delegate)>>
        \o Writes(<<g.share_mint, a.vault_main_ata, a.vault_second_ata, a.manager_stake_ata>>)
        \o Reads(<<g.main_mint, g.second_mint, g.main_token_program, g.second_token_program, Token>>)
        \o prices, <<>>)

share_ata(m, user) == ata(user, m.args.share_mint, Token)
main_ata(m, user) == ata(user, m.args.main_mint, m.args.main_token_program)

\* DepositPayout and WithdrawalPayout: the destinations a caller overrides, if any.
Payout(user) == [user |-> user, refund |-> {}, shares |-> {}]
Override(over, key) == IF over = {} THEN key ELSE CHOOSE k \in over : TRUE

validate_batch(payouts) ==
    /\ payouts # <<>>
    /\ Len(payouts) <= BatchUsers
    /\ Cardinality({payouts[i].user : i \in DOMAIN payouts}) = Len(payouts)

BatchHead(m) ==
    LET g == m.args
    IN <<SW(g.actor), W(m.addresses.vault), R(m.addresses.delegate), W(g.share_mint), W(m.addresses.vault_main_ata)>>
       \o Reads(<<g.main_mint, g.main_token_program, Token, System, Ata>>)

DepositAccounts(m, p) ==
    LET vault == m.addresses.vault
        escrow == deposit_escrow(m.args.program_id, vault, p.user)
    IN <<W(p.user), W(deposit_request(m.args.program_id, vault, p.user)), R(escrow), W(main_ata(m, escrow)),
         W(Override(p.refund, main_ata(m, p.user))), W(Override(p.shares, share_ata(m, p.user))),
         R(share_ata(m, p.user))>>

\* Mutant of WithdrawalAccounts: the escrow is the one of the user's deposit.
WithdrawalAccountsSwapped(m, p) ==
    LET vault == m.addresses.vault
        escrow == deposit_escrow(m.args.program_id, vault, p.user)
    IN <<W(p.user), W(withdraw_request(m.args.program_id, vault, p.user)), R(escrow), W(share_ata(m, escrow)),
         W(main_ata(m, p.user)), W(Override(p.shares, share_ata(m, p.user))), R(share_ata(m, p.user))>>

WithdrawalAccounts(m, p) ==
    LET vault == m.addresses.vault
        escrow == withdraw_escrow(m.args.program_id, vault, p.user)
    IN <<W(p.user), W(withdraw_request(m.args.program_id, vault, p.user)), R(escrow), W(share_ata(m, escrow)),
         W(main_ata(m, p.user)), W(Override(p.shares, share_ata(m, p.user))), R(share_ata(m, p.user))>>

process_deposits(m, payouts) ==
    {VaultInstruction(m, "ProcessDeposits",
        FoldLeft(LAMBDA acc, p : acc \o DepositAccounts(m, p),
                 Append(BatchHead(m), R(m.addresses.manager_stake_ata)), payouts), <<>>)
     : ok \in {TRUE} \cap {validate_batch(payouts)}}

process_withdrawals(m, payouts) ==
    {VaultInstruction(m, "ProcessWithdrawals",
        FoldLeft(LAMBDA acc, p : acc \o WithdrawalAccounts(m, p), BatchHead(m), payouts), <<>>)
     : ok \in {TRUE} \cap {validate_batch(payouts)}}

process_final_withdrawal(m, p) ==
    LET a == m.addresses
        g == m.args
        escrow == withdraw_escrow(g.program_id, a.vault, p.user)
    IN VaultInstruction(m, "ProcessFinalWithdrawal",
        <<SW(g.actor), W(a.vault), R(a.delegate), W(p.user), W(withdraw_request(g.program_id, a.vault, p.user)),
          R(escrow)>>
        \o Writes(<<share_ata(m, escrow), g.share_mint, a.vault_main_ata, a.vault_second_ata, main_ata(m, p.user),
                    ata(p.user, g.second_mint, g.second_token_program)>>)
        \o Reads(<<g.main_mint, g.second_mint, g.main_token_program, g.second_token_program, Token>>)
        \o <<W(Override(p.shares, share_ata(m, p.user))), R(System), R(Ata), R(share_ata(m, p.user))>>, <<>>)

finalize_cycle(m) ==
    VaultInstruction(m, "FinalizeVaultCycle",
        <<SR(m.args.actor), W(m.addresses.vault), R(m.addresses.policy), R(m.addresses.delegate),
          W(m.addresses.vault_main_ata), R(m.args.main_mint), R(m.args.main_token_program)>>, <<>>)

-----------------------------------------------------------------------------
(* Compute units of a batch, in hundreds. *)

BaseUnits == 400
UnitsPerUser == 130
UnitsPerCreated == 250
UnitsPerStep == 18

Least(a, b) == IF a < b THEN a ELSE b
SumSeq(s) == FoldLeft(LAMBDA n, v : n + v, 0, s)

\* The largest searches cover whichever destinations turn out to be missing.
max_creation_steps(steps, count) == SumSeq(SubSeq(SortSeq(steps, LAMBDA a, b : a > b), 1, Least(count, Len(steps))))

\* An account of a Token-2022 mint is derived twice.
main_checks(m) == IF m.args.main_token_program = Token2022 THEN 2 ELSE 1

UserSteps(m, kind, user) ==
    LET s == DerivationSteps[user]
    IN s.request + s.escrow + s.escrow_ata * (IF kind = "Deposit" THEN main_checks(m) ELSE 1) + s.main + s.share

batch_shape(m, kind, users, missing_share, missing_main) ==
    LET n == Least(Len(users), BatchUsers)
        each(f(_)) == [i \in 1..n |-> f(users[i])]
    IN [users |-> n,
        created |-> Least(missing_share, BatchUsers) + Least(missing_main, BatchUsers),
        steps |-> SumSeq(each(LAMBDA u : UserSteps(m, kind, u)))
                  + max_creation_steps(each(LAMBDA u : DerivationSteps[u].share), Least(missing_share, Len(users)))
                  + max_creation_steps(each(LAMBDA u : DerivationSteps[u].main), Least(missing_main, Len(users)))
                  + CommonSteps.vault * main_checks(m) + (IF kind = "Deposit" THEN CommonSteps.manager ELSE 0)]

vault_capital_batch_compute_units(shape) ==
    LET users == Least(shape.users, BatchUsers)
    IN BaseUnits + users * UnitsPerUser + Least(shape.created, users * 2) * UnitsPerCreated
       + shape.steps * UnitsPerStep
=============================================================================
