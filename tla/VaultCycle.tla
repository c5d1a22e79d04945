----------------------------- MODULE VaultCycle -----------------------------
(***************************************************************************)
(* A vault's capital cycle with everyone who works on it: the crank        *)
(* (examples/vault_capital.rs), a curator swapping the vault's legs        *)
(* (curator.rs execute), the owner's desk (owner_rpc.rs), the users who    *)
(* request deposits and withdrawals, another operator, and the program.    *)
(*                                                                         *)
(* Every party reads, decides, and sends; its transaction lands later, on  *)
(* whatever the chain holds by then.  A sender that stops waiting leaves   *)
(* the transaction in flight: it may still land until its blockhash        *)
(* expires.                                                                *)
(***************************************************************************)
EXTENDS VaultProgram

CONSTANTS Users,
          Scenarios,      \* what each behaviour starts from: [chain, now, left, ops]
          Static,         \* the accounts that never change
          Venues,         \* [second mint -> [market, sy, core]]
          Operator,       \* the key the crank and the curator sign with
          JupiterAnswers, \* profiles of Jupiter: [budget -> accounts of the route it builds, 0 when it has none]
          MaxNow,         \* bound on the clock
          TxLife, DepositWindow, TradingWindow

VARIABLES chain,   \* the vault program's state, see VaultProgram
          now,     \* the clock
          flight,  \* transactions sent and neither landed nor expired: [from, ixs, sent, awaited]
          crank,   \* [at, tracker, step, view, todo]
          call,    \* the curator: [at, cfg, intent, stage, last, did, outcome]
          owner,   \* the owner's desk: [at, seen, ops]
          left,    \* what the environment may still do
          window   \* when the deposit window last opened and closed on chain

vars == <<chain, now, flight, crank, call, owner, left, window>>

Policy == [reopen |-> left.windows, deposit_window |-> DepositWindow, trading_window |-> TradingWindow]
VaultKey == vault_of(Program, chain.raw.vault_id)

TokenAccount(mint, amount) ==
    [owner |-> Token, mint |-> mint, authority |-> VaultKey, initialized |-> TRUE, amount |-> amount,
     native |-> FALSE, reserve |-> 0, lamports |-> 0]

ProposalAccounts ==
    [k \in {pending_update(Program, VaultKey, kind) : kind \in DOMAIN chain.proposals} |->
        [owner |-> Program, header |-> "pending_update", kind |-> k[4], vault |-> VaultKey,
         payer |-> chain.proposals[k[4]].payer, payload |-> chain.proposals[k[4]].payload]]

\* What an RPC node answers now.
Accounts ==
    (VaultKey :> chain.raw)
    @@ (Clock :> [now |-> now, epoch |-> 1])
    @@ (ata(VaultKey, chain.raw.second_mint, Token) :> TokenAccount(chain.raw.second_mint, chain.second))
    @@ ProposalAccounts @@ Static

Rpc == [program_id |-> Program, accounts |-> Accounts]

DefaultUnits == 2000   \* a transaction that asks for no limit, in hundreds

Send(from, ixs, units) ==
    flight' = flight \cup {[from |-> from, ixs |-> [i \in DOMAIN ixs |-> Wire(ixs[i])], units |-> units, sent |-> now,
                            awaited |-> TRUE]}

Accepting(c) == c.raw.flags \div AcceptingDeposits = 1

WindingDown == Safeties[chain.raw.safety + 1] \in {"Closing", "WithdrawOnly"}

-----------------------------------------------------------------------------
(* The crank: read, scan, send one by one, sleep. *)

Asleep(tracker) == [at |-> "Sleep", tracker |-> tracker, step |-> "None", view |-> {}, todo |-> <<>>]

Scanned == {"ProcessDeposits", "ProcessWithdrawals"}

CrankRead ==
    /\ crank.at = "Sleep"
    /\ left.crank /\ ~chain.closed
    /\ \E v \in parse_vault(chain.raw), tracker \in {observe(crank.tracker, Accepting(chain), now)} :
         \E step \in {next_step(v, tracker, now, Policy)} :
           crank' = IF step = "None" THEN Asleep(tracker)
                    ELSE [at |-> IF step \in Scanned THEN "Scan" ELSE "Send", tracker |-> tracker, step |-> step,
                          view |-> {v}, todo |-> IF step \in Scanned THEN <<>> ELSE <<<<>>>>]
    /\ UNCHANGED <<chain, now, flight, call, owner, left, window>>

\* Request accounts come back in any order; here a user's account is there while its amount is not zero.
Listings(users) == {s \in [1..Cardinality(users) -> users] : IsInjective(s)}
Queued(f) == {u \in Users : f[u] > 0}

CrankScanDeposits ==
    /\ crank.at = "Scan" /\ crank.step = "ProcessDeposits"
    /\ \E users \in Listings(Queued(chain.deposit)) :
         crank' = [crank EXCEPT !.at = "Send", !.todo = chunks(users, BatchUsers)]
    /\ UNCHANGED <<chain, now, flight, call, owner, left, window>>

CrankScanWithdrawals ==
    /\ crank.at = "Scan" /\ crank.step = "ProcessWithdrawals"
    /\ \E users \in Listings(Queued(chain.withdraw)) :
         crank' = [crank EXCEPT !.at = "Supply",
                                !.todo = [i \in DOMAIN users |-> [user |-> users[i], amount |-> chain.withdraw[users[i]]]]]
    /\ UNCHANGED <<chain, now, flight, call, owner, left, window>>

\* The final redemption waits for the deposits the pass saw, unless the vault winds down.
CrankSupply ==
    /\ crank.at = "Supply"
    /\ \E v \in crank.view, plan \in {plan_withdrawals(crank.todo, Supply(chain))} :
         LET final == IF v.pending_deposit_count = 0 \/ v.safety = "WithdrawOnly" THEN plan.final ELSE {}
         IN crank' = [crank EXCEPT !.at = "Send",
                                   !.step = IF final = {} THEN @ ELSE "FinalWithdrawal",
                                   !.todo = IF final = {} THEN chunks(plan.partial, BatchUsers) ELSE <<SetToSeq(final)>>]
    /\ UNCHANGED <<chain, now, flight, call, owner, left, window>>

\* The instruction of a step for the users of one batch; {} when its prices cannot be read.
StepInstruction(step, users, v, m, rpc) ==
    LET payouts == [i \in DOMAIN users |-> Payout(users[i])]
    IN CASE step = "CloseDeposits" ->
              {set_accepting_deposits(m, FALSE)
               : ok \in {TRUE} \cap {v.pending_deposit_count + v.pending_withdraw_count > 0
                                     => load_price_section(m, rpc, 0) # {}}}
         [] step = "OpenDeposits" -> {set_accepting_deposits(m, TRUE)}
         [] step = "ComputeEquity" -> {process_equity(m, p) : p \in load_price_section(m, rpc, 0)}
         [] step = "ProcessDeposits" -> process_deposits(m, payouts)
         [] step = "ProcessWithdrawals" -> process_withdrawals(m, payouts)
         [] step = "FinalWithdrawal" -> {process_final_withdrawal(m, payouts[1])}
         [] OTHER -> {finalize_cycle(m)}

\* A batch asks for the units of its shape, with every destination to be created.
StepUnits(step, users, m) ==
    IF step \notin Scanned THEN DefaultUnits
    ELSE vault_capital_batch_compute_units(
           batch_shape(m, IF step = "ProcessDeposits" THEN "Deposit" ELSE "Withdraw", users, Len(users), Len(users)))

CrankSend ==
    /\ crank.at = "Send"
    /\ \/ /\ crank.todo = <<>>
          /\ crank' = Asleep(crank.tracker)
          /\ UNCHANGED flight
       \/ \E users \in {crank.todo[i] : i \in {1} \cap DOMAIN crank.todo}, v \in crank.view :
          \E m \in from_vault(Program, Operator, v) :
            \E built \in {UNION {StepInstruction(crank.step, users, v, m, rpc) : rpc \in {Rpc}}} :
              IF built = {} THEN crank' = Asleep(crank.tracker) /\ UNCHANGED flight
              ELSE \E ix \in built : /\ crank' = [crank EXCEPT !.at = "Await"]
                                     /\ Send("crank", <<ix>>, StepUnits(crank.step, users, m))
    /\ UNCHANGED <<chain, now, call, owner, left, window>>

\* send returned: the rest of the pass goes on only after success.
CrankHears(ok) ==
    crank' = IF ok THEN [crank EXCEPT !.at = "Send", !.todo = Tail(@)] ELSE Asleep(crank.tracker)

\* The process restarts, wherever it was: the window it had watched is forgotten, and what it had sent is on its own.
CrankRestart ==
    /\ left.restarts > 0
    /\ crank' = Asleep(<<>>)
    /\ flight' = {IF t.from = "crank" THEN [t EXCEPT !.awaited = FALSE] ELSE t : t \in flight}
    /\ left' = [left EXCEPT !.restarts = @ - 1]
    /\ UNCHANGED <<chain, now, call, owner, window>>

-----------------------------------------------------------------------------
(* The curator: execute, over and over. *)

Done(outcome) == [at |-> "Idle", cfg |-> call.cfg, intent |-> call.intent, stage |-> <<>>, last |-> <<>>,
                  did |-> call.did, outcome |-> outcome]

\* What a party knows of the vault: the fields its manager is built from.
Seen == [second_mint |-> chain.raw.second_mint, generation |-> chain.raw.second_leg_generation,
         delegate |-> chain.raw.primary_delegate]
RawAs(seen) ==
    [chain.raw EXCEPT !.second_mint = seen.second_mint, !.second_leg_generation = seen.generation,
                      !.primary_delegate = seen.delegate]

\* The configuration discovered when the vault was as seen; all else it reads never changes.
Configs(seen) ==
    UNION {discover(accounts, Program, VaultKey, Operator, Venues[seen.second_mint], 0)
           : accounts \in {[Accounts EXCEPT ![VaultKey] = RawAs(seen)]}}

\* Config::discover, once per second leg.
Discover ==
    /\ call.at = "Idle"
    /\ ~chain.closed
    /\ left.calls > 0 \/ Slot(chain)
    /\ \A seen \in call.cfg : <<seen.second_mint, seen.generation>> # <<Seen.second_mint, Seen.generation>>
    /\ \A cfg \in Configs(Seen) : CuratorValid(cfg, Operator)
    /\ call' = [call EXCEPT !.cfg = {Seen : cfg \in Configs(Seen)}]
    /\ UNCHANGED <<chain, now, flight, crank, owner, left, window>>

\* Jupiter builds a route of as many accounts as its profile says for the budget.
JupiterBuild(profile, request, budget) ==
    LET buy == request.input_mint = chain.raw.main_mint
        out == IF buy THEN (request.amount * 10) \div 22 ELSE (request.amount * 22) \div 10
    IN {[in_amount |-> request.amount, out_amount |-> out,
         threshold |-> (out * (10000 - request.slippage_bps) + 9999) \div 10000,
         slippage_bps |-> request.slippage_bps, mode |-> "ExactIn", side |-> FALSE, program |-> Jupiter,
         data |-> <<"route", request.amount>>, tables |-> <<>>,
         accounts |-> <<SW(request.owner), W(request.source), W(request.destination)>>
                      \o [i \in 1..profile[budget] |-> R(<<"amm", i>>)]]
        : ok \in {TRUE} \cap {profile[budget] > 0}}

Plans(cfg, intent, profile) ==
    UNION {curator_plan(cfg, accounts, intent, LAMBDA request, budget : JupiterBuild(profile, request, budget))
           : accounts \in {Accounts}}

\* A new call: on an open slot whatever the intent, or for an intent there is budget for.
CallExecute(intent, plans) ==
    /\ call.at = "Idle"
    /\ left' = [left EXCEPT !.calls = IF Slot(chain) THEN @ ELSE @ - 1]
    /\ \/ /\ plans = {}
          /\ call' = [Done("Failed") EXCEPT !.intent = intent, !.did = <<>>]
          /\ UNCHANGED flight
       \/ \E plan \in plans :
            /\ call' = [call EXCEPT !.at = "First", !.intent = intent, !.did = <<>>, !.outcome = "None",
                                    !.stage = IF plan.plan = "Staged" THEN <<plan.parts.kind>> ELSE <<>>,
                                    !.last = <<plan.parts.kind>>]
            /\ Send("curator", plan.parts.instructions, DefaultUnits)

\* After a confirmed stage: re-read, and unstage the same slot.
CallComplete(plans) ==
    /\ call.at = "Refresh"
    /\ \/ /\ \A p \in plans : ~Completes(call.stage[1], p)
          /\ call' = Done("StageError")
          /\ UNCHANGED flight
       \/ \E p \in plans :
            /\ Completes(call.stage[1], p)
            /\ call' = [call EXCEPT !.at = "Second", !.last = <<p.parts.kind>>]
            /\ Send("curator", p.parts.instructions, DefaultUnits)
    /\ UNCHANGED left

\* On an open slot the intent does not matter: one stands for all.
Wanted ==
    IF call.at = "Refresh" THEN {call.intent}
    ELSE IF Slot(chain) THEN {CHOOSE intent \in left.intents : TRUE}
    ELSE left.intents

Execute(profile) ==
    /\ call.at \in {"Idle", "Refresh"}
    /\ call.at = "Idle" => Slot(chain) \/ left.calls > 0
    /\ ~chain.closed
    /\ \E cfg \in UNION {Configs(seen) : seen \in call.cfg}, intent \in Wanted :
         \E plans \in {Plans(cfg, intent, profile)} : CallExecute(intent, plans) \/ CallComplete(plans)
    /\ UNCHANGED <<chain, now, crank, owner, window>>

\* send_confirmed returned; what the transaction did to the vault is kept for the properties.
CuratorHears(ok, effect) ==
    LET did == Append(call.did, effect)
    IN call' = IF ~ok THEN Done(IF call.at = "Second" THEN "StageError" ELSE "Failed")
               ELSE IF call.at = "First" /\ call.stage # <<>> THEN [call EXCEPT !.at = "Refresh", !.did = did]
               ELSE [Done(IF call.at = "First" THEN OutcomeOfSingle(call.last[1])
                          ELSE OutcomeOfStaged(call.stage[1], call.last[1])) EXCEPT !.did = did]

-----------------------------------------------------------------------------
(* The owner's desk: its operations in turn, each retried until it has landed or is given up. *)

\* The manager the desk built when it last called vault_manager.
DeskManagers(rpc, actor) ==
    vault_manager([rpc EXCEPT !.accounts[VaultKey] = RawAs(owner.seen)], VaultKey, actor)

\* What the owner sees to be done already, by a transaction it had given up on.
Achieved(op) ==
    LET safety == Safeties[chain.raw.safety + 1]
    IN \/ op.name = "StartShutdown" /\ WindingDown
       \/ op.name = "FinalizeShutdown" /\ safety = "WithdrawOnly"
       \/ op.name = "Unlock" /\ chain.stake = 0

OwnerAct ==
    /\ owner.at = "Idle" /\ owner.ops # <<>>
    /\ ~chain.closed
    /\ LET op == Head(owner.ops)
       IN IF Achieved(op) THEN owner' = [owner EXCEPT !.ops = Tail(@)] /\ UNCHANGED flight
          ELSE \E rpc \in {Rpc} : \E built \in {UNION {owner_operation(m, op, rpc, 0) : m \in DeskManagers(rpc, op.actor)}} :
               \/ /\ built = {}
                  /\ owner' = [owner EXCEPT !.seen = Seen, !.ops = IF op.optional THEN Tail(@) ELSE @]
                  /\ UNCHANGED flight
               \/ \E ixs \in built :
                    /\ owner' = [owner EXCEPT !.at = "Await"]
                    /\ Send("owner", ixs, DefaultUnits)
    /\ UNCHANGED <<chain, now, crank, call, left, window>>

\* After a failure the desk builds its manager anew.
OwnerHears(ok) ==
    owner' = [owner EXCEPT !.at = "Idle", !.seen = IF ok THEN @ ELSE Seen,
                           !.ops = IF ok \/ Head(@).optional THEN Tail(@) ELSE @]

-----------------------------------------------------------------------------
(* Transactions. *)

\* What a landed transaction did with the second leg: opened a slot, closed it, or swapped at once.
Effect(c, d) ==
    IF ~Slot(c) /\ Slot(d) THEN [what |-> "Opened", generation |-> d.raw.staged_generation, leg |-> Legs[d.raw.staged_leg + 1]]
    ELSE IF Slot(c) /\ ~Slot(d)
    THEN [what |-> "Closed", generation |-> c.raw.staged_generation, leg |-> IF d.second > c.second THEN "Second" ELSE "Main"]
    ELSE [what |-> "Swapped", generation |-> 0, leg |-> IF d.second > c.second THEN "Second" ELSE "Main"]

Heard(from, ok, effect) ==
    /\ IF from = "crank" THEN CrankHears(ok) ELSE UNCHANGED crank
    /\ IF from = "curator" THEN CuratorHears(ok, effect) ELSE UNCHANGED call
    /\ IF from = "owner" THEN OwnerHears(ok) ELSE UNCHANGED owner

Unheard == UNCHANGED <<crank, call, owner>>

\* The clock at which the window last changed on chain.
Watch(d) == window' = IF Accepting(chain) = Accepting(d) THEN window ELSE now

Land(t) ==
    /\ now <= t.sent + TxLife
    /\ flight' = flight \ {t}
    /\ \E ds \in {Lands(chain, t.ixs, t.units, now)} :
         \/ /\ ds = {}
            /\ IF t.awaited THEN Heard(t.from, FALSE, {}) ELSE Unheard
            /\ UNCHANGED <<chain, window>>
         \/ \E d \in ds :
              /\ chain' = d
              /\ Watch(d)
              /\ IF t.awaited THEN Heard(t.from, TRUE, Effect(chain, d)) ELSE Unheard
    /\ UNCHANGED <<now, left>>

\* The confirmation does not come: the sender gives up, the transaction stays.
Unresolved(t) ==
    /\ t.awaited
    /\ left.late > 0
    /\ left' = [left EXCEPT !.late = @ - 1]
    /\ flight' = (flight \ {t}) \cup {[t EXCEPT !.awaited = FALSE]}
    /\ Heard(t.from, FALSE, {})
    /\ UNCHANGED <<chain, now, window>>

Expire(t) ==
    /\ now > t.sent + TxLife
    /\ flight' = flight \ {t}
    /\ IF t.awaited THEN Heard(t.from, FALSE, {}) ELSE Unheard
    /\ UNCHANGED <<chain, now, left, window>>

-----------------------------------------------------------------------------
(* Users, trading, another operator, and time. *)

Moves(d) ==
    /\ chain' = Settled(d)
    /\ Watch(d)
    /\ UNCHANGED <<now, flight, crank, call, owner>>

RequestDeposit(u) ==
    /\ left.requests > 0 /\ ~chain.closed
    /\ Accepting(chain) /\ chain.deposit[u] = 0
    /\ Moves([chain EXCEPT !.deposit[u] = 1])
    /\ left' = [left EXCEPT !.requests = @ - 1]

\* A holder queues all it has; once the vault winds down it always may.
RequestWithdraw(u) ==
    /\ left.requests > 0 \/ WindingDown
    /\ ~chain.closed
    /\ chain.withdraw[u] = 0 /\ chain.shares[u] > 0
    /\ Moves([chain EXCEPT !.withdraw[u] = chain.shares[u], !.shares[u] = 0])
    /\ left' = [left EXCEPT !.requests = IF WindingDown THEN @ ELSE @ - 1]

\* An option is sold against the vault, expires, and is settled.
Trade ==
    /\ left.trades > 0 /\ now < MaxNow /\ ~chain.closed
    /\ InMode(chain, "Idle", "Normal") /\ chain.raw.flags = 0 /\ chain.stake > 0
    /\ Moves([chain EXCEPT !.raw.phase = 1, !.raw.active_expiry = now + 1])
    /\ left' = [left EXCEPT !.trades = @ - 1]

Settle ==
    /\ chain.raw.phase \in {1, 2}
    /\ now >= chain.raw.active_expiry
    /\ Moves([chain EXCEPT !.raw.phase = @ + 1])
    /\ UNCHANGED left

\* Another operator of the same vault stages and unstages on its own.
OtherStage ==
    /\ left.others > 0 /\ ~chain.closed
    /\ ~Slot(chain) /\ chain.raw.phase = 1
    /\ Moves([chain EXCEPT !.raw.staged_amount = 50, !.raw.staged_leg = 0,
                            !.raw.staged_mint = <<"mint", "base">>, !.raw.staged_generation = @ + 1])
    /\ left' = [left EXCEPT !.others = @ - 1]

OtherUnstage ==
    /\ left.others > 0
    /\ Slot(chain)
    /\ Moves([chain EXCEPT !.raw.staged_amount = 0])
    /\ left' = [left EXCEPT !.others = @ - 1]

Tick ==
    /\ now < MaxNow
    /\ now' = now + 1
    /\ UNCHANGED <<chain, flight, crank, call, owner, left, window>>

-----------------------------------------------------------------------------
Init ==
    \E s \in Scenarios :
        /\ chain = s.chain
        /\ left = s.left
        /\ owner = [at |-> "Idle", ops |-> s.ops,
                    seen |-> [second_mint |-> s.chain.raw.second_mint, generation |-> s.chain.raw.second_leg_generation,
                              delegate |-> s.chain.raw.primary_delegate]]
        /\ now = s.now
        /\ flight = {}
        /\ crank = Asleep(<<>>)
        /\ call = [at |-> "Idle", cfg |-> {}, intent |-> {}, stage |-> <<>>, last |-> <<>>, did |-> <<>>, outcome |-> "None"]
        /\ window = s.now

Crank == CrankRead \/ CrankScanDeposits \/ CrankScanWithdrawals \/ CrankSupply \/ CrankSend
UserAct == \E u \in Users : RequestDeposit(u) \/ RequestWithdraw(u)
Network == \E t \in flight : Land(t) \/ Unresolved(t) \/ Expire(t)

Next ==
    \/ Crank \/ CrankRestart
    \/ Discover \/ (\E profile \in JupiterAnswers : Execute(profile))
    \/ OwnerAct
    \/ Network
    \/ UserAct
    \/ Trade \/ Settle \/ OtherStage \/ OtherUnstage \/ Tick

\* The crank and the desk run on; transactions land or expire; time passes, trades settle, and who holds shares of a
\* vault that winds down asks for them back; and while a request waits, an open slot is worked on with Jupiter answering.
Delivered(from) == \E t \in {x \in flight : x.from = from} : Land(t) \/ Expire(t)
Passes == Tick \/ Settle \/ (WindingDown /\ \E u \in Users : RequestWithdraw(u))
WorksOnSlot ==
    /\ Pending(chain) # {}
    /\ Slot(chain) \/ call.at = "Refresh"
    /\ Discover \/ \E p \in JupiterAnswers : p[QuoteBudgets[4]] > 0 /\ Execute(p)

Fairness ==
    /\ WF_vars(Crank) /\ WF_vars(OwnerAct) /\ WF_vars(Passes) /\ WF_vars(WorksOnSlot)
    /\ \A from \in {"crank", "curator", "owner"} : WF_vars(Delivered(from))

Spec == Init /\ [][Next]_vars /\ Fairness

-----------------------------------------------------------------------------
\* A call that execute reports as executed moved the vault's legs the way its intent says, at once or by a stage and the
\* unstage of that very slot into the other leg; one reported as recovered closed a slot and moved nothing further.
OutcomeIsTrue ==
    LET target == IF Buying(call.intent) THEN "Second" ELSE "Main"
    IN /\ call.outcome = "Executed" =>
            \/ \E d \in Range(call.did) : call.did = <<d>> /\ d.what = "Swapped" /\ d.leg = target
            \/ /\ Len(call.did) = 2
               /\ call.did[1].what = "Opened" /\ call.did[2].what = "Closed"
               /\ call.did[1].generation = call.did[2].generation
               /\ call.did[1].leg # target /\ call.did[2].leg = target
       /\ call.outcome = "Recovered" =>
            /\ Last(call.did).what = "Closed"
            /\ Len(call.did) = 2 => /\ call.did[1].generation = call.did[2].generation
                                    /\ call.did[1].leg = call.did[2].leg

\* When the crank decides to close a window nobody uses, it has been open on chain for the deposit window, and when it
\* decides to open it again, closed for the trading window (crank.rs next_step), however often the crank restarts,
\* and whichever of the transactions it gave up on still lands.
WindowIsHonoured ==
    [][/\ crank.step = "None" /\ crank'.step = "CloseDeposits" /\ Pending(chain) = {} =>
            Accepting(chain) /\ now - window >= DepositWindow
       /\ crank.step = "None" /\ crank'.step = "OpenDeposits" =>
            ~Accepting(chain) /\ now - window >= TradingWindow]_vars

\* Whatever is queued, the queue drains: every deposit and withdrawal is in the end processed or refunded, and no
\* request, and no staged swap, leaves the cycle with a step that is never taken or always refused.
RequestsArePaid == Pending(chain) # {} ~> Pending(chain) = {}

\* A shutdown the owner's desk has begun ends with the vault closed.
ShutdownCompletes == chain.raw.safety = Code(Safeties, "Closing") ~> chain.closed
=============================================================================
