----------------------------- MODULE VaultSale -----------------------------
(***************************************************************************)
(* The operator's jobs (OperatorJob) on a small deployment                 *)
(* (VaultScenarios), with what may be served to them: which transactions   *)
(* pass verification (Served, ServedSwap, SaleTerms), and which of them do *)
(* what was agreed, read off the message the runtime executes.             *)
(***************************************************************************)
EXTENDS VaultScenarios, OperatorJob

-----------------------------------------------------------------------------
(* What the operator agreed to, read off the message the runtime executes. *)

Keys(tx) == MessageKeys(tx, Tables)
ProgramAt(tx, i) == Keys(tx)[tx.ixs[i].program].key
AccountsAt(tx, i) == Listed([j \in DOMAIN tx.ixs[i].accounts |-> Keys(tx)[tx.ixs[i].accounts[j]].key])
VaultIxs(tx) == {i \in DOMAIN tx.ixs : ProgramAt(tx, i) = Program}
Signers(tx) == {k.key : k \in {x \in Range(Keys(tx)) : x.signer}}
Written(tx) == {k.key : k \in {x \in Range(Keys(tx)) : x.writable}}

\* One vault instruction for an order with the agreed parties, market, size and price; no signer but
\* keeper and operator; no other instruction names the operator (a fill may create its token account);
\* nothing is written that the agreed open does not write.
OpensAgreed(j, tx) ==
    LET a == j.agreed IN
    /\ Cardinality(VaultIxs(tx)) = 1
    /\ Signers(tx) = {Keeper, Operator}
    /\ Written(tx) \subseteq Written(Message(j, "Honest"))
    /\ \A i \in DOMAIN tx.ixs :
         LET d == tx.ixs[i].data IN
         IF i \in VaultIxs(tx)
         THEN LET order == d[8] IN
              /\ <<order[5], order[7], order[8], order[10], order[11]>> =
                    <<a.market, a.quantity, a.price, a.maker, a.taker>>
              /\ <<d[3], d[4], d[5]>> = <<order[6], order[7], order[8]>>
              /\ position_of(Program, order) \in Range(AccountsAt(tx, i))
         ELSE Operator \in Range(AccountsAt(tx, i)) => j.op = "Fill" /\ ProgramAt(tx, i) = Ata

\* The swap spends what was agreed (an unstage the whole slot, else the request), asks for at least the
\* floor unless it fills the slot, ends in the vault's own account for the right leg, names the slot's
\* generation, and leaves shares, policy, delegate and configuration alone.
SwapAgreed(j, tx, q) ==
    LET n == CHOOSE i \in VaultIxs(tx) : TRUE
        d == tx.ixs[n].data
        at == IF q.staging # "None" THEN 4 ELSE IF j.request.mode = "Rebalance" THEN 3 ELSE 2
        route == AccountsAt(tx, n)
        a == j.writer.addresses
        last == d[Len(d)][Len(d[Len(d)])]
        output == CASE q.staging = "Stage" -> ata(a.vault, j.staging_mint, Token)
                    [] j.request.direction = "MainToSecond" -> a.vault_second_ata
                    [] OTHER -> a.vault_main_ata
    IN /\ Cardinality(VaultIxs(tx)) = 1
       /\ Signers(tx) = {Operator}
       /\ d[at] = IF q.staging = "Unstage" THEN j.account.staging.amount ELSE j.request.amount
       /\ q.staging # "Stage" => d[at + 1] >= j.floor
       /\ route[Len(route) - last.count] = output
       /\ q.staging # "None" =>
             d[at + 3] = j.account.staging.generation + (IF q.staging = "Stage" THEN 1 ELSE 0)
       /\ Written(tx) \cap {a.policy, a.delegate, a.global_config, a.swap_venues} = {}
       /\ ata(a.vault, j.writer.args.share_mint, Token) \notin {k.key : k \in Range(Keys(tx))}
       /\ Cardinality({i \in DOMAIN route : route[i] = Operator}) = 1

\* verify_and_sign_swap.
SwapSigns(j, quote, tx) ==
    verify_vault_swap(tx, j.writer, j.routes, j.request, quote, j.floor, j.account, Tables, Bounds)

Passes(j, quote, tx) == IF j.op = "Swap" THEN SwapSigns(j, quote, tx) ELSE Signs(j, quote, tx)
Agreed(j, quote, tx) == IF j.op = "Swap" THEN SwapAgreed(j, tx, quote) ELSE OpensAgreed(j, tx)

Chosen(pairs, j, holds(_, _, _)) ==
    {p \in pairs : \E tx \in {Message(j, p[2])} : holds(j, j.quotes[p[1]], tx)}

\* The job as the state machine sees it: the served transactions by the quote they come with and by name,
\* those that pass verification and those that do what was agreed; an order by one quote that names it.
JobState(name, j, passes) ==
    [name |-> name, op |-> j.op, epoch |-> j.epoch,
     rfq |-> <<"rfq", 1>>,
     terms |-> IF j.op = "Sale" THEN j.terms ELSE <<>>,
     market |-> j.op = "Sale" /\ MarketValid(j),
     strikes |-> j.op = "Sale" /\ StrikesValid(j),
     quotes |-> IF j.op = "Swap" THEN [q \in DOMAIN j.quotes |-> <<>>]
                ELSE [q \in DOMAIN j.quotes |->
                        [order |-> CHOOSE o \in DOMAIN j.quotes : j.quotes[o].order_id = j.quotes[q].order_id]
                        @@ IF j.op = "Sale" THEN [terms |-> j.quotes[q].terms, side |-> j.quotes[q].side,
                                                  rfq |-> j.quotes[q].rfq]
                           ELSE <<>>],
     passes |-> passes,
     agreed |-> Chosen(passes, j, Agreed)]

-----------------------------------------------------------------------------

Init ==
    /\ \E name \in JobNames : \E j \in {JobOf(name)} : \E passes \in {Chosen(Served(j), j, Passes)} :
          job = JobState(name, j, passes)
    /\ Started

\* The operator's task runs, its timers fire, and a session that has not ended reconnects.
Spec == Init /\ [][Next]_vars /\ WF_vars(Operate) /\ WF_vars(Deadline) /\ WF_vars(Expire) /\ WF_vars(Reconnect)
=============================================================================
