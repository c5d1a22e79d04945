----------------------------- MODULE MCMakerDesk -----------------------------
(***************************************************************************)
(* The instances of MakerDesk that are checked: where the desk starts.     *)
(***************************************************************************)
EXTENDS MakerDesk, TLC

Market(put, legs) ==
    [chain |-> 0, program |-> Program, is_put |-> put, underlying |-> "U", quote |-> "Q", collateral |-> legs[1],
     settlement |-> legs[2], expiry |-> 3, whole_seconds |-> TRUE,
     pda |-> <<"market", Program, "U", "Q", 3, put>>]

Rfq(terms, market, price) ==
    [id |-> 1, side |-> "Sell", terms |-> terms, options |-> <<terms>>, quantity |-> 3, taker |-> "Taker",
     market |-> market, price |-> price, valid_until |-> 2, min_valid_until |-> 1, buffer_end |-> 1]

Terms(type, strike, upper) == [type |-> type, strike |-> strike, upper |-> upper]
Call == Rfq(Terms("CoveredCall", 20, 0), Market(FALSE, <<"U", "Q">>), 5)
CallSpread(price) == Rfq(Terms("CallSpread", 10, 25), Market(FALSE, <<"Q", "Q">>), price)
CashPut == Rfq(Terms("CashPut", 15, 0), Market(TRUE, <<"Q", "Q">>), 5)

NoArgs == [funds |-> FALSE, finalized |-> FALSE, payer |-> "Holder", create |-> TRUE, reserve |-> 1, ws |-> TRUE,
           kind |-> "CoveredCall", strike |-> 20, legs |-> [quantity |-> 3, quote_scale |-> 1, underlying_scale |-> 10],
           side |-> "Sell", holder |-> TRUE, is_put |-> FALSE, sol_mint |-> TRUE, program |-> "Token"]
Purse(sol, tok, ata, posAta) == [sol |-> sol, tok |-> tok, ata |-> ata, posAta |-> posAta]

Start(g, ts, a, w, f, n) ==
    /\ gen = g /\ tasks = ts /\ args = a /\ wallet = w /\ fund = [NoFund EXCEPT !.at = f] /\ faults = n
    /\ link = [up |-> TRUE, epoch |-> 0, out |-> <<>>, down |-> <<>>]
    /\ ring = [items |-> <<>>, lagged |-> FALSE] /\ now = 0 /\ deal = {} /\ position = "None"
    /\ txs = <<>> /\ conf = NoConf /\ node = NoNode

NewTask(rfq) == [at |-> "New", rfq |-> rfq, epoch |-> 0, base |-> 0, draw |-> 0, nonce |-> 0]
Untracked(n, picks) == trackers = [i \in 1..n |-> {}] /\ venue = [open |-> TRUE, picks |-> picks, orders |-> <<>>]

\* Two tasks quote the same RFQ with a fresh generator.
Racing == Start([base |-> 0, counter |-> 1], <<NewTask(Call), NewTask(Call)>>, NoArgs, Purse(0, 0, TRUE, TRUE), "Idle", 0)
          /\ Untracked(2, MaxPicks)

\* One task, and a stream that fails.
Streaming == Start([base |-> 0, counter |-> 1], <<NewTask(Call)>>, NoArgs, Purse(0, 0, TRUE, TRUE), "Idle", MaxFaults)
             /\ Untracked(1, 0)

\* One task and an RFQ: spreads, and broadcasts and quotes that do not hold.
Rfqs == {CallSpread(5), CallSpread(15), CashPut, [CallSpread(5) EXCEPT !.options = <<>>], [CashPut EXCEPT !.terms.strike = 0],
         [Call EXCEPT !.market.program = "Other"], [Call EXCEPT !.market.collateral = "Q"], [Call EXCEPT !.market.pda = <<>>],
         [Call EXCEPT !.options = <<Terms("CashSecuredPut", 20, 0)>>],
         [Call EXCEPT !.valid_until = 4], [Call EXCEPT !.min_valid_until = 3], [Call EXCEPT !.buffer_end = 2]}
Single ==
    \E rfq \in Rfqs :
      Start([base |-> 2, counter |-> 5], <<NewTask(rfq)>>, [NoArgs EXCEPT !.is_put = rfq.market.is_put], Purse(0, 0, TRUE, TRUE), "Idle", 0)
      /\ Untracked(1, 0)

\* A selected order, about to be filled and funded.
Fundings ==
    {<<NoArgs, Purse(sol, 0, FALSE, FALSE)>> : sol \in {6, 11, 13}}
    \cup {<<[NoArgs EXCEPT !.ws = FALSE, !.payer = "Sponsor"], Purse(8, 0, FALSE, FALSE)>>,
          <<[NoArgs EXCEPT !.create = FALSE], Purse(8, 3, TRUE, TRUE)>>,
          <<[NoArgs EXCEPT !.create = FALSE], Purse(8, 6, TRUE, TRUE)>>,
          <<[NoArgs EXCEPT !.create = FALSE], Purse(8, 0, FALSE, FALSE)>>,
          <<NoArgs, Purse(9, 0, TRUE, FALSE)>>,
          <<[NoArgs EXCEPT !.reserve = 0 - 1], Purse(8, 6, TRUE, TRUE)>>,
          <<[NoArgs EXCEPT !.sol_mint = FALSE], Purse(2, 5, TRUE, FALSE)>>,
          <<[NoArgs EXCEPT !.program = "Token2022"], Purse(9, 0, FALSE, FALSE)>>,
          <<[NoArgs EXCEPT !.strike = 2], Purse(9, 0, FALSE, FALSE)>>,
          <<[NoArgs EXCEPT !.kind = "CashSecuredPut", !.is_put = TRUE, !.ws = FALSE], Purse(9, 0, FALSE, TRUE)>>,
          <<[NoArgs EXCEPT !.side = "Buy"], Purse(9, 0, FALSE, FALSE)>>,
          <<[NoArgs EXCEPT !.holder = FALSE], Purse(9, 0, FALSE, FALSE)>>}
Funding1 ==
    \E c \in Fundings, b \in from_broadcast(Call, Program) :
      LET task == [NewTask(Call) EXCEPT !.at = "Sent", !.nonce = 7]
      IN \E id \in order_id(b, Quote(task)) :
           /\ Start([base |-> 2, counter |-> 6], <<task>>, [c[1] EXCEPT !.funds = TRUE], c[2], "Idle", 1)
           /\ trackers = <<{[Track(1, id, 0, Deadline) EXCEPT !.outcome = "Selected"]}>>
           /\ venue = [open |-> TRUE, picks |-> MaxPicks, orders |-> (id :> "Selected")]

\* A batch of transactions, with nothing quoted.
Batch == Start([base |-> 2, counter |-> 6], <<>>, [NoArgs EXCEPT !.funds = TRUE], Purse(9, 0, TRUE, TRUE), "Batch", MaxFaults)
         /\ trackers = <<>> /\ venue = [open |-> FALSE, picks |-> 0, orders |-> <<>>]

Init == (Racing \/ Streaming \/ Single \/ Funding1 \/ Batch) /\ Ready
Spec == Init /\ [][Next]_vars
=============================================================================
