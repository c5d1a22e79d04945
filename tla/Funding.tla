------------------------------- MODULE Funding -------------------------------
(***************************************************************************)
(* ChainClient::fund_position (chain/rpc.rs, batch.rs, wsol.rs,            *)
(* settlement.rs): the deposit into an open position, with the SOL it      *)
(* wraps, submitted and confirmed; and the batch of transactions sent      *)
(* under one blockhash (send_instructions_with_blockhash).  The wallet and *)
(* the position move between the reads the plan is made from, and between  *)
(* the send and the landing.                                               *)
(***************************************************************************)
EXTENDS Confirmation, Spreads

CONSTANTS Rent,     \* lamports a token account holds
          Fee,      \* lamports of a transaction
          MaxTxs    \* bound on transactions sent

ASSUME FundAssumption == Rent \in Nat /\ Fee \in Nat /\ MaxTxs \in Nat

VARIABLES args,      \* the call, and what does not change of the position and its market: [payer, create, reserve (-1:
                     \* wrapping disabled), ws, kind, strike, legs, side, holder, is_put, sol_mint, program]
          wallet,    \* the holder: [sol, tok, ata, posAta]: lamports, settlement tokens, and whether the holder's and
                     \* the position's accounts of that token exist
          position,  \* status of the position
          fund       \* the call: [at, existing, rent, wrap, since], since what left the wallet since it was validated,
                     \* and the rent of an account closed since it was read

fundVars == <<args, wallet, position, fund>>

\* What a caller may ask for, of a position of its own or not.
Calls ==
    [funds : BOOLEAN, finalized : BOOLEAN, payer : {"Holder", "Sponsor"}, create : BOOLEAN, reserve : Int, ws : BOOLEAN,
     kind : {"CoveredCall", "CashSecuredPut", "CallSpread", "PutSpread"}, strike : 0..MaxU64,
     legs : [quantity : 0..MaxU64, quote_scale : Nat \ {0}, underlying_scale : Nat \ {0}],
     side : {"Sell", "Buy"}, holder : BOOLEAN, is_put : BOOLEAN, sol_mint : BOOLEAN, program : {"Token", "Token2022"}]

NoFund == [at |-> "Idle", existing |-> 0, rent |-> 0, wrap |-> 0, since |-> 0]

scaled_quote_amount(per_unit, t) == quote_amount(per_unit, t, FALSE)

required_settlement(a) ==
    {amount \in scaled_quote_amount(a.strike, a.legs) : a.kind = "CoveredCall"}
    \cup If(a.kind = "CashSecuredPut", a.legs.quantity)

\* fund_instructions and build_fund_position_ixs: a position the maker holds open, of a physical type.
MayFund(a, status) ==
    /\ a.side = "Sell" /\ a.holder /\ status = "Open"
    /\ a.is_put = (a.kind = "CashSecuredPut")
    /\ a.kind \in {"CoveredCall", "CashSecuredPut"}

PaysRent(a) == a.create /\ a.payer = "Holder"

\* Mutant of required_lamports: the rent of the accounts it creates is left out.
RequiredWithoutRent(f, fee_lamports) == f.wrap + fee_lamports + args.reserve

\* NativeSolBudget::required_lamports
required_lamports(f, fee_lamports) == f.wrap + f.rent + fee_lamports + args.reserve

To(at) == fund' = [fund EXCEPT !.at = at]
Refused == fund' = [NoFund EXCEPT !.at = "Refused"]

Reading == UNCHANGED <<txs, conf, node, faults, args, wallet, position>>

\* A request of the call fails.
RpcFails == /\ fund.at \in {"Position", "Accounts", "Balance", "Budget"}
            /\ Fails /\ Refused
            /\ UNCHANGED <<txs, conf, node, args, wallet, position>>

\* fund_position: again after an error, as the caller may.
FundPosition ==
    /\ fund.at \in {"Idle", "Refused"} /\ position # "None" /\ Len(txs) < MaxTxs
    /\ fund' = [NoFund EXCEPT !.at = "Position"]
    /\ Reading

\* prepare_fund_position reads the position and its market; only a SOL deposit with wrapping enabled is planned further.
ReadPosition ==
    /\ fund.at = "Position"
    /\ LET wraps == args.reserve >= 0 /\ args.sol_mint
           wrappable == args.program = "Token" /\ required_settlement(args) \ {0} # {}
       IN \/ MayFund(args, position) /\ ~wraps /\ To("Send")
          \/ MayFund(args, position) /\ wraps /\ wrappable /\ To("Accounts")
          \/ ~(MayFund(args, position) /\ (wraps => wrappable)) /\ Refused
    /\ Reading

\* The holder's account, and the position's when the holder pays for its creation.
ReadAccounts ==
    /\ fund.at = "Accounts"
    /\ LET pays(exists) == IF PaysRent(args) /\ ~exists THEN Rent ELSE 0
           seen == [fund EXCEPT !.existing = IF wallet.ata THEN wallet.tok ELSE 0,
                                !.rent = pays(wallet.ata) + pays(wallet.posAta)]
           enough == \E amount \in required_settlement(args) : seen.existing >= amount
       IN \/ wallet.ata /\ enough /\ To("Send")
          \/ (wallet.ata \/ args.create) /\ ~enough /\ fund' = [seen EXCEPT !.at = "Balance"]
          \/ ~wallet.ata /\ ~args.create /\ Refused
    /\ Reading

\* plan_wsol_wrap and decide_wrap: what is missing is wrapped, if the reserve and the rents stay.
ReadBalance ==
    /\ fund.at = "Balance"
    /\ \E amount \in required_settlement(args) :
         LET f == [fund EXCEPT !.at = "Budget", !.wrap = amount - fund.existing]
         IN fund' = IF wallet.sol >= required_lamports(f, 0) THEN f ELSE [NoFund EXCEPT !.at = "Refused"]
    /\ Reading

\* submit_instructions with a budget: validated once more with the fee the holder pays, then signed.
ValidateBudget ==
    /\ fund.at = "Budget"
    /\ IF wallet.sol >= required_lamports(fund, IF args.payer = "Holder" THEN Fee ELSE 0) THEN To("Send") ELSE Refused
    /\ Reading

\* send_transaction; an error does not say that the node has not taken it.
SendFund ==
    /\ fund.at = "Send"
    /\ LET sent == Append(txs, [status |-> "Sent", kind |-> "Fund", wrap |-> fund.wrap, since |-> fund.since])
       IN \/ txs' = sent /\ To("Confirm") /\ conf' = (IF args.ws THEN Confirming(<<Len(sent)>>) ELSE NoConf)
             /\ UNCHANGED faults
          \/ Fails /\ txs' \in {txs, sent} /\ Refused /\ UNCHANGED conf
    /\ UNCHANGED <<node, args, wallet, position>>

\* confirm_submitted: an outcome that is not known is an error; without a WebSocket the RPC client polls until the
\* transaction is found, its blockhash has expired or a request fails.
Submitted ==
    /\ fund.at = "Confirm"
    /\ LET status == txs[Len(txs)].status
       IN \/ /\ args.ws /\ conf.at \in {"Done", "Error"}
             /\ fund' = [NoFund EXCEPT !.at = IF conf.at = "Done" /\ conf.results = <<"Confirmed">> THEN "Funded" ELSE "Refused"]
             /\ UNCHANGED faults
          \/ /\ ~args.ws /\ status \in {"Confirmed", "Failed", "Gone"}
             /\ fund' = [NoFund EXCEPT !.at = IF status = "Confirmed" THEN "Funded" ELSE "Refused"]
             /\ UNCHANGED faults
          \/ ~args.ws /\ Fails /\ Refused
    /\ UNCHANGED <<txs, conf, node, args, wallet, position>>

\* send_instructions_with_blockhash, then confirm_signatures over what was acknowledged; the send that fails may have
\* reached the node, too.
SendBatch ==
    /\ fund.at = "Batch"
    /\ LET sent == Append(txs, [status |-> "Sent", kind |-> "Plain", wrap |-> 0, since |-> 0])
           confirms == To("Sent") /\ conf' = Confirming([i \in DOMAIN txs |-> i])
       IN \/ Len(txs) < MaxTxs /\ txs' = sent /\ UNCHANGED <<conf, fund, faults>>
          \/ Len(txs) < MaxTxs /\ Fails /\ txs' \in {txs, sent} /\ confirms
          \/ Len(txs) = MaxTxs /\ confirms /\ UNCHANGED <<txs, faults>>
    /\ UNCHANGED <<node, args, wallet, position>>

-----------------------------------------------------------------------------
(* The chain, and what else uses the wallet. *)

Become(s, status) == [txs EXCEPT ![s].status = status]

\* Every other transaction under way sees d leave the wallet.
Leaves(d, sent) ==
    /\ txs' = [s \in DOMAIN sent |-> IF sent[s].kind = "Fund" /\ sent[s].status \in {"Sent", "Processed"}
                                     THEN [sent[s] EXCEPT !.since = @ + d] ELSE sent[s]]
    /\ fund' = IF fund.at = "Send" THEN [fund EXCEPT !.since = @ + d] ELSE fund

Charge(d) == wallet' = [wallet EXCEPT !.sol = @ - d]

\* A transaction is processed on a fork, dropped from it, or expires with its blockhash.
TxMoves ==
    /\ \E s \in DOMAIN txs :
         \/ txs[s].status = "Sent" /\ txs' = Become(s, "Processed") /\ UNCHANGED faults
         \/ txs[s].status = "Sent" /\ txs' = Become(s, "Gone") /\ UNCHANGED faults
         \/ txs[s].status = "Processed" /\ Fails /\ txs' = Become(s, "Sent")
    /\ UNCHANGED <<conf, node, fundVars>>

Created == IF args.create THEN (IF wallet.ata THEN 0 ELSE Rent) + (IF wallet.posAta THEN 0 ELSE Rent) ELSE 0
HolderPays(amount) == IF args.payer = "Holder" THEN amount ELSE 0

\* The deposit goes through whole or not at all; the fee is paid in either case.
Deposits(tx) ==
    /\ position = "Open"
    /\ args.create \/ (wallet.ata /\ wallet.posAta)
    /\ wallet.sol >= HolderPays(Fee + Created) + tx.wrap
    /\ \E amount \in required_settlement(args) : wallet.tok + tx.wrap >= amount

TxFinal ==
    \E s \in DOMAIN txs :
      /\ txs[s].status = "Processed"
      /\ \/ /\ txs[s].kind = "Plain"
            /\ \E status \in Final : txs' = Become(s, status)
            /\ UNCHANGED fundVars
         \/ /\ txs[s].kind = "Fund" /\ Deposits(txs[s])
            /\ LET cost == HolderPays(Fee + Created) + txs[s].wrap
               IN /\ \E amount \in required_settlement(args) :
                       wallet' = [sol |-> wallet.sol - cost, tok |-> wallet.tok + txs[s].wrap - amount,
                                  ata |-> TRUE, posAta |-> TRUE]
                  /\ Leaves(cost, Become(s, "Confirmed"))
            /\ position' = "Funded" /\ UNCHANGED args
         \/ /\ txs[s].kind = "Fund" /\ ~Deposits(txs[s])
            /\ LET paid == Least(wallet.sol, HolderPays(Fee)) IN Charge(paid) /\ Leaves(paid, Become(s, "Failed"))
            /\ UNCHANGED <<args, position>>
      /\ UNCHANGED <<conf, node, faults>>

\* The holder closes the account, of wrapped SOL with what it holds: the rent comes back, and a deposit that creates the
\* account pays it again although the plan that found the account did not count it.
ClosesAccount ==
    /\ wallet.ata /\ (wallet.tok = 0 \/ (args.sol_mint /\ wallet.tok > 0))
    /\ wallet' = [wallet EXCEPT !.sol = @ + Rent + wallet.tok, !.tok = 0, !.ata = FALSE]
    /\ fund' = IF PaysRent(args) /\ fund.at \in {"Balance", "Budget"} THEN [fund EXCEPT !.since = @ + Rent] ELSE fund

\* The holder spends lamports or tokens elsewhere or closes the account, or the position is closed.
WalletMoves ==
    /\ Fails
    /\ \/ wallet.sol > 0 /\ Charge(1) /\ Leaves(1, txs) /\ UNCHANGED position
       \/ wallet.tok > 0 /\ wallet' = [wallet EXCEPT !.tok = @ - 1] /\ UNCHANGED <<txs, fund, position>>
       \/ ClosesAccount /\ UNCHANGED <<txs, position>>
       \/ position = "Open" /\ position' = "Closed" /\ UNCHANGED <<txs, fund, wallet>>
    /\ UNCHANGED <<conf, node, args>>

FundNext == \/ RpcFails \/ FundPosition \/ ReadPosition \/ ReadAccounts \/ ReadBalance \/ ValidateBudget \/ SendFund
            \/ Submitted \/ SendBatch \/ TxMoves \/ TxFinal \/ WalletMoves
            \/ ConfirmNext /\ UNCHANGED fundVars

\* A call, or a batch, that has not started.
Ready ==
    /\ args \in Calls
    /\ wallet \in [sol : Int, tok : Int, ata : BOOLEAN, posAta : BOOLEAN]
    /\ fund \in {[NoFund EXCEPT !.at = at] : at \in {"Idle", "Batch"}}
    /\ txs = <<>> /\ conf = NoConf /\ node = NoNode

\* The desk around a call finalises the market, at most.
Around == UNCHANGED <<txs, conf, node, wallet, fund>> /\ args' \in {args, [args EXCEPT !.finalized = TRUE]}

Moves == FundNext \/ Around
FundSpec == Ready /\ [][Moves]_<<txs, conf, node, wallet, fund, args>>

-----------------------------------------------------------------------------
\* A deposit that wrapped SOL leaves the reserve, less what left the wallet by other hands after the budget was
\* validated and the rent of a token account closed between its reading and that validation: wrap, fee and the rents
\* found due are all in NativeSolBudget, whoever pays them (submit_instructions).
ReserveIsKept ==
    [][\A s \in DOMAIN txs : txs[s].wrap > 0 /\ txs[s].status = "Processed" /\ txs'[s].status = "Confirmed"
          => wallet'.sol + txs[s].since >= args.reserve]_<<txs, wallet>>
=============================================================================
