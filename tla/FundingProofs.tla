--------------------------- MODULE FundingProofs ---------------------------
(***************************************************************************)
(* What confirmation and funding promise for any number of transactions,   *)
(* any amounts, and any order of the node's messages.                      *)
(***************************************************************************)
EXTENDS Funding, FiniteSetTheorems, TLAPS

\* Unless a leaf names its prover: Zenon for what it finds at once, SMT, and Zenon again.
USE ZenonT(2), SMTT(20), ZenonT(20)

-----------------------------------------------------------------------------
(* Types. *)

Results == {"Pending"} \cup Final
TxStates == {"Sent", "Processed", "Gone"} \cup Final
Txs == [status : TxStates, kind : {"Fund", "Plain"}, wrap : Int, since : Int]
Confs ==
    [at : {"None", "Connecting", "Listening", "Pass", "Done", "Error"}, sigs : Seq(Nat), results : Seq(Results),
     subs : SUBSET (Nat \X Nat), early : SUBSET (Nat \X Final), read : Seq(Results)]
Wired == [type : {"Answer"}, id : Nat, sub : Nat] \cup [type : {"Notification"}, sub : Nat, status : Final]
Nodes == [asked : SUBSET Nat, subs : SUBSET (Nat \X Nat), told : SUBSET Nat, wire : SUBSET Wired]
Stages ==
    {"Idle", "Batch", "Sent", "Position", "Accounts", "Balance", "Budget", "Send", "Confirm", "Funded", "Refused"}
Funds0 == [at : Stages, existing : Int, rent : Int, wrap : Int, since : Int]

ChainTypes == txs \in Seq(Txs) /\ conf \in Confs /\ node \in Nodes
FundTypes ==
    /\ args \in Calls
    /\ wallet \in [sol : Int, tok : Int, ata : BOOLEAN, posAta : BOOLEAN]
    /\ fund \in Funds0

-----------------------------------------------------------------------------
(* Confirmation. *)

\* What a notification says of a subscription of this socket is so.
Known(sub, status) == sub = 0 \/ \E n \in DOMAIN txs : <<sub, n>> \in node.subs /\ txs[n].status = status

\* What the call has heard, by signature or not yet by signature.
ConfInv ==
    /\ DOMAIN conf.results = DOMAIN conf.sigs
    /\ \A i \in DOMAIN conf.sigs : conf.sigs[i] \in DOMAIN txs
    /\ ConfirmationIsTrue
    /\ \A s \in conf.subs : s[2] \in DOMAIN conf.sigs /\ <<s[1], conf.sigs[s[2]]>> \in node.subs
    /\ \A e \in conf.early : Known(e[1], e[2])

\* The node numbers its subscriptions, and what is on the wire is about them.
NodeInv ==
    /\ IsFiniteSet(node.subs)
    /\ \A s \in node.subs : s[1] \in 1..Cardinality(node.subs) /\ s[2] \in DOMAIN txs
    /\ \A s, r \in node.subs : s[1] = r[1] => s = r
    /\ node.asked \subseteq DOMAIN conf.sigs
    /\ \A m \in node.wire : /\ m.type = "Answer" => m.id \in DOMAIN conf.sigs /\ <<m.sub, conf.sigs[m.id]>> \in node.subs
                            /\ m.type = "Notification" => Known(m.sub, m.status)

\* There is a socket only while the call listens.
SocketInv == conf.at # "Listening" => node = NoNode /\ conf.subs = {} /\ conf.early = {}

\* There is a call only while someone waits for it.
CallInv ==
    conf.at \in {"Connecting", "Listening", "Pass"} => fund.at \in {"Confirm", "Sent"} /\ (fund.at = "Confirm" => args.ws)

\* What the pass has read, by place.
PassInv ==
    /\ conf.at # "Pass" => conf.read = <<>>
    /\ Len(conf.read) <= Cardinality(Open(conf))
    /\ \A i \in Open(conf) : Place(conf, i) \in DOMAIN conf.read
          => conf.read[Place(conf, i)] \in {"Pending", txs[conf.sigs[i]].status}

-----------------------------------------------------------------------------
(* The reserve. *)

RentDue ==
    IF PaysRent(args) THEN (IF wallet.ata THEN 0 ELSE Rent) + (IF wallet.posAta THEN 0 ELSE Rent) ELSE 0
FeeDue == IF args.payer = "Holder" THEN Fee ELSE 0

\* With what left it since, the wallet had the wrap, what it costs and the reserve.
Backed(wrap, since) == wallet.sol + since >= wrap + RentDue + FeeDue + args.reserve

\* What was sent.
SentInv ==
    \A s \in DOMAIN txs :
      /\ txs[s].wrap > 0 => txs[s].kind = "Fund"
      /\ txs[s].wrap > 0 /\ txs[s].status \in {"Sent", "Processed"} => Backed(txs[s].wrap, txs[s].since)

\* What is planned.
PlanInv ==
    /\ fund.at = "Send" /\ fund.wrap > 0 => Backed(fund.wrap, fund.since)
    /\ fund.at \notin {"Balance", "Budget", "Send", "Confirm"} => fund.since = 0
    /\ fund.at \in {"Position", "Accounts", "Balance"} => fund.wrap = 0
    /\ fund.at \in {"Balance", "Budget"} => RentDue <= fund.rent + fund.since

-----------------------------------------------------------------------------
(* Steps. *)

Requests == RpcFails \/ FundPosition \/ ReadPosition \/ ReadAccounts \/ ReadBalance \/ ValidateBudget \/ Submitted

LEMMA RequestKeeps ==
    ASSUME Requests
    PROVE  UNCHANGED <<txs, conf, node, args, wallet>>
BY Zenon DEF Requests, RpcFails, FundPosition, ReadPosition, ReadAccounts, ReadBalance, ValidateBudget, Submitted, Reading

LEMMA ConfirmKeeps ==
    ASSUME ConfirmNext
    PROVE  txs' = txs
BY Zenon DEF ConfirmNext, Subscribe, HearAnswer, HearNotification, StopListening, ReadStatuses, NodeAnswers, NodeNotifies

LEMMA NoneTypes ==
    /\ NoConf \in Confs /\ NoNode \in Nodes /\ NoFund \in Funds0
    /\ NoConf.at = "None" /\ NoConf.sigs = <<>> /\ NoConf.results = <<>> /\ NoConf.subs = {} /\ NoConf.early = {}
    /\ NoConf.read = <<>>
    /\ NoNode.asked = {} /\ NoNode.subs = {} /\ NoNode.told = {} /\ NoNode.wire = {}
<1>1. NoConf \in Confs
    BY DEF NoConf, Confs
<1>2. NoNode \in Nodes
    BY DEF NoNode, Nodes
<1>3. NoFund \in Funds0
    BY DEF NoFund, Funds0, Stages
<1> QED BY <1>1, <1>2, <1>3 DEF NoConf, NoNode

\* A transaction that is added or moves keeps its type, and one that is final stays as it is.
Grows ==
    /\ txs' \in Seq(Txs)
    /\ Len(txs) <= Len(txs')
    /\ \A n \in DOMAIN txs : txs[n].status \in Final => txs'[n].status = txs[n].status

LEMMA BecomeType ==
    ASSUME ChainTypes, NEW s \in DOMAIN txs, NEW status \in TxStates
    PROVE  /\ Become(s, status) \in Seq(Txs) /\ Len(Become(s, status)) = Len(txs)
           /\ Become(s, status)[s] = [txs[s] EXCEPT !.status = status]
           /\ \A n \in DOMAIN txs : n # s => Become(s, status)[n] = txs[n]
<1>1. txs \in Seq(Txs) /\ txs[s] \in Txs
    BY DEF ChainTypes
<1>2. [txs[s] EXCEPT !.status = status] \in Txs
    BY <1>1 DEF Txs
<1> QED BY <1>1, <1>2 DEF Become

LEMMA LeavesType ==
    ASSUME ChainTypes, FundTypes, NEW sent \in Seq(Txs), NEW d \in Int, Leaves(d, sent)
    PROVE  /\ txs' \in Seq(Txs) /\ Len(txs') = Len(sent) /\ fund' \in Funds0
           /\ \A n \in DOMAIN sent : /\ txs'[n].status = sent[n].status /\ txs'[n].kind = sent[n].kind
                                     /\ txs'[n].wrap = sent[n].wrap
                                     /\ txs'[n].since =
                                          IF sent[n].kind = "Fund" /\ sent[n].status \in {"Sent", "Processed"}
                                          THEN sent[n].since + d ELSE sent[n].since
           /\ fund'.at = fund.at /\ fund'.wrap = fund.wrap /\ fund'.rent = fund.rent /\ fund'.existing = fund.existing
           /\ fund'.since = IF fund.at = "Send" THEN fund.since + d ELSE fund.since
<1>1. ASSUME NEW n \in DOMAIN sent
      PROVE  sent[n] \in Txs /\ [sent[n] EXCEPT !.since = @ + d] \in Txs
    <2>1. PICK x \in Txs : x = sent[n]
        OBVIOUS
    <2>2. PICK e \in Int : e = x.since + d
        BY DEF Txs
    <2>3. [x EXCEPT !.since = e] \in Txs
        BY DEF Txs
    <2> QED BY <2>1, <2>2, <2>3
<1>2. \A n \in DOMAIN sent : [sent[n] EXCEPT !.since = @ + d].status = sent[n].status
    BY DEF Txs
<1>3. \A n \in DOMAIN sent : [sent[n] EXCEPT !.since = @ + d].kind = sent[n].kind
    BY DEF Txs
<1>4. \A n \in DOMAIN sent : [sent[n] EXCEPT !.since = @ + d].wrap = sent[n].wrap
    BY DEF Txs
<1>5. \A n \in DOMAIN sent : [sent[n] EXCEPT !.since = @ + d].since = sent[n].since + d
    BY DEF Txs
<1>6. txs' = [s \in DOMAIN sent |-> IF sent[s].kind = "Fund" /\ sent[s].status \in {"Sent", "Processed"}
                                    THEN [sent[s] EXCEPT !.since = @ + d] ELSE sent[s]]
    BY DEF Leaves
<1>7. txs' \in Seq(Txs) /\ Len(txs') = Len(sent) /\ DOMAIN txs' = DOMAIN sent
    BY <1>1, <1>6
<1>8. \A n \in DOMAIN sent : txs'[n] = IF sent[n].kind = "Fund" /\ sent[n].status \in {"Sent", "Processed"}
                                        THEN [sent[n] EXCEPT !.since = @ + d] ELSE sent[n]
    BY <1>6
<1>9. fund' \in Funds0 /\ fund'.at = fund.at /\ fund'.wrap = fund.wrap /\ fund'.rent = fund.rent
      /\ fund'.existing = fund.existing /\ fund'.since = IF fund.at = "Send" THEN fund.since + d ELSE fund.since
    BY DEF Leaves, FundTypes, Funds0
<1> QED BY <1>2, <1>3, <1>4, <1>5, <1>7, <1>8, <1>9, Zenon

\* A quotient is a natural number, and what is left of a division is not negative.
LEMMA Quotient ==
    ASSUME NEW n \in Nat, NEW d \in Nat \ {0}
    PROVE  n \div d \in Nat /\ n % d \in Nat
BY SMT

\* A product keeps the order of its factors.
LEMMA ProductMonotone ==
    ASSUME NEW a \in Nat, NEW b \in Nat, NEW m \in Nat, a <= b
    PROVE  a * m \in Nat /\ b * m \in Nat /\ a * m <= b * m
BY SMT

\* The divisor of quote_amount is positive where it divides, and its factor where it multiplies.
LEMMA ScaleFactors ==
    ASSUME NEW q \in Nat \ {0}, NEW d \in Nat \ {0}
    PROVE  /\ q <= d => d \div q \in Nat \ {0}
           /\ q \div d \in Nat
BY SMT

\* An amount is a natural number.
LEMMA AmountNat ==
    ASSUME NEW t, t.quantity \in Nat, t.quote_scale \in Nat \ {0}, t.underlying_scale \in Nat \ {0},
           NEW up \in BOOLEAN, NEW p \in Nat, NEW b \in quote_amount(p, t, up)
    PROVE  b \in Nat
<1> DEFINE den == PriceScale * t.underlying_scale
           num == p * t.quantity
           divisor == den \div t.quote_scale
<1>1. den \in Nat \ {0} /\ num \in Nat
    BY SpreadAssumption, SMT
<1>2. t.quote_scale <= den => divisor \in Nat \ {0}
    BY <1>1, ScaleFactors
<1>3. t.quote_scale \div den \in Nat
    BY <1>1, ScaleFactors
<1>4. b = IF t.quote_scale <= den THEN num \div divisor + (IF up /\ num % divisor # 0 THEN 1 ELSE 0)
          ELSE num * (t.quote_scale \div den)
    BY DEF quote_amount, If
<1> HIDE DEF den, num, divisor
<1>5. CASE t.quote_scale <= den
    <2>1. num \div divisor \in Nat
        BY <1>1, <1>2, <1>5, Quotient
    <2> QED BY <1>4, <1>5, <2>1
<1>6. CASE ~(t.quote_scale <= den)
    <2>1. num * (t.quote_scale \div den) \in Nat
        BY <1>1, <1>3, ProductMonotone
    <2> QED BY <1>4, <1>6, <2>1
<1> QED BY <1>5, <1>6

LEMMA RequiredNat ==
    ASSUME FundTypes, NEW amount \in required_settlement(args)
    PROVE  amount \in Int
<1>1. args.legs.quantity \in Nat /\ args.legs.quote_scale \in Nat \ {0} /\ args.legs.underlying_scale \in Nat \ {0}
      /\ args.strike \in Nat
    BY SpreadAssumption DEF FundTypes, Calls
<1>2. amount \in quote_amount(args.strike, args.legs, FALSE) \/ amount = args.legs.quantity
    BY Zenon DEF required_settlement, scaled_quote_amount, If
<1>3. CASE amount \in quote_amount(args.strike, args.legs, FALSE)
    <2>1. amount \in Nat
        BY <1>1, <1>3, AmountNat, FALSE \in BOOLEAN, Zenon
    <2> QED BY <2>1
<1>4. CASE amount = args.legs.quantity
    BY <1>1, <1>4
<1> QED BY <1>2, <1>3, <1>4, Zenon

\* Where a call goes: to another stage, or back to where it may be made again.
LEMMA ToType ==
    ASSUME FundTypes, NEW at \in Stages, To(at)
    PROVE  fund' \in Funds0 /\ fund'.at = at /\ fund'.wrap = fund.wrap /\ fund'.since = fund.since /\ fund'.rent = fund.rent
BY DEF To, FundTypes, Funds0

LEMMA AgainType ==
    ASSUME NEW at \in Stages, fund' = [NoFund EXCEPT !.at = at]
    PROVE  fund' \in Funds0 /\ fund'.at = at /\ fund'.wrap = 0 /\ fund'.since = 0 /\ fund'.rent = 0
<1>1. PICK n \in Int : n = 0
    OBVIOUS
<1>2. fund' = [at |-> at, existing |-> n, rent |-> n, wrap |-> n, since |-> n]
    BY <1>1 DEF NoFund
<1>3. [at |-> at, existing |-> n, rent |-> n, wrap |-> n, since |-> n] \in Funds0
    BY <1>1 DEF Funds0
<1>4. fund'.at = at /\ fund'.wrap = n /\ fund'.since = n /\ fund'.rent = n
    BY <1>2
<1> QED BY <1>1, <1>2, <1>3, <1>4, Zenon

LEMMA StageNames ==
    /\ "Idle" \in Stages /\ "Batch" \in Stages /\ "Sent" \in Stages /\ "Position" \in Stages /\ "Accounts" \in Stages
    /\ "Balance" \in Stages /\ "Budget" \in Stages /\ "Send" \in Stages /\ "Confirm" \in Stages
    /\ "Funded" \in Stages /\ "Refused" \in Stages
BY DEF Stages

-----------------------------------------------------------------------------
(* The plan of a deposit. *)

\* A request that is made again, or refused, has no plan.
LEMMA NoPlan ==
    ASSUME NEW at \in Stages \ {"Balance", "Budget"}, fund' = [NoFund EXCEPT !.at = at]
    PROVE  fund' \in Funds0 /\ PlanInv'
<1>1. fund' \in Funds0 /\ fund'.at = at /\ fund'.wrap = 0 /\ fund'.since = 0
    BY AgainType
<1> QED BY <1>1 DEF PlanInv

\* One that goes on to the send has nothing to wrap, or was validated.
LEMMA GoesOn ==
    ASSUME FundTypes, PlanInv, NEW at \in Stages \ {"Balance", "Budget", "Position"}, To(at), UNCHANGED <<args, wallet>>,
           at \notin {"Send", "Confirm"} => fund.since = 0, at = "Accounts" => fund.wrap = 0,
           at = "Send" /\ fund.wrap > 0 => Backed(fund.wrap, fund.since)
    PROVE  fund' \in Funds0 /\ PlanInv'
<1>1. fund' \in Funds0 /\ fund'.at = at /\ fund'.wrap = fund.wrap /\ fund'.since = fund.since
    BY ToType
<1> QED BY <1>1 DEF PlanInv, Backed, RentDue, FeeDue

LEMMA RentNat ==
    ASSUME FundTypes
    PROVE  RentDue \in Nat /\ FeeDue \in Nat /\ args.reserve \in Int /\ wallet.sol \in Int
BY FundAssumption DEF RentDue, FeeDue, FundTypes, Calls

LEMMA PlanAccounts ==
    ASSUME FundTypes, PlanInv, ReadAccounts
    PROVE  fund' \in Funds0 /\ PlanInv'
<1> USE StageNames
<1>0. fund.at = "Accounts" /\ fund.since = 0 /\ fund.wrap = 0 /\ UNCHANGED <<args, wallet>>
    BY DEF PlanInv, ReadAccounts, Reading
<1>1. CASE To("Send")
    BY <1>0, <1>1, GoesOn
<1>2. CASE Refused
    BY <1>2, NoPlan DEF Refused
<1>3. CASE ~To("Send") /\ ~Refused
    <2>1. PICK e \in Int : e = IF wallet.ata THEN wallet.tok ELSE 0
        BY DEF FundTypes
    <2>2. PICK r \in Int : r = (IF PaysRent(args) /\ ~wallet.ata THEN Rent ELSE 0)
                               + (IF PaysRent(args) /\ ~wallet.posAta THEN Rent ELSE 0)
        BY FundAssumption
    <2>3. fund' = [fund EXCEPT !.existing = e, !.rent = r, !.at = "Balance"]
        BY <1>3, <2>1, <2>2 DEF ReadAccounts, FundTypes, Funds0
    <2>4. fund' \in Funds0
        BY <2>1, <2>2, <2>3, Zenon DEF FundTypes, Funds0
    <2>5. fund'.at = "Balance" /\ fund'.rent = r /\ fund'.since = fund.since /\ fund'.wrap = fund.wrap
        BY <2>3 DEF FundTypes, Funds0
    <2>6. RentDue <= r /\ RentDue \in Nat
        BY <2>2, FundAssumption DEF RentDue
    <2>7. RentDue' = RentDue
        BY <1>0 DEF RentDue, PaysRent
    <2>8. RentDue' <= fund'.rent + fund'.since
        BY <1>0, <2>2, <2>5, <2>6, <2>7
    <2> QED BY <1>0, <2>4, <2>5, <2>8 DEF PlanInv
<1> QED BY <1>1, <1>2, <1>3

LEMMA PlanBalance ==
    ASSUME FundTypes, PlanInv, ReadBalance
    PROVE  fund' \in Funds0 /\ PlanInv'
<1> USE StageNames
<1>0. fund.at = "Balance" /\ RentDue <= fund.rent + fund.since /\ UNCHANGED <<args, wallet>>
    BY DEF PlanInv, ReadBalance, Reading
<1>1. CASE fund' = [NoFund EXCEPT !.at = "Refused"]
    BY <1>1, NoPlan
<1>2. CASE fund' # [NoFund EXCEPT !.at = "Refused"]
    <2>1. PICK amount \in required_settlement(args) :
            fund' = [fund EXCEPT !.at = "Budget", !.wrap = amount - fund.existing]
        BY <1>2, Zenon DEF ReadBalance
    <2>2. PICK w \in Int : w = amount - fund.existing
        BY RequiredNat DEF FundTypes, Funds0
    <2>3. fund' = [fund EXCEPT !.at = "Budget", !.wrap = w]
        BY <2>1, <2>2
    <2>4. fund' \in Funds0
        BY <2>2, <2>3, Zenon DEF FundTypes, Funds0
    <2>5. fund'.at = "Budget" /\ fund'.rent = fund.rent /\ fund'.since = fund.since
        BY <2>3 DEF FundTypes, Funds0
    <2>6. RentDue' = RentDue
        BY <1>0 DEF RentDue, PaysRent
    <2> QED BY <1>0, <2>4, <2>5, <2>6 DEF PlanInv
<1> QED BY <1>1, <1>2

LEMMA PlanBudget ==
    ASSUME FundTypes, PlanInv, ValidateBudget
    PROVE  fund' \in Funds0 /\ PlanInv'
<1> USE StageNames
<1>0. fund.at = "Budget" /\ RentDue <= fund.rent + fund.since /\ UNCHANGED <<args, wallet>>
    BY DEF PlanInv, ValidateBudget, Reading
<1>1. CASE wallet.sol >= required_lamports(fund, FeeDue)
    <2>1. Backed(fund.wrap, fund.since)
        BY <1>0, <1>1, RentNat DEF Backed, required_lamports, FundTypes, Funds0
    <2>2. To("Send")
        BY <1>1 DEF ValidateBudget, FeeDue
    <2> QED BY <1>0, <2>1, <2>2, GoesOn
<1>2. CASE ~(wallet.sol >= required_lamports(fund, FeeDue))
    BY <1>2, NoPlan DEF ValidateBudget, FeeDue, Refused
<1> QED BY <1>1, <1>2

\* Every request of a call leaves a plan that is backed.
LEMMA PlanRequests ==
    ASSUME FundTypes, PlanInv, Requests
    PROVE  fund' \in Funds0 /\ PlanInv'
<1> USE StageNames
<1>1. CASE RpcFails
    BY <1>1, NoPlan DEF RpcFails, Refused
<1>2. CASE FundPosition
    BY <1>2, NoPlan DEF FundPosition
<1>3. CASE ReadPosition
    <2>1. fund.at = "Position" /\ fund.since = 0 /\ fund.wrap = 0 /\ UNCHANGED <<args, wallet>>
        BY <1>3 DEF PlanInv, ReadPosition, Reading
    <2>2. To("Send") \/ To("Accounts") \/ Refused
        BY <1>3 DEF ReadPosition
    <2>3. CASE To("Send")
        BY <2>1, <2>3, GoesOn
    <2>4. CASE To("Accounts")
        BY <2>1, <2>4, GoesOn
    <2>5. CASE Refused
        BY <2>5, NoPlan DEF Refused
    <2> QED BY <2>2, <2>3, <2>4, <2>5
<1>4. CASE Submitted
    <2>1. fund' = [NoFund EXCEPT !.at = "Funded"] \/ fund' = [NoFund EXCEPT !.at = "Refused"]
        BY <1>4 DEF Submitted, Refused
    <2> QED BY <2>1, NoPlan
<1> QED BY <1>1, <1>2, <1>3, <1>4, PlanAccounts, PlanBalance, PlanBudget DEF Requests

-----------------------------------------------------------------------------
(* What is sent, and what leaves the wallet. *)

\* What is owed does not depend on the market's being finalised.
LEMMA SameDues ==
    ASSUME FundTypes, wallet' = wallet, args' \in {args, [args EXCEPT !.finalized = TRUE]}
    PROVE  args' \in Calls /\ RentDue' = RentDue /\ FeeDue' = FeeDue /\ args'.reserve = args.reserve
<1>1. args' \in Calls
    <2>1. PICK b \in BOOLEAN : b = TRUE
        BY Zenon
    <2>2. [args EXCEPT !.finalized = b] \in Calls
        BY DEF FundTypes, Calls
    <2> QED BY <2>1, <2>2, Zenon DEF FundTypes
<1>2. args'.reserve = args.reserve /\ args'.payer = args.payer /\ args'.create = args.create
    BY DEF FundTypes, Calls
<1> QED BY <1>1, <1>2 DEF RentDue, FeeDue, PaysRent

LEMMA SameSent ==
    ASSUME ChainTypes, FundTypes, SentInv, txs' = txs, wallet' = wallet,
           args' \in {args, [args EXCEPT !.finalized = TRUE]}
    PROVE  Grows /\ SentInv'
<1>1. RentDue' = RentDue /\ FeeDue' = FeeDue /\ args'.reserve = args.reserve
    BY SameDues
<1>2. Grows
    BY DEF Grows, ChainTypes
<1>3. SentInv'
    BY <1>1 DEF SentInv, Backed
<1> QED BY <1>2, <1>3

\* A transaction is sent.
LEMMA SentMore ==
    ASSUME ChainTypes, FundTypes, SentInv, NEW tx \in Txs, tx.status = "Sent",
           tx.wrap > 0 => tx.kind = "Fund" /\ Backed(tx.wrap, tx.since),
           txs' = Append(txs, tx), UNCHANGED <<args, wallet>>
    PROVE  Grows /\ SentInv'
<1>1. txs \in Seq(Txs) /\ RentDue' = RentDue /\ FeeDue' = FeeDue
    BY SameDues DEF ChainTypes
<1>2. txs' \in Seq(Txs) /\ Len(txs') = Len(txs) + 1 /\ txs'[Len(txs) + 1] = tx /\ \A n \in DOMAIN txs : txs'[n] = txs[n]
    BY <1>1
<1>3. \A n \in DOMAIN txs' : n \in DOMAIN txs \/ n = Len(txs) + 1
    BY <1>1, <1>2
<1>4. Grows
    BY <1>1, <1>2 DEF Grows
<1>5. SentInv'
    BY <1>1, <1>2, <1>3 DEF SentInv, Backed
<1> QED BY <1>4, <1>5

\* A transaction moves.
LEMMA SentMoves ==
    ASSUME ChainTypes, FundTypes, SentInv, NEW s \in DOMAIN txs, NEW status \in TxStates,
           status \in {"Sent", "Processed"} => txs[s].status \in {"Sent", "Processed"}, txs[s].status \notin Final,
           txs' = Become(s, status), UNCHANGED <<args, wallet>>
    PROVE  Grows /\ SentInv'
<1>1. txs \in Seq(Txs) /\ txs[s] \in Txs /\ RentDue' = RentDue /\ FeeDue' = FeeDue
    BY SameDues DEF ChainTypes
<1>2. txs' \in Seq(Txs) /\ Len(txs') = Len(txs) /\ txs'[s] = [txs[s] EXCEPT !.status = status]
      /\ \A n \in DOMAIN txs : n # s => txs'[n] = txs[n]
    BY BecomeType
<1>3. txs'[s].status = status /\ txs'[s].kind = txs[s].kind /\ txs'[s].wrap = txs[s].wrap /\ txs'[s].since = txs[s].since
    BY <1>1, <1>2 DEF Txs
<1>4. DOMAIN txs' = DOMAIN txs
    BY <1>1, <1>2
<1>5. Grows
    BY <1>1, <1>2 DEF Grows
<1>6. ASSUME NEW n \in DOMAIN txs'
      PROVE  /\ txs'[n].wrap > 0 => txs'[n].kind = "Fund"
             /\ txs'[n].wrap > 0 /\ txs'[n].status \in {"Sent", "Processed"}
                => wallet'.sol + txs'[n].since >= txs'[n].wrap + RentDue' + FeeDue' + args'.reserve
    <2>1. n \in DOMAIN txs /\ (n # s => txs'[n] = txs[n])
        BY <1>2, <1>4
    <2>2. /\ txs'[n].kind = txs[n].kind /\ txs'[n].wrap = txs[n].wrap /\ txs'[n].since = txs[n].since
          /\ txs'[n].status \in {"Sent", "Processed"} => txs[n].status \in {"Sent", "Processed"}
        BY <1>3, <2>1
    <2>3. /\ txs[n].wrap > 0 => txs[n].kind = "Fund"
          /\ txs[n].wrap > 0 /\ txs[n].status \in {"Sent", "Processed"} => Backed(txs[n].wrap, txs[n].since)
        BY <2>1 DEF SentInv
    <2> QED BY <1>1, <2>2, <2>3 DEF Backed
<1> QED BY <1>5, <1>6 DEF SentInv, Backed

\* Lamports leave the wallet: all that is under way takes note of it.
LEMMA SentSpends ==
    ASSUME ChainTypes, FundTypes, SentInv, PlanInv, NEW d \in Int, NEW sent \in Seq(Txs), Len(sent) = Len(txs),
           \A n \in DOMAIN txs : /\ sent[n].kind = txs[n].kind /\ sent[n].wrap = txs[n].wrap /\ sent[n].since = txs[n].since
                                 /\ sent[n].status = txs[n].status \/ (sent[n].status \in Final /\ txs[n].status \notin Final),
           Leaves(d, sent), args' = args, wallet' \in [sol : Int, tok : Int, ata : BOOLEAN, posAta : BOOLEAN],
           wallet'.sol = wallet.sol - d, wallet.ata => wallet'.ata, wallet.posAta => wallet'.posAta
    PROVE  Grows /\ fund' \in Funds0 /\ SentInv' /\ PlanInv'
<1>0. txs \in Seq(Txs) /\ DOMAIN sent = DOMAIN txs
    BY DEF ChainTypes
<1>1. /\ txs' \in Seq(Txs) /\ Len(txs') = Len(sent) /\ fund' \in Funds0
      /\ \A n \in DOMAIN sent : /\ txs'[n].status = sent[n].status /\ txs'[n].kind = sent[n].kind
                                /\ txs'[n].wrap = sent[n].wrap
                                /\ txs'[n].since = IF sent[n].kind = "Fund" /\ sent[n].status \in {"Sent", "Processed"}
                                                   THEN sent[n].since + d ELSE sent[n].since
      /\ fund'.at = fund.at /\ fund'.wrap = fund.wrap /\ fund'.rent = fund.rent
      /\ fund'.since = IF fund.at = "Send" THEN fund.since + d ELSE fund.since
    BY LeavesType
<1>2. DOMAIN txs' = DOMAIN txs
    BY <1>0, <1>1
<1>3. RentDue' <= RentDue /\ RentDue' \in Nat /\ FeeDue' = FeeDue
    BY FundAssumption DEF RentDue, FeeDue, PaysRent, FundTypes
<1>4. RentDue \in Nat /\ FeeDue \in Nat /\ args.reserve \in Int /\ wallet.sol \in Int
    BY RentNat
<1>5. ASSUME NEW w \in Int, NEW e \in Int, Backed(w, e)
      PROVE  wallet'.sol + (e + d) >= w + RentDue' + FeeDue' + args'.reserve
    <2>1. wallet.sol + e >= w + RentDue + FeeDue + args.reserve
        BY <1>5 DEF Backed
    <2>2. wallet'.sol \in Int /\ args'.reserve = args.reserve
        OBVIOUS
    <2>3. PICK q \in Nat : q = RentDue'
        BY <1>3
    <2>4. PICK r \in Nat : r = RentDue
        BY <1>4
    <2>5. PICK f \in Nat : f = FeeDue
        BY <1>4
    <2>6. wallet.sol + e >= w + r + f + args.reserve /\ q <= r
        BY <1>3, <2>1, <2>3, <2>4, <2>5
    <2>7. PICK s \in Int : s = wallet.sol
        BY <1>4
    <2>8. PICK v \in Int : v = args.reserve
        BY <1>4
    <2>9. s + e >= w + r + f + v /\ q <= r
        BY <2>6, <2>7, <2>8
    <2>10. s - d + (e + d) >= w + q + f + v
        BY ONLY <2>9, s \in Int, v \in Int, d \in Int, e \in Int, w \in Int, q \in Nat, r \in Nat, f \in Nat
    <2> QED BY <1>3, <2>2, <2>3, <2>5, <2>7, <2>8, <2>10
<1>6. Grows
    BY <1>0, <1>1 DEF Grows
<1>7. ASSUME NEW n \in DOMAIN txs'
      PROVE  /\ txs'[n].wrap > 0 => txs'[n].kind = "Fund"
             /\ txs'[n].wrap > 0 /\ txs'[n].status \in {"Sent", "Processed"}
                => wallet'.sol + txs'[n].since >= txs'[n].wrap + RentDue' + FeeDue' + args'.reserve
    <2>1. n \in DOMAIN txs /\ txs[n] \in Txs
        BY <1>0, <1>2
    <2>2. txs[n].wrap \in Int /\ txs[n].since \in Int
        BY <2>1 DEF Txs
    <2>3. txs'[n].wrap > 0 => txs'[n].kind = "Fund"
        <3>1. txs'[n].wrap = txs[n].wrap /\ txs'[n].kind = txs[n].kind
            BY <1>0, <1>1, <2>1
        <3>2. txs[n].wrap > 0 => txs[n].kind = "Fund"
            BY <2>1 DEF SentInv
        <3> QED BY <3>1, <3>2
    <2>4. ASSUME txs'[n].wrap > 0, txs'[n].status \in {"Sent", "Processed"}
          PROVE  wallet'.sol + txs'[n].since >= txs'[n].wrap + RentDue' + FeeDue' + args'.reserve
        <3>1. txs[n].wrap > 0 /\ txs[n].status \in {"Sent", "Processed"} /\ sent[n].kind = "Fund" /\ sent[n].status = txs[n].status
            BY <1>0, <1>1, <2>1, <2>3, <2>4 DEF Final
        <3>2. Backed(txs[n].wrap, txs[n].since)
            BY <2>1, <3>1 DEF SentInv
        <3>3. txs'[n].wrap = txs[n].wrap /\ txs'[n].since = txs[n].since + d
            BY <1>0, <1>1, <2>1, <3>1
        <3> QED BY <1>5, <2>2, <3>2, <3>3
    <2> QED BY <2>3, <2>4
<1>8. PlanInv'
    <2>1. fund.wrap \in Int /\ fund.since \in Int /\ fund.rent \in Int
        BY DEF FundTypes, Funds0
    <2>2. ASSUME fund'.at = "Send", fund'.wrap > 0
          PROVE  wallet'.sol + fund'.since >= fund'.wrap + RentDue' + FeeDue' + args'.reserve
        <3>1. Backed(fund.wrap, fund.since)
            BY <1>1, <2>2 DEF PlanInv
        <3> QED BY <1>1, <1>5, <2>1, <2>2, <3>1
    <2>3. fund.at \in {"Balance", "Budget"} => RentDue' <= fund.rent + fund.since
        BY <1>3, <1>4, <2>1 DEF PlanInv
    <2> QED BY <1>1, <2>2, <2>3 DEF PlanInv, Backed
<1> QED BY <1>1, <1>6, <1>7, <1>8 DEF SentInv, Backed

LEMMA SendStep ==
    ASSUME ChainTypes, FundTypes, SentInv, PlanInv, SendFund
    PROVE  Grows /\ fund' \in Funds0 /\ SentInv' /\ PlanInv'
<1> USE StageNames
<1> DEFINE tx == [status |-> "Sent", kind |-> "Fund", wrap |-> fund.wrap, since |-> fund.since]
<1>1. fund.at = "Send" /\ UNCHANGED <<args, wallet>>
    BY DEF SendFund
<1>2. tx \in Txs
    BY DEF Txs, TxStates, FundTypes, Funds0
<1>3. tx.status = "Sent" /\ tx.kind = "Fund" /\ tx.wrap = fund.wrap /\ tx.since = fund.since
    OBVIOUS
<1>4. txs' = txs \/ txs' = Append(txs, tx)
    BY DEF SendFund
<1>5. To("Confirm") \/ Refused
    BY DEF SendFund
<1>6. tx.wrap > 0 => tx.kind = "Fund" /\ Backed(tx.wrap, tx.since)
    BY <1>1, <1>3 DEF PlanInv
<1> HIDE DEF tx
<1>7. Grows /\ SentInv'
    BY <1>1, <1>2, <1>3, <1>4, <1>6, SentMore, SameSent
<1>8. CASE To("Confirm")
    <2>1. fund' \in Funds0 /\ fund'.at = "Confirm"
        BY <1>8, ToType
    <2> QED BY <1>7, <2>1 DEF PlanInv
<1>9. CASE Refused
    BY <1>7, <1>9, NoPlan DEF Refused
<1> QED BY <1>5, <1>8, <1>9

LEMMA BatchStep ==
    ASSUME ChainTypes, FundTypes, SentInv, PlanInv, SendBatch
    PROVE  Grows /\ fund' \in Funds0 /\ SentInv' /\ PlanInv'
<1> USE StageNames
<1> DEFINE tx == [status |-> "Sent", kind |-> "Plain", wrap |-> 0, since |-> 0]
<1>1. fund.at = "Batch" /\ fund.since = 0 /\ UNCHANGED <<args, wallet>>
    BY DEF SendBatch, PlanInv
<1>2. tx \in Txs
    BY DEF Txs, TxStates
<1>3. tx.status = "Sent" /\ tx.wrap = 0
    OBVIOUS
<1>4. txs' \in {txs, Append(txs, tx)} /\ (fund' = fund \/ To("Sent"))
    BY DEF SendBatch
<1> HIDE DEF tx
<1>5. Grows /\ SentInv'
    BY <1>1, <1>2, <1>3, <1>4, SentMore, SameSent
<1>6. CASE fund' = fund
    <2>1. RentDue' = RentDue /\ FeeDue' = FeeDue
        BY <1>1, SameDues
    <2> QED BY <1>1, <1>5, <1>6, <2>1 DEF PlanInv, FundTypes
<1>7. CASE To("Sent")
    BY <1>1, <1>5, <1>7, GoesOn
<1> QED BY <1>4, <1>6, <1>7

LEMMA MoveStep ==
    ASSUME ChainTypes, FundTypes, SentInv, PlanInv, TxMoves
    PROVE  Grows /\ fund' \in Funds0 /\ SentInv' /\ PlanInv'
<1>1. UNCHANGED <<args, wallet, fund>>
    BY DEF TxMoves, fundVars
<1>2. PICK s \in DOMAIN txs, status \in {"Sent", "Processed", "Gone"} :
        txs[s].status \in {"Sent", "Processed"} /\ txs' = Become(s, status)
    BY DEF TxMoves
<1>3. Grows /\ SentInv'
    BY <1>1, <1>2, SentMoves DEF TxStates, Final
<1>4. RentDue' = RentDue /\ FeeDue' = FeeDue
    BY <1>1, SameDues
<1> QED BY <1>1, <1>3, <1>4 DEF PlanInv, FundTypes, Backed

\* A step that settles transaction s: what the others are stays.
LEMMA SettlesOne ==
    ASSUME ChainTypes, NEW s \in DOMAIN txs, NEW status \in Final, txs[s].status = "Processed"
    PROVE  /\ Become(s, status) \in Seq(Txs) /\ Len(Become(s, status)) = Len(txs)
           /\ \A n \in DOMAIN txs :
                /\ Become(s, status)[n].kind = txs[n].kind
                /\ Become(s, status)[n].wrap = txs[n].wrap
                /\ Become(s, status)[n].since = txs[n].since
                /\ Become(s, status)[n].status = txs[n].status
                   \/ (Become(s, status)[n].status \in Final /\ txs[n].status \notin Final)
           /\ \A n \in DOMAIN txs : n # s => Become(s, status)[n].status = txs[n].status
<1>1. status \in TxStates /\ txs[s].status \notin Final /\ txs[s] \in Txs
    BY DEF TxStates, Final, ChainTypes
<1>2. /\ Become(s, status) \in Seq(Txs) /\ Len(Become(s, status)) = Len(txs)
      /\ Become(s, status)[s] = [txs[s] EXCEPT !.status = status]
      /\ \A n \in DOMAIN txs : n # s => Become(s, status)[n] = txs[n]
    BY <1>1, BecomeType
<1>3. PICK b : b = Become(s, status)
    OBVIOUS
<1>4. b[s].status = status /\ b[s].kind = txs[s].kind /\ b[s].wrap = txs[s].wrap /\ b[s].since = txs[s].since
    BY <1>1, <1>2, <1>3 DEF Txs
<1> QED BY <1>1, <1>2, <1>3, <1>4

\* What a deposit costs the holder is what was owed when it landed.
LEMMA CostDue ==
    ASSUME FundTypes
    PROVE  HolderPays(Fee + Created) = RentDue + FeeDue /\ HolderPays(Fee) \in Nat
BY FundAssumption DEF HolderPays, Created, RentDue, FeeDue, PaysRent, FundTypes, Calls

\* A deposit lands.
Lands(s) ==
    /\ txs[s].status = "Processed" /\ txs[s].kind = "Fund"
    /\ \E amount \in required_settlement(args) :
         wallet' = [sol |-> wallet.sol - (HolderPays(Fee + Created) + txs[s].wrap),
                    tok |-> wallet.tok + txs[s].wrap - amount, ata |-> TRUE, posAta |-> TRUE]
    /\ Leaves(HolderPays(Fee + Created) + txs[s].wrap, Become(s, "Confirmed"))
    /\ args' = args

LEMMA LandStep ==
    ASSUME ChainTypes, FundTypes, SentInv, PlanInv, NEW s \in DOMAIN txs, Lands(s)
    PROVE  /\ Grows /\ fund' \in Funds0 /\ SentInv' /\ PlanInv'
           /\ wallet' \in [sol : Int, tok : Int, ata : BOOLEAN, posAta : BOOLEAN]
           /\ wallet'.sol = wallet.sol - (RentDue + FeeDue + txs[s].wrap)
<1> DEFINE b == Become(s, "Confirmed")
<1>1. txs[s] \in Txs /\ "Confirmed" \in Final /\ txs[s].status = "Processed" /\ args' = args
    BY DEF ChainTypes, Final, Lands
<1>2. HolderPays(Fee + Created) = RentDue + FeeDue /\ RentDue \in Nat /\ FeeDue \in Nat
      /\ txs[s].wrap \in Int /\ wallet.sol \in Int /\ wallet.tok \in Int
    BY <1>1, CostDue, RentNat DEF FundTypes, Txs
<1>3. PICK d \in Int : d = RentDue + FeeDue + txs[s].wrap
    BY <1>2
<1>4. PICK amount \in required_settlement(args) :
        wallet' = [sol |-> wallet.sol - d, tok |-> wallet.tok + txs[s].wrap - amount, ata |-> TRUE, posAta |-> TRUE]
    BY <1>2, <1>3, Zenon DEF Lands
<1>5. PICK n \in Int, k \in Int : n = wallet.sol - d /\ k = wallet.tok + txs[s].wrap - amount
    BY <1>2, <1>3, RequiredNat
<1>6. wallet' = [sol |-> n, tok |-> k, ata |-> TRUE, posAta |-> TRUE]
    BY <1>4, <1>5
<1>7. wallet' \in [sol : Int, tok : Int, ata : BOOLEAN, posAta : BOOLEAN]
    BY <1>5, <1>6
<1>8. wallet'.sol = wallet.sol - d /\ wallet'.ata /\ wallet'.posAta
    BY <1>5, <1>6
<1>9. Leaves(d, b)
    BY <1>2, <1>3 DEF Lands
<1>10. /\ b \in Seq(Txs) /\ Len(b) = Len(txs)
       /\ \A n1 \in DOMAIN txs :
            /\ b[n1].kind = txs[n1].kind /\ b[n1].wrap = txs[n1].wrap /\ b[n1].since = txs[n1].since
            /\ b[n1].status = txs[n1].status \/ (b[n1].status \in Final /\ txs[n1].status \notin Final)
    BY <1>1, SettlesOne
<1> HIDE DEF b
<1>11. Grows /\ fund' \in Funds0 /\ SentInv' /\ PlanInv'
    BY <1>1, <1>3, <1>7, <1>8, <1>9, <1>10, SentSpends
<1> QED BY <1>3, <1>7, <1>8, <1>11

\* Lamports are spent otherwise: on a failed deposit's fee, or by the holder.
LEMMA SpendStep ==
    ASSUME ChainTypes, FundTypes, SentInv, PlanInv, NEW d \in Int, NEW b \in Seq(Txs), Len(b) = Len(txs),
           \A n \in DOMAIN txs :
             /\ b[n].kind = txs[n].kind /\ b[n].wrap = txs[n].wrap /\ b[n].since = txs[n].since
             /\ b[n].status = txs[n].status \/ (b[n].status \in Final /\ txs[n].status \notin Final),
           Leaves(d, b), Charge(d), args' = args
    PROVE  /\ Grows /\ fund' \in Funds0 /\ SentInv' /\ PlanInv'
           /\ wallet' \in [sol : Int, tok : Int, ata : BOOLEAN, posAta : BOOLEAN]
<1>1. PICK n \in Int : n = wallet.sol - d
    BY DEF FundTypes
<1>2. wallet' = [wallet EXCEPT !.sol = n]
    BY <1>1 DEF Charge
<1>3. wallet' \in [sol : Int, tok : Int, ata : BOOLEAN, posAta : BOOLEAN]
    BY <1>1, <1>2 DEF FundTypes
<1>4. wallet'.sol = wallet.sol - d /\ wallet'.ata = wallet.ata /\ wallet'.posAta = wallet.posAta
    BY <1>1, <1>2 DEF FundTypes
<1> QED BY <1>3, <1>4, SentSpends

LEMMA FinalStep ==
    ASSUME ChainTypes, FundTypes, SentInv, PlanInv, TxFinal
    PROVE  Grows /\ FundTypes' /\ SentInv' /\ PlanInv'
<1>1. args' = args
    BY DEF TxFinal, fundVars
<1>2. PICK s \in DOMAIN txs :
        /\ txs[s].status = "Processed"
        /\ \/ \E status \in Final : txs' = Become(s, status) /\ UNCHANGED fundVars
           \/ Lands(s)
           \/ Charge(Least(wallet.sol, HolderPays(Fee))) /\ Leaves(Least(wallet.sol, HolderPays(Fee)), Become(s, "Failed"))
    BY DEF TxFinal, Lands
<1>3. ASSUME NEW status \in Final, txs' = Become(s, status), UNCHANGED fundVars
      PROVE  Grows /\ FundTypes' /\ SentInv' /\ PlanInv'
    <2>1. UNCHANGED <<args, wallet, fund>>
        BY <1>3 DEF fundVars
    <2>2. status \in TxStates /\ txs[s].status \notin Final /\ status \notin {"Sent", "Processed"}
        BY <1>2 DEF TxStates, Final
    <2>3. Grows /\ SentInv'
        BY <1>3, <2>1, <2>2, SentMoves
    <2>4. RentDue' = RentDue /\ FeeDue' = FeeDue
        BY <2>1, SameDues
    <2> QED BY <2>1, <2>3, <2>4 DEF PlanInv, FundTypes, Backed
<1>4. CASE Lands(s)
    BY <1>1, <1>4, LandStep DEF FundTypes
<1>5. ASSUME Charge(Least(wallet.sol, HolderPays(Fee))), Leaves(Least(wallet.sol, HolderPays(Fee)), Become(s, "Failed"))
      PROVE  Grows /\ FundTypes' /\ SentInv' /\ PlanInv'
    <2> DEFINE b == Become(s, "Failed")
    <2>1. PICK d \in Int : d = Least(wallet.sol, HolderPays(Fee))
        BY CostDue DEF Least, FundTypes
    <2>2. "Failed" \in Final
        BY DEF Final
    <2>3. /\ b \in Seq(Txs) /\ Len(b) = Len(txs)
          /\ \A n \in DOMAIN txs :
               /\ b[n].kind = txs[n].kind /\ b[n].wrap = txs[n].wrap /\ b[n].since = txs[n].since
               /\ b[n].status = txs[n].status \/ (b[n].status \in Final /\ txs[n].status \notin Final)
        BY <1>2, <2>2, SettlesOne
    <2>4. Leaves(d, b) /\ Charge(d)
        BY <1>5, <2>1
    <2> HIDE DEF b
    <2> QED BY <1>1, <2>1, <2>3, <2>4, SpendStep DEF FundTypes
<1> QED BY <1>2, <1>3, <1>4, <1>5

\* The account is closed: what comes back is what a deposit will owe again, and what the plan did not count is noted.
LEMMA CloseStep ==
    ASSUME ChainTypes, FundTypes, SentInv, PlanInv, ClosesAccount, UNCHANGED <<txs, args>>
    PROVE  Grows /\ FundTypes' /\ SentInv' /\ PlanInv'
<1>0. wallet.tok \in Nat /\ wallet.ata /\ Rent \in Nat
    BY FundAssumption DEF ClosesAccount, FundTypes
<1>1. PICK n \in Int : n = wallet.sol + Rent + wallet.tok
    BY <1>0 DEF FundTypes
<1>2. wallet' = [wallet EXCEPT !.sol = n, !.tok = 0, !.ata = FALSE]
    BY <1>1 DEF ClosesAccount, FundTypes
<1>3. wallet' \in [sol : Int, tok : Int, ata : BOOLEAN, posAta : BOOLEAN]
    <2>1. PICK k \in Int : k = 0
        OBVIOUS
    <2>2. PICK b \in BOOLEAN : b = FALSE
        BY Zenon
    <2>3. [wallet EXCEPT !.sol = n, !.tok = k, !.ata = b] \in [sol : Int, tok : Int, ata : BOOLEAN, posAta : BOOLEAN]
        BY <1>1, <2>1, <2>2 DEF FundTypes
    <2> QED BY <1>2, <2>1, <2>2, <2>3, Zenon
<1>4. wallet'.sol = n /\ wallet'.ata = FALSE /\ wallet'.posAta = wallet.posAta
    BY <1>2 DEF FundTypes
<1>5. PICK more \in Nat : more = (IF PaysRent(args) THEN Rent ELSE 0) /\ more <= Rent
    BY <1>0
<1>6. RentDue' = RentDue + more /\ FeeDue' = FeeDue
    BY <1>0, <1>4, <1>5, FundAssumption DEF RentDue, FeeDue, PaysRent
<1>7. RentDue \in Nat /\ FeeDue \in Nat /\ args.reserve \in Int /\ wallet.sol \in Int
    BY RentNat
<1>8. ASSUME NEW w \in Int, NEW e \in Int, Backed(w, e)
      PROVE  wallet'.sol + e >= w + RentDue' + FeeDue' + args'.reserve
    <2>1. wallet.sol + e >= w + RentDue + FeeDue + args.reserve
        BY <1>8 DEF Backed
    <2>2. PICK s \in Int, r \in Nat, f \in Nat, v \in Int : s = wallet.sol /\ r = RentDue /\ f = FeeDue /\ v = args.reserve
        BY <1>7
    <2>3. s + e >= w + r + f + v /\ n >= s + more
        BY <1>0, <1>1, <1>5, <2>1, <2>2
    <2>4. n + e >= w + (r + more) + f + v
        BY ONLY <2>3, s \in Int, n \in Int, v \in Int, e \in Int, w \in Int, r \in Nat, more \in Nat, f \in Nat
    <2> QED BY <1>4, <1>6, <2>2, <2>4
<1>9. Grows
    BY DEF Grows, ChainTypes
<1>10. SentInv'
    <2>1. ASSUME NEW s \in DOMAIN txs
          PROVE  /\ txs[s].wrap > 0 => txs[s].kind = "Fund"
                 /\ txs[s].wrap > 0 /\ txs[s].status \in {"Sent", "Processed"}
                    => wallet'.sol + txs[s].since >= txs[s].wrap + RentDue' + FeeDue' + args'.reserve
        <3>1. txs[s] \in Txs
            BY DEF ChainTypes
        <3>2. txs[s].wrap \in Int /\ txs[s].since \in Int
            BY <3>1 DEF Txs
        <3> QED BY <1>8, <3>2 DEF SentInv
    <2> QED BY <2>1 DEF SentInv, Backed
<1>11. fund.since \in Int /\ fund.wrap \in Int /\ fund.rent \in Int /\ fund \in Funds0
    BY DEF FundTypes, Funds0
<1>12. CASE fund.at \in {"Balance", "Budget"} /\ PaysRent(args)
    <2>1. PICK e \in Int : e = fund.since + Rent
        BY <1>0, <1>11
    <2>2. fund' = [fund EXCEPT !.since = e]
        BY <1>12, <2>1 DEF ClosesAccount
    <2>3. fund' \in Funds0
        BY <1>11, <2>1, <2>2 DEF Funds0
    <2>4. fund'.at = fund.at /\ fund'.wrap = fund.wrap /\ fund'.rent = fund.rent /\ fund'.since = e
        BY <1>11, <2>2 DEF Funds0
    <2>5. RentDue' <= fund'.rent + fund'.since
        BY <1>5, <1>6, <1>7, <1>11, <1>12, <2>1, <2>4 DEF PlanInv
    <2>6. PlanInv'
        BY <1>12, <2>4, <2>5 DEF PlanInv
    <2> QED BY <1>3, <1>9, <1>10, <2>3, <2>6 DEF FundTypes
<1>13. CASE ~(fund.at \in {"Balance", "Budget"} /\ PaysRent(args))
    <2>1. fund' = fund
        BY <1>13 DEF ClosesAccount
    <2>2. fund.at = "Send" /\ fund.wrap > 0 => wallet'.sol + fund.since >= fund.wrap + RentDue' + FeeDue' + args'.reserve
        BY <1>8, <1>11 DEF PlanInv
    <2>3. fund.at \in {"Balance", "Budget"} => RentDue' <= fund.rent + fund.since
        BY <1>5, <1>6, <1>7, <1>11, <1>13 DEF PlanInv
    <2>4. PlanInv'
        BY <2>1, <2>2, <2>3 DEF PlanInv, Backed
    <2> QED BY <1>3, <1>9, <1>10, <1>11, <2>1, <2>4 DEF FundTypes
<1> QED BY <1>12, <1>13

LEMMA WalletStep ==
    ASSUME ChainTypes, FundTypes, SentInv, PlanInv, WalletMoves
    PROVE  Grows /\ FundTypes' /\ SentInv' /\ PlanInv'
<1>1. args' = args
    BY DEF WalletMoves
<1>2. CASE Charge(1) /\ Leaves(1, txs)
    <2>1. txs \in Seq(Txs)
        BY DEF ChainTypes
    <2> QED BY <1>1, <1>2, <2>1, SpendStep DEF FundTypes
<1>3. CASE wallet' = [wallet EXCEPT !.tok = @ - 1] /\ UNCHANGED <<txs, fund>>
    <2>1. PICK k \in Int : k = wallet.tok - 1
        BY DEF FundTypes
    <2>2. wallet' = [wallet EXCEPT !.tok = k]
        BY <1>3, <2>1
    <2>3. wallet' \in [sol : Int, tok : Int, ata : BOOLEAN, posAta : BOOLEAN]
        BY <2>1, <2>2 DEF FundTypes
    <2>4. wallet'.sol = wallet.sol /\ wallet'.ata = wallet.ata /\ wallet'.posAta = wallet.posAta
        BY <2>2 DEF FundTypes
    <2>5. RentDue' = RentDue /\ FeeDue' = FeeDue
        BY <1>1, <2>4 DEF RentDue, FeeDue, PaysRent
    <2>6. Grows
        BY <1>3 DEF Grows, ChainTypes
    <2>7. SentInv' /\ PlanInv'
        BY <1>1, <1>3, <2>4, <2>5 DEF SentInv, PlanInv, Backed
    <2> QED BY <1>1, <1>3, <2>3, <2>6, <2>7 DEF FundTypes
<1>4. CASE UNCHANGED <<txs, fund, wallet>>
    <2>1. RentDue' = RentDue /\ FeeDue' = FeeDue
        BY <1>1, <1>4, SameDues
    <2>2. Grows /\ SentInv'
        BY <1>1, <1>4, SameSent
    <2> QED BY <1>1, <1>4, <2>1, <2>2 DEF PlanInv, FundTypes, Backed
<1>5. CASE ClosesAccount /\ UNCHANGED txs
    BY <1>1, <1>5, CloseStep
<1> QED BY <1>2, <1>3, <1>4, <1>5 DEF WalletMoves

\* Every step keeps what is sent and planned within the wallet, and every final transaction as it is.
LEMMA FundStep ==
    ASSUME ChainTypes, FundTypes, SentInv, PlanInv, Moves
    PROVE  Grows /\ FundTypes' /\ SentInv' /\ PlanInv'
<1>1. CASE Requests
    BY <1>1, RequestKeeps, PlanRequests, SameSent DEF FundTypes
<1>2. CASE SendFund
    BY <1>2, SendStep DEF FundTypes, SendFund
<1>3. CASE SendBatch
    BY <1>3, BatchStep DEF FundTypes, SendBatch
<1>4. CASE TxMoves
    BY <1>4, MoveStep DEF FundTypes, TxMoves, fundVars
<1>5. CASE Around \/ (ConfirmNext /\ UNCHANGED fundVars)
    <2>1. UNCHANGED <<txs, wallet, fund>> /\ args' \in {args, [args EXCEPT !.finalized = TRUE]}
        BY <1>5, ConfirmKeeps DEF Around, fundVars
    <2>2. args' \in Calls /\ RentDue' = RentDue /\ FeeDue' = FeeDue /\ args'.reserve = args.reserve
        BY <2>1, SameDues
    <2>3. Grows /\ SentInv'
        BY <2>1, SameSent
    <2> QED BY <2>1, <2>2, <2>3 DEF PlanInv, FundTypes, Backed
<1> QED BY <1>1, <1>2, <1>3, <1>4, <1>5, FinalStep, WalletStep DEF Moves, FundNext, Requests

-----------------------------------------------------------------------------
(* Places among the signatures still open. *)

LEMMA OpenFinite ==
    ASSUME NEW c, c.results \in Seq(Results)
    PROVE  IsFiniteSet(Open(c)) /\ Cardinality(Open(c)) \in Nat /\ Open(c) \subseteq 1..Len(c.results)
<1>1. Open(c) \subseteq 1..Len(c.results)
    BY DEF Open
<1>2. IsFiniteSet(1..Len(c.results))
    BY FS_Interval
<1> QED BY <1>1, <1>2, FS_Subset, FS_CardinalityType

LEMMA PlaceInto ==
    ASSUME NEW c, c.results \in Seq(Results), NEW i \in Open(c)
    PROVE  Place(c, i) \in 1..Cardinality(Open(c))
<1> DEFINE below == {j \in Open(c) : j <= i}
<1>1. IsFiniteSet(Open(c)) /\ i \in Int
    BY OpenFinite
<1>2. below \subseteq Open(c) /\ i \in below
    BY <1>1
<1>3. IsFiniteSet(below) /\ Cardinality(below) <= Cardinality(Open(c)) /\ Cardinality(below) \in Nat /\ Cardinality(Open(c)) \in Nat
    BY <1>1, <1>2, FS_Subset, FS_CardinalityType
<1>4. Cardinality(below) # 0
    BY <1>2, <1>3, FS_EmptySet
<1> QED BY <1>3, <1>4 DEF Place

\* A later signature has a later place.
LEMMA PlaceGrows ==
    ASSUME NEW c, c.results \in Seq(Results), NEW i \in Open(c), NEW k \in Open(c), i < k
    PROVE  Place(c, i) < Place(c, k)
<1> DEFINE belowI == {j \in Open(c) : j <= i}
           belowK == {j \in Open(c) : j <= k}
<1>1. IsFiniteSet(Open(c)) /\ i \in Int /\ k \in Int /\ Open(c) \subseteq Int
    BY OpenFinite
<1>2. belowI \cup {k} \subseteq belowK /\ k \notin belowI /\ belowI \subseteq Open(c) /\ belowK \subseteq Open(c)
    BY <1>1
<1>3. IsFiniteSet(belowI) /\ IsFiniteSet(belowK)
    BY <1>1, <1>2, FS_Subset
<1>4. Cardinality(belowI \cup {k}) = Cardinality(belowI) + 1 /\ IsFiniteSet(belowI \cup {k})
    BY <1>2, <1>3, FS_AddElement, Zenon
<1>5. Cardinality(belowI \cup {k}) <= Cardinality(belowK)
    BY <1>2, <1>3, FS_Subset
<1>6. Cardinality(belowI) \in Nat /\ Cardinality(belowK) \in Nat
    BY <1>3, FS_CardinalityType
<1> QED BY <1>4, <1>5, <1>6 DEF Place

LEMMA PlaceOfOne ==
    ASSUME NEW c, c.results \in Seq(Results), NEW i \in Open(c), NEW k \in Open(c), Place(c, i) = Place(c, k)
    PROVE  i = k
<1>1. i \in Int /\ k \in Int
    BY OpenFinite
<1>2. Place(c, i) \in Int
    BY PlaceInto
<1>3. ~(i < k)
    <2>1. SUFFICES ASSUME i < k PROVE FALSE
        OBVIOUS
    <2>2. Place(c, i) < Place(c, k)
        BY <2>1, PlaceGrows
    <2> QED BY <1>2, <2>2
<1>4. ~(k < i)
    <2>1. SUFFICES ASSUME k < i PROVE FALSE
        OBVIOUS
    <2>2. Place(c, k) < Place(c, i)
        BY <2>1, PlaceGrows
    <2> QED BY <1>2, <2>2
<1> QED BY <1>1, <1>3, <1>4

-----------------------------------------------------------------------------
(* What a call has heard. *)

LEMMA UnheardTypes ==
    ASSUME NEW c \in Confs
    PROVE  /\ Unheard(c) \in Confs
           /\ Unheard(c).at \in {"Done", "Pass"}
           /\ Unheard(c).sigs = c.sigs /\ Unheard(c).results = c.results /\ Unheard(c).read = c.read
           /\ Unheard(c).subs = {} /\ Unheard(c).early = {}
<1>1. PICK at \in {"Done", "Pass"} : at = IF Open(c) = {} THEN "Done" ELSE "Pass"
    OBVIOUS
<1>2. Unheard(c) = [c EXCEPT !.at = at, !.subs = {}, !.early = {}]
    BY <1>1 DEF Unheard
<1>3. Unheard(c) \in Confs
    BY <1>1, <1>2, Zenon DEF Confs
<1>4. Unheard(c).at = at /\ Unheard(c).sigs = c.sigs /\ Unheard(c).results = c.results /\ Unheard(c).read = c.read
      /\ Unheard(c).subs = {} /\ Unheard(c).early = {}
    BY <1>2 DEF Confs
<1> QED BY <1>1, <1>3, <1>4

LEMMA ResultTypes ==
    ASSUME NEW c \in Confs, NEW i \in DOMAIN c.results, NEW status \in Final
    PROVE  /\ Result(c, i, status) \in Confs
           /\ Result(c, i, status).sigs = c.sigs /\ Result(c, i, status).read = c.read
           /\ Result(c, i, status).results = [c.results EXCEPT ![i] = status]
           /\ \/ /\ Result(c, i, status).at = c.at /\ Result(c, i, status).subs = c.subs
                 /\ Result(c, i, status).early = c.early
              \/ /\ Result(c, i, status).at \in {"Done", "Pass"} /\ Result(c, i, status).subs = {}
                 /\ Result(c, i, status).early = {}
<1>1. PICK r \in Seq(Results) : r = [c.results EXCEPT ![i] = status]
    <2>1. c.results \in Seq(Results) /\ status \in Results
        BY DEF Confs, Results
    <2>2. [c.results EXCEPT ![i] = status] \in Seq(Results)
        BY <2>1
    <2> QED BY <2>2, Zenon
<1>2. PICK d : d = [c EXCEPT !.results = r]
    BY Zenon
<1>3. d \in Confs
    BY <1>1, <1>2, Zenon DEF Confs
<1>4. d.results = r /\ d.sigs = c.sigs /\ d.read = c.read /\ d.at = c.at /\ d.subs = c.subs /\ d.early = c.early
    BY <1>2 DEF Confs
<1>5. [c EXCEPT !.results[i] = status] = d
    BY <1>1, <1>2 DEF Confs
<1>6. Result(c, i, status) = d \/ Result(c, i, status) = Unheard(d)
    BY <1>5 DEF Result, Heard
<1>7. CASE Result(c, i, status) = d
    BY <1>1, <1>3, <1>4, <1>7
<1>8. CASE Result(c, i, status) = Unheard(d)
    BY <1>1, <1>3, <1>4, <1>8, UnheardTypes
<1> QED BY <1>6, <1>7, <1>8

-----------------------------------------------------------------------------
(* What has been heard stays so while the chain moves. *)

\* A final status stays what it is.
LEMMA StaysKnown ==
    ASSUME ChainTypes, Grows, node' = node, NEW sub, NEW status \in Final, Known(sub, status)
    PROVE  sub = 0 \/ \E n \in DOMAIN txs' : <<sub, n>> \in node'.subs /\ txs'[n].status = status
<1>1. DOMAIN txs \subseteq DOMAIN txs'
    BY DEF Grows, ChainTypes
<1> QED BY <1>1, Zenon DEF Known, Grows

LEMMA StaysTrue ==
    ASSUME ChainTypes, ConfInv, NodeInv, PassInv, Grows, UNCHANGED <<conf, node>>
    PROVE  ConfInv' /\ NodeInv' /\ PassInv'
<1>1. DOMAIN txs \subseteq DOMAIN txs'
    BY DEF Grows, ChainTypes
<1>2. conf.results \in Seq(Results) /\ conf.read \in Seq(Results) /\ conf.early \subseteq Nat \X Final /\ node.wire \subseteq Wired
    BY DEF ChainTypes, Confs, Nodes
<1>3. ASSUME NEW i \in DOMAIN conf.sigs, NEW r \in Results, r \in {"Pending", txs[conf.sigs[i]].status}
      PROVE  r \in {"Pending", txs'[conf.sigs[i]].status}
    BY <1>3 DEF ConfInv, Grows, Results
<1>4. ConfirmationIsTrue'
    <2>1. ASSUME NEW i \in DOMAIN conf.results
          PROVE  conf.results[i] \in {"Pending", txs'[conf.sigs[i]].status}
        BY <1>2, <1>3 DEF ConfInv, ConfirmationIsTrue
    <2> QED BY <2>1 DEF ConfirmationIsTrue
<1>5. ASSUME NEW e \in conf.early
      PROVE  e[1] = 0 \/ \E n \in DOMAIN txs' : <<e[1], n>> \in node'.subs /\ txs'[n].status = e[2]
    BY <1>2, StaysKnown, Zenon DEF ConfInv
<1>6. ConfInv'
    BY <1>1, <1>4, <1>5 DEF ConfInv, Known
<1>7. ASSUME NEW m \in node.wire, m.type = "Notification"
      PROVE  m.sub = 0 \/ \E n \in DOMAIN txs' : <<m.sub, n>> \in node'.subs /\ txs'[n].status = m.status
    <2>1. m.status \in Final
        BY <1>2, <1>7 DEF Wired
    <2> QED BY <1>7, <2>1, StaysKnown, Zenon DEF NodeInv
<1>8. NodeInv'
    BY <1>1, <1>7, Zenon DEF NodeInv, Known
<1>9. ASSUME NEW i \in Open(conf), Place(conf, i) \in DOMAIN conf.read
      PROVE  conf.read[Place(conf, i)] \in {"Pending", txs'[conf.sigs[i]].status}
    <2>1. i \in DOMAIN conf.sigs
        BY DEF Open, ConfInv
    <2>2. conf.read[Place(conf, i)] \in Results
        BY <1>2, <1>9
    <2>3. conf.read[Place(conf, i)] \in {"Pending", txs[conf.sigs[i]].status}
        BY <1>9 DEF PassInv
    <2> QED BY <1>3, <2>1, <2>2, <2>3
<1>10. PassInv'
    BY <1>9 DEF PassInv, Open, Place
<1> QED BY <1>6, <1>8, <1>10

\* A call that starts has heard nothing.
LEMMA StartsTrue ==
    ASSUME ChainTypes, node = NoNode, node' = node, NEW sigs \in Seq(Nat), \A i \in DOMAIN sigs : sigs[i] \in DOMAIN txs',
           conf' = Confirming(sigs)
    PROVE  conf' \in Confs /\ ConfInv' /\ NodeInv' /\ PassInv'
<1>1. PICK at \in {"Done", "Connecting"} : at = IF sigs = <<>> THEN "Done" ELSE "Connecting"
    OBVIOUS
<1>2. PICK r : r = [i \in DOMAIN sigs |-> "Pending"]
    BY Zenon
<1>3. r \in Seq(Results) /\ DOMAIN r = DOMAIN sigs /\ \A i \in DOMAIN r : r[i] = "Pending"
    BY <1>2 DEF Results
<1>4. conf' = [at |-> at, sigs |-> sigs, results |-> r, subs |-> {}, early |-> {}, read |-> <<>>]
    BY <1>1, <1>2, Zenon DEF Confirming, NoConf
<1>5. <<>> \in Seq(Results) /\ {} \in SUBSET (Nat \X Nat) /\ {} \in SUBSET (Nat \X Final)
    OBVIOUS
<1>6. conf' \in Confs
    BY <1>1, <1>3, <1>4, <1>5 DEF Confs
<1>7. conf'.at = at /\ conf'.sigs = sigs /\ conf'.results = r /\ conf'.subs = {} /\ conf'.early = {} /\ conf'.read = <<>>
    BY <1>4
<1>8. ConfInv'
    BY <1>3, <1>7 DEF ConfInv, ConfirmationIsTrue
<1>9. NodeInv'
    <2>1. node'.subs = {} /\ node'.asked = {} /\ node'.wire = {}
        BY NoneTypes
    <2> QED BY <2>1, FS_EmptySet DEF NodeInv
<1>10. PassInv'
    <2>1. Cardinality(Open(conf')) \in Nat
        BY <1>3, <1>7, OpenFinite
    <2>2. Len(conf'.read) = 0 /\ DOMAIN conf'.read = {}
        BY <1>7
    <2>3. Cardinality(Open(conf))' = Cardinality(Open(conf'))
        BY DEF Open
    <2> QED BY <1>7, <2>1, <2>2, <2>3 DEF PassInv
<1> QED BY <1>6, <1>8, <1>9, <1>10

LEMMA StopsTrue ==
    ASSUME node = NoNode, node' = node, conf' = NoConf
    PROVE  conf' \in Confs /\ ConfInv' /\ NodeInv' /\ PassInv'
<1>1. conf' \in Confs
    BY NoneTypes
<1>2. ConfInv'
    BY NoneTypes DEF ConfInv, ConfirmationIsTrue
<1>3. NodeInv'
    <2>1. node'.subs = {} /\ node'.asked = {} /\ node'.wire = {}
        BY NoneTypes
    <2> QED BY <2>1, FS_EmptySet DEF NodeInv
<1>4. PassInv'
    <2>1. conf'.results \in Seq(Results) /\ conf'.read = <<>>
        BY NoneTypes
    <2>2. Cardinality(Open(conf')) \in Nat
        BY <2>1, OpenFinite
    <2>3. Cardinality(Open(conf))' = Cardinality(Open(conf'))
        BY DEF Open
    <2>4. Len(conf'.read) = 0 /\ DOMAIN conf'.read = {}
        BY <2>1
    <2> QED BY <2>1, <2>2, <2>3, <2>4 DEF PassInv
<1> QED BY <1>1, <1>2, <1>3, <1>4

-----------------------------------------------------------------------------
(* The subscriptions. *)

\* A subscription's number is of one signature, so that what is known of it is known of the signature.
LEMMA KnownOf ==
    ASSUME ChainTypes, NodeInv, NEW sub, NEW n, NEW status, <<sub, n>> \in node.subs, Known(sub, status)
    PROVE  txs[n].status = status
<1>1. sub # 0
    BY DEF NodeInv
<1>2. PICK k \in DOMAIN txs : <<sub, k>> \in node.subs /\ txs[k].status = status
    BY <1>1 DEF Known
<1>3. <<sub, k>> = <<sub, n>>
    BY <1>2 DEF NodeInv
<1> QED BY <1>2, <1>3

\* The subscription ends.
LEMMA EndsTrue ==
    ASSUME ChainTypes, ConfInv, txs' = txs, conf' \in Confs, conf'.sigs = conf.sigs,
           DOMAIN conf'.results = DOMAIN conf.results, ConfirmationIsTrue', conf'.read = <<>>,
           node' = NoNode, conf'.subs = {}, conf'.early = {}
    PROVE  node' \in Nodes /\ ConfInv' /\ NodeInv' /\ SocketInv' /\ PassInv'
<1>1. node' \in Nodes /\ node'.subs = {} /\ node'.asked = {} /\ node'.wire = {}
    BY NoneTypes
<1>2. ConfInv'
    BY DEF ConfInv
<1>3. NodeInv'
    BY <1>1, FS_EmptySet DEF NodeInv
<1>4. PassInv'
    <2>1. conf'.results \in Seq(Results)
        BY DEF Confs
    <2>2. Cardinality(Open(conf')) \in Nat
        BY <2>1, OpenFinite
    <2>3. Cardinality(Open(conf))' = Cardinality(Open(conf'))
        BY DEF Open
    <2>4. Len(conf'.read) = 0 /\ DOMAIN conf'.read = {}
        OBVIOUS
    <2> QED BY <2>2, <2>3, <2>4 DEF PassInv
<1> QED BY <1>1, <1>2, <1>3, <1>4 DEF SocketInv

\* A message is heard, and others are waited for.
LEMMA HearsTrue ==
    ASSUME ChainTypes, ConfInv, NodeInv, txs' = txs, conf' \in Confs, conf'.sigs = conf.sigs,
           DOMAIN conf'.results = DOMAIN conf.results, ConfirmationIsTrue', conf'.read = <<>>, conf'.at = "Listening",
           NEW m, node' = [node EXCEPT !.wire = @ \ {m}],
           \A s \in conf'.subs : s[2] \in DOMAIN conf.sigs /\ <<s[1], conf.sigs[s[2]]>> \in node.subs,
           \A e \in conf'.early : Known(e[1], e[2])
    PROVE  node' \in Nodes /\ ConfInv' /\ NodeInv' /\ SocketInv' /\ PassInv'
<1>1. PICK w : w = node.wire \ {m}
    BY Zenon
<1>2. node' = [node EXCEPT !.wire = w] /\ w \subseteq node.wire
    BY <1>1
<1>3. node' \in Nodes
    BY <1>2 DEF ChainTypes, Nodes
<1>4. node'.subs = node.subs /\ node'.asked = node.asked /\ node'.wire \subseteq node.wire
    BY <1>2 DEF ChainTypes, Nodes
<1>5. \A sub, status : Known(sub, status) => (sub = 0 \/ \E n \in DOMAIN txs' : <<sub, n>> \in node'.subs /\ txs'[n].status = status)
    BY <1>4, Zenon DEF Known
<1>6. ConfInv'
    BY <1>4, <1>5 DEF ConfInv, Known
<1>7. NodeInv'
    BY <1>4, <1>5 DEF NodeInv, Known
<1>8. PassInv'
    <2>1. conf'.results \in Seq(Results)
        BY DEF Confs
    <2>2. Cardinality(Open(conf')) \in Nat
        BY <2>1, OpenFinite
    <2>3. Cardinality(Open(conf))' = Cardinality(Open(conf'))
        BY DEF Open
    <2>4. Len(conf'.read) = 0 /\ DOMAIN conf'.read = {}
        OBVIOUS
    <2> QED BY <2>2, <2>3, <2>4 DEF PassInv
<1> QED BY <1>3, <1>6, <1>7, <1>8 DEF SocketInv

\* What was known of the subscription of signature i is its result.
LEMMA ResultTrue ==
    ASSUME ChainTypes, ConfInv, NodeInv, PassInv, conf.at = "Listening", txs' = txs,
           NEW m, node' = IF conf'.at = "Listening" THEN [node EXCEPT !.wire = @ \ {m}] ELSE NoNode,
           NEW c \in Confs, c.at = conf.at, c.sigs = conf.sigs, c.results = conf.results, c.read = conf.read,
           c.subs \subseteq conf.subs, c.early \subseteq conf.early,
           NEW i \in DOMAIN conf.sigs, NEW sub, <<sub, conf.sigs[i]>> \in node.subs,
           NEW status \in Final, Known(sub, status), conf' = Result(c, i, status)
    PROVE  conf' \in Confs /\ node' \in Nodes /\ ConfInv' /\ NodeInv' /\ SocketInv' /\ PassInv'
<1>1. i \in DOMAIN c.results /\ conf.read = <<>>
    BY DEF ConfInv, PassInv
<1>2. /\ conf' \in Confs /\ conf'.sigs = c.sigs /\ conf'.read = c.read
      /\ conf'.results = [c.results EXCEPT ![i] = status]
      /\ \/ conf'.at = c.at /\ conf'.subs = c.subs /\ conf'.early = c.early
         \/ conf'.at \in {"Done", "Pass"} /\ conf'.subs = {} /\ conf'.early = {}
    BY <1>1, ResultTypes
<1>3. txs[conf.sigs[i]].status = status
    BY KnownOf
<1>4. DOMAIN conf'.results = DOMAIN conf.results /\ \A j \in DOMAIN conf.results : conf'.results[j] = IF j = i THEN status ELSE conf.results[j]
    BY <1>1, <1>2 DEF ChainTypes, Confs
<1>5. ConfirmationIsTrue'
    BY <1>2, <1>3, <1>4 DEF ConfirmationIsTrue, ConfInv
<1>6. CASE conf'.at = "Listening"
    <2>1. conf'.subs = c.subs /\ conf'.early = c.early
        BY <1>2, <1>6
    <2>2. \A s \in conf'.subs : s[2] \in DOMAIN conf.sigs /\ <<s[1], conf.sigs[s[2]]>> \in node.subs
        BY <2>1 DEF ConfInv
    <2>3. \A e \in conf'.early : Known(e[1], e[2])
        BY <2>1 DEF ConfInv
    <2>4. node' = [node EXCEPT !.wire = @ \ {m}]
        BY <1>6
    <2> QED BY <1>1, <1>2, <1>4, <1>5, <1>6, <2>2, <2>3, <2>4, HearsTrue, Zenon
<1>7. CASE conf'.at # "Listening"
    <2>1. conf'.subs = {} /\ conf'.early = {} /\ node' = NoNode
        BY <1>2, <1>7
    <2> QED BY <1>1, <1>2, <1>4, <1>5, <2>1, EndsTrue
<1> QED BY <1>6, <1>7

ConfirmInv == ChainTypes /\ ConfInv /\ NodeInv /\ SocketInv /\ PassInv

\* The socket closes, or did not open.
LEMMA UnheardTrue ==
    ASSUME ConfirmInv, conf.at # "Pass", txs' = txs, conf' = Unheard(conf), node' = NoNode
    PROVE  ConfirmInv'
<1>1. conf \in Confs /\ conf.read = <<>>
    BY DEF ConfirmInv, ChainTypes, PassInv
<1>2. conf' \in Confs /\ conf'.sigs = conf.sigs /\ conf'.results = conf.results /\ conf'.read = <<>>
      /\ conf'.subs = {} /\ conf'.early = {}
    BY <1>1, UnheardTypes
<1>3. ConfirmationIsTrue'
    BY <1>2 DEF ConfirmInv, ConfInv, ConfirmationIsTrue
<1>4. node' \in Nodes /\ ConfInv' /\ NodeInv' /\ SocketInv' /\ PassInv'
    BY <1>2, <1>3, EndsTrue DEF ConfirmInv
<1> QED BY <1>2, <1>4 DEF ConfirmInv, ChainTypes

LEMMA SubscribeStep ==
    ASSUME ConfirmInv, Subscribe
    PROVE  ConfirmInv'
<1>1. conf.at = "Connecting" /\ txs' = txs /\ node = NoNode /\ conf.subs = {} /\ conf.early = {}
    BY DEF Subscribe, ConfirmInv, SocketInv
<1>2. CASE conf' = Unheard(conf) /\ node' = node
    BY <1>1, <1>2, UnheardTrue
<1>3. CASE conf' = [conf EXCEPT !.at = "Listening"] /\ node' = [NoNode EXCEPT !.asked = DOMAIN conf.sigs]
    <2>1. conf \in Confs
        BY DEF ConfirmInv, ChainTypes
    <2>2. conf' \in Confs
        BY <1>3, <2>1, Zenon DEF Confs
    <2>3. conf'.at = "Listening" /\ conf'.sigs = conf.sigs /\ conf'.results = conf.results /\ conf'.read = conf.read
          /\ conf'.subs = {} /\ conf'.early = {}
        BY <1>1, <1>3, <2>1 DEF Confs
    <2>4. PICK a \in SUBSET Nat : a = DOMAIN conf.sigs
        BY <2>1 DEF Confs
    <2>5. node' = [NoNode EXCEPT !.asked = a]
        BY <1>3, <2>4
    <2>6. node' \in Nodes
        BY <2>5, NoneTypes DEF Nodes
    <2>7. node'.asked = a /\ node'.subs = {} /\ node'.wire = {}
        BY <2>5, NoneTypes DEF Nodes
    <2>8. ConfInv'
        BY <1>1, <2>3 DEF ConfirmInv, ConfInv, ConfirmationIsTrue
    <2>9. NodeInv'
        BY <2>3, <2>4, <2>7, FS_EmptySet DEF NodeInv
    <2>10. PassInv'
        BY <1>1, <2>3 DEF ConfirmInv, PassInv, Open, Place
    <2> QED BY <1>1, <2>2, <2>3, <2>6, <2>8, <2>9, <2>10 DEF ConfirmInv, ChainTypes, SocketInv
<1> QED BY <1>2, <1>3 DEF Subscribe

LEMMA AnswerStep ==
    ASSUME ConfirmInv, HearAnswer
    PROVE  ConfirmInv'
<1> USE DEF ConfirmInv
<1>1. PICK m \in node.wire :
        /\ m.type = "Answer"
        /\ conf' = IF {e \in conf.early : e[1] = m.sub} = {} THEN [conf EXCEPT !.subs = @ \cup {<<m.sub, m.id>>}]
                   ELSE Result([conf EXCEPT !.early = @ \ {e \in conf.early : e[1] = m.sub}], m.id,
                               (CHOOSE e \in {e \in conf.early : e[1] = m.sub} : TRUE)[2])
        /\ node' = IF conf'.at = "Listening" THEN [node EXCEPT !.wire = @ \ {m}] ELSE NoNode
    BY Zenon DEF HearAnswer, IndexOf
<1>2. conf.at = "Listening" /\ txs' = txs /\ conf \in Confs /\ conf.read = <<>>
    BY DEF HearAnswer, ChainTypes, PassInv
<1>3. m.id \in DOMAIN conf.sigs /\ <<m.sub, conf.sigs[m.id]>> \in node.subs
    BY <1>1 DEF NodeInv
<1>4. CASE {e \in conf.early : e[1] = m.sub} = {}
    <2>1. <<m.sub, m.id>> \in Nat \X Nat
        <3>1. m.id \in Nat
            BY <1>2, <1>3 DEF Confs
        <3>2. node.subs \subseteq Nat \X Nat
            BY DEF ChainTypes, Nodes
        <3>3. m.sub \in Nat
            BY <1>3, <3>2
        <3> QED BY <3>1, <3>3
    <2>2. PICK u \in SUBSET (Nat \X Nat) : u = conf.subs \cup {<<m.sub, m.id>>}
        BY <1>2, <2>1, Zenon DEF Confs
    <2>3. conf' = [conf EXCEPT !.subs = u]
        BY <1>1, <1>4, <2>2
    <2>4. conf' \in Confs
        BY <1>2, <2>3, Zenon DEF Confs
    <2>5. conf'.at = "Listening" /\ conf'.sigs = conf.sigs /\ conf'.results = conf.results /\ conf'.read = <<>>
          /\ conf'.subs = u /\ conf'.early = conf.early
        BY <1>2, <2>3 DEF Confs
    <2>6. node' = [node EXCEPT !.wire = @ \ {m}]
        BY <1>1, <2>5
    <2>7. ConfirmationIsTrue'
        BY <1>2, <2>5 DEF ConfInv, ConfirmationIsTrue
    <2>8. \A s \in conf'.subs : s[2] \in DOMAIN conf.sigs /\ <<s[1], conf.sigs[s[2]]>> \in node.subs
        BY <1>3, <2>2, <2>5 DEF ConfInv
    <2>9. \A e \in conf'.early : Known(e[1], e[2])
        BY <2>5 DEF ConfInv
    <2>10. node' \in Nodes /\ ConfInv' /\ NodeInv' /\ SocketInv' /\ PassInv'
        BY <1>2, <2>4, <2>5, <2>6, <2>7, <2>8, <2>9, HearsTrue, Zenon
    <2> QED BY <1>2, <2>4, <2>10 DEF ChainTypes
<1>5. CASE {e \in conf.early : e[1] = m.sub} # {}
    <2>1. PICK e \in conf.early : e[1] = m.sub /\ e = CHOOSE e1 \in {e1 \in conf.early : e1[1] = m.sub} : TRUE
        BY <1>5
    <2>2. e[2] \in Final /\ Known(m.sub, e[2])
        BY <1>2, <2>1 DEF Confs, ConfInv
    <2>3. PICK l : l = conf.early \ {e1 \in conf.early : e1[1] = m.sub}
        BY Zenon
    <2>4. PICK c : c = [conf EXCEPT !.early = l]
        BY Zenon
    <2>5. l \in SUBSET (Nat \X Final) /\ l \subseteq conf.early
        BY <1>2, <2>3 DEF Confs
    <2>6. c \in Confs
        BY <1>2, <2>4, <2>5, Zenon DEF Confs
    <2>7. c.at = conf.at /\ c.sigs = conf.sigs /\ c.results = conf.results /\ c.read = conf.read
          /\ c.subs \subseteq conf.subs /\ c.early \subseteq conf.early
        BY <1>2, <2>4, <2>5 DEF Confs
    <2>8. conf' = Result(c, m.id, e[2])
        BY <1>1, <1>5, <2>1, <2>3, <2>4
    <2>9. conf' \in Confs /\ node' \in Nodes /\ ConfInv' /\ NodeInv' /\ SocketInv' /\ PassInv'
        BY <1>1, <1>2, <1>3, <2>2, <2>6, <2>7, <2>8, ResultTrue, Zenon
    <2> QED BY <1>2, <2>9 DEF ChainTypes
<1> QED BY <1>4, <1>5

LEMMA NotificationStep ==
    ASSUME ConfirmInv, HearNotification
    PROVE  ConfirmInv'
<1> USE DEF ConfirmInv
<1>1. PICK m \in node.wire :
        /\ m.type = "Notification"
        /\ conf' = IF {s \in conf.subs : s[1] = m.sub} # {}
                   THEN Result([conf EXCEPT !.subs = @ \ {s \in conf.subs : s[1] = m.sub}],
                               (CHOOSE s \in {s \in conf.subs : s[1] = m.sub} : TRUE)[2], m.status)
                   ELSE IF Cardinality(conf.early) >= Len(conf.sigs) THEN Unheard(conf)
                   ELSE [conf EXCEPT !.early = @ \cup {<<m.sub, m.status>>}]
        /\ node' = IF conf'.at = "Listening" THEN [node EXCEPT !.wire = @ \ {m}] ELSE NoNode
    BY Zenon DEF HearNotification
<1>2. conf.at = "Listening" /\ txs' = txs /\ conf \in Confs /\ conf.read = <<>>
    BY DEF HearNotification, ChainTypes, PassInv
<1>3. m.sub \in Nat /\ m.status \in Final /\ Known(m.sub, m.status)
    BY <1>1, Zenon DEF NodeInv, ChainTypes, Nodes, Wired
<1>4. CASE {s \in conf.subs : s[1] = m.sub} # {}
    <2>1. PICK s \in conf.subs : s[1] = m.sub /\ s = CHOOSE s1 \in {s1 \in conf.subs : s1[1] = m.sub} : TRUE
        BY <1>4
    <2>2. s[2] \in DOMAIN conf.sigs /\ <<m.sub, conf.sigs[s[2]]>> \in node.subs
        BY <2>1 DEF ConfInv
    <2>3. PICK l : l = conf.subs \ {s1 \in conf.subs : s1[1] = m.sub}
        BY Zenon
    <2>4. PICK c : c = [conf EXCEPT !.subs = l]
        BY Zenon
    <2>5. l \in SUBSET (Nat \X Nat) /\ l \subseteq conf.subs
        BY <1>2, <2>3 DEF Confs
    <2>6. c \in Confs
        BY <1>2, <2>4, <2>5, Zenon DEF Confs
    <2>7. c.at = conf.at /\ c.sigs = conf.sigs /\ c.results = conf.results /\ c.read = conf.read
          /\ c.subs \subseteq conf.subs /\ c.early \subseteq conf.early
        BY <1>2, <2>4, <2>5 DEF Confs
    <2>8. conf' = Result(c, s[2], m.status)
        BY <1>1, <1>4, <2>1, <2>3, <2>4
    <2>9. conf' \in Confs /\ node' \in Nodes /\ ConfInv' /\ NodeInv' /\ SocketInv' /\ PassInv'
        BY <1>1, <1>2, <1>3, <2>2, <2>6, <2>7, <2>8, ResultTrue, Zenon
    <2> QED BY <1>2, <2>9 DEF ChainTypes
<1>5. CASE conf' = Unheard(conf)
    <2>1. conf'.at # "Listening"
        BY <1>2, <1>5, UnheardTypes
    <2> QED BY <1>1, <1>2, <1>5, <2>1, UnheardTrue
<1>6. CASE conf' = [conf EXCEPT !.early = @ \cup {<<m.sub, m.status>>}]
    <2>1. PICK u \in SUBSET (Nat \X Final) : u = conf.early \cup {<<m.sub, m.status>>}
        <3>1. <<m.sub, m.status>> \in Nat \X Final
            BY <1>3
        <3>2. conf.early \subseteq Nat \X Final
            BY <1>2 DEF Confs
        <3> QED BY <3>1, <3>2, Zenon
    <2>2. conf' = [conf EXCEPT !.early = u]
        BY <1>6, <2>1
    <2>3. conf' \in Confs
        BY <1>2, <2>2, Zenon DEF Confs
    <2>4. conf'.at = "Listening" /\ conf'.sigs = conf.sigs /\ conf'.results = conf.results /\ conf'.read = <<>>
          /\ conf'.subs = conf.subs /\ conf'.early = u
        BY <1>2, <2>2 DEF Confs
    <2>5. node' = [node EXCEPT !.wire = @ \ {m}]
        BY <1>1, <2>4
    <2>6. ConfirmationIsTrue'
        BY <1>2, <2>4 DEF ConfInv, ConfirmationIsTrue
    <2>7. \A s \in conf'.subs : s[2] \in DOMAIN conf.sigs /\ <<s[1], conf.sigs[s[2]]>> \in node.subs
        BY <2>4 DEF ConfInv
    <2>8. \A e \in conf'.early : Known(e[1], e[2])
        BY <1>3, <2>1, <2>4 DEF ConfInv
    <2>9. node' \in Nodes /\ ConfInv' /\ NodeInv' /\ SocketInv' /\ PassInv'
        BY <1>2, <2>3, <2>4, <2>5, <2>6, <2>7, <2>8, HearsTrue, Zenon
    <2> QED BY <1>2, <2>3, <2>9 DEF ChainTypes
<1> QED BY <1>1, <1>4, <1>5, <1>6

\* The node gives a new number.
LEMMA NodeAnswersStep ==
    ASSUME ConfirmInv, NodeAnswers
    PROVE  ConfirmInv'
<1> USE DEF ConfirmInv
<1>1. PICK i \in node.asked :
        node' = [node EXCEPT !.asked = @ \ {i}, !.subs = @ \cup {<<Cardinality(node.subs) + 1, conf.sigs[i]>>},
                             !.wire = @ \cup {[type |-> "Answer", id |-> i, sub |-> Cardinality(node.subs) + 1]}]
    BY Zenon DEF NodeAnswers
<1>2. UNCHANGED <<txs, conf>> /\ node \in Nodes /\ conf \in Confs
    BY DEF NodeAnswers, ChainTypes
<1>3. IsFiniteSet(node.subs) /\ Cardinality(node.subs) \in Nat
    BY FS_CardinalityType DEF NodeInv
<1>4. PICK sub \in Nat : sub = Cardinality(node.subs) + 1
    BY <1>3
<1>5. i \in DOMAIN conf.sigs /\ i \in Nat /\ conf.sigs[i] \in Nat
    BY <1>2 DEF NodeInv, Confs
<1>6. PICK p \in Nat \X Nat : p = <<sub, conf.sigs[i]>>
    BY <1>5, Zenon
<1>7. PICK m \in Wired : m = [type |-> "Answer", id |-> i, sub |-> sub]
    BY <1>5, Zenon DEF Wired
<1>8. PICK a \in SUBSET Nat, u \in SUBSET (Nat \X Nat), w \in SUBSET Wired :
        a = node.asked \ {i} /\ u = node.subs \cup {p} /\ w = node.wire \cup {m}
    BY <1>2, <1>6, <1>7, Zenon DEF Nodes
<1>9. node' = [node EXCEPT !.asked = a, !.subs = u, !.wire = w]
    BY <1>1, <1>4, <1>6, <1>7, <1>8
<1>10. node' \in Nodes
    BY <1>2, <1>8, <1>9, Zenon DEF Nodes
<1>11. node'.asked = a /\ node'.subs = u /\ node'.wire = w
    BY <1>2, <1>9 DEF Nodes
<1>12. p[1] = sub /\ p[2] = conf.sigs[i] /\ \A s \in node.subs : s[1] # sub
    BY <1>3, <1>4, <1>6 DEF NodeInv
<1>13. IsFiniteSet(u) /\ Cardinality(u) = sub
    <2>1. p \notin node.subs
        BY <1>12
    <2> QED BY <1>3, <1>4, <1>8, <2>1, FS_AddElement, Zenon
<1>14. \A s \in u : s[1] \in 1..Cardinality(u) /\ s[2] \in DOMAIN txs'
    <2>1. conf.sigs[i] \in DOMAIN txs'
        BY <1>2, <1>5 DEF ConfInv
    <2> QED BY <1>2, <1>3, <1>4, <1>8, <1>12, <1>13, <2>1 DEF NodeInv
<1>15. \A s, r \in u : s[1] = r[1] => s = r
    BY <1>8, <1>12 DEF NodeInv
<1>16. \A k, status : Known(k, status) => (k = 0 \/ \E n \in DOMAIN txs' : <<k, n>> \in node'.subs /\ txs'[n].status = status)
    BY <1>2, <1>8, <1>11 DEF Known
<1>17. ConfInv'
    BY <1>2, <1>8, <1>11, <1>16, Zenon DEF ConfInv, ConfirmationIsTrue, Known
<1>18. m.type = "Answer" /\ m.id = i /\ m.sub = sub
    BY <1>7
<1>19. \A o \in w : /\ o.type = "Answer" => o.id \in DOMAIN conf'.sigs /\ <<o.sub, conf'.sigs[o.id]>> \in node'.subs
                    /\ o.type = "Notification" => (o.sub = 0 \/ \E n \in DOMAIN txs' : <<o.sub, n>> \in node'.subs /\ txs'[n].status = o.status)
    <2>1. SUFFICES ASSUME NEW o \in w
                   PROVE  /\ o.type = "Answer" => o.id \in DOMAIN conf'.sigs /\ <<o.sub, conf'.sigs[o.id]>> \in node'.subs
                          /\ o.type = "Notification"
                             => (o.sub = 0 \/ \E n \in DOMAIN txs' : <<o.sub, n>> \in node'.subs /\ txs'[n].status = o.status)
        BY Zenon
    <2>2. CASE o = m
        BY <1>2, <1>5, <1>6, <1>8, <1>11, <1>18, <2>2
    <2>3. CASE o \in node.wire
        <3>1. o.type = "Answer" => o.id \in DOMAIN conf.sigs /\ <<o.sub, conf.sigs[o.id]>> \in node.subs
            BY <2>3 DEF NodeInv
        <3>2. o.type = "Notification" => Known(o.sub, o.status)
            BY <2>3, Zenon DEF NodeInv
        <3>3. o.type = "Answer" => o.id \in DOMAIN conf'.sigs /\ <<o.sub, conf'.sigs[o.id]>> \in node'.subs
            BY <1>2, <1>8, <1>11, <3>1
        <3>4. o.type = "Notification"
              => (o.sub = 0 \/ \E n \in DOMAIN txs' : <<o.sub, n>> \in node'.subs /\ txs'[n].status = o.status)
            BY <1>16, <3>2
        <3> QED BY <3>3, <3>4
    <2> QED BY <1>8, <2>2, <2>3
<1>20. NodeInv'
    <2>1. a \subseteq DOMAIN conf'.sigs
        BY <1>2, <1>8 DEF NodeInv
    <2> QED BY <1>11, <1>13, <1>14, <1>15, <1>19, <2>1 DEF NodeInv, Known
<1>21. PassInv'
    BY <1>2 DEF PassInv, Open, Place
<1>22. SocketInv'
    <2>1. node.asked # {}
        OBVIOUS
    <2>2. node # NoNode
        BY <2>1, NoneTypes
    <2> QED BY <1>2, <2>2 DEF SocketInv
<1> QED BY <1>2, <1>10, <1>17, <1>20, <1>21, <1>22 DEF ChainTypes

\* The node tells what it knows; or of a subscription it has not made.
LEMMA NodeNotifiesStep ==
    ASSUME ConfirmInv, NodeNotifies
    PROVE  ConfirmInv'
<1> USE DEF ConfirmInv
<1>1. UNCHANGED <<txs, conf>> /\ node \in Nodes
    BY Zenon DEF NodeNotifies, ChainTypes
<1>2. PICK sub \in Nat, status \in Final, told \in SUBSET Nat :
        /\ node' = [node EXCEPT !.told = told, !.wire = @ \cup {Told(sub, status)}]
        /\ Known(sub, status) /\ (conf.at = "Listening" \/ node.subs # {})
    <2>1. ASSUME NEW s \in node.subs, txs[s[2]].status \in Final,
                 node' = [node EXCEPT !.told = @ \cup {s[1]}, !.wire = @ \cup {Told(s[1], txs[s[2]].status)}]
          PROVE  \E sub \in Nat, status \in Final, told \in SUBSET Nat :
                   /\ node' = [node EXCEPT !.told = told, !.wire = @ \cup {Told(sub, status)}]
                   /\ Known(sub, status) /\ (conf.at = "Listening" \/ node.subs # {})
        <3>1. s[1] \in Nat /\ s[2] \in Nat /\ s = <<s[1], s[2]>> /\ node.told \cup {s[1]} \in SUBSET Nat
            BY <1>1 DEF Nodes
        <3>2. s[2] \in DOMAIN txs
            BY Zenon DEF NodeInv
        <3>3. Known(s[1], txs[s[2]].status)
            BY <3>1, <3>2 DEF Known
        <3>4. node' = [node EXCEPT !.told = node.told \cup {s[1]}, !.wire = @ \cup {Told(s[1], txs[s[2]].status)}]
            BY <2>1
        <3> QED BY <2>1, <3>1, <3>3, <3>4, Zenon
    <2>2. ASSUME conf.at = "Listening", node' = [node EXCEPT !.wire = @ \cup {Told(0, "Confirmed")}]
          PROVE  \E sub \in Nat, status \in Final, told \in SUBSET Nat :
                   /\ node' = [node EXCEPT !.told = told, !.wire = @ \cup {Told(sub, status)}]
                   /\ Known(sub, status) /\ (conf.at = "Listening" \/ node.subs # {})
        <3>1. node' = [node EXCEPT !.told = node.told, !.wire = @ \cup {Told(0, "Confirmed")}]
            BY <1>1, <2>2, Zenon DEF Nodes
        <3>2. Known(0, "Confirmed") /\ "Confirmed" \in Final /\ node.told \in SUBSET Nat
            BY <1>1 DEF Known, Final, Nodes
        <3> QED BY <2>2, <3>1, <3>2, Zenon
    <2> QED BY <2>1, <2>2, Zenon DEF NodeNotifies
<1>3. PICK m \in Wired : m = Told(sub, status)
    BY Zenon DEF Told, Wired
<1>4. m.type = "Notification" /\ m.sub = sub /\ m.status = status
    BY <1>3 DEF Told
<1>5. PICK w \in SUBSET Wired : w = node.wire \cup {m}
    BY <1>1, <1>3, Zenon DEF Nodes
<1>6. node' = [node EXCEPT !.told = told, !.wire = w]
    BY <1>2, <1>3, <1>5
<1>7. node' \in Nodes
    BY <1>1, <1>6, Zenon DEF Nodes
<1>8. node'.asked = node.asked /\ node'.subs = node.subs /\ node'.wire = w
    BY <1>1, <1>6 DEF Nodes
<1>9. \A k, st : Known(k, st) => (k = 0 \/ \E n \in DOMAIN txs' : <<k, n>> \in node'.subs /\ txs'[n].status = st)
    BY <1>1, <1>8, Zenon DEF Known
<1>10. ConfInv'
    BY <1>1, <1>8, <1>9 DEF ConfInv, ConfirmationIsTrue, Known
<1>11. NodeInv'
    <2>1. \A o \in w : /\ o.type = "Answer" => o.id \in DOMAIN conf'.sigs /\ <<o.sub, conf'.sigs[o.id]>> \in node'.subs
                       /\ o.type = "Notification" => (o.sub = 0 \/ \E n \in DOMAIN txs' : <<o.sub, n>> \in node'.subs /\ txs'[n].status = o.status)
        BY <1>1, <1>2, <1>4, <1>5, <1>8, <1>9 DEF NodeInv
    <2> QED BY <1>1, <1>8, <2>1 DEF NodeInv, Known
<1>12. PassInv'
    BY <1>1 DEF PassInv, Open, Place
<1>13. SocketInv'
    BY <1>1, <1>2, NoneTypes DEF SocketInv
<1> QED BY <1>1, <1>7, <1>10, <1>11, <1>12, <1>13 DEF ChainTypes

\* A request of the pass says what became of the signatures at its places.
LEMMA ChunkTrue ==
    ASSUME ConfirmInv, conf.at = "Pass"
    PROVE  /\ conf.read \o Chunked(conf) \in Seq(Results)
           /\ \A i \in Open(conf) : Place(conf, i) \in DOMAIN (conf.read \o Chunked(conf))
                => (conf.read \o Chunked(conf))[Place(conf, i)] \in {"Pending", txs[conf.sigs[i]].status}
<1> DEFINE left == Cardinality(Open(conf)) - Len(conf.read)
           n == IF left < Chunk THEN left ELSE Chunk
           at(k) == CHOOSE i \in Open(conf) : Place(conf, i) = Len(conf.read) + k
<1>1. conf.results \in Seq(Results) /\ conf.read \in Seq(Results) /\ Len(conf.read) <= Cardinality(Open(conf))
    BY DEF ConfirmInv, ChainTypes, Confs, PassInv
<1>2. left \in Nat /\ n \in Nat
    BY <1>1, OpenFinite, ChunkAssumption
<1>3. PICK c : c = Chunked(conf)
    OBVIOUS
<1>4. c = [k \in 1..n |-> StatusOf(conf.sigs[at(k)])]
    BY <1>3 DEF Chunked
<1>5. \A s : StatusOf(s) \in Results
    BY DEF StatusOf, Results
<1> HIDE DEF n, at
<1>6. c \in Seq(Results) /\ Len(c) = n /\ \A k \in 1..n : c[k] = StatusOf(conf.sigs[at(k)])
    BY <1>2, <1>4, <1>5
<1>7. conf.read \o c \in Seq(Results) /\ Len(conf.read \o c) = Len(conf.read) + n /\ Len(conf.read) \in Nat
    <2>1. PICK s \in Seq(Results) : s = conf.read
        BY <1>1
    <2>2. c \in Seq(Results) /\ Len(c) = n
        BY <1>6
    <2>3. s \o c \in Seq(Results) /\ Len(s \o c) = Len(s) + Len(c) /\ Len(s) \in Nat
        BY <2>2
    <2> QED BY <2>1, <2>2, <2>3
<1>8. ASSUME NEW i \in Open(conf), Place(conf, i) \in DOMAIN (conf.read \o c)
      PROVE  (conf.read \o c)[Place(conf, i)] \in {"Pending", txs[conf.sigs[i]].status}
    <2>1. Place(conf, i) \in 1..(Len(conf.read) + n) /\ Place(conf, i) \in Nat
        BY <1>7, <1>8
    <2>2. CASE Place(conf, i) <= Len(conf.read)
        <3>1. (conf.read \o c)[Place(conf, i)] = conf.read[Place(conf, i)] /\ Place(conf, i) \in DOMAIN conf.read
            BY <1>1, <1>6, <2>1, <2>2
        <3>2. conf.read[Place(conf, i)] \in {"Pending", txs[conf.sigs[i]].status}
            BY <3>1 DEF ConfirmInv, PassInv
        <3> QED BY <3>1, <3>2
    <2>3. CASE Place(conf, i) > Len(conf.read)
        <3>1. PICK k \in 1..n : Place(conf, i) = Len(conf.read) + k
            <4>1. Place(conf, i) - Len(conf.read) \in 1..n
                BY <1>1, <1>2, <2>1, <2>3
            <4>2. Place(conf, i) = Len(conf.read) + (Place(conf, i) - Len(conf.read))
                BY <1>1, <2>1
            <4> QED BY <4>1, <4>2
        <3>2. (conf.read \o c)[Len(conf.read) + k] = c[k]
            BY <1>1, <1>6, <3>1
        <3>3. at(k) \in Open(conf) /\ Place(conf, at(k)) = Len(conf.read) + k
            BY <3>1 DEF at
        <3>4. at(k) = i
            BY <1>1, <3>1, <3>3, PlaceOfOne
        <3>5. c[k] = StatusOf(conf.sigs[i])
            BY <1>6, <3>4
        <3> QED BY <3>1, <3>2, <3>5 DEF StatusOf
    <2> QED BY <1>7, <2>1, <2>2, <2>3
<1> QED BY <1>3, <1>7, <1>8

LEMMA ReadStep ==
    ASSUME ConfirmInv, ReadStatuses
    PROVE  ConfirmInv'
<1> DEFINE read0 == conf.read \o Chunked(conf)
<1>1. conf.at = "Pass" /\ UNCHANGED <<txs, node>> /\ conf \in Confs /\ node = NoNode /\ conf.subs = {} /\ conf.early = {}
    BY DEF ReadStatuses, ConfirmInv, ChainTypes, SocketInv
<1>2. PICK read \in Seq(Results) : read = read0
    BY <1>1, ChunkTrue, Zenon
<1>3. \A i \in Open(conf) : Place(conf, i) \in DOMAIN read => read[Place(conf, i)] \in {"Pending", txs[conf.sigs[i]].status}
    BY <1>1, <1>2, ChunkTrue
<1>4. \/ Len(read) < Cardinality(Open(conf)) /\ conf' = [conf EXCEPT !.read = read]
      \/ Len(read) = Cardinality(Open(conf)) /\ conf' = [conf EXCEPT !.at = "Done", !.read = <<>>, !.results = Merged(conf, read)]
      \/ conf' = [conf EXCEPT !.at = "Error", !.read = <<>>]
    BY <1>2 DEF ReadStatuses
<1>5. ConfInv /\ NodeInv /\ PassInv /\ ChainTypes
    BY DEF ConfirmInv
<1>6. CASE Len(read) < Cardinality(Open(conf)) /\ conf' = [conf EXCEPT !.read = read]
    <2>1. conf' \in Confs
        BY <1>1, <1>2, <1>6, Zenon DEF Confs
    <2>2. conf'.at = conf.at /\ conf'.sigs = conf.sigs /\ conf'.results = conf.results /\ conf'.subs = {} /\ conf'.early = {}
          /\ conf'.read = read
        BY <1>1, <1>6 DEF Confs
    <2>3. Open(conf') = Open(conf) /\ \A i : Place(conf', i) = Place(conf, i)
        BY <2>2 DEF Open, Place
    <2>4. ConfInv'
        BY <1>1, <1>5, <2>2 DEF ConfInv, ConfirmationIsTrue
    <2>5. NodeInv'
        BY <1>1, <1>5, <2>2 DEF NodeInv, Known
    <2>6. Len(read) <= Cardinality(Open(conf'))
        <3>1. conf.results \in Seq(Results) /\ Len(read) \in Nat
            BY <1>1 DEF Confs
        <3>2. Cardinality(Open(conf)) \in Nat
            BY <3>1, OpenFinite
        <3> QED BY <1>6, <2>3, <3>1, <3>2
    <2>7. PassInv'
        <3>1. Open(conf)' = Open(conf') /\ \A i : Place(conf, i)' = Place(conf', i)
            BY DEF Open, Place
        <3> QED BY <1>1, <1>3, <2>2, <2>3, <2>6, <3>1 DEF PassInv
    <2> QED BY <1>1, <1>5, <2>1, <2>2, <2>4, <2>5, <2>7 DEF ConfirmInv, ChainTypes, SocketInv
<1>7. CASE Len(read) = Cardinality(Open(conf)) /\ conf' = [conf EXCEPT !.at = "Done", !.read = <<>>, !.results = Merged(conf, read)]
    <2>1. \A i \in Open(conf) : Place(conf, i) \in DOMAIN read
        <3>1. conf.results \in Seq(Results) /\ DOMAIN read = 1..Cardinality(Open(conf))
            BY <1>1, <1>7 DEF Confs
        <3> QED BY <3>1, PlaceInto
    <2>2. PICK results : results = Merged(conf, read)
        OBVIOUS
    <2>3. DOMAIN results = DOMAIN conf.results
          /\ \A i \in DOMAIN conf.results : results[i] = IF i \in Open(conf) THEN read[Place(conf, i)] ELSE conf.results[i]
        BY <2>2 DEF Merged
    <2>4. results \in Seq(Results)
        <3>1. conf.results \in Seq(Results)
            BY <1>1 DEF Confs
        <3>2. \A i \in DOMAIN conf.results : results[i] \in Results
            BY <2>1, <2>3, <3>1
        <3>3. results = [i \in 1..Len(conf.results) |-> results[i]]
            BY <2>2, <2>3, <3>1 DEF Merged
        <3> QED BY <3>1, <3>2, <3>3
    <2>5. conf' = [conf EXCEPT !.at = "Done", !.read = <<>>, !.results = results]
        BY <1>7, <2>2
    <2>6. conf' \in Confs
        <3>1. PICK none \in Seq(Results) : none = <<>>
            <4>1. <<>> \in Seq(Results)
                OBVIOUS
            <4> QED BY <4>1, Zenon
        <3>2. [conf EXCEPT !.at = "Done", !.read = none, !.results = results] \in Confs
            BY <1>1, <2>4, Zenon DEF Confs
        <3> QED BY <2>5, <3>1, <3>2
    <2>7. conf'.at = "Done" /\ conf'.sigs = conf.sigs /\ conf'.results = results /\ conf'.subs = {} /\ conf'.early = {}
          /\ conf'.read = <<>>
        BY <1>1, <2>5 DEF Confs
    <2>8. ConfirmationIsTrue'
        <3>1. \A i \in DOMAIN conf.results : results[i] \in {"Pending", txs[conf.sigs[i]].status}
            BY <1>3, <1>5, <2>1, <2>3 DEF ConfInv, ConfirmationIsTrue
        <3> QED BY <1>1, <2>3, <2>7, <3>1 DEF ConfirmationIsTrue
    <2> QED BY <1>1, <1>5, <2>3, <2>6, <2>7, <2>8, EndsTrue DEF ConfirmInv, ChainTypes
<1>8. CASE conf' = [conf EXCEPT !.at = "Error", !.read = <<>>]
    <2>1. conf' \in Confs
        <3>1. PICK none \in Seq(Results) : none = <<>>
            <4>1. <<>> \in Seq(Results)
                OBVIOUS
            <4> QED BY <4>1, Zenon
        <3>2. [conf EXCEPT !.at = "Error", !.read = none] \in Confs
            BY <1>1, Zenon DEF Confs
        <3> QED BY <1>8, <3>1, <3>2
    <2>2. conf'.sigs = conf.sigs /\ conf'.results = conf.results /\ conf'.subs = {} /\ conf'.early = {}
          /\ conf'.read = <<>>
        BY <1>1, <1>8 DEF Confs
    <2>3. ConfirmationIsTrue'
        BY <1>1, <1>5, <2>2, Zenon DEF ConfInv, ConfirmationIsTrue
    <2> QED BY <1>1, <1>5, <2>1, <2>2, <2>3, EndsTrue DEF ConfirmInv, ChainTypes
<1> QED BY <1>4, <1>6, <1>7, <1>8

\* Every step of the call and of the node keeps what is known true.
LEMMA ConfirmStep ==
    ASSUME ConfirmInv, ConfirmNext
    PROVE  ConfirmInv'
<1>1. CASE StopListening
    BY <1>1, UnheardTrue DEF StopListening
<1> QED
    BY <1>1, SubscribeStep, AnswerStep, NotificationStep, ReadStep, NodeAnswersStep, NodeNotifiesStep DEF ConfirmNext

-----------------------------------------------------------------------------
(* The desk's calls, whole. *)

Active == {"Connecting", "Listening", "Pass"}

DeskInv == ConfirmInv /\ FundTypes /\ SentInv /\ PlanInv /\ CallInv

LEMMA ReadyInv ==
    ASSUME Ready
    PROVE  DeskInv
<1>1. txs = <<>> /\ conf = NoConf /\ node = NoNode
    BY DEF Ready
<1>2. ConfirmInv
    <2>1. ChainTypes
        BY <1>1, NoneTypes DEF ChainTypes
    <2>2. ConfInv
        BY <1>1, NoneTypes DEF ConfInv, ConfirmationIsTrue
    <2>3. NodeInv
        BY <1>1, NoneTypes, FS_EmptySet, Zenon DEF NodeInv
    <2>4. SocketInv
        BY <1>1, NoneTypes DEF SocketInv
    <2>5. PassInv
        <3>1. conf.results \in Seq(Results) /\ conf.read = <<>>
            BY <1>1, NoneTypes
        <3>2. Cardinality(Open(conf)) \in Nat
            BY <3>1, OpenFinite
        <3>3. Len(conf.read) = 0 /\ DOMAIN conf.read = {}
            BY <3>1
        <3> QED BY <3>1, <3>2, <3>3 DEF PassInv
    <2> QED BY <2>1, <2>2, <2>3, <2>4, <2>5 DEF ConfirmInv
<1>3. PICK at \in {"Idle", "Batch"} : fund = [NoFund EXCEPT !.at = at]
    BY DEF Ready
<1>4. fund \in Funds0
    <2>1. NoFund \in Funds0
        BY NoneTypes
    <2> QED BY <1>3, <2>1 DEF Funds0, Stages
<1>5. fund.at = at /\ fund.since = 0
    BY <1>3 DEF NoFund
<1>6. FundTypes
    BY <1>4 DEF Ready, FundTypes
<1>7. SentInv
    BY <1>1 DEF SentInv
<1>8. PlanInv
    BY <1>5 DEF PlanInv
<1>9. CallInv
    BY <1>1, NoneTypes DEF CallInv
<1> QED BY <1>2, <1>6, <1>7, <1>8, <1>9 DEF DeskInv

\* A step that leaves the call as it is.
LEMMA KeepsCall ==
    ASSUME DeskInv, Moves, UNCHANGED <<conf, node>>,
           conf.at \in Active => fund'.at \in {"Confirm", "Sent"} /\ (fund'.at = "Confirm" => args'.ws)
    PROVE  DeskInv'
<1>1. Grows /\ FundTypes' /\ SentInv' /\ PlanInv'
    BY FundStep DEF DeskInv, ConfirmInv
<1>2. ConfInv' /\ NodeInv' /\ PassInv'
    BY <1>1, StaysTrue DEF DeskInv, ConfirmInv
<1>3. ChainTypes' /\ SocketInv'
    BY <1>1 DEF DeskInv, ConfirmInv, ChainTypes, SocketInv, Grows
<1>4. CallInv'
    BY DEF CallInv, Active
<1> QED BY <1>1, <1>2, <1>3, <1>4 DEF DeskInv, ConfirmInv

\* A step that starts one.
LEMMA StartsCall ==
    ASSUME DeskInv, Moves, conf.at \notin Active, node' = node, fund'.at = "Confirm" => args'.ws,
           fund'.at \in {"Confirm", "Sent"},
           NEW sigs \in Seq(Nat), \A i \in DOMAIN sigs : sigs[i] \in DOMAIN txs', conf' = Confirming(sigs)
    PROVE  DeskInv'
<1>1. Grows /\ FundTypes' /\ SentInv' /\ PlanInv'
    BY FundStep DEF DeskInv, ConfirmInv
<1>2. node = NoNode /\ node \in Nodes
    BY DEF DeskInv, ConfirmInv, SocketInv, Active, ChainTypes
<1>3. conf' \in Confs /\ ConfInv' /\ NodeInv' /\ PassInv'
    BY <1>2, StartsTrue DEF DeskInv, ConfirmInv
<1>4. conf'.subs = {} /\ conf'.early = {}
    BY NoneTypes DEF Confirming, NoConf
<1>5. ChainTypes' /\ SocketInv'
    BY <1>1, <1>2, <1>3, <1>4 DEF ChainTypes, SocketInv, Grows
<1>6. CallInv'
    BY DEF CallInv
<1> QED BY <1>1, <1>3, <1>5, <1>6 DEF DeskInv, ConfirmInv

LEMMA SendCall ==
    ASSUME DeskInv, SendFund
    PROVE  DeskInv'
<1> USE StageNames
<1>1. fund.at = "Send" /\ conf.at \notin Active /\ UNCHANGED <<node, args>> /\ Moves
    BY DEF SendFund, DeskInv, CallInv, Active, Moves, FundNext
<1>2. CASE conf' = conf
    BY <1>1, <1>2, KeepsCall
<1>3. CASE conf' # conf
    <2>1. PICK tx : txs' = Append(txs, tx)
        BY <1>3 DEF SendFund
    <2>2. txs \in Seq(Txs) /\ txs' \in Seq(Txs) /\ Len(txs') = Len(txs) + 1
        <3>1. txs \in Seq(Txs)
            BY DEF DeskInv, ConfirmInv, ChainTypes
        <3>2. Grows
            BY <1>1, FundStep DEF DeskInv, ConfirmInv
        <3> QED BY <2>1, <3>1, <3>2 DEF Grows
    <2>3. To("Confirm") /\ conf' = IF args.ws THEN Confirming(<<Len(txs')>>) ELSE NoConf
        BY <1>3 DEF SendFund
    <2>4. fund'.at = "Confirm"
        BY <2>3, ToType DEF DeskInv
    <2>5. CASE args.ws
        <3>1. PICK n \in Nat : n = Len(txs')
            BY <2>2
        <3>2. <<n>> \in Seq(Nat) /\ \A i \in DOMAIN <<n>> : <<n>>[i] \in DOMAIN txs'
            BY <2>2, <3>1
        <3> QED BY <1>1, <2>3, <2>4, <2>5, <3>1, <3>2, StartsCall, Zenon
    <2>6. CASE ~args.ws
        <3>1. Grows /\ FundTypes' /\ SentInv' /\ PlanInv'
            BY <1>1, FundStep DEF DeskInv, ConfirmInv
        <3>2. node = NoNode /\ node \in Nodes
            BY <1>1 DEF DeskInv, ConfirmInv, SocketInv, Active, ChainTypes
        <3>3. conf' = NoConf
            BY <2>3, <2>6
        <3>4. conf' \in Confs /\ ConfInv' /\ NodeInv' /\ PassInv'
            BY <1>1, <3>2, <3>3, StopsTrue
        <3>5. ChainTypes' /\ SocketInv' /\ CallInv'
            BY <1>1, <3>1, <3>2, <3>3, <3>4, NoneTypes, Zenon DEF ChainTypes, SocketInv, CallInv, Grows
        <3> QED BY <3>1, <3>4, <3>5 DEF DeskInv, ConfirmInv
    <2> QED BY <2>5, <2>6
<1> QED BY <1>2, <1>3

LEMMA BatchCall ==
    ASSUME DeskInv, SendBatch
    PROVE  DeskInv'
<1> USE StageNames
<1>1. fund.at = "Batch" /\ conf.at \notin Active /\ UNCHANGED <<node, args>> /\ Moves
    BY DEF SendBatch, DeskInv, CallInv, Active, Moves, FundNext
<1>2. CASE conf' = conf
    BY <1>1, <1>2, KeepsCall
<1>3. CASE conf' # conf
    <2>1. To("Sent") /\ conf' = Confirming([i \in DOMAIN txs |-> i]) /\ Grows
        BY <1>1, <1>3, FundStep DEF SendBatch, DeskInv, ConfirmInv
    <2>2. fund'.at = "Sent"
        BY <2>1, ToType DEF DeskInv
    <2>3. txs \in Seq(Txs)
        BY DEF DeskInv, ConfirmInv, ChainTypes
    <2>4. PICK sigs \in Seq(Nat) : sigs = [i \in DOMAIN txs |-> i]
        <3>1. PICK n \in Nat : n = Len(txs)
            BY <2>3
        <3>2. [i \in 1..n |-> i] \in Seq(Nat)
            OBVIOUS
        <3>3. DOMAIN txs = 1..n
            BY <2>3, <3>1
        <3>4. [i \in DOMAIN txs |-> i] = [i \in 1..n |-> i]
            BY <3>3
        <3> QED BY <3>2, <3>4, Zenon
    <2>5. \A i \in DOMAIN sigs : sigs[i] \in DOMAIN txs'
        BY <2>1, <2>3, <2>4 DEF Grows
    <2> QED BY <1>1, <2>1, <2>2, <2>4, <2>5, StartsCall
<1> QED BY <1>2, <1>3

\* The chain and the wallet leave a call where it is.
LEMMA ChainKeepsStage ==
    ASSUME FundTypes, TxMoves \/ TxFinal \/ WalletMoves \/ Around
    PROVE  UNCHANGED <<conf, node>> /\ fund'.at = fund.at /\ args'.ws = args.ws
<1>1. fund' = fund \/ (\E d, sent : Leaves(d, sent)) \/ ClosesAccount
    BY DEF TxMoves, TxFinal, WalletMoves, Around, fundVars
<1>2. fund'.at = fund.at
    BY <1>1 DEF Leaves, ClosesAccount, FundTypes, Funds0
<1>3. UNCHANGED <<conf, node>>
    BY DEF TxMoves, TxFinal, WalletMoves, Around
<1>4. args' \in {args, [args EXCEPT !.finalized = TRUE]}
    BY DEF TxMoves, TxFinal, WalletMoves, Around, fundVars
<1>5. args'.ws = args.ws
    BY <1>4 DEF FundTypes, Calls
<1> QED BY <1>2, <1>3, <1>5

LEMMA DeskStep ==
    ASSUME DeskInv, Moves
    PROVE  DeskInv'
<1>1. CASE SendFund \/ SendBatch
    BY <1>1, SendCall, BatchCall
<1>2. CASE ConfirmNext /\ UNCHANGED fundVars
    <2>1. ConfirmInv'
        BY <1>2, ConfirmStep DEF DeskInv
    <2>2. FundTypes' /\ SentInv' /\ PlanInv'
        BY FundStep DEF DeskInv, ConfirmInv
    <2>3. conf' = conf \/ conf.at \in Active
        BY <1>2, Zenon DEF ConfirmNext, Subscribe, HearAnswer, HearNotification, StopListening, ReadStatuses, NodeAnswers,
                    NodeNotifies, Active
    <2>4. CallInv'
        BY <1>2, <2>3 DEF DeskInv, CallInv, fundVars, Active
    <2> QED BY <2>1, <2>2, <2>4 DEF DeskInv
<1>3. CASE TxMoves \/ TxFinal \/ WalletMoves \/ Around
    <2>1. UNCHANGED <<conf, node>> /\ fund'.at = fund.at /\ args'.ws = args.ws
        BY <1>3, ChainKeepsStage DEF DeskInv
    <2> QED BY <2>1, KeepsCall DEF DeskInv, CallInv, Active
<1>4. CASE Requests
    <2>1. UNCHANGED <<conf, node>>
        BY <1>4, RequestKeeps
    <2>2. fund.at \in {"Position", "Accounts", "Balance", "Budget", "Idle", "Refused"}
          \/ (fund.at = "Confirm" /\ (args.ws => conf.at \in {"Done", "Error"}))
        BY <1>4, Zenon DEF Requests, RpcFails, FundPosition, ReadPosition, ReadAccounts, ReadBalance, ValidateBudget, Submitted
    <2>3. conf.at \notin Active
        BY <2>2 DEF DeskInv, CallInv, Active
    <2> QED BY <2>1, <2>3, KeepsCall
<1> QED BY <1>1, <1>2, <1>3, <1>4 DEF Moves, FundNext, Requests

\* A deposit that lands leaves the reserve.
LEMMA ReserveStep ==
    ASSUME DeskInv, Moves, NEW s \in DOMAIN txs, txs[s].wrap > 0, txs[s].status = "Processed", txs'[s].status = "Confirmed"
    PROVE  wallet'.sol + txs[s].since >= args.reserve
<1>1. ChainTypes /\ FundTypes /\ SentInv /\ PlanInv /\ txs[s] \in Txs
    BY DEF DeskInv, ConfirmInv, ChainTypes
<1>2. txs[s].kind = "Fund" /\ Backed(txs[s].wrap, txs[s].since)
    BY <1>1 DEF SentInv
<1>3. txs' # txs
    OBVIOUS
<1>4. ASSUME NEW tx, txs' = Append(txs, tx)
      PROVE  FALSE
    BY <1>1, <1>4 DEF ChainTypes
<1>5. ASSUME NEW k \in DOMAIN txs, NEW status \in TxStates, txs' = Become(k, status), k = s => status # "Confirmed"
      PROVE  FALSE
    <2>1. Become(k, status)[k] = [txs[k] EXCEPT !.status = status] /\ \A n \in DOMAIN txs : n # k => Become(k, status)[n] = txs[n]
        BY <1>1, BecomeType
    <2>2. Become(k, status)[k].status = status
        BY <1>1, <2>1 DEF ChainTypes, Txs
    <2> QED BY <1>5, <2>1, <2>2, Zenon
<1>6. ASSUME NEW k \in DOMAIN txs, NEW status \in Final, NEW d \in Int, txs[k].status = "Processed", Leaves(d, Become(k, status)),
             k = s => status # "Confirmed"
      PROVE  FALSE
    <2> DEFINE b == Become(k, status)
    <2>1. status \in TxStates
        BY DEF TxStates
    <2>2. b \in Seq(Txs) /\ Len(b) = Len(txs) /\ b[k] = [txs[k] EXCEPT !.status = status]
          /\ \A n \in DOMAIN txs : n # k => b[n] = txs[n]
        BY <1>1, <2>1, BecomeType
    <2>3. b[k].status = status
        BY <1>1, <2>2 DEF ChainTypes, Txs
    <2> HIDE DEF b
    <2>4. s \in DOMAIN b
        BY <1>1, <2>2 DEF ChainTypes
    <2>5. Leaves(d, b)
        BY <1>6 DEF b
    <2>6. txs'[s].status = b[s].status
        BY <1>1, <2>2, <2>4, <2>5, LeavesType
    <2> QED BY <1>6, <2>2, <2>3, <2>6, Zenon
<1>7. CASE Requests \/ Around \/ (ConfirmNext /\ UNCHANGED fundVars)
    BY <1>3, <1>7, RequestKeeps, ConfirmKeeps DEF Around
<1>8. CASE SendFund \/ SendBatch
    BY <1>3, <1>4, <1>8 DEF SendFund, SendBatch
<1>9. CASE TxMoves
    <2>1. PICK k \in DOMAIN txs, status \in {"Sent", "Processed", "Gone"} : txs' = Become(k, status)
        BY <1>9 DEF TxMoves
    <2> QED BY <1>5, <2>1 DEF TxStates
<1>10. CASE WalletMoves
    <2>1. Leaves(1, txs)
        BY <1>3, <1>10 DEF WalletMoves
    <2>2. txs \in Seq(Txs)
        BY <1>1 DEF ChainTypes
    <2>3. txs'[s].status = txs[s].status
        BY <1>1, <2>1, <2>2, LeavesType
    <2> QED BY <2>3
<1>11. CASE TxFinal
    <2>1. PICK k \in DOMAIN txs :
            /\ txs[k].status = "Processed"
            /\ \/ txs[k].kind = "Plain" /\ \E status \in Final : txs' = Become(k, status)
               \/ Lands(k)
               \/ Leaves(Least(wallet.sol, HolderPays(Fee)), Become(k, "Failed"))
        BY <1>11, Zenon DEF TxFinal, Lands
    <2>2. ASSUME txs[k].kind = "Plain", NEW status \in Final, txs' = Become(k, status)
          PROVE  FALSE
        BY <1>2, <1>5, <2>2, Zenon DEF TxStates
    <2>3. ASSUME Leaves(Least(wallet.sol, HolderPays(Fee)), Become(k, "Failed"))
          PROVE  FALSE
        <3>1. Least(wallet.sol, HolderPays(Fee)) \in Int
            BY <1>1, CostDue DEF Least, FundTypes
        <3>2. "Failed" \in Final
            BY DEF Final
        <3> QED BY <1>6, <2>1, <2>3, <3>1, <3>2, Zenon
    <2>4. CASE Lands(k)
        <3>1. RentDue \in Nat /\ FeeDue \in Nat /\ args.reserve \in Int /\ wallet.sol \in Int
            BY <1>1, RentNat
        <3>2. wallet'.sol = wallet.sol - (RentDue + FeeDue + txs[k].wrap)
            BY <1>1, <2>4, LandStep
        <3>3. k = s
            <4>1. HolderPays(Fee + Created) + txs[k].wrap \in Int
                <5>1. txs[k] \in Txs
                    BY <1>1 DEF ChainTypes
                <5>2. txs[k].wrap \in Int
                    BY <5>1 DEF Txs
                <5>3. HolderPays(Fee + Created) = RentDue + FeeDue
                    BY <1>1, CostDue
                <5> QED BY <3>1, <5>2, <5>3
            <4>2. "Confirmed" \in Final /\ Leaves(HolderPays(Fee + Created) + txs[k].wrap, Become(k, "Confirmed"))
                BY <2>4 DEF Lands, Final
            <4> QED BY <1>6, <2>1, <4>1, <4>2
        <3>4. wallet.sol + txs[s].since >= txs[s].wrap + RentDue + FeeDue + args.reserve
            BY <1>2 DEF Backed
        <3>5. txs[s].since \in Int /\ txs[s].wrap \in Int
            BY <1>1 DEF Txs
        <3> QED BY ONLY <3>1, <3>2, <3>3, <3>4, <3>5
    <2> QED BY <2>1, <2>2, <2>3, <2>4, Zenon
<1> QED BY <1>7, <1>8, <1>9, <1>10, <1>11 DEF Moves, FundNext, Requests

-----------------------------------------------------------------------------
(* What a call promises, whatever the desk around it does. *)

LEMMA Stutters ==
    ASSUME [Moves]_<<txs, conf, node, wallet, fund, args>>
    PROVE  Moves
BY DEF Moves, Around

\* What confirm_signatures reports of a transaction is what became of it, for any number of signatures and any chunk,
\* whichever came first of answer and notification.
THEOREM ConfirmationStaysTrue == FundSpec => []ConfirmationIsTrue
<1>1. Ready => DeskInv
    BY ReadyInv
<1>2. DeskInv /\ [Moves]_<<txs, conf, node, wallet, fund, args>> => DeskInv'
    BY Stutters, DeskStep
<1>3. DeskInv => ConfirmationIsTrue
    BY DEF DeskInv, ConfirmInv, ConfInv
<1> QED BY <1>1, <1>2, <1>3, PTL DEF FundSpec

\* A deposit that wrapped SOL leaves the reserve, but for what others took from the wallet after the validation and for
\* the rent of an account closed before it, for any amounts, rents and fees, whoever pays them, any number of
\* transactions under way, and whatever is spent, closed, dropped or repeated between the reads, the send and the landing
\* (fund_position, NativeSolBudget).
THEOREM ReserveStaysKept == FundSpec => ReserveIsKept
<1>1. Ready => DeskInv
    BY ReadyInv
<1>2. DeskInv /\ [Moves]_<<txs, conf, node, wallet, fund, args>> => DeskInv'
    BY Stutters, DeskStep
<1>3. DeskInv /\ [Moves]_<<txs, conf, node, wallet, fund, args>> =>
        [\A s \in DOMAIN txs : txs[s].wrap > 0 /\ txs[s].status = "Processed" /\ txs'[s].status = "Confirmed"
            => wallet'.sol + txs[s].since >= args.reserve]_<<txs, wallet>>
    BY Stutters, ReserveStep
<1> QED BY <1>1, <1>2, <1>3, PTL DEF FundSpec, ReserveIsKept
=============================================================================
