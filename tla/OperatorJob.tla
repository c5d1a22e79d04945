---------------------------- MODULE OperatorJob ----------------------------
(***************************************************************************)
(* One job of a vault operator against a server that may be faulty: a sale *)
(* by RFQ (ws/vault/sell.rs), the signature of a served fill or buy, and a *)
(* rebalancing swap (ws/vault/client.rs, examples/vault_operator.rs).      *)
(*                                                                         *)
(* The session under the calls is the one CommandPath models.  Here it is  *)
(* its guarantee only: a fenced command reaches the server in its epoch or *)
(* not at all, a local refusal was never sent, and any other failure says  *)
(* nothing about where the command is.                                     *)
(*                                                                         *)
(* A job is [op, epoch, rfq, terms, market, strikes, quotes, passes, ...]: *)
(* its quotes by name, and the served transactions, by quote and name,     *)
(* that pass verification.  VaultSale works out which these are.           *)
(***************************************************************************)
EXTENDS Naturals, Sequences

CONSTANTS MaxEpoch,       \* connections of the session
          MaxPushes       \* messages the server pushes to the sale

VARIABLES job, pc, session, gate, inbox, pushes, call, server, rfq, taken, late, signed, result

vars == <<job, pc, session, gate, inbox, pushes, call, server, rfq, taken, late, signed, result>>

NoQuote == "None"
NoTx == <<NoQuote, "None">>
Idle == [kind |-> "None", fence |-> 0, at |-> "Idle", reply |-> "None"]
Running == [tag |-> "Running", reply |-> "None"]

Quote(name) == job.quotes[name]

Client == <<rfq, taken, late, signed, result>>
Environment == <<session, gate, pushes, server>>

-----------------------------------------------------------------------------
(* Calls. *)

\* Mutant of delivery: every transport failure is taken for "not sent".
DeliveryOptimistic(reply) ==
    CASE reply = "RejectedNone" -> "None"
      [] reply \in {"Gated", "NotReady", "QueueFull", "RejectedNotForwarded", "Timeout", "Disconnected"} -> "NotForwarded"
      [] OTHER -> "Unknown"

\* What a failed call says about where the command is.
delivery(reply) ==
    CASE reply = "RejectedNone" -> "None"
      [] reply \in {"Gated", "NotReady", "QueueFull", "RejectedNotForwarded"} -> "NotForwarded"
      [] OTHER -> "Unknown"

Finish(tag, reply) == pc' = "Done" /\ result' = [tag |-> tag, reply |-> reply]

\* try_send_await_in_epoch: a non-blocking fenced enqueue; the caller goes on at next.  The queue may be full, or closed
\* since the state was read.
try_send_in_epoch(kind, epoch, next, failure) ==
    \/ /\ ~session.ready \/ session.epoch # epoch
       /\ Finish(failure, "NotReady")
       /\ UNCHANGED call
    \/ /\ session.ready /\ session.epoch = epoch
       /\ \/ (\E reply \in {"QueueFull", "Disconnected"} : Finish(failure, reply)) /\ UNCHANGED call
          \/ /\ call' = [kind |-> kind, fence |-> epoch, at |-> "Queued", reply |-> "None"]
             /\ pc' = next
             /\ UNCHANGED result

\* gated_request: the gate, then the enqueue.
gated_request(kind, next, failure) ==
    \/ ~gate /\ Finish(failure, "Gated") /\ UNCHANGED call
    \/ gate /\ try_send_in_epoch(kind, job.epoch, next, failure)

\* request: ready when called, then queued without a fence.
request(kind, next, failure) ==
    IF session.ready
    THEN /\ call' = [kind |-> kind, fence |-> 0, at |-> "Queued", reply |-> "None"]
         /\ pc' = next
         /\ UNCHANGED result
    ELSE Finish(failure, "NotReady") /\ UNCHANGED call

\* Mutant of MayWrite: the writer does not look at the fence.
MayWriteAny(c) == TRUE

MayWrite(c) == c.fence \in {0, session.epoch}

\* The writer takes the queued command.
Write ==
    /\ call.at = "Queued" /\ session.ready
    /\ \/ /\ MayWrite(call)
          /\ \/ /\ call' = [call EXCEPT !.at = "Server"]
                /\ server' = [server EXCEPT !.log = Append(@, [kind |-> call.kind, epoch |-> session.epoch])]
             \/ call' = [call EXCEPT !.at = "Lost"] /\ UNCHANGED server
       \/ /\ ~MayWrite(call)
          /\ call' = [call EXCEPT !.at = "Refused", !.reply = IF @ = "None" THEN "NotReady" ELSE @]
          /\ UNCHANGED server
    /\ UNCHANGED <<job, pc, session, gate, inbox, pushes, Client>>

\* Answers by which the server says that it has not executed the command and will not.
Declines == {"RejectedNone", "RejectedNotForwarded"}

Answer ==
    /\ call.at = "Server" /\ call.reply = "None"
    /\ \E reply \in Declines \cup {"Accepted", "RejectedUnknown", "Unexpected"} :
         /\ reply \in Declines => ~server.executed
         /\ call' = [call EXCEPT !.reply = reply, !.at = IF reply \in Declines THEN "Discarded" ELSE @]
    /\ UNCHANGED <<job, pc, inbox, Environment, Client>>

\* The request timeout, whatever became of the command.
Expire ==
    /\ call.at # "Idle" /\ call.reply = "None"
    /\ call' = [call EXCEPT !.reply = "Timeout"]
    /\ UNCHANGED <<job, pc, inbox, Environment, Client>>

\* The keeper executes what it was given, as long as the server did not turn it down.
Execute ==
    /\ call.kind \in {"Submit", "SwapSubmit"} /\ call.at = "Server"
    /\ ~server.executed
    /\ server' = [server EXCEPT !.executed = TRUE]
    /\ UNCHANGED <<job, pc, session, gate, inbox, pushes, call, Client>>

Disconnect ==
    /\ session.ready /\ session.epoch < MaxEpoch
    /\ session' = [session EXCEPT !.ready = FALSE]
    /\ call' = IF call.at = "Server" /\ call.reply = "None"
               THEN [call EXCEPT !.reply = "Disconnected"] ELSE call
    /\ UNCHANGED <<job, pc, gate, inbox, pushes, server, Client>>

\* The session ends for good: what is queued or unanswered is dropped with it.
Terminate ==
    /\ ~session.ended
    /\ session' = [session EXCEPT !.ready = FALSE, !.ended = TRUE]
    /\ call' = IF call.at \in {"Queued", "Server"} /\ call.reply = "None"
               THEN [call EXCEPT !.reply = "Disconnected"] ELSE call
    /\ UNCHANGED <<job, pc, gate, inbox, pushes, server, Client>>

Reconnect ==
    /\ ~session.ready /\ ~session.ended
    /\ session' = [session EXCEPT !.ready = TRUE, !.epoch = @ + 1]
    /\ UNCHANGED <<job, pc, gate, inbox, pushes, call, server, Client>>

\* The bot stops trading.
CloseGate ==
    /\ gate
    /\ gate' = FALSE
    /\ UNCHANGED <<job, pc, session, inbox, pushes, call, server, Client>>

-----------------------------------------------------------------------------
(* Messages pushed to the job. *)

Push(message) ==
    /\ session.ready /\ pushes < MaxPushes /\ pc # "Done"
    /\ inbox' = Append(inbox, message)
    /\ pushes' = pushes + 1
    /\ UNCHANGED <<job, pc, session, gate, call, server, Client>>

Sent(kind) == \E i \in DOMAIN server.log : server.log[i].kind = kind

PushCreated == job.op = "Sale" /\ rfq = <<>> /\ Sent("Rfq") /\ Push([kind |-> "Created", epoch |-> session.epoch])

PushQuote ==
    job.op = "Sale" /\ \E q \in DOMAIN job.quotes : Sent("Rfq") /\ Push([kind |-> "Quote", quote |-> q, epoch |-> session.epoch])

\* Which transaction it is, and whether its deadline has passed, shows when it is looked at (Sign).
PushServed ==
    /\ job.op = "Sale" => Sent("Accept")
    /\ job.op \in {"Fill", "Buy"} => inbox = <<>>
    /\ job.op # "Swap"
    /\ \E q \in DOMAIN job.quotes : Push([kind |-> "Served", quote |-> q, epoch |-> session.epoch])

\* The inbound ring overwrote a message the job had not read.
PushGap == job.op = "Sale" /\ Push([kind |-> "Gap", epoch |-> session.epoch])

-----------------------------------------------------------------------------
(* sell_rfq. *)

Start ==
    /\ pc = "Start" /\ job.op = "Sale"
    /\ \/ ~job.market /\ Finish("Market", "None") /\ UNCHANGED call
       \/ job.market /\ ~job.strikes /\ Finish("Spread", "None") /\ UNCHANGED call
       \/ job.market /\ job.strikes /\ gated_request("Rfq", "Requesting", "Rejected")
    /\ UNCHANGED <<job, inbox, rfq, taken, late, signed, Environment>>

\* A call returned: on with the job, or out with the error.
Returned(kind, at, next, failure) ==
    /\ pc = at /\ call.kind = kind /\ call.reply # "None"
    /\ IF call.reply = "Accepted"
       THEN pc' = next /\ call' = Idle /\ UNCHANGED result
       ELSE Finish(failure, call.reply) /\ UNCHANGED call

Requested ==
    /\ Returned("Rfq", "Requesting", "Collect", "Rejected")
    /\ UNCHANGED <<job, inbox, rfq, taken, late, signed, Environment>>

\* Mutant of TimedOut: the wait for the served transaction has no deadline.
TimedOutUntaken ==
    /\ pc = "Collect" /\ job.op = "Sale" /\ late /\ inbox = <<>> /\ taken = NoQuote
    /\ Finish("Unfilled", "None")
    /\ UNCHANGED <<job, inbox, call, rfq, taken, late, signed, Environment>>

\* The deadline wins only when no message is waiting.
TimedOut ==
    /\ pc = "Collect" /\ job.op = "Sale" /\ late /\ inbox = <<>>
    /\ Finish(IF taken = NoQuote THEN "Unfilled" ELSE "Unserved", "None")
    /\ UNCHANGED <<job, inbox, call, rfq, taken, late, signed, Environment>>

\* One message of the loop.
Offered(m) == Quote(m.quote).rfq = rfq /\ Quote(m.quote).terms = job.terms /\ Quote(m.quote).side = "Sell"

Receive ==
    /\ pc = "Collect" /\ job.op = "Sale" /\ inbox # <<>>
    /\ LET m == Head(inbox) IN
       \/ m.kind = "Gap" /\ Finish("Stream", "None") /\ UNCHANGED <<rfq, taken>>
       \/ m.kind # "Gap" /\ m.epoch # job.epoch /\ Finish("SessionChanged", "None") /\ UNCHANGED <<rfq, taken>>
       \/ /\ m.kind # "Gap" /\ m.epoch = job.epoch
          /\ UNCHANGED result
          /\ \/ m.kind = "Created" /\ rfq' = job.rfq /\ UNCHANGED <<pc, taken>>
             \/ /\ m.kind = "Quote" /\ taken = NoQuote /\ Offered(m)
                /\ pc' = "Taking" /\ taken' = m.quote /\ UNCHANGED rfq
             \/ /\ m.kind = "Quote" /\ (taken # NoQuote \/ ~Offered(m)) /\ UNCHANGED <<pc, rfq, taken>>
             \/ /\ m.kind = "Served"
                /\ pc' = IF taken # NoQuote /\ Quote(taken).order = Quote(m.quote).order THEN "Signing" ELSE pc
                /\ UNCHANGED <<rfq, taken>>
    /\ inbox' = IF pc' = "Signing" THEN inbox ELSE Tail(inbox)
    /\ UNCHANGED <<job, call, late, signed, Environment>>

\* desk.take, then desk.accepting and AcceptQuote.
Take ==
    /\ pc = "Taking"
    /\ \/ late /\ Finish("TimedOut", "None") /\ UNCHANGED <<call, taken, late>>
       \/ Finish("Desk", "None") /\ UNCHANGED <<call, taken, late>>
       \/ pc' = "Collect" /\ taken' = NoQuote /\ UNCHANGED <<call, late, result>>
       \/ gated_request("Accept", "Accepting", "Rejected") /\ UNCHANGED <<taken, late>>
    /\ UNCHANGED <<job, inbox, rfq, signed, Environment>>

Accepted ==
    /\ Returned("Accept", "Accepting", "Collect", "Rejected")
    /\ late' = FALSE
    /\ UNCHANGED <<job, inbox, rfq, taken, signed, Environment>>

\* sign_sale: the desk's writer, the chain reads, verification, the deadline and the signature.
Sign ==
    /\ pc = "Signing" /\ job.op # "Swap"
    /\ LET quote == IF job.op = "Sale" THEN taken ELSE Head(inbox).quote IN
       \/ job.op = "Sale" /\ late /\ Finish("TimedOut", "None") /\ UNCHANGED signed
       \/ job.op = "Sale" /\ Finish("Desk", "None") /\ UNCHANGED signed
       \/ Finish("Chain", "None") /\ UNCHANGED signed
       \/ Finish("Sign", "None") /\ UNCHANGED signed     \* not what was agreed, or past its deadline
       \/ \E v \in job.passes :
             /\ v[1] = quote
             /\ pc' = "Signed" /\ signed' = v /\ UNCHANGED result
    /\ inbox' = Tail(inbox)
    /\ UNCHANGED <<job, call, rfq, taken, late, Environment>>

\* submit_sale; a fill or a buy is submitted without a fence.
Submit ==
    /\ pc = "Signed" /\ job.op # "Swap"
    /\ \/ job.op = "Sale" /\ Finish("Desk", "None") /\ UNCHANGED call
       \/ job.op = "Sale" /\ gated_request("Submit", "Submitting", "Submit")
       \/ job.op # "Sale" /\ request("Submit", "Submitting", "Submit")
    /\ UNCHANGED <<job, inbox, rfq, taken, late, signed, Environment>>

Submitted ==
    /\ pc = "Submitting" /\ call.kind \in {"Submit", "SwapSubmit"} /\ call.reply # "None"
    /\ Finish(IF call.reply = "Accepted" THEN "Submitted" ELSE "Submit", call.reply)
    /\ UNCHANGED <<job, inbox, call, rfq, taken, late, signed, Environment>>

Deadline ==
    /\ job.op = "Sale" /\ pc \in {"Collect", "Taking", "Signing"} /\ ~late
    /\ late' = TRUE
    /\ UNCHANGED <<job, pc, inbox, call, rfq, taken, signed, result, Environment>>

-----------------------------------------------------------------------------
(* Fills and buys: the next served transaction is verified, signed and submitted. *)

ReceiveServed ==
    /\ pc = "Start" /\ job.op \in {"Fill", "Buy"} /\ inbox # <<>>
    /\ pc' = "Signing"
    /\ UNCHANGED <<job, inbox, call, Client, Environment>>

-----------------------------------------------------------------------------
(* rebalance: quote, verify and sign, wait until ready, submit in that epoch. *)

RequestSwap ==
    /\ pc = "Start" /\ job.op = "Swap"
    /\ request("SwapQuote", "Quoting", "Rejected")
    /\ UNCHANGED <<job, inbox, rfq, taken, late, signed, Environment>>

SwapQuoted ==
    /\ Returned("SwapQuote", "Quoting", "Signing", "Rejected")
    /\ \E q \in DOMAIN job.quotes : taken' = IF pc' = "Signing" THEN q ELSE taken
    /\ UNCHANGED <<job, inbox, rfq, late, signed, Environment>>

SignSwap ==
    /\ pc = "Signing" /\ job.op = "Swap"
    /\ \/ Finish("Sign", "None") /\ UNCHANGED signed
       \/ \E v \in job.passes :
             /\ v[1] = taken
             /\ signed' = v /\ pc' = "Signed" /\ UNCHANGED result
    /\ UNCHANGED <<job, inbox, call, rfq, taken, late, Environment>>

\* wait_until_ready yields the epoch the submission is fenced to, or that the session has ended.
AwaitReady ==
    /\ pc = "Signed" /\ job.op = "Swap"
    /\ \/ session.ready /\ pc' = "Fenced" /\ call' = [Idle EXCEPT !.fence = session.epoch] /\ UNCHANGED result
       \/ session.ended /\ Finish("Closed", "None") /\ UNCHANGED call
    /\ UNCHANGED <<job, inbox, rfq, taken, late, signed, Environment>>

\* swap_submit_in_epoch, which the example leaves ungated: the session may have moved on since.
SubmitSwap ==
    /\ pc = "Fenced"
    /\ try_send_in_epoch("SwapSubmit", call.fence, "Submitting", "Submit")
    /\ UNCHANGED <<job, inbox, rfq, taken, late, signed, Environment>>

-----------------------------------------------------------------------------

\* The job starts in an epoch of the session, with no quote and nothing sent.
Started ==
    /\ job.epoch \in Nat \ {0} /\ NoQuote \notin DOMAIN job.quotes
    /\ pc = "Start"
    /\ session = [ready |-> TRUE, epoch |-> 1, ended |-> FALSE]
    /\ gate = TRUE
    /\ inbox = <<>> /\ pushes = 0
    /\ call = Idle
    /\ server = [log |-> <<>>, executed |-> FALSE]
    /\ rfq = <<>> /\ taken = NoQuote /\ late = FALSE
    /\ signed = NoTx
    /\ result = Running

Operate ==
    \/ Start \/ Requested \/ TimedOut \/ Receive \/ Take \/ Accepted \/ Sign \/ Submit \/ Submitted
    \/ ReceiveServed \/ RequestSwap \/ SwapQuoted \/ SignSwap \/ AwaitReady \/ SubmitSwap

Serve == PushCreated \/ PushQuote \/ PushServed \/ PushGap

Next ==
    \/ Operate \/ Deadline \/ Serve
    \/ Write \/ Answer \/ Expire \/ Execute
    \/ Disconnect \/ Terminate \/ Reconnect \/ CloseGate

-----------------------------------------------------------------------------
(* Properties. *)

\* The signed transaction a failure may have left with the keeper.
in_flight(r) == r.tag = "Submit" /\ delivery(r.reply) # "NotForwarded"

\* "None: nothing signed reached the server, so the sale cannot execute" (sell.rs, in_flight): when the
\* job has failed and names no sale in flight, the keeper never executes one, then or later.
InFlightIsComplete ==
    pc = "Done" /\ result.tag # "Submitted" /\ ~in_flight(result) => ~server.executed

\* A sale's RFQ, accept and submission reach the server in the epoch it was started in, in that order
\* and each at most once, whatever the session does under it.
SaleStaysInEpoch ==
    job.op = "Sale" =>
        /\ \A i \in DOMAIN server.log : server.log[i].epoch = job.epoch
        /\ \E n \in 0..3 : [i \in DOMAIN server.log |-> server.log[i].kind] = SubSeq(<<"Rfq", "Accept", "Submit">>, 1, n)

\* Whatever the operator signed as a party to an open does what was agreed, whichever transaction and quote it was
\* served: it is one of job.agreed (sign_sale, sign_fill, verify_and_sign_sponsored_tx).
SignedIsAgreed == job.op # "Swap" /\ signed # NoTx => signed \in job.agreed

\* Whatever swap the operator signed does what was agreed (rebalance, verify_and_sign_swap).
SwapIsAgreed == job.op = "Swap" /\ signed # NoTx => signed \in job.agreed

\* A sale or a swap ends: its timers bound every wait once the server stops pushing messages.
JobEnds == job.op \in {"Sale", "Swap"} => <>(pc = "Done")
=============================================================================
