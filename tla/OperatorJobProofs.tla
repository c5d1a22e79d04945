-------------------------- MODULE OperatorJobProofs --------------------------
(***************************************************************************)
(* What an operator may conclude from how a job ended, where a sale's      *)
(* commands reach the server, and what the open it signs does, for every   *)
(* job and message, any number of connections and of messages pushed.      *)
(***************************************************************************)
EXTENDS OperatorJob, SaleTerms, SequenceTheorems, TLAPS

\* Unless a leaf names its prover: Zenon for what it finds at once, SMT, and Zenon again.
USE ZenonT(2), SMTT(20), ZenonT(20)

Submits == {"Submit", "SwapSubmit"}

\* Where the job is between two calls.
BetweenCalls == {"Start", "Collect", "Taking", "Signing", "Signed"}

Kinds == {"None", "Rfq", "Accept", "Submit", "SwapQuote", "SwapSubmit"}
Places == {"Idle", "Queued", "Server", "Lost", "Refused", "Discarded"}
Replies == {"None", "Accepted", "RejectedUnknown", "Unexpected", "Timeout", "Disconnected", "NotReady"} \cup Declines

Calls == [kind : Kinds, fence : Nat \cup {job.epoch}, at : Places, reply : Replies]

Records ==
    /\ call \in Calls
    /\ session \in [ready : BOOLEAN, epoch : Nat, ended : BOOLEAN]
    /\ server \in [log : Seq([kind : Kinds, epoch : Nat]), executed : BOOLEAN]

\* What a reply says of where the command is: a refusal by the writer never left, and what the server declined it has
\* discarded.
RepliesAreTrue ==
    /\ call.reply = "NotReady" => call.at = "Refused"
    /\ call.reply = "RejectedNotForwarded" => call.at = "Discarded"

\* A submission is the last call of a job, is executed only where the server holds it, and a job that ended on it
\* reports its reply.
FlightInv ==
    /\ RepliesAreTrue
    /\ pc \in BetweenCalls => call = Idle
    /\ pc = "Fenced" => call.kind = "None" /\ call.at = "Idle" /\ call.reply = "None"
    /\ call.kind \in Submits => pc \in {"Submitting", "Done"}
    /\ pc = "Done" /\ call.kind \in Submits => result.tag \in {"Submit", "Submitted"} /\ result.reply = call.reply
    /\ pc = "Done" /\ call.kind \in Submits => call.reply # "None"
    /\ server.executed => call.kind \in Submits /\ call.at = "Server"

-----------------------------------------------------------------------------
(* Types. *)

\* A call that is made is a call.
LEMMA NewCall ==
    ASSUME NEW kind \in Kinds, NEW fence \in Nat \cup {job.epoch}
    PROVE  [kind |-> kind, fence |-> fence, at |-> "Queued", reply |-> "None"] \in Calls
BY DEF Calls, Places, Replies

\* The operator's steps make calls and leave the session and the server alone.
LEMMA OperateRecords == Records /\ Operate => Records'
<1> SUFFICES ASSUME Records, Operate
             PROVE  Records'
  OBVIOUS
<1>1. UNCHANGED <<job, session, server>>
  BY DEF Operate, Start, Requested, TimedOut, Receive, Take, Accepted, Sign, Submit, Submitted, ReceiveServed,
         RequestSwap, SwapQuoted, SignSwap, AwaitReady, SubmitSwap, Environment
<1>2. call' \in Calls
  <2> DEFINE New(kind) == \E fence \in Nat \cup {job.epoch} :
                            call' = [kind |-> kind, fence |-> fence, at |-> "Queued", reply |-> "None"]
  <2>1. \/ call' = call \/ call' = Idle \/ call' = [Idle EXCEPT !.fence = session.epoch]
        \/ New("Rfq") \/ New("Accept") \/ New("Submit") \/ New("SwapQuote") \/ New("SwapSubmit")
    <3>1. CASE Start \/ Take \/ Submit \/ RequestSwap
      BY <3>1 DEF Start, Take, Submit, RequestSwap, gated_request, try_send_in_epoch, request
    <3>2. CASE AwaitReady \/ SubmitSwap
      <4>1. call.fence \in Nat \cup {job.epoch}
        BY DEF Records, Calls
      <4> QED
        BY <3>2, <4>1 DEF AwaitReady, SubmitSwap, try_send_in_epoch
    <3>3. CASE Requested \/ Accepted \/ SwapQuoted
      BY <3>3 DEF Requested, Accepted, SwapQuoted, Returned
    <3>4. CASE TimedOut \/ Receive \/ Sign \/ Submitted \/ ReceiveServed \/ SignSwap
      BY <3>4 DEF TimedOut, Receive, Sign, Submitted, ReceiveServed, SignSwap
    <3> QED
      BY <3>1, <3>2, <3>3, <3>4 DEF Operate
  <2>2. Idle \in Calls /\ [Idle EXCEPT !.fence = session.epoch] \in Calls
    BY DEF Idle, Calls, Kinds, Places, Replies, Records
  <2>3. ASSUME NEW kind \in Kinds, New(kind)
        PROVE  call' \in Calls
    BY <2>3, NewCall
  <2> HIDE DEF New
  <2> QED
    BY <2>1, <2>2, <2>3 DEF Records, Kinds
<1> QED
  BY <1>1, <1>2 DEF Records, Calls

\* So do the session's and the server's.
LEMMA RecordsStep == Records /\ [Next]_vars => Records'
<1> SUFFICES ASSUME Records, [Next]_vars
             PROVE  Records'
  OBVIOUS
<1>1. CASE Operate
  BY <1>1, OperateRecords
<1>2. CASE Write
  <2>1. server' \in [log : Seq([kind : Kinds, epoch : Nat]), executed : BOOLEAN]
    <3>1. [kind |-> call.kind, epoch |-> session.epoch] \in [kind : Kinds, epoch : Nat]
      BY DEF Records, Calls
    <3>2. Append(server.log, [kind |-> call.kind, epoch |-> session.epoch]) \in Seq([kind : Kinds, epoch : Nat])
      BY <3>1 DEF Records
    <3> QED
      BY <1>2, <3>1, <3>2 DEF Write, Records
  <2>2. call' \in Calls
    BY <1>2 DEF Write, Records, Calls, Places, Replies
  <2> QED
    BY <1>2, <2>1, <2>2 DEF Write, Records, Calls
<1>3. CASE Answer
  BY <1>3 DEF Answer, Records, Calls, Places, Replies, Environment
<1>4. CASE Expire
  BY <1>4 DEF Expire, Records, Calls, Replies, Environment
<1>5. CASE Execute
  BY <1>5 DEF Execute, Records, Calls
<1>6. CASE Disconnect
  BY <1>6 DEF Disconnect, Records, Calls, Replies
<1>7. CASE Terminate \/ Reconnect
  <2>1. CASE Terminate
    <3>1. call' \in Calls /\ job' = job
      BY <2>1 DEF Terminate, Records, Calls, Replies
    <3>2. session' \in [ready : BOOLEAN, epoch : Nat, ended : BOOLEAN] /\ server' = server
      BY <2>1 DEF Terminate, Records
    <3> QED
      BY <3>1, <3>2 DEF Records, Calls
  <2>2. CASE Reconnect
    <3>1. session' \in [ready : BOOLEAN, epoch : Nat, ended : BOOLEAN] /\ UNCHANGED <<job, call, server>>
      <4>1. session.epoch + 1 \in Nat
        BY DEF Records
      <4>2. ASSUME NEW e \in Nat, session' = [session EXCEPT !.ready = TRUE, !.epoch = e]
            PROVE  session' \in [ready : BOOLEAN, epoch : Nat, ended : BOOLEAN]
        BY <4>2 DEF Records
      <4> QED
        BY <2>2, <4>1, <4>2 DEF Reconnect
    <3> QED
      BY <3>1 DEF Records, Calls
  <2> QED
    BY <1>7, <2>1, <2>2
<1>8. CASE Deadline \/ Serve \/ CloseGate \/ UNCHANGED vars
  <2>1. UNCHANGED <<job, session, call, server>>
    BY <1>8 DEF Deadline, Serve, PushCreated, PushQuote, PushServed, PushGap, Push, CloseGate, vars, Environment
  <2> QED
    BY <2>1 DEF Records, Calls
<1> QED
  BY <1>1, <1>2, <1>3, <1>4, <1>5, <1>6, <1>7, <1>8 DEF Next

LEMMA RecordsInit == Started => Records
BY DEF Started, Records, Calls, Idle, Kinds, Places, Replies

-----------------------------------------------------------------------------
(* Submissions. *)

\* What was not forwarded is told apart by its reply alone (DeliveryState of client.rs).
LEMMA NotForwarded ==
    ASSUME NEW reply, delivery(reply) = "NotForwarded"
    PROVE  reply \in {"Gated", "NotReady", "QueueFull", "RejectedNotForwarded"}
<1>1. CASE reply = "RejectedNone"
  <2>1. delivery(reply) = "None"
    BY <1>1, Zenon DEF delivery
  <2> QED
    BY <2>1
<1>2. CASE reply # "RejectedNone" /\ reply \notin {"Gated", "NotReady", "QueueFull", "RejectedNotForwarded"}
  <2>1. delivery(reply) = "Unknown"
    BY <1>2, Zenon DEF delivery
  <2> QED
    BY <2>1
<1> QED
  BY <1>1, <1>2

\* A job that names no sale in flight has not left one with the keeper.
LEMMA FlightIsComplete == Records /\ FlightInv => InFlightIsComplete
<1> SUFFICES ASSUME Records, FlightInv, pc = "Done", result.tag # "Submitted", ~in_flight(result), server.executed
             PROVE  FALSE
  BY DEF InFlightIsComplete
<1>1. call.kind \in Submits /\ call.at = "Server"
  BY DEF FlightInv
<1>2. result.tag = "Submit" /\ result.reply = call.reply
  BY <1>1 DEF FlightInv
<1>3. delivery(call.reply) = "NotForwarded"
  BY <1>2 DEF in_flight
<1>4. call.reply \in {"Gated", "NotReady", "QueueFull", "RejectedNotForwarded"}
  BY <1>3, NotForwarded
<1> QED
  BY <1>1, <1>4 DEF FlightInv, RepliesAreTrue, Records, Calls, Replies, Declines

\* Nothing is out when the job starts.
LEMMA FlightInit == Started => FlightInv
BY DEF Started, FlightInv, RepliesAreTrue, Idle, Submits, BetweenCalls

\* A call is made from between calls; a job that ends instead has none out.
LEMMA FlightFenced ==
    ASSUME Records, FlightInv, NEW kind, NEW epoch, NEW next, NEW failure, pc \in BetweenCalls \cup {"Fenced"},
           UNCHANGED server, try_send_in_epoch(kind, epoch, next, failure), next \notin BetweenCalls \cup {"Fenced", "Done"},
           kind \in Submits => next = "Submitting"
    PROVE  FlightInv'
<1>1. call.kind = "None" /\ call.reply = "None" /\ ~server.executed
  BY DEF FlightInv, Idle, Submits
<1>2. CASE pc' = "Done" /\ call' = call
  BY <1>1, <1>2 DEF FlightInv, RepliesAreTrue, Submits, BetweenCalls
<1>3. CASE pc' = next /\ call' = [kind |-> kind, fence |-> epoch, at |-> "Queued", reply |-> "None"]
  BY <1>1, <1>3 DEF FlightInv, RepliesAreTrue, Submits, BetweenCalls
<1> QED
  BY <1>2, <1>3 DEF try_send_in_epoch, Finish

LEMMA FlightGated ==
    ASSUME Records, FlightInv, NEW kind, NEW next, NEW failure, pc \in BetweenCalls, UNCHANGED server,
           gated_request(kind, next, failure), next \notin BetweenCalls \cup {"Fenced", "Done"},
           kind \in Submits => next = "Submitting"
    PROVE  FlightInv'
<1>1. CASE try_send_in_epoch(kind, job.epoch, next, failure)
  BY <1>1, FlightFenced
<1>2. CASE pc' = "Done" /\ call' = call
  BY <1>2 DEF FlightInv, RepliesAreTrue, Idle, Submits, BetweenCalls
<1> QED
  BY <1>1, <1>2 DEF gated_request, Finish

\* The same for a call without a fence.
LEMMA FlightRequest ==
    ASSUME Records, FlightInv, NEW kind, NEW next, NEW failure, pc \in BetweenCalls, UNCHANGED server,
           request(kind, next, failure), next \notin BetweenCalls \cup {"Fenced", "Done"},
           kind \in Submits => next = "Submitting"
    PROVE  FlightInv'
BY DEF FlightInv, RepliesAreTrue, Idle, Submits, BetweenCalls, request, Finish

\* A job that goes on between calls, or ends there, makes none.
LEMMA FlightLocal ==
    ASSUME Records, FlightInv, pc \in BetweenCalls, pc' \in BetweenCalls \cup {"Done"}, UNCHANGED <<call, server>>
    PROVE  FlightInv'
BY DEF FlightInv, RepliesAreTrue, Idle, Submits, BetweenCalls

\* A call that is no submission returns.
LEMMA FlightReturned ==
    ASSUME Records, FlightInv, NEW kind, NEW at, NEW next, NEW failure, Returned(kind, at, next, failure), UNCHANGED server,
           at \notin BetweenCalls \cup {"Submitting", "Done"}, next \in BetweenCalls
    PROVE  FlightInv'
<1>1. call.kind \notin Submits /\ ~server.executed
  BY DEF FlightInv, Returned, BetweenCalls
<1>2. CASE call.reply = "Accepted"
  <2>1. call' = Idle /\ pc' = next /\ server' = server
    BY <1>2 DEF Returned
  <2> QED
    BY <1>1, <2>1 DEF FlightInv, RepliesAreTrue, Idle, Submits, BetweenCalls
<1>3. CASE call.reply # "Accepted"
  <2>1. call' = call /\ pc' = "Done" /\ server' = server
    BY <1>3 DEF Returned, Finish
  <2> QED
    BY <1>1, <2>1 DEF FlightInv, RepliesAreTrue, BetweenCalls
<1> QED
  BY <1>2, <1>3

\* A call moves on: a reply once given stays, and what was executed stays with the server.
LEMMA FlightMoves ==
    ASSUME FlightInv, UNCHANGED <<pc, result>>, call.at # "Idle",
           call'.kind = call.kind, server'.executed = server.executed,
           call.reply # "None" => call'.reply = call.reply,
           server.executed => call'.at = "Server",
           RepliesAreTrue'
    PROVE  FlightInv'
<1>1. pc \notin BetweenCalls \cup {"Fenced"}
  BY DEF FlightInv, Idle
<1> QED
  BY <1>1 DEF FlightInv

\* The session and the server, with the call as it is.
LEMMA FlightOutside ==
    ASSUME Records, FlightInv, UNCHANGED <<pc, result>>, Write \/ Answer \/ Expire \/ Execute \/ Disconnect \/ Terminate
    PROVE  FlightInv'
<1>0. RepliesAreTrue /\ call \in Calls
      /\ server \in [log : Seq([kind : Kinds, epoch : Nat]), executed : BOOLEAN]
  BY DEF FlightInv, Records
<1>1. CASE Write
  <2>1. call.at = "Queued" /\ ~server.executed
    BY <1>1 DEF FlightInv, Write
  <2>2. server'.executed = server.executed
    BY <1>0, <1>1 DEF Write
  <2>3. /\ call'.kind = call.kind
        /\ call.reply # "None" => call'.reply = call.reply
        /\ call'.reply \in {call.reply, "NotReady"} /\ (call'.reply # call.reply => call'.at = "Refused")
    BY <1>0, <1>1 DEF Write, Calls
  <2>4. RepliesAreTrue'
    BY <1>0, <2>1, <2>3 DEF RepliesAreTrue
  <2> QED
    BY <2>1, <2>2, <2>3, <2>4, FlightMoves
<1>2. CASE Answer
  <2>1. PICK reply \in Declines \cup {"Accepted", "RejectedUnknown", "Unexpected"} :
          /\ reply \in Declines => ~server.executed
          /\ call' = [call EXCEPT !.reply = reply, !.at = IF reply \in Declines THEN "Discarded" ELSE @]
    BY <1>2 DEF Answer
  <2>2. call'.kind = call.kind /\ call'.reply = reply /\ call'.at = IF reply \in Declines THEN "Discarded" ELSE call.at
    BY <1>0, <2>1 DEF Calls
  <2>3. server' = server /\ call.at = "Server" /\ call.reply = "None"
    BY <1>2 DEF Answer, Environment
  <2>4. RepliesAreTrue'
    BY <2>2 DEF RepliesAreTrue, Declines
  <2> QED
    BY <2>1, <2>2, <2>3, <2>4, FlightMoves
<1>3. CASE Expire
  <2>1. /\ call.at # "Idle" /\ call.reply = "None" /\ server' = server
        /\ call'.kind = call.kind /\ call'.at = call.at /\ call'.reply = "Timeout"
    BY <1>0, <1>3 DEF Calls, Expire, Environment
  <2>2. server.executed => call.at = "Server"
    BY DEF FlightInv
  <2>3. RepliesAreTrue'
    BY <2>1 DEF RepliesAreTrue
  <2> QED
    BY <2>1, <2>2, <2>3, FlightMoves
<1>4. CASE Execute
  <2>1. UNCHANGED call /\ call.kind \in Submits /\ call.at = "Server"
    BY <1>4 DEF Execute, Submits
  <2> QED
    BY <2>1 DEF FlightInv, RepliesAreTrue
<1>5. CASE Disconnect \/ Terminate
  <2>1. CASE call' = [call EXCEPT !.reply = "Disconnected"] /\ call.at # "Idle" /\ call.reply = "None"
    <3>1. /\ call'.kind = call.kind /\ call'.at = call.at /\ call'.reply = "Disconnected"
          /\ server' = server
      BY <1>0, <1>5, <2>1 DEF Calls, Disconnect, Terminate
    <3>2. server.executed => call.at = "Server"
      BY DEF FlightInv
    <3>3. RepliesAreTrue'
      BY <3>1 DEF RepliesAreTrue
    <3> QED
      BY <2>1, <3>1, <3>2, <3>3, FlightMoves
  <2>2. CASE UNCHANGED <<call, server>>
    BY <2>2 DEF FlightInv, RepliesAreTrue
  <2> QED
    BY <1>5, <2>1, <2>2 DEF Disconnect, Terminate
<1> QED
  BY <1>1, <1>2, <1>3, <1>4, <1>5

\* Every step keeps the invariant.
LEMMA FlightStep == Records /\ FlightInv /\ [Next]_vars => FlightInv'
<1> SUFFICES ASSUME Records, FlightInv, [Next]_vars
             PROVE  FlightInv'
  OBVIOUS
<1>1. CASE Start
  <2>1. pc \in BetweenCalls /\ UNCHANGED server
    BY <1>1 DEF Start, BetweenCalls, Environment
  <2>2. CASE gated_request("Rfq", "Requesting", "Rejected")
    BY <2>1, <2>2, FlightGated DEF BetweenCalls, Submits
  <2>3. CASE UNCHANGED call /\ pc' = "Done"
    BY <2>1, <2>3, FlightLocal
  <2> QED
    BY <1>1, <2>2, <2>3 DEF Start, Finish
<1>2. CASE Requested
  BY <1>2, FlightReturned DEF Requested, BetweenCalls, Environment
<1>3. CASE TimedOut
  BY <1>3, FlightLocal DEF TimedOut, BetweenCalls, Environment, Finish
<1>4. CASE Receive
  BY <1>4, FlightLocal DEF Receive, BetweenCalls, Environment, Finish
<1>5. CASE Take
  <2>1. pc \in BetweenCalls /\ UNCHANGED server
    BY <1>5 DEF Take, BetweenCalls, Environment
  <2>2. CASE gated_request("Accept", "Accepting", "Rejected")
    BY <2>1, <2>2, FlightGated DEF BetweenCalls, Submits
  <2>3. CASE UNCHANGED call /\ pc' \in {"Done", "Collect"}
    BY <2>1, <2>3, FlightLocal DEF BetweenCalls
  <2> QED
    BY <1>5, <2>2, <2>3 DEF Take, Finish
<1>6. CASE Accepted
  BY <1>6, FlightReturned DEF Accepted, BetweenCalls, Environment
<1>7. CASE Sign
  BY <1>7, FlightLocal DEF Sign, BetweenCalls, Environment, Finish
<1>8. CASE Submit
  <2>1. pc \in BetweenCalls /\ UNCHANGED server
    BY <1>8 DEF Submit, BetweenCalls, Environment
  <2>2. CASE gated_request("Submit", "Submitting", "Submit")
    BY <2>1, <2>2, FlightGated DEF BetweenCalls, Submits
  <2>3. CASE request("Submit", "Submitting", "Submit")
    BY <2>1, <2>3, FlightRequest DEF BetweenCalls, Submits
  <2>4. CASE UNCHANGED call /\ pc' = "Done"
    BY <2>1, <2>4, FlightLocal
  <2> QED
    BY <1>8, <2>2, <2>3, <2>4 DEF Submit, Finish
<1>9. CASE Submitted
  BY <1>9 DEF FlightInv, RepliesAreTrue, Submits, BetweenCalls, Submitted, Finish, Environment
<1>10. CASE ReceiveServed
  BY <1>10, FlightLocal DEF ReceiveServed, BetweenCalls, Environment
<1>11. CASE RequestSwap
  <2>1. pc \in BetweenCalls /\ UNCHANGED server /\ request("SwapQuote", "Quoting", "Rejected")
    BY <1>11 DEF RequestSwap, BetweenCalls, Environment
  <2> QED
    BY <2>1, FlightRequest DEF BetweenCalls, Submits
<1>12. CASE SwapQuoted
  BY <1>12, FlightReturned DEF SwapQuoted, BetweenCalls, Environment
<1>13. CASE SignSwap
  BY <1>13, FlightLocal DEF SignSwap, BetweenCalls, Environment, Finish
<1>14. CASE AwaitReady \/ SubmitSwap
  <2>1. UNCHANGED server
    BY <1>14 DEF AwaitReady, SubmitSwap, Environment
  <2>2. CASE AwaitReady
    <3>1. pc \in BetweenCalls /\ call = Idle /\ ~server.executed
      BY <2>2 DEF AwaitReady, FlightInv, BetweenCalls, Idle, Submits
    <3>2. CASE pc' = "Done" /\ UNCHANGED call
      BY <2>1, <3>1, <3>2, FlightLocal
    <3>3. CASE pc' = "Fenced" /\ call' = [Idle EXCEPT !.fence = session.epoch]
      <4>1. call'.kind = "None" /\ call'.at = "Idle" /\ call'.reply = "None"
        BY <3>3 DEF Idle
      <4> QED
        BY <2>1, <3>1, <3>3, <4>1 DEF FlightInv, RepliesAreTrue, Submits, BetweenCalls
    <3> QED
      BY <2>2, <3>2, <3>3 DEF AwaitReady, Finish
  <2>3. CASE SubmitSwap
    BY <2>1, <2>3, FlightFenced DEF SubmitSwap, BetweenCalls, Submits
  <2> QED
    BY <1>14, <2>2, <2>3
<1>15. CASE Write \/ Answer \/ Expire \/ Execute \/ Disconnect \/ Terminate
  <2>1. UNCHANGED <<pc, result>>
    BY <1>15 DEF Write, Answer, Expire, Execute, Disconnect, Terminate, Client
  <2> QED
    BY <1>15, <2>1, FlightOutside
<1>16. CASE UNCHANGED <<pc, call, server, result>>
  BY <1>16 DEF FlightInv, RepliesAreTrue, Submits, BetweenCalls
<1>17. CASE Deadline \/ Serve \/ Reconnect \/ CloseGate \/ UNCHANGED vars
  <2>1. UNCHANGED <<pc, call, server, result>>
    BY <1>17 DEF Deadline, Serve, PushCreated, PushQuote, PushServed, PushGap, Push, Reconnect, CloseGate, vars,
                 Environment, Client
  <2> QED
    BY <2>1, <1>16
<1> QED
  BY <1>1, <1>2, <1>3, <1>4, <1>5, <1>6, <1>7, <1>8, <1>9, <1>10, <1>11, <1>12, <1>13, <1>14, <1>15, <1>17
     DEF Next, Operate

\* "None: nothing signed reached the server, so the sale cannot execute" (sell.rs, in_flight): for every job and however
\* often the session is lost and comes back, a job that failed without a sale in flight is never executed.
THEOREM NothingInFlightIsMissed == Started /\ [][Next]_vars => []InFlightIsComplete
<1>1. Started => Records /\ FlightInv
  BY RecordsInit, FlightInit
<1>2. Records /\ FlightInv /\ [Next]_vars => (Records /\ FlightInv)'
  BY RecordsStep, FlightStep
<1>3. Records /\ FlightInv => InFlightIsComplete
  BY FlightIsComplete
<1> QED
  BY <1>1, <1>2, <1>3, PTL

-----------------------------------------------------------------------------
(* Sales. *)

\* A sale's commands at the server, after the first, the second and the third.
InEpoch(kind) == [kind |-> kind, epoch |-> job.epoch]
Log1 == <<InEpoch("Rfq")>>
Log2 == <<InEpoch("Rfq"), InEpoch("Accept")>>
Log3 == <<InEpoch("Rfq"), InEpoch("Accept"), InEpoch("Submit")>>

Arrived == {"Server", "Discarded"}

Messages == [kind : {"Created", "Gap"}, epoch : Nat] \cup [kind : {"Quote", "Served"}, quote : DOMAIN job.quotes, epoch : Nat]

\* Which call is out, by where the sale is; it is fenced to the sale's epoch, and accepted only at the server.
CallOfSale ==
    /\ pc # "Fenced" /\ (pc \in BetweenCalls => call = Idle)
    /\ pc = "Requesting" => call.kind = "Rfq" /\ taken = NoQuote
    /\ pc = "Accepting" => call.kind = "Accept" /\ taken # NoQuote
    /\ pc = "Submitting" => call.kind = "Submit"
    /\ call.kind \in {"None", "Rfq", "Accept", "Submit"} /\ (call.kind = "None" => call = Idle)
    /\ call.kind # "None" => call.fence = job.epoch
    /\ call.reply = "Accepted" => call.at = "Server"

\* What has been written, by the call that is out: it is the last one written, or the next.
LogOfCall ==
    /\ call.kind = "Rfq" => server.log = IF call.at \in Arrived THEN Log1 ELSE <<>>
    /\ call.kind = "Accept" => server.log = IF call.at \in Arrived THEN Log2 ELSE Log1
    /\ call.kind = "Submit" => server.log = IF call.at \in Arrived THEN Log3 ELSE Log2

\* And by where the sale is when none is; a quote is accepted only while none is taken.
LogOfSale ==
    /\ pc = "Start" => server.log = <<>> /\ taken = NoQuote
    /\ pc = "Collect" => server.log = IF taken = NoQuote THEN Log1 ELSE Log2
    /\ pc = "Taking" => server.log = Log1 /\ taken # NoQuote
    /\ pc \in {"Signing", "Signed"} => server.log = Log2
    /\ call.kind = "None" => server.log \in {<<>>, Log1, Log2}

Job == job.epoch \in Nat \ {0} /\ NoQuote \notin DOMAIN job.quotes /\ inbox \in Seq(Messages)

SaleParts == CallOfSale /\ LogOfCall /\ LogOfSale
SaleInv == job.op = "Sale" => SaleParts

\* The job stays what it is, and its inbox holds messages.
LEMMA JobStep == Records /\ Job /\ [Next]_vars => Job'
<1> SUFFICES ASSUME Records, Job, [Next]_vars
             PROVE  Job'
  OBVIOUS
<1>1. job' = job
  BY DEF Next, Operate, Deadline, Serve, Write, Answer, Expire, Execute, Disconnect, Terminate, Reconnect, CloseGate, vars,
         Start, Requested, TimedOut, Receive, Take, Accepted, Sign, Submit, Submitted, ReceiveServed,
         RequestSwap, SwapQuoted, SignSwap, AwaitReady, SubmitSwap, PushCreated, PushQuote, PushServed, PushGap, Push
<1>2. inbox' \in Seq(Messages)
  <2>1. CASE Serve
    <3>1. session.epoch \in Nat
      BY DEF Records
    <3>2. ASSUME NEW m \in Messages, Push(m)
          PROVE  inbox' \in Seq(Messages)
      BY <3>2 DEF Push, Job
    <3>3. CASE PushCreated \/ PushGap
      BY <3>1, <3>2, <3>3 DEF PushCreated, PushGap, Messages
    <3>4. CASE PushQuote \/ PushServed
      BY <3>1, <3>2, <3>4 DEF PushQuote, PushServed, Messages
    <3> QED
      BY <2>1, <3>3, <3>4 DEF Serve
  <2>2. CASE Receive \/ Sign
    <3>1. inbox' \in {inbox, Tail(inbox)}
      BY <2>2 DEF Receive, Sign
    <3>2. CASE inbox # <<>>
      BY <3>1, <3>2 DEF Job
    <3>3. CASE inbox = <<>>
      <4>1. Tail(<<>>) = <<>>
        OBVIOUS
      <4> QED
        BY <3>1, <3>3, <4>1 DEF Job
    <3> QED
      BY <3>2, <3>3
  <2>3. CASE ~(Serve \/ Receive \/ Sign)
    <3>1. inbox' = inbox
      BY <2>3 DEF Next, Operate, Deadline, Write, Answer, Expire, Execute, Disconnect, Terminate, Reconnect, CloseGate, vars,
             Start, Requested, TimedOut, Take, Accepted, Submit, Submitted, ReceiveServed, RequestSwap, SwapQuoted,
             SignSwap, AwaitReady, SubmitSwap
    <3> QED
      BY <3>1 DEF Job
  <2> QED
    BY <2>1, <2>2, <2>3
<1> QED
  BY <1>1, <1>2 DEF Job, Messages

\* A call is made, or the sale ends where it is.
LEMMA SaleGated ==
    ASSUME SaleParts, NEW kind, NEW next, pc \in BetweenCalls, UNCHANGED <<job, server, taken>>,
           gated_request(kind, next, "Rejected") \/ gated_request(kind, next, "Submit"),
           \/ kind = "Rfq" /\ next = "Requesting" /\ server.log = <<>> /\ taken = NoQuote
           \/ kind = "Accept" /\ next = "Accepting" /\ server.log = Log1 /\ taken # NoQuote
           \/ kind = "Submit" /\ next = "Submitting" /\ server.log = Log2
    PROVE  SaleParts'
<1>1. call = Idle /\ call.kind = "None"
  BY DEF SaleParts, CallOfSale, Idle
<1>2. CASE pc' = "Done" /\ call' = call
  BY <1>1, <1>2 DEF SaleParts, CallOfSale, LogOfCall, LogOfSale, BetweenCalls, InEpoch, Log1, Log2, Log3
<1>3. CASE pc' = next /\ call' = [kind |-> kind, fence |-> job.epoch, at |-> "Queued", reply |-> "None"]
  <2>1. CallOfSale'
    BY <1>3 DEF CallOfSale, BetweenCalls
  <2>2. LogOfCall'
    BY <1>3 DEF LogOfCall, Arrived, InEpoch, Log1, Log2, Log3
  <2>3. LogOfSale'
    BY <1>3 DEF LogOfSale, BetweenCalls
  <2> QED
    BY <2>1, <2>2, <2>3 DEF SaleParts
<1> QED
  BY <1>2, <1>3 DEF gated_request, try_send_in_epoch, Finish

\* The sale ends, with the call that is out or without one.
LEMMA SaleEnds ==
    ASSUME SaleParts, pc' = "Done", UNCHANGED <<job, call, server>>
    PROVE  SaleParts'
BY DEF SaleParts, CallOfSale, LogOfCall, LogOfSale, BetweenCalls, InEpoch, Log1, Log2, Log3

\* The sale goes on between calls, where the log allows it.
LEMMA SaleGoesOn ==
    ASSUME SaleParts, pc \in BetweenCalls, pc' \in BetweenCalls, UNCHANGED <<job, call, server>>,
           pc' = "Start" => server.log = <<>> /\ taken' = NoQuote,
           pc' = "Collect" => server.log = IF taken' = NoQuote THEN Log1 ELSE Log2,
           pc' = "Taking" => server.log = Log1 /\ taken' # NoQuote,
           pc' \in {"Signing", "Signed"} => server.log = Log2
    PROVE  SaleParts'
<1>1. call = Idle /\ call.kind = "None" /\ call' = call
  BY DEF SaleParts, CallOfSale, Idle
<1>2. Log1' = Log1 /\ Log2' = Log2
  BY DEF Log1, Log2, InEpoch
<1>3. CallOfSale'
  BY <1>1 DEF CallOfSale, SaleParts, BetweenCalls
<1>4. LogOfCall'
  BY <1>1 DEF LogOfCall
<1>5. LogOfSale'
  BY <1>1, <1>2 DEF LogOfSale, SaleParts
<1> QED
  BY <1>3, <1>4, <1>5 DEF SaleParts

\* A command that was accepted has reached the server.
LEMMA SaleReturns ==
    ASSUME SaleParts, UNCHANGED <<job, server, taken>>,
           Returned("Rfq", "Requesting", "Collect", "Rejected") \/ Returned("Accept", "Accepting", "Collect", "Rejected")
    PROVE  SaleParts'
<1>1. CASE call.reply = "Accepted"
  <2>1. call' = Idle /\ pc' = "Collect" /\ server.log = IF taken = NoQuote THEN Log1 ELSE Log2
    BY <1>1 DEF Returned, SaleParts, CallOfSale, LogOfCall, Arrived
  <2>2. Log1' = Log1 /\ Log2' = Log2
    BY DEF Log1, Log2, InEpoch
  <2> QED
    BY <2>1, <2>2 DEF SaleParts, CallOfSale, LogOfCall, LogOfSale, Idle, BetweenCalls
<1>2. CASE call.reply # "Accepted"
  BY <1>2, SaleEnds DEF Returned, Finish
<1> QED
  BY <1>1, <1>2

\* Short sequences grow by one.
LEMMA Appended ==
    ASSUME NEW a, NEW b, NEW c
    PROVE  Append(<<>>, a) = <<a>> /\ Append(<<a>>, b) = <<a, b>> /\ Append(<<a, b>>, c) = <<a, b, c>>
<1> DEFINE S == {a, b, c}
<1>1. <<>> \in Seq(S) /\ <<a>> \in Seq(S) /\ <<a, b>> \in Seq(S) /\ <<a, b, c>> \in Seq(S)
  OBVIOUS
<1>2. Append(<<>>, a) = <<a>>
  OBVIOUS
<1>3. Append(<<a>>, b) = <<a, b>>
  <2>1. Append(<<a>>, b) \in Seq(S) /\ Len(Append(<<a>>, b)) = 2 /\ Len(<<a, b>>) = 2
    BY <1>1
  <2>2. Append(<<a>>, b)[1] = a /\ Append(<<a>>, b)[2] = b
    BY <1>1
  <2>3. \A i \in 1..2 : Append(<<a>>, b)[i] = <<a, b>>[i]
    BY <2>2
  <2> QED
    BY <1>1, <2>1, <2>3, SeqEqual
<1>4. Append(<<a, b>>, c) = <<a, b, c>>
  <2>1. Append(<<a, b>>, c) \in Seq(S) /\ Len(Append(<<a, b>>, c)) = 3 /\ Len(<<a, b, c>>) = 3
    BY <1>1
  <2>2. Append(<<a, b>>, c)[1] = a /\ Append(<<a, b>>, c)[2] = b /\ Append(<<a, b>>, c)[3] = c
    BY <1>1
  <2>3. \A i \in 1..3 : Append(<<a, b>>, c)[i] = <<a, b, c>>[i]
    BY <2>2
  <2> QED
    BY <1>1, <2>1, <2>3, SeqEqual
<1> QED
  BY <1>2, <1>3, <1>4

\* The writer sends a sale's command in the sale's epoch, or not at all.
LEMMA SaleWrites ==
    ASSUME Records, Job, SaleParts, Write
    PROVE  SaleParts'
<1>0. call \in Calls /\ call.at = "Queued" /\ call.kind # "None" /\ pc \notin BetweenCalls /\ UNCHANGED <<job, pc, taken>>
      /\ call.reply # "Accepted"
      /\ server \in [log : Seq([kind : Kinds, epoch : Nat]), executed : BOOLEAN]
  BY DEF Records, Write, SaleParts, CallOfSale, Idle, Client
<1>1. Log1' = Log1 /\ Log2' = Log2 /\ Log3' = Log3
  BY <1>0 DEF Log1, Log2, Log3, InEpoch
<1>2. CASE MayWrite(call) /\ call' = [call EXCEPT !.at = "Server"]
           /\ server' = [server EXCEPT !.log = Append(@, [kind |-> call.kind, epoch |-> session.epoch])]
  <2>1. session.epoch = job.epoch
    BY <1>0, <1>2 DEF MayWrite, Job, SaleParts, CallOfSale
  <2>2. server'.log = Append(server.log, InEpoch(call.kind))
    BY <1>0, <1>2, <2>1 DEF InEpoch
  <2>3. call'.kind = call.kind /\ call'.fence = call.fence /\ call'.at = "Server" /\ call'.reply = call.reply
    BY <1>0, <1>2 DEF Calls
  <2>4. /\ Append(<<>>, InEpoch("Rfq")) = Log1 /\ Append(Log1, InEpoch("Accept")) = Log2
        /\ Append(Log2, InEpoch("Submit")) = Log3
    BY Appended DEF Log1, Log2, Log3
  <2>5. CallOfSale'
    BY <1>0, <2>3 DEF SaleParts, CallOfSale
  <2>6. LogOfCall'
    BY <1>0, <1>1, <2>2, <2>3, <2>4 DEF SaleParts, LogOfCall, Arrived
  <2>7. LogOfSale'
    BY <1>0, <2>3 DEF LogOfSale, BetweenCalls
  <2> QED
    BY <2>5, <2>6, <2>7 DEF SaleParts
<1>3. CASE call' \in {[call EXCEPT !.at = "Lost"],
                      [call EXCEPT !.at = "Refused", !.reply = IF @ = "None" THEN "NotReady" ELSE @]}
           /\ UNCHANGED server
  <2>1. call'.kind = call.kind /\ call'.fence = call.fence /\ call'.at \notin Arrived /\ call'.reply # "Accepted"
    BY <1>0, <1>3 DEF Calls, Arrived
  <2>2. CallOfSale'
    BY <1>0, <2>1 DEF SaleParts, CallOfSale
  <2>3. LogOfCall'
    BY <1>0, <1>1, <1>3, <2>1 DEF SaleParts, LogOfCall, Arrived
  <2>4. LogOfSale'
    BY <1>0, <2>1 DEF LogOfSale, BetweenCalls
  <2> QED
    BY <2>2, <2>3, <2>4 DEF SaleParts
<1> QED
  BY <1>2, <1>3 DEF Write

\* A call gets its reply where it is, or is discarded by the server that has it.
LEMMA SaleReplies ==
    ASSUME Records, SaleParts, UNCHANGED <<job, pc, taken>>, Answer \/ Expire \/ Execute \/ Disconnect \/ Terminate
    PROVE  SaleParts'
<1>0. call \in Calls /\ server \in [log : Seq([kind : Kinds, epoch : Nat]), executed : BOOLEAN]
  BY DEF Records
<1>1. server'.log = server.log
  BY <1>0 DEF Answer, Expire, Execute, Disconnect, Terminate, Environment
<1>2. Log1' = Log1 /\ Log2' = Log2 /\ Log3' = Log3
  BY DEF Log1, Log2, Log3, InEpoch
<1>3. /\ call'.kind = call.kind /\ call'.fence = call.fence
      /\ (call'.at \in Arrived) = (call.at \in Arrived)
      /\ call.kind = "None" => call' = call
      /\ call'.reply = "Accepted" => call'.at = "Server"
  <2>1. CASE Answer
    BY <1>0, <2>1 DEF Answer, Calls, Arrived, Declines, SaleParts, CallOfSale, Idle
  <2>2. CASE Expire
    BY <1>0, <2>2 DEF Expire, Calls, SaleParts, CallOfSale, Idle
  <2>3. CASE Execute
    BY <2>3 DEF Execute, SaleParts, CallOfSale
  <2>4. CASE Disconnect \/ Terminate
    BY <1>0, <2>4 DEF Disconnect, Terminate, Calls, SaleParts, CallOfSale, Idle
  <2> QED
    BY <2>1, <2>2, <2>3, <2>4
<1>4. CallOfSale'
  <2>1. pc \in BetweenCalls => call' = call
    BY <1>3 DEF SaleParts, CallOfSale, Idle
  <2> QED
    BY <1>3, <2>1 DEF SaleParts, CallOfSale
<1>5. LogOfCall'
  BY <1>1, <1>2, <1>3 DEF SaleParts, LogOfCall
<1>6. LogOfSale'
  BY <1>1, <1>2, <1>3 DEF SaleParts, LogOfSale
<1> QED
  BY <1>4, <1>5, <1>6 DEF SaleParts

\* Every step of a sale keeps the invariant.
LEMMA SaleStep == Records /\ Job /\ SaleInv /\ [Next]_vars => SaleInv'
<1> SUFFICES ASSUME Records, Job, SaleInv, [Next]_vars, job'.op = "Sale"
             PROVE  SaleParts'
  BY DEF SaleInv
<1>0. job' = job /\ SaleParts
  BY DEF SaleInv, Next, Operate, Deadline, Serve, Write, Answer, Expire, Execute, Disconnect, Terminate, Reconnect, CloseGate, vars,
         Start, Requested, TimedOut, Receive, Take, Accepted, Sign, Submit, Submitted, ReceiveServed,
         RequestSwap, SwapQuoted, SignSwap, AwaitReady, SubmitSwap, PushCreated, PushQuote, PushServed, PushGap, Push
<1>1. CASE Start
  <2>1. pc = "Start" /\ UNCHANGED <<job, server, taken>> /\ server.log = <<>> /\ taken = NoQuote
    BY <1>0, <1>1 DEF Start, Environment, SaleParts, LogOfSale
  <2>2. CASE gated_request("Rfq", "Requesting", "Rejected")
    BY <1>0, <2>1, <2>2, SaleGated DEF BetweenCalls
  <2>3. CASE UNCHANGED call /\ pc' = "Done"
    BY <1>0, <2>1, <2>3, SaleEnds
  <2> QED
    BY <1>1, <2>2, <2>3 DEF Start, Finish
<1>2. CASE Requested
  BY <1>0, <1>2, SaleReturns DEF Requested, Environment
<1>3. CASE TimedOut
  BY <1>0, <1>3, SaleEnds DEF TimedOut, Environment, Finish
<1>4. CASE Receive
  <2>1. pc = "Collect" /\ inbox # <<>> /\ UNCHANGED <<job, call, server>> /\ Head(inbox) \in Messages
        /\ server.log = IF taken = NoQuote THEN Log1 ELSE Log2
    BY <1>0, <1>4 DEF Receive, Environment, SaleParts, LogOfSale, Job
  <2>2. CASE pc' = "Done"
    BY <1>0, <2>1, <2>2, SaleEnds
  <2>3. CASE pc' = "Taking" /\ taken = NoQuote /\ taken' = Head(inbox).quote /\ Head(inbox).kind = "Quote"
    <3>1. taken' # NoQuote
      BY <2>1, <2>3 DEF Messages, Job
    <3> QED
      BY <1>0, <2>1, <2>3, <3>1, SaleGoesOn DEF BetweenCalls
  <2>4. CASE pc' = "Collect" /\ taken' = taken
    BY <1>0, <2>1, <2>4, SaleGoesOn DEF BetweenCalls
  <2>5. CASE pc' = "Signing" /\ taken # NoQuote /\ taken' = taken
    BY <1>0, <2>1, <2>5, SaleGoesOn DEF BetweenCalls
  <2> QED
    BY <1>4, <2>1, <2>2, <2>3, <2>4, <2>5 DEF Receive, Finish
<1>5. CASE Take
  <2>1. pc = "Taking" /\ UNCHANGED <<job, server>> /\ server.log = Log1 /\ taken # NoQuote
    BY <1>0, <1>5 DEF Take, Environment, SaleParts, LogOfSale
  <2>2. CASE gated_request("Accept", "Accepting", "Rejected") /\ UNCHANGED taken
    BY <1>0, <2>1, <2>2, SaleGated DEF BetweenCalls
  <2>3. CASE UNCHANGED call /\ pc' = "Done"
    BY <1>0, <2>1, <2>3, SaleEnds
  <2>4. CASE UNCHANGED call /\ pc' = "Collect" /\ taken' = NoQuote
    BY <1>0, <2>1, <2>4, SaleGoesOn DEF BetweenCalls
  <2> QED
    BY <1>5, <2>2, <2>3, <2>4 DEF Take, Finish
<1>6. CASE Accepted
  BY <1>0, <1>6, SaleReturns DEF Accepted, Environment
<1>7. CASE Sign
  <2>1. pc = "Signing" /\ UNCHANGED <<job, call, server, taken>> /\ server.log = Log2 /\ pc' \in {"Done", "Signed"}
    BY <1>0, <1>7 DEF Sign, Environment, SaleParts, LogOfSale, Finish
  <2>2. CASE pc' = "Done"
    BY <1>0, <2>1, <2>2, SaleEnds
  <2>3. CASE pc' = "Signed"
    BY <1>0, <2>1, <2>3, SaleGoesOn DEF BetweenCalls
  <2> QED
    BY <2>1, <2>2, <2>3
<1>8. CASE Submit
  <2>1. pc = "Signed" /\ UNCHANGED <<job, server, taken>> /\ server.log = Log2
    BY <1>0, <1>8 DEF Submit, Environment, SaleParts, LogOfSale
  <2>2. CASE gated_request("Submit", "Submitting", "Submit")
    BY <1>0, <2>1, <2>2, SaleGated DEF BetweenCalls
  <2>3. CASE UNCHANGED call /\ pc' = "Done"
    BY <1>0, <2>1, <2>3, SaleEnds
  <2> QED
    BY <1>0, <1>8, <2>2, <2>3 DEF Submit, Finish
<1>9. CASE Submitted
  BY <1>0, <1>9, SaleEnds DEF Submitted, Environment, Finish
<1>10. CASE ReceiveServed \/ RequestSwap \/ SignSwap \/ AwaitReady \/ SubmitSwap
  BY <1>0, <1>10 DEF ReceiveServed, RequestSwap, SignSwap, AwaitReady, SubmitSwap, SaleParts, CallOfSale
<1>11. CASE SwapQuoted
  BY <1>0, <1>11 DEF SwapQuoted, Returned, SaleParts, CallOfSale
<1>12. CASE Write
  BY <1>0, <1>12, SaleWrites
<1>13. CASE Answer \/ Expire \/ Execute \/ Disconnect \/ Terminate
  <2>1. UNCHANGED <<job, pc, taken>>
    BY <1>13 DEF Answer, Expire, Execute, Disconnect, Terminate, Client
  <2> QED
    BY <1>0, <1>13, <2>1, SaleReplies
<1>14. CASE Deadline \/ Serve \/ Reconnect \/ CloseGate \/ UNCHANGED vars
  <2>1. UNCHANGED <<job, pc, call, server, taken>>
    BY <1>14 DEF Deadline, Serve, PushCreated, PushQuote, PushServed, PushGap, Push, Reconnect, CloseGate, vars,
                 Environment, Client
  <2> QED
    BY <1>0, <2>1 DEF SaleParts, CallOfSale, LogOfCall, LogOfSale, Log1, Log2, Log3, InEpoch
<1> QED
  BY <1>1, <1>2, <1>3, <1>4, <1>5, <1>6, <1>7, <1>8, <1>9, <1>10, <1>11, <1>12, <1>13, <1>14 DEF Next, Operate

\* A sale has written the first of its three commands, in its epoch.
LEMMA LogIsPrefix == Records /\ SaleInv => SaleStaysInEpoch
<1> SUFFICES ASSUME Records, SaleParts, job.op = "Sale"
             PROVE  /\ \A i \in DOMAIN server.log : server.log[i].epoch = job.epoch
                    /\ \E n \in 0..3 : [i \in DOMAIN server.log |-> server.log[i].kind] =
                                         SubSeq(<<"Rfq", "Accept", "Submit">>, 1, n)
  BY DEF SaleInv, SaleStaysInEpoch
<1> DEFINE k == <<"Rfq", "Accept", "Submit">>
<1>1. server.log \in {<<>>, Log1, Log2, Log3}
  BY DEF SaleParts, CallOfSale, LogOfCall, LogOfSale
<1>2. /\ k \in Seq({"Rfq", "Accept", "Submit"}) /\ Len(k) = 3
      /\ k[1] = "Rfq" /\ k[2] = "Accept" /\ k[3] = "Submit"
  OBVIOUS
<1>3. \A n \in 0..3 : SubSeq(k, 1, n) = [i \in 1..n |-> k[i]]
  BY <1>2
<1>4. CASE server.log = <<>>
  <2>1. [i \in DOMAIN server.log |-> server.log[i].kind] = SubSeq(k, 1, 0)
    BY <1>3, <1>4
  <2> QED
    BY <1>4, <2>1
<1>5. CASE server.log = Log1
  <2>1. DOMAIN server.log = 1..1 /\ server.log[1] = InEpoch("Rfq")
    BY <1>5 DEF Log1
  <2>2. [i \in DOMAIN server.log |-> server.log[i].kind] = SubSeq(k, 1, 1)
    BY <1>2, <1>3, <2>1 DEF InEpoch
  <2> QED
    BY <2>1, <2>2 DEF InEpoch
<1>6. CASE server.log = Log2
  <2>1. DOMAIN server.log = 1..2 /\ server.log[1] = InEpoch("Rfq") /\ server.log[2] = InEpoch("Accept")
    BY <1>6 DEF Log2
  <2>2. [i \in DOMAIN server.log |-> server.log[i].kind] = SubSeq(k, 1, 2)
    BY <1>2, <1>3, <2>1 DEF InEpoch
  <2> QED
    BY <2>1, <2>2 DEF InEpoch
<1>7. CASE server.log = Log3
  <2>1. DOMAIN server.log = 1..3 /\ server.log[1] = InEpoch("Rfq") /\ server.log[2] = InEpoch("Accept")
        /\ server.log[3] = InEpoch("Submit")
    BY <1>7 DEF Log3
  <2>2. [i \in DOMAIN server.log |-> server.log[i].kind] = SubSeq(k, 1, 3)
    BY <1>2, <1>3, <2>1 DEF InEpoch
  <2> QED
    BY <2>1, <2>2 DEF InEpoch
<1> QED
  BY <1>1, <1>4, <1>5, <1>6, <1>7

\* sell_rfq: whatever the session does under a sale, and however often, its RFQ, accept and submission reach the server
\* in the epoch the sale was started in, in that order and each at most once.
THEOREM SalesStayInTheirEpoch == Started /\ [][Next]_vars => []SaleStaysInEpoch
<1>1. Started => Records /\ Job /\ SaleInv
  <2>1. Started => Job
    BY DEF Started, Job
  <2>2. Started => SaleInv
    BY DEF Started, SaleInv, SaleParts, CallOfSale, LogOfCall, LogOfSale, Idle, BetweenCalls
  <2> QED
    BY <2>1, <2>2, RecordsInit
<1>2. Records /\ Job /\ SaleInv /\ [Next]_vars => (Records /\ Job /\ SaleInv)'
  BY RecordsStep, JobStep, SaleStep
<1>3. Records /\ SaleInv => SaleStaysInEpoch
  BY LogIsPrefix
<1> QED
  BY <1>1, <1>2, <1>3, PTL

-----------------------------------------------------------------------------
(* Signatures. *)

\* The job is fixed, and a step signs nothing but what passes the verification.
LEMMA SignsVerified ==
    ASSUME [Next]_vars
    PROVE  job' = job /\ signed' \in {signed} \cup job.passes
<1>1. CASE UNCHANGED vars
  BY <1>1 DEF vars
<1>2. CASE Operate
  <2>1. CASE Sign
    BY <2>1, Zenon DEF Sign
  <2>2. CASE SignSwap
    BY <2>2, Zenon DEF SignSwap
  <2>3. CASE Start \/ Requested \/ TimedOut \/ Receive \/ Take \/ Accepted
    BY <2>3, Zenon DEF Start, Requested, TimedOut, Receive, Take, Accepted, Client
  <2>4. CASE Submit \/ Submitted \/ ReceiveServed \/ RequestSwap \/ SwapQuoted \/ AwaitReady \/ SubmitSwap
    BY <2>4, Zenon DEF Submit, Submitted, ReceiveServed, RequestSwap, SwapQuoted, AwaitReady, SubmitSwap, Client
  <2> QED
    BY <1>2, <2>1, <2>2, <2>3, <2>4 DEF Operate
<1>3. CASE Deadline \/ Serve
  BY <1>3, Zenon DEF Deadline, Serve, PushCreated, PushQuote, PushServed, PushGap, Push, Client
<1>4. CASE Write \/ Answer \/ Expire \/ Execute \/ Disconnect \/ Terminate \/ Reconnect \/ CloseGate
  BY <1>4, Zenon DEF Write, Answer, Expire, Execute, Disconnect, Terminate, Reconnect, CloseGate, Client
<1> QED
  BY <1>1, <1>2, <1>3, <1>4 DEF Next

-----------------------------------------------------------------------------
(* What an open does, read off the message. *)

\* The key an instruction names by its place in the message's keys.
KeyAt(tx, k) == MessageKeys(tx, Tables)[k].key

\* Instruction i of a message is ix: its program, its data, and the keys of its accounts, in order.
Invokes(tx, i, ix) ==
    /\ KeyAt(tx, tx.ixs[i].program) = ix.program
    /\ tx.ixs[i].data = ix.data
    /\ Len(tx.ixs[i].accounts) = Len(ix.accounts)
    /\ \A k \in DOMAIN ix.accounts : KeyAt(tx, tx.ixs[i].accounts[k]) = ix.accounts[k].key

\* An instruction before the open: it acts on no account, or it creates the escrow the open fills or, for a fill, the
\* account the taker is paid on.
Prepares(tx, i, intent, open) ==
    \/ KeyAt(tx, tx.ixs[i].program) \in {ComputeBudget, Ed25519} /\ tx.ixs[i].accounts = <<>>
    \/ Invokes(tx, i, CollateralAta(intent, open)[1])
    \/ intent.op = "Fill" /\ Invokes(tx, i, TakerAta(intent)[1])

\* The maker and the taker of an intent's order.
PartiesOf(intent) ==
    CASE intent.op = "Sale" -> <<intent.maker_owner, intent.writer.addresses.vault>>
      [] intent.op = "BetweenVaults" -> <<intent.holder.addresses.vault, intent.writer.addresses.vault>>
      [] intent.op = "Fill" -> <<intent.holder.addresses.vault, intent.taker>>
      [] intent.op = "Buy" -> <<intent.writer.addresses.vault, intent.taker>>

\* The strike an order of these terms carries first.
FirstStrike(t) == IF t.kind = "Physical" THEN t.strike ELSE t.lower_strike

\* What an open does: it trades the intent's size at its price and strike, under an order between the intent's parties.
Trades(order, data, intent) ==
    LET t == intent.terms
    IN /\ <<data[3], data[4], data[5], data[8]>> = <<FirstStrike(t), t.quantity, t.price, order>>
       /\ <<order[6], order[7], order[8]>> = <<FirstStrike(t), t.quantity, t.price>>
       /\ <<order[10], order[11]>> = PartiesOf(intent)

\* The keys the open may change, besides the keeper's that pays for the transaction.
MayChange(intent, open) ==
    {m.key : m \in {open.instruction.accounts[k] : k \in {i \in DOMAIN open.instruction.accounts :
                                                             open.instruction.accounts[i].writable}}}
    \cup {CollateralAta(intent, open)[1].accounts[2].key}
    \cup (IF intent.op = "Fill" THEN {TakerAta(intent)[1].accounts[2].key} ELSE {})

\* The message is the intent's open under the order, after its preparation and nothing else; keeper and participant sign
\* it and no one else does; and the runtime lets it change no other account.
OpensOnly(tx, order, intent) ==
    LET keys == MessageKeys(tx, Tables) IN
    \E open \in OpenOf(intent) :
        /\ open.order_id = order
        /\ Trades(order, open.instruction.data, intent)
        /\ Len(tx.ixs) > 0 /\ Invokes(tx, Len(tx.ixs), open.instruction)
        /\ \A i \in 1..(Len(tx.ixs) - 1) : Prepares(tx, i, intent, open)
        /\ {keys[k].key : k \in {i \in DOMAIN keys : keys[i].signer}} = {intent.keeper, Participant(intent)}
        /\ {keys[k].key : k \in {i \in DOMAIN keys : keys[i].writable}}
              \subseteq {intent.keeper} \cup MayChange(intent, open)

\* The message opens what the job agreed to under the quote's order, with the operator as its participant.
OpensFor(j, quote, tx) ==
    \E intent \in Intents(j, quote) : Participates(intent) /\ OpensOnly(tx, quote.order_id, intent)

-----------------------------------------------------------------------------
(* Lists. *)

\* A list, of whatever elements.
IsTuple(s) == \E S : s \in Seq(S)

LEMMA TupleDomain ==
    ASSUME NEW s, IsTuple(s)
    PROVE  Len(s) \in Nat /\ DOMAIN s = 1..Len(s)
BY DEF IsTuple

LEMMA TupleIn ==
    ASSUME NEW s, NEW n \in Nat, NEW S, DOMAIN s = 1..n, s = [i \in 1..n |-> s[i]], \A i \in 1..n : s[i] \in S
    PROVE  s \in Seq(S) /\ Len(s) = n
<1>1. s \in Seq(S)
  BY SeqDef
<1> QED
  BY <1>1

LEMMA Concat ==
    ASSUME NEW s, NEW t, IsTuple(s), IsTuple(t)
    PROVE  /\ IsTuple(s \o t)
           /\ Len(s \o t) = Len(s) + Len(t)
           /\ \A i \in 1..Len(s) : (s \o t)[i] = s[i]
           /\ \A i \in 1..Len(t) : (s \o t)[Len(s) + i] = t[i]
<1>1. PICK S : s \in Seq(S)
  BY DEF IsTuple
<1>2. PICK T : t \in Seq(T)
  BY DEF IsTuple
<1>3. s \in Seq(S \cup T) /\ t \in Seq(S \cup T)
  BY <1>1, <1>2, SeqDef
<1>4. /\ s \o t \in Seq(S \cup T)
      /\ Len(s \o t) = Len(s) + Len(t)
      /\ \A i \in 1 .. Len(s) + Len(t) : (s \o t)[i] = IF i <= Len(s) THEN s[i] ELSE t[i - Len(s)]
  BY <1>3, ConcatProperties
<1>5. Len(s) \in Nat /\ Len(t) \in Nat
  BY <1>3
<1>6. \A i \in 1..Len(s) : (s \o t)[i] = s[i]
  BY <1>4, <1>5
<1>7. \A i \in 1..Len(t) : (s \o t)[Len(s) + i] = t[i]
  <2> TAKE i \in 1..Len(t)
  <2>1. Len(s) + i \in 1 .. Len(s) + Len(t) /\ ~(Len(s) + i <= Len(s)) /\ (Len(s) + i) - Len(s) = i
    BY <1>5
  <2> QED
    BY <1>4, <2>1
<1> QED
  BY <1>4, <1>6, <1>7 DEF IsTuple

LEMMA ListedTuple ==
    ASSUME NEW s, IsTuple(s)
    PROVE  Listed(s) = s
BY ConcatEmptySeq DEF IsTuple, Listed

LEMMA ReadsTuple ==
    ASSUME NEW keys, IsTuple(keys)
    PROVE  /\ IsTuple(Reads(keys)) /\ Len(Reads(keys)) = Len(keys)
           /\ \A i \in 1..Len(keys) : Reads(keys)[i] = R(keys[i])
<1> DEFINE f == [i \in DOMAIN keys |-> R(keys[i])]
<1>1. Len(keys) \in Nat /\ DOMAIN keys = 1..Len(keys)
  BY TupleDomain
<1>2. f \in Seq({R(keys[i]) : i \in 1..Len(keys)}) /\ Len(f) = Len(keys)
  BY <1>1, TupleIn
<1>3. IsTuple(f)
  BY <1>2 DEF IsTuple
<1>4. Reads(keys) = f
  BY <1>3, ListedTuple DEF Reads
<1> QED
  BY <1>1, <1>2, <1>3, <1>4

\* No account of the list signs.
Silent(s) == IsTuple(s) /\ \A i \in 1..Len(s) : ~s[i].signer

LEMMA SilentReads ==
    ASSUME NEW keys, IsTuple(keys)
    PROVE  Silent(Reads(keys))
<1>1. \A key : ~R(key).signer
  BY DEF R, Meta
<1> QED
  BY <1>1, ReadsTuple DEF Silent

LEMMA SilentConcat ==
    ASSUME NEW s, NEW t, Silent(s), Silent(t)
    PROVE  Silent(s \o t)
<1>1. /\ IsTuple(s \o t) /\ Len(s \o t) = Len(s) + Len(t)
      /\ \A i \in 1..Len(s) : (s \o t)[i] = s[i]
      /\ \A i \in 1..Len(t) : (s \o t)[Len(s) + i] = t[i]
  BY Concat DEF Silent
<1>2. Len(s) \in Nat /\ Len(t) \in Nat
  BY TupleDomain DEF Silent
<1>3. ASSUME NEW i \in 1..(Len(s) + Len(t))
      PROVE  ~(s \o t)[i].signer
  <2>1. CASE i \in 1..Len(s)
    BY <1>1, <2>1 DEF Silent
  <2>2. CASE i \notin 1..Len(s)
    <3>1. PICK k \in 1..Len(t) : i = Len(s) + k
      <4>1. i - Len(s) \in 1..Len(t) /\ i = Len(s) + (i - Len(s))
        BY <1>2, <2>2
      <4> QED
        BY <4>1
    <3> QED
      BY <1>1, <3>1 DEF Silent
  <2> QED
    BY <2>1, <2>2
<1> QED
  BY <1>1, <1>3 DEF Silent

\* The keeper and the participant sign, in this order, and no one else.
SignedBy(s, keeper, participant) ==
    /\ IsTuple(s) /\ Len(s) >= 2
    /\ s[1] = SW(keeper) /\ s[2] = SW(participant)
    /\ \A i \in 3..Len(s) : ~s[i].signer

LEMMA SignedConcat ==
    ASSUME NEW s, NEW t, NEW keeper, NEW participant, SignedBy(s, keeper, participant), Silent(t)
    PROVE  SignedBy(s \o t, keeper, participant)
<1>1. /\ IsTuple(s \o t) /\ Len(s \o t) = Len(s) + Len(t)
      /\ \A i \in 1..Len(s) : (s \o t)[i] = s[i]
      /\ \A i \in 1..Len(t) : (s \o t)[Len(s) + i] = t[i]
  BY Concat DEF Silent, SignedBy
<1>2. Len(s) \in Nat /\ Len(t) \in Nat
  BY TupleDomain DEF Silent, SignedBy
<1>3. ASSUME NEW i \in 3..(Len(s) + Len(t))
      PROVE  ~(s \o t)[i].signer
  <2>1. CASE i \in 1..Len(s)
    BY <1>1, <1>2, <2>1 DEF SignedBy
  <2>2. CASE i \notin 1..Len(s)
    <3>1. PICK k \in 1..Len(t) : i = Len(s) + k
      <4>1. i - Len(s) \in 1..Len(t) /\ i = Len(s) + (i - Len(s))
        BY <1>2, <2>2
      <4> QED
        BY <4>1
    <3> QED
      BY <1>1, <3>1 DEF Silent
  <2> QED
    BY <2>1, <2>2
<1>4. Len(s) + Len(t) >= 2 /\ 1 \in 1..Len(s) /\ 2 \in 1..Len(s)
  BY <1>2 DEF SignedBy
<1>5. (s \o t)[1] = s[1] /\ (s \o t)[2] = s[2]
  BY <1>1, <1>4
<1> QED
  BY <1>1, <1>3, <1>4, <1>5 DEF SignedBy

\* The mints, programs and configuration every open reads.
LEMMA MarketTail ==
    ASSUME NEW m, NEW legs
    PROVE  Silent(market_tail(m, legs))
<1> DEFINE keys == <<InstructionsSysvar, legs.underlying.mint, legs.quote.mint, legs.underlying.program,
                     legs.quote.program, System, m.addresses.global_config>>
<1>1. keys \in Seq({keys[i] : i \in 1..7})
  OBVIOUS
<1> QED
  BY <1>1, SilentReads DEF market_tail, IsTuple

-----------------------------------------------------------------------------
(* Builders. *)

\* The account lists of the opens.
LEMMA WriterShape ==
    ASSUME NEW m, NEW tag, NEW keeper, NEW participant, NEW counterparty, NEW byte, NEW legs, NEW order, NEW at,
           NEW args
    PROVE  SignedBy(open_as_writer(m, tag, keeper, participant, counterparty, byte, legs, order, at, args)
                       .instruction.accounts, keeper, participant)
<1> DEFINE a == m.addresses
           head == <<SW(keeper), SW(participant), W(a.vault), R(a.policy), R(a.delegate),
                     W(a.vault_main_ata), W(a.vault_second_ata), R(counterparty),
                     W(ata(counterparty, legs.quote.mint, legs.quote.program)), W(at.market),
                     W(at.position), W(at.collateral_ata), R(at.config), W(at.protocol_fee_ata)>>
           stake == <<m.args.share_mint, a.manager_stake_ata>>
<1>1. SignedBy(head, keeper, participant)
  <2>1. \A key : ~R(key).signer /\ ~W(key).signer
    BY DEF R, W, Meta
  <2>2. head \in Seq({head[i] : i \in 1..14}) /\ Len(head) = 14
    OBVIOUS
  <2>3. IsTuple(head)
    BY <2>2 DEF IsTuple
  <2>4. \A i \in 3..14 : ~head[i].signer
    BY <2>1
  <2>5. Len(head) = 14 /\ head[1] = SW(keeper) /\ head[2] = SW(participant)
    OBVIOUS
  <2> HIDE DEF head
  <2> QED
    BY <2>3, <2>4, <2>5 DEF SignedBy
<1>2. Silent(Reads(stake))
  <2>1. stake \in Seq({stake[i] : i \in 1..2})
    OBVIOUS
  <2> QED
    BY <2>1, SilentReads DEF IsTuple
<1>3. SignedBy(head \o market_tail(m, legs) \o Reads(stake), keeper, participant)
  <2> HIDE DEF head, stake
  <2>1. Silent(market_tail(m, legs))
    BY MarketTail
  <2>2. SignedBy(head \o market_tail(m, legs), keeper, participant)
    BY <1>1, <2>1, SignedConcat
  <2> QED
    BY <1>2, <2>2, SignedConcat
<1> QED
  BY <1>3 DEF open_as_writer, VaultInstruction, Instruction

LEMMA HolderShape ==
    ASSUME NEW m, NEW tag, NEW keeper, NEW taker, NEW legs, NEW order, NEW at, NEW args
    PROVE  SignedBy(open_as_holder(m, tag, keeper, taker, legs, order, at, args).instruction.accounts, keeper, taker)
<1> DEFINE a == m.addresses
           head == <<SW(keeper), SW(taker), W(a.vault), R(a.policy), R(a.delegate),
                     W(legs.quote.vault_ata), W(ata(taker, legs.underlying.mint, legs.underlying.program)),
                     W(ata(taker, legs.quote.mint, legs.quote.program)), W(at.market), W(at.position),
                     W(at.collateral_ata), R(at.config), W(at.protocol_fee_ata)>>
           stake == <<m.args.share_mint, a.manager_stake_ata>>
<1>1. SignedBy(head, keeper, taker)
  <2>1. \A key : ~R(key).signer /\ ~W(key).signer
    BY DEF R, W, Meta
  <2>2. head \in Seq({head[i] : i \in 1..13}) /\ Len(head) = 13
    OBVIOUS
  <2>3. IsTuple(head)
    BY <2>2 DEF IsTuple
  <2>4. \A i \in 3..13 : ~head[i].signer
    BY <2>1
  <2>5. Len(head) = 13 /\ head[1] = SW(keeper) /\ head[2] = SW(taker)
    OBVIOUS
  <2> HIDE DEF head
  <2> QED
    BY <2>3, <2>4, <2>5 DEF SignedBy
<1>2. Silent(Reads(stake))
  <2>1. stake \in Seq({stake[i] : i \in 1..2})
    OBVIOUS
  <2> QED
    BY <2>1, SilentReads DEF IsTuple
<1>3. SignedBy(head \o market_tail(m, legs) \o Reads(stake), keeper, taker)
  <2> HIDE DEF head, stake
  <2>1. Silent(market_tail(m, legs))
    BY MarketTail
  <2>2. SignedBy(head \o market_tail(m, legs), keeper, taker)
    BY <1>1, <2>1, SignedConcat
  <2> QED
    BY <1>2, <2>2, SignedConcat
<1> QED
  BY <1>3 DEF open_as_holder, VaultInstruction, Instruction

LEMMA BetweenShape ==
    ASSUME NEW m, NEW tag, NEW keeper, NEW h, NEW hlegs, NEW legs, NEW order, NEW at, NEW args
    PROVE  SignedBy(open_between_vaults(m, tag, keeper, h, hlegs, legs, order, at, args).instruction.accounts,
                    keeper, m.args.actor)
<1> DEFINE w == m.addresses
           head == <<SW(keeper), SW(m.args.actor), W(w.vault), R(w.policy), R(w.delegate),
                     W(w.vault_main_ata), W(w.vault_second_ata), W(h.addresses.vault),
                     R(h.addresses.policy), R(h.addresses.delegate), W(hlegs.quote.vault_ata),
                     W(at.market), W(at.position), W(at.collateral_ata), R(at.config),
                     W(at.protocol_fee_ata)>>
           stake == <<m.args.share_mint, w.manager_stake_ata, h.args.share_mint, h.addresses.manager_stake_ata>>
<1>1. SignedBy(head, keeper, m.args.actor)
  <2>1. \A key : ~R(key).signer /\ ~W(key).signer
    BY DEF R, W, Meta
  <2>2. head \in Seq({head[i] : i \in 1..16}) /\ Len(head) = 16
    OBVIOUS
  <2>3. IsTuple(head)
    BY <2>2 DEF IsTuple
  <2>4. \A i \in 3..16 : ~head[i].signer
    BY <2>1
  <2>5. Len(head) = 16 /\ head[1] = SW(keeper) /\ head[2] = SW(m.args.actor)
    OBVIOUS
  <2> HIDE DEF head
  <2> QED
    BY <2>3, <2>4, <2>5 DEF SignedBy
<1>2. Silent(Reads(stake))
  <2>1. stake \in Seq({stake[1], stake[2], stake[3], stake[4]})
    OBVIOUS
  <2> QED
    BY <2>1, SilentReads DEF IsTuple
<1>3. SignedBy(head \o market_tail(m, legs) \o Reads(stake), keeper, m.args.actor)
  <2> HIDE DEF head, stake
  <2>1. Silent(market_tail(m, legs))
    BY MarketTail
  <2>2. SignedBy(head \o market_tail(m, legs), keeper, m.args.actor)
    BY <1>1, <2>1, SignedConcat
  <2> QED
    BY <1>2, <2>2, SignedConcat
<1> QED
  BY <1>3 DEF open_between_vaults, VaultInstruction, Instruction

\* The fields of an open's data, behind its tag.
Carries(data, strike, quantity, price, order) ==
    data[3] = strike /\ data[4] = quantity /\ data[5] = price /\ data[8] = order

LEMMA PhysicalData ==
    ASSUME NEW tag, NEW t, NEW order, NEW byte
    PROVE  /\ Carries(<<tag>> \o physical_args(t, order), t.strike, t.quantity, t.price, order)
           /\ Carries(<<tag>> \o Append(physical_args(t, order), byte), t.strike, t.quantity, t.price, order)
BY DEF physical_args, Carries

LEMMA SpreadData ==
    ASSUME NEW tag, NEW t, NEW order, NEW byte
    PROVE  /\ Carries(<<tag>> \o spread_args(t, order), t.lower_strike, t.quantity, t.price, order)
           /\ Carries(<<tag>> \o Append(spread_args(t, order), byte), t.lower_strike, t.quantity, t.price, order)
BY DEF spread_args, Carries

\* The fields of an order.
OrderIs(order, strike, quantity, price, maker, taker) ==
    /\ order[6] = strike /\ order[7] = quantity /\ order[8] = price
    /\ order[10] = maker /\ order[11] = taker

LEMMA Orders ==
    ASSUME NEW t, NEW program, NEW maker, NEW taker
    PROVE  /\ OrderIs(physical_order_id(t, program, maker, taker), t.strike, t.quantity, t.price, maker, taker)
           /\ OrderIs(spread_order_id(t, program, maker, taker), t.lower_strike, t.quantity, t.price, maker, taker)
BY DEF physical_order_id, spread_order_id, build_physical_order_preimage, build_spread_order_preimage, OrderIs

\* Sold to a maker or to a vault, filled for a taker, or bought by a wallet.
IntentOps == {"Sale", "BetweenVaults", "Fill", "Buy"}

\* What a builder returned for an order: keeper and participant sign, and it trades the terms between these parties.
Built(open, intent, participant, strike, maker, taker) ==
    /\ SignedBy(open.instruction.accounts, intent.keeper, participant)
    /\ Carries(open.instruction.data, strike, intent.terms.quantity, intent.terms.price, open.order_id)
    /\ OrderIs(open.order_id, strike, intent.terms.quantity, intent.terms.price, maker, taker)

LEMMA WriterBuilt ==
    ASSUME NEW intent, NEW m, NEW tag, NEW participant, NEW counterparty, NEW byte, NEW legs, NEW at, NEW order,
           NEW args, NEW strike, NEW maker, NEW taker,
           Carries(<<tag>> \o Append(args, byte), strike, intent.terms.quantity, intent.terms.price, order),
           OrderIs(order, strike, intent.terms.quantity, intent.terms.price, maker, taker)
    PROVE  Built(open_as_writer(m, tag, intent.keeper, participant, counterparty, byte, legs, order, at, args),
                 intent, participant, strike, maker, taker)
<1> DEFINE open == open_as_writer(m, tag, intent.keeper, participant, counterparty, byte, legs, order, at, args)
<1>1. open.order_id = order /\ open.instruction.data = <<tag>> \o Append(args, byte)
  BY DEF open_as_writer, VaultInstruction, Instruction
<1>2. SignedBy(open.instruction.accounts, intent.keeper, participant)
  BY WriterShape
<1> HIDE DEF open
<1> QED
  BY <1>1, <1>2 DEF Built, open

LEMMA HolderBuilt ==
    ASSUME NEW intent, NEW m, NEW tag, NEW taker, NEW legs, NEW at, NEW order, NEW args, NEW strike, NEW maker,
           Carries(<<tag>> \o args, strike, intent.terms.quantity, intent.terms.price, order),
           OrderIs(order, strike, intent.terms.quantity, intent.terms.price, maker, taker)
    PROVE  Built(open_as_holder(m, tag, intent.keeper, taker, legs, order, at, args), intent, taker, strike, maker,
                 taker)
<1> DEFINE open == open_as_holder(m, tag, intent.keeper, taker, legs, order, at, args)
<1>1. open.order_id = order /\ open.instruction.data = <<tag>> \o args
  BY DEF open_as_holder, VaultInstruction, Instruction
<1>2. SignedBy(open.instruction.accounts, intent.keeper, taker)
  BY HolderShape
<1> HIDE DEF open
<1> QED
  BY <1>1, <1>2 DEF Built, open

LEMMA BetweenBuilt ==
    ASSUME NEW intent, NEW m, NEW tag, NEW h, NEW hlegs, NEW legs, NEW at, NEW order, NEW args, NEW strike, NEW maker,
           NEW taker,
           Carries(<<tag>> \o args, strike, intent.terms.quantity, intent.terms.price, order),
           OrderIs(order, strike, intent.terms.quantity, intent.terms.price, maker, taker)
    PROVE  Built(open_between_vaults(m, tag, intent.keeper, h, hlegs, legs, order, at, args),
                 intent, m.args.actor, strike, maker, taker)
<1> DEFINE open == open_between_vaults(m, tag, intent.keeper, h, hlegs, legs, order, at, args)
<1>1. open.order_id = order /\ open.instruction.data = <<tag>> \o args
  BY DEF open_between_vaults, VaultInstruction, Instruction
<1>2. SignedBy(open.instruction.accounts, intent.keeper, m.args.actor)
  BY BetweenShape
<1> HIDE DEF open
<1> QED
  BY <1>1, <1>2 DEF Built, open

\* Each of the eight builders.
LEMMA OpenShape ==
    ASSUME NEW intent, intent.op \in IntentOps, NEW open \in OpenOf(intent)
    PROVE  /\ SignedBy(open.instruction.accounts, intent.keeper, Participant(intent))
           /\ Trades(open.order_id, open.instruction.data, intent)
<1> DEFINE t == intent.terms
           strike == FirstStrike(t)
           p == PartiesOf(intent)
           w == intent.writer
           h == intent.holder
<1> SUFFICES Built(open, intent, Participant(intent), strike, p[1], p[2])
  <2>1. p = <<p[1], p[2]>>
    BY DEF PartiesOf, IntentOps
  <2> HIDE DEF p
  <2> QED
    BY <2>1 DEF Built, Trades, Carries, OrderIs, p
<1>1. Physical(intent) => strike = t.strike
  BY DEF Physical, FirstStrike
<1>2. ~Physical(intent) => strike = t.lower_strike
  BY DEF Physical, FirstStrike
<1> HIDE DEF strike
<1>3. CASE intent.op = "Sale"
  <2>1. p = <<intent.maker_owner, w.addresses.vault>> /\ Participant(intent) = w.args.actor
    BY <1>3 DEF PartiesOf, Participant
  <2>2. CASE Physical(intent)
    <3>1. open \in open_position_as_writer(w, intent.keeper, intent.maker_owner, t)
      BY <1>3, <2>2 DEF OpenOf
    <3> DEFINE order == physical_order_id(t, w.args.program_id, intent.maker_owner, w.addresses.vault)
    <3>2. PICK legs \in PhysicalLegs(w, t, "Sell") :
             open = open_as_writer(w, "OpenPositionForVaultWriter", intent.keeper,
                                   w.args.actor, maker_pda(w.args.program_id, intent.maker_owner),
                                   0, legs, order, position_addresses(w, legs, t, order), physical_args(t, order))
      BY <3>1 DEF open_position_as_writer
    <3>3. /\ Carries(<<"OpenPositionForVaultWriter">> \o Append(physical_args(t, order), 0), strike, t.quantity, t.price,
                     order)
          /\ OrderIs(order, strike, t.quantity, t.price, intent.maker_owner, w.addresses.vault)
      BY <1>1, <2>2, PhysicalData, Orders
    <3> HIDE DEF order
    <3>4. Built(open, intent, w.args.actor, strike, intent.maker_owner, w.addresses.vault)
      BY <3>2, <3>3, WriterBuilt
    <3> QED
      BY <2>1, <3>4
  <2>3. CASE ~Physical(intent)
    <3>1. open \in open_spread_as_writer(w, intent.keeper, intent.maker_owner, t)
      BY <1>3, <2>3 DEF OpenOf
    <3> DEFINE order == spread_order_id(t, w.args.program_id, intent.maker_owner, w.addresses.vault)
    <3>2. PICK legs \in SpreadLegs(w, t, "Sell") :
             open = open_as_writer(w, "OpenSpreadForVaultWriter", intent.keeper,
                                   w.args.actor, maker_pda(w.args.program_id, intent.maker_owner),
                                   0, legs, order, spread_addresses(w, legs, t, order), spread_args(t, order))
      BY <3>1 DEF open_spread_as_writer
    <3>3. /\ Carries(<<"OpenSpreadForVaultWriter">> \o Append(spread_args(t, order), 0), strike, t.quantity, t.price,
                     order)
          /\ OrderIs(order, strike, t.quantity, t.price, intent.maker_owner, w.addresses.vault)
      BY <1>2, <2>3, SpreadData, Orders
    <3> HIDE DEF order
    <3>4. Built(open, intent, w.args.actor, strike, intent.maker_owner, w.addresses.vault)
      BY <3>2, <3>3, WriterBuilt
    <3> QED
      BY <2>1, <3>4
  <2> QED
    BY <2>2, <2>3
<1>4. CASE intent.op = "BetweenVaults"
  <2>1. p = <<h.addresses.vault, w.addresses.vault>>
        /\ Participant(intent) = w.args.actor
    BY <1>4 DEF PartiesOf, Participant
  <2>2. CASE Physical(intent)
    <3>1. open \in open_position_with_vault_holder(w, intent.keeper, h, t)
      BY <1>4, <2>2 DEF OpenOf
    <3> DEFINE order == physical_order_id(t, w.args.program_id, h.addresses.vault, w.addresses.vault)
    <3>2. PICK pair \in PhysicalLegs(w, t, "Sell") \X bind(h, t.underlying_mint, t.quote_mint) :
             open = open_between_vaults(w, "OpenPositionBetweenVaults", intent.keeper, h, pair[2], pair[1],
                                           order, position_addresses(w, pair[1], t, order), physical_args(t, order))
      BY <3>1 DEF open_position_with_vault_holder
    <3>3. /\ Carries(<<"OpenPositionBetweenVaults">> \o physical_args(t, order), strike, t.quantity, t.price, order)
          /\ OrderIs(order, strike, t.quantity, t.price, h.addresses.vault, w.addresses.vault)
      BY <1>1, <2>2, PhysicalData, Orders
    <3> HIDE DEF order
    <3>4. Built(open, intent, w.args.actor, strike, h.addresses.vault, w.addresses.vault)
      BY <3>2, <3>3, BetweenBuilt
    <3> QED
      BY <2>1, <3>4
  <2>3. CASE ~Physical(intent)
    <3>1. open \in open_spread_with_vault_holder(w, intent.keeper, h, t)
      BY <1>4, <2>3 DEF OpenOf
    <3> DEFINE order == spread_order_id(t, w.args.program_id, h.addresses.vault, w.addresses.vault)
    <3>2. PICK pair \in SpreadLegs(w, t, "Sell") \X bind(h, t.underlying_mint, t.quote_mint) :
             open = open_between_vaults(w, "OpenSpreadBetweenVaults", intent.keeper, h, pair[2], pair[1],
                                           order, spread_addresses(w, pair[1], t, order), spread_args(t, order))
      BY <3>1 DEF open_spread_with_vault_holder
    <3>3. /\ Carries(<<"OpenSpreadBetweenVaults">> \o spread_args(t, order), strike, t.quantity, t.price, order)
          /\ OrderIs(order, strike, t.quantity, t.price, h.addresses.vault, w.addresses.vault)
      BY <1>2, <2>3, SpreadData, Orders
    <3> HIDE DEF order
    <3>4. Built(open, intent, w.args.actor, strike, h.addresses.vault, w.addresses.vault)
      BY <3>2, <3>3, BetweenBuilt
    <3> QED
      BY <2>1, <3>4
  <2> QED
    BY <2>2, <2>3
<1>5. CASE intent.op = "Fill"
  <2>1. p = <<h.addresses.vault, intent.taker>> /\ Participant(intent) = intent.taker
    BY <1>5 DEF PartiesOf, Participant
  <2>2. CASE Physical(intent)
    <3>1. open \in open_position_as_holder(h, intent.keeper, intent.taker, t)
      BY <1>5, <2>2 DEF OpenOf
    <3> DEFINE order == physical_order_id(t, h.args.program_id, h.addresses.vault, intent.taker)
    <3>2. PICK legs \in PhysicalLegs(h, t, "Sell") :
             open = open_as_holder(h, "OpenPositionForVaultHolder", intent.keeper, intent.taker,
                                      legs, order, position_addresses(h, legs, t, order), physical_args(t, order))
      BY <3>1 DEF open_position_as_holder
    <3>3. /\ Carries(<<"OpenPositionForVaultHolder">> \o physical_args(t, order), strike, t.quantity, t.price, order)
          /\ OrderIs(order, strike, t.quantity, t.price, h.addresses.vault, intent.taker)
      BY <1>1, <2>2, PhysicalData, Orders
    <3> HIDE DEF order
    <3>4. Built(open, intent, intent.taker, strike, h.addresses.vault, intent.taker)
      BY <3>2, <3>3, HolderBuilt
    <3> QED
      BY <2>1, <3>4
  <2>3. CASE ~Physical(intent)
    <3>1. open \in open_spread_as_holder(h, intent.keeper, intent.taker, t)
      BY <1>5, <2>3 DEF OpenOf
    <3> DEFINE order == spread_order_id(t, h.args.program_id, h.addresses.vault, intent.taker)
    <3>2. PICK legs \in SpreadLegs(h, t, "Sell") :
             open = open_as_holder(h, "OpenSpreadForVaultHolder", intent.keeper, intent.taker,
                                      legs, order, spread_addresses(h, legs, t, order), spread_args(t, order))
      BY <3>1 DEF open_spread_as_holder
    <3>3. /\ Carries(<<"OpenSpreadForVaultHolder">> \o spread_args(t, order), strike, t.quantity, t.price, order)
          /\ OrderIs(order, strike, t.quantity, t.price, h.addresses.vault, intent.taker)
      BY <1>2, <2>3, SpreadData, Orders
    <3> HIDE DEF order
    <3>4. Built(open, intent, intent.taker, strike, h.addresses.vault, intent.taker)
      BY <3>2, <3>3, HolderBuilt
    <3> QED
      BY <2>1, <3>4
  <2> QED
    BY <2>2, <2>3
<1>6. CASE intent.op = "Buy"
  <2>1. p = <<w.addresses.vault, intent.taker>> /\ Participant(intent) = intent.taker
    BY <1>6 DEF PartiesOf, Participant
  <2>2. CASE Physical(intent)
    <3>1. open \in open_position_for_wallet_holder(w, intent.keeper, intent.taker, t)
      BY <1>6, <2>2 DEF OpenOf
    <3> DEFINE order == physical_order_id(t, w.args.program_id, w.addresses.vault, intent.taker)
    <3>2. PICK legs \in PhysicalLegs(w, t, "Buy") :
             open = open_as_writer(w, "OpenPositionForVaultWriter", intent.keeper,
                                   intent.taker, intent.taker, 1, legs, order,
                                   position_addresses(w, legs, t, order), physical_args(t, order))
      BY <3>1 DEF open_position_for_wallet_holder
    <3>3. /\ Carries(<<"OpenPositionForVaultWriter">> \o Append(physical_args(t, order), 1), strike, t.quantity, t.price,
                     order)
          /\ OrderIs(order, strike, t.quantity, t.price, w.addresses.vault, intent.taker)
      BY <1>1, <2>2, PhysicalData, Orders
    <3> HIDE DEF order
    <3>4. Built(open, intent, intent.taker, strike, w.addresses.vault, intent.taker)
      BY <3>2, <3>3, WriterBuilt
    <3> QED
      BY <2>1, <3>4
  <2>3. CASE ~Physical(intent)
    <3>1. open \in open_spread_for_wallet_holder(w, intent.keeper, intent.taker, t)
      BY <1>6, <2>3 DEF OpenOf
    <3> DEFINE order == spread_order_id(t, w.args.program_id, w.addresses.vault, intent.taker)
    <3>2. PICK legs \in SpreadLegs(w, t, "Buy") :
             open = open_as_writer(w, "OpenSpreadForVaultWriter", intent.keeper,
                                   intent.taker, intent.taker, 1, legs, order,
                                   spread_addresses(w, legs, t, order), spread_args(t, order))
      BY <3>1 DEF open_spread_for_wallet_holder
    <3>3. /\ Carries(<<"OpenSpreadForVaultWriter">> \o Append(spread_args(t, order), 1), strike, t.quantity, t.price,
                     order)
          /\ OrderIs(order, strike, t.quantity, t.price, w.addresses.vault, intent.taker)
      BY <1>2, <2>3, SpreadData, Orders
    <3> HIDE DEF order
    <3>4. Built(open, intent, intent.taker, strike, w.addresses.vault, intent.taker)
      BY <3>2, <3>3, WriterBuilt
    <3> QED
      BY <2>1, <3>4
  <2> QED
    BY <2>2, <2>3
<1> QED
  BY <1>3, <1>4, <1>5, <1>6 DEF IntentOps

-----------------------------------------------------------------------------
(* Messages. *)

\* A message is made of lists.
WellFormed(tx) ==
    /\ IsTuple(MessageKeys(tx, Tables)) /\ IsTuple(tx.ixs)
    /\ \A i \in DOMAIN tx.ixs : IsTuple(tx.ixs[i].accounts)

\* What decode read: the message's keys, and for each of its instructions the program, accounts and data it names.
Reading(s, tx) ==
    LET keys == MessageKeys(tx, Tables) IN
    /\ s.keys = keys
    /\ IsTuple(s.instructions) /\ Len(s.instructions) = Len(tx.ixs)
    /\ \A i \in 1..Len(tx.ixs) :
         /\ s.instructions[i].program = KeyAt(tx, tx.ixs[i].program)
         /\ s.instructions[i].data = tx.ixs[i].data
         /\ IsTuple(s.instructions[i].accounts) /\ Len(s.instructions[i].accounts) = Len(tx.ixs[i].accounts)
         /\ \A k \in 1..Len(tx.ixs[i].accounts) :
              tx.ixs[i].accounts[k] \in 1..Len(keys) /\ s.instructions[i].accounts[k] = keys[tx.ixs[i].accounts[k]]

LEMMA DecodeReads ==
    ASSUME NEW tx, WellFormed(tx), NEW s \in decode(tx, Tables)
    PROVE  Reading(s, tx)
<1> DEFINE keys == MessageKeys(tx, Tables)
           accounts(i) == [k \in DOMAIN tx.ixs[i].accounts |-> keys[tx.ixs[i].accounts[k]]]
           ix(i) == Instruction(keys[tx.ixs[i].program].key, Listed(accounts(i)), tx.ixs[i].data)
           list == [i \in DOMAIN tx.ixs |-> ix(i)]
<1>1. s.keys = keys /\ s.instructions = Listed(list) /\ IndexesValid(tx, Len(keys))
  BY DEF decode
<1>2. IsTuple(tx.ixs) /\ Len(tx.ixs) \in Nat /\ DOMAIN tx.ixs = 1..Len(tx.ixs)
  BY TupleDomain DEF WellFormed
<1>3. IsTuple(list) /\ Len(list) = Len(tx.ixs)
  <2> HIDE DEF ix
  <2>1. list \in Seq({ix(i) : i \in 1..Len(tx.ixs)}) /\ Len(list) = Len(tx.ixs)
    BY <1>2, TupleIn
  <2> QED
    BY <2>1 DEF IsTuple
<1>4. Listed(list) = list
  <2> HIDE DEF list
  <2> QED
    BY <1>3, ListedTuple
<1>5. ASSUME NEW i \in 1..Len(tx.ixs)
      PROVE  /\ s.instructions[i].program = KeyAt(tx, tx.ixs[i].program)
             /\ s.instructions[i].data = tx.ixs[i].data
             /\ IsTuple(s.instructions[i].accounts) /\ Len(s.instructions[i].accounts) = Len(tx.ixs[i].accounts)
             /\ \A k \in 1..Len(tx.ixs[i].accounts) :
                  tx.ixs[i].accounts[k] \in 1..Len(keys) /\ s.instructions[i].accounts[k] = keys[tx.ixs[i].accounts[k]]
  <2> DEFINE named == tx.ixs[i].accounts
  <2>1. s.instructions[i] = ix(i)
    <3> HIDE DEF ix
    <3> QED
      BY <1>1, <1>2, <1>4
  <2>2. IsTuple(named) /\ Len(named) \in Nat /\ DOMAIN named = 1..Len(named)
    BY <1>2, TupleDomain DEF WellFormed
  <2>3. accounts(i) \in Seq({keys[named[k]] : k \in 1..Len(named)}) /\ Len(accounts(i)) = Len(named)
    <3> HIDE DEF keys, named
    <3> QED
      BY <2>2, TupleIn DEF named
  <2>4. IsTuple(accounts(i))
    BY <2>3 DEF IsTuple
  <2>5. Listed(accounts(i)) = accounts(i)
    <3> HIDE DEF accounts
    <3> QED
      BY <2>4, ListedTuple
  <2>6. s.instructions[i].program = KeyAt(tx, tx.ixs[i].program) /\ s.instructions[i].data = tx.ixs[i].data
        /\ s.instructions[i].accounts = accounts(i)
    <3> HIDE DEF accounts
    <3> QED
      BY <2>1, <2>5 DEF Instruction, KeyAt
  <2>7. \A k \in 1..Len(named) : named[k] \in 1..Len(keys)
    BY <1>1, <1>2, <2>2 DEF IndexesValid, Range
  <2> QED
    BY <2>2, <2>3, <2>4, <2>6, <2>7
<1> QED
  BY <1>1, <1>3, <1>4, <1>5 DEF Reading

\* The creation of a token account: the payer signs and is charged, the account is written, the rest is only read.
LEMMA CreateShape ==
    ASSUME NEW payer, NEW owner, NEW mint, NEW program
    PROVE  LET a == create_ata_idempotent(payer, owner, mint, program).accounts
           IN /\ IsTuple(a) /\ Len(a) = 6 /\ a[1] = SW(payer) /\ a[2] = W(ata(owner, mint, program))
              /\ \A k \in 3..6 : ~a[k].signer /\ ~a[k].writable
<1> DEFINE head == <<SW(payer), W(ata(owner, mint, program))>>
           read == <<owner, mint, System, program>>
           a == create_ata_idempotent(payer, owner, mint, program).accounts
<1>1. a = head \o Reads(read)
  BY DEF create_ata_idempotent, Instruction
<1>2. IsTuple(head) /\ Len(head) = 2 /\ head[1] = SW(payer) /\ head[2] = W(ata(owner, mint, program))
  <2>1. head \in Seq({head[1], head[2]})
    OBVIOUS
  <2> QED
    BY <2>1 DEF IsTuple
<1>3. IsTuple(read) /\ Len(read) = 4
  <2>1. read \in Seq({read[1], read[2], read[3], read[4]})
    OBVIOUS
  <2> QED
    BY <2>1 DEF IsTuple
<1> HIDE DEF head, read
<1>4. IsTuple(Reads(read)) /\ Len(Reads(read)) = 4 /\ \A k \in 1..4 : Reads(read)[k] = R(read[k])
  BY <1>3, ReadsTuple
<1>5. /\ IsTuple(a) /\ Len(a) = 6 /\ a[1] = head[1] /\ a[2] = head[2]
      /\ \A k \in 1..4 : a[2 + k] = R(read[k])
  <2> DEFINE b == head \o Reads(read)
  <2>0. IsTuple(head) /\ IsTuple(Reads(read))
    BY <1>2, <1>4
  <2>1. /\ IsTuple(b) /\ Len(b) = Len(head) + Len(Reads(read))
        /\ \A k \in 1..Len(head) : b[k] = head[k]
        /\ \A k \in 1..Len(Reads(read)) : b[Len(head) + k] = Reads(read)[k]
    BY <2>0, Concat
  <2> HIDE DEF a, b
  <2>2. a = b
    BY <1>1 DEF b
  <2> QED
    BY <1>2, <1>4, <2>1, <2>2
<1>6. \A key : ~R(key).signer /\ ~R(key).writable
  BY DEF R, Meta
<1> HIDE DEF a
<1>7. ASSUME NEW k \in 3..6
      PROVE  ~a[k].signer /\ ~a[k].writable
  <2>1. k - 2 \in 1..4 /\ k = 2 + (k - 2)
    OBVIOUS
  <2> QED
    BY <1>5, <1>6, <2>1
<1> QED
  BY <1>2, <1>5, <1>7 DEF a

\* An instruction of the list before the open.
Preparation(ix, intent, open) ==
    \/ ix.program \in {ComputeBudget, Ed25519} /\ ix.accounts = <<>>
    \/ ix = CollateralAta(intent, open)[1]
    \/ intent.op = "Fill" /\ ix = TakerAta(intent)[1]

\* The list the message is compared with.
Expected(ixs, intent, open) ==
    /\ Len(ixs) \in Nat \ {0} /\ DOMAIN ixs = 1..Len(ixs)
    /\ ixs[Len(ixs)] = open.instruction
    /\ \A i \in 1..(Len(ixs) - 1) : Preparation(ixs[i], intent, open)

LEMMA ExpectedList ==
    ASSUME NEW intent, NEW open, NEW b1, NEW b2, NEW q,
           b1.program = ComputeBudget, b1.accounts = <<>>, b2.program = ComputeBudget, b2.accounts = <<>>,
           q.program = Ed25519, q.accounts = <<>>
    PROVE  Expected(<<b1, b2>> \o TakerAta(intent) \o CollateralAta(intent, open) \o <<q, open.instruction>>,
                    intent, open)
<1> DEFINE c == CollateralAta(intent, open)[1]
           t == TakerAta(intent)[1]
           o == open.instruction
           ixs == <<b1, b2>> \o TakerAta(intent) \o CollateralAta(intent, open) \o <<q, o>>
<1>1. CollateralAta(intent, open) = <<c>>
  BY DEF CollateralAta
<1>2. CASE intent.op = "Fill"
  <2>1. TakerAta(intent) = <<t>>
    BY <1>2 DEF TakerAta
  <2> HIDE DEF c, t, o
  <2>3. /\ Len(ixs) = 6 /\ DOMAIN ixs = 1..6 /\ ixs[6] = o
        /\ ixs[1] = b1 /\ ixs[2] = b2 /\ ixs[3] = t /\ ixs[4] = c /\ ixs[5] = q
    BY <1>1, <2>1
  <2> HIDE DEF ixs
  <2>4. Preparation(b1, intent, open) /\ Preparation(b2, intent, open) /\ Preparation(q, intent, open)
        /\ Preparation(t, intent, open) /\ Preparation(c, intent, open)
    BY <1>2 DEF Preparation, c, t
  <2>5. \A i \in 1..5 : Preparation(ixs[i], intent, open)
    BY <2>3, <2>4
  <2> QED
    BY <2>3, <2>5 DEF Expected, ixs, o
<1>3. CASE intent.op # "Fill"
  <2>1. TakerAta(intent) = <<>>
    BY <1>3 DEF TakerAta
  <2> HIDE DEF c, o
  <2>3. /\ Len(ixs) = 5 /\ DOMAIN ixs = 1..5 /\ ixs[5] = o
        /\ ixs[1] = b1 /\ ixs[2] = b2 /\ ixs[3] = c /\ ixs[4] = q
    BY <1>1, <2>1
  <2> HIDE DEF ixs
  <2>4. Preparation(b1, intent, open) /\ Preparation(b2, intent, open) /\ Preparation(q, intent, open)
        /\ Preparation(c, intent, open)
    BY DEF Preparation, c
  <2>5. \A i \in 1..4 : Preparation(ixs[i], intent, open)
    BY <2>3, <2>4
  <2> QED
    BY <2>3, <2>5 DEF Expected, ixs, o
<1> QED
  BY <1>2, <1>3

\* The privileges the expected list asks for.
LEMMA ExpectedMetas ==
    ASSUME NEW intent, NEW open, NEW ixs, Expected(ixs, intent, open),
           SignedBy(open.instruction.accounts, intent.keeper, Participant(intent)), NEW m \in Metas(ixs)
    PROVE  /\ m.signer => m.key \in {intent.keeper, Participant(intent)}
           /\ m.writable => m.key \in {intent.keeper} \cup MayChange(intent, open)
<1> DEFINE a == open.instruction.accounts
           Allowed(x) == /\ x.signer => x.key \in {intent.keeper, Participant(intent)}
                         /\ x.writable => x.key \in {intent.keeper} \cup MayChange(intent, open)
<1>1. PICK i \in 1..Len(ixs) : \E k \in DOMAIN ixs[i].accounts : m = ixs[i].accounts[k]
  BY DEF Metas, Expected
<1>2. PICK k \in DOMAIN ixs[i].accounts : m = ixs[i].accounts[k]
  BY <1>1
<1>3. \A key : SW(key).key = key
  BY DEF SW, Meta
<1>4. CASE i = Len(ixs)
  <2>1. m = a[k] /\ k \in DOMAIN a
    BY <1>2, <1>4 DEF Expected
  <2>2. DOMAIN a = 1..Len(a) /\ Len(a) \in Nat
    BY TupleDomain DEF SignedBy
  <2>3. m.signer => m.key \in {intent.keeper, Participant(intent)}
    <3>1. k = 1 \/ k = 2 \/ k \in 3..Len(a)
      BY <2>1, <2>2
    <3> QED
      BY <1>3, <2>1, <3>1 DEF SignedBy
  <2>4. m.writable => m.key \in MayChange(intent, open)
    BY <2>1 DEF MayChange
  <2> QED
    BY <2>3, <2>4
<1>5. ASSUME NEW owner, NEW mint, NEW program, NEW x,
             x = create_ata_idempotent(intent.keeper, owner, mint, program), ixs[i] = x,
             x.accounts[2].key \in MayChange(intent, open)
      PROVE  Allowed(m)
  <2>1. /\ IsTuple(x.accounts) /\ Len(x.accounts) = 6 /\ x.accounts[1] = SW(intent.keeper)
        /\ x.accounts[2] = W(ata(owner, mint, program))
        /\ \A n \in 3..6 : ~x.accounts[n].signer /\ ~x.accounts[n].writable
    BY <1>5, CreateShape
  <2>2. k \in 1..6 /\ m = x.accounts[k]
    BY <1>2, <1>5, <2>1, TupleDomain
  <2>3. ~W(ata(owner, mint, program)).signer
    BY DEF W, Meta
  <2>4. k = 1 \/ k = 2 \/ k \in 3..6
    BY <2>2
  <2> QED
    BY <1>3, <1>5, <2>1, <2>2, <2>3, <2>4
<1>6. CASE i \in 1..(Len(ixs) - 1)
  <2>1. Preparation(ixs[i], intent, open)
    BY <1>6 DEF Expected
  <2>2. ixs[i].accounts # <<>>
    BY <1>2
  <2>3. CASE ixs[i] = CollateralAta(intent, open)[1]
    <3> DEFINE x == CollateralAta(intent, open)[1]
    <3>1. x = create_ata_idempotent(intent.keeper, open.addresses.position, open.addresses.collateral_mint,
                                    open.addresses.collateral_token_program)
      BY DEF CollateralAta
    <3>2. x.accounts[2].key \in MayChange(intent, open)
      BY DEF MayChange
    <3> HIDE DEF x
    <3> QED
      BY <1>5, <2>3, <3>1, <3>2 DEF x
  <2>4. CASE intent.op = "Fill" /\ ixs[i] = TakerAta(intent)[1]
    <3> DEFINE x == TakerAta(intent)[1]
    <3>1. \E mint, program : x = create_ata_idempotent(intent.keeper, intent.taker, mint, program)
      BY <2>4 DEF TakerAta
    <3>2. x.accounts[2].key \in MayChange(intent, open)
      BY <2>4 DEF MayChange
    <3> HIDE DEF x
    <3> QED
      BY <1>5, <2>4, <3>1, <3>2 DEF x
  <2> QED
    BY <2>1, <2>2, <2>3, <2>4 DEF Preparation
<1>7. Len(ixs) \in Nat
  BY DEF Expected
<1> QED
  BY <1>4, <1>6, <1>7

\* The message invokes each instruction it was matched with.
LEMMA MatchedInvokes ==
    ASSUME NEW tx, NEW s, Reading(s, tx), NEW ixs, NEW payer, NEW metas, NEW i \in 1..Len(tx.ixs),
           InstructionMatches(s.instructions[i], ixs[i], payer, metas), IsTuple(ixs[i].accounts)
    PROVE  Invokes(tx, i, ixs[i])
<1> DEFINE want == ixs[i]
           named == tx.ixs[i].accounts
           keys == MessageKeys(tx, Tables)
<1>1. /\ KeyAt(tx, tx.ixs[i].program) = want.program /\ tx.ixs[i].data = want.data
      /\ Len(named) = Len(want.accounts)
  BY DEF InstructionMatches, Reading
<1>2. DOMAIN want.accounts = 1..Len(want.accounts)
  BY TupleDomain
<1>3. ASSUME NEW k \in DOMAIN want.accounts
      PROVE  KeyAt(tx, named[k]) = want.accounts[k].key
  <2>1. s.instructions[i].accounts[k] = keys[named[k]]
    BY <1>1, <1>2 DEF Reading
  <2>2. s.instructions[i].accounts[k] = Flags(want.accounts[k].key, payer, metas)
    BY DEF InstructionMatches
  <2>3. Flags(want.accounts[k].key, payer, metas).key = want.accounts[k].key
    BY DEF Flags, Meta
  <2> QED
    BY <2>1, <2>2, <2>3 DEF KeyAt
<1> QED
  BY <1>1, <1>3 DEF Invokes

LEMMA FlagsOf ==
    ASSUME NEW key, NEW payer, NEW metas
    PROVE  /\ Flags(key, payer, metas).key = key
           /\ Flags(key, payer, metas).signer <=> key = payer \/ \E m \in metas : m.key = key /\ m.signer
           /\ Flags(key, payer, metas).writable <=> key = payer \/ \E m \in metas : m.key = key /\ m.writable
BY DEF Flags, Meta

\* A message that matches the expected list does what the list says and no more.
LEMMA MatchedOpens ==
    ASSUME NEW tx, WellFormed(tx), NEW s, Reading(s, tx), NEW intent, intent.op \in IntentOps,
           NEW open \in OpenOf(intent), NEW ixs, Expected(ixs, intent, open), matches(s, intent.keeper, ixs)
    PROVE  OpensOnly(tx, open.order_id, intent)
<1> DEFINE keys == MessageKeys(tx, Tables)
           metas == Metas(ixs)
           n == Len(tx.ixs)
           a == open.instruction.accounts
           sign == {keys[k].key : k \in {i \in DOMAIN keys : keys[i].signer}}
           write == {keys[k].key : k \in {i \in DOMAIN keys : keys[i].writable}}
<1>1. /\ keys[1].key = intent.keeper
      /\ n = Len(ixs)
      /\ \A i \in DOMAIN ixs : InstructionMatches(s.instructions[i], ixs[i], intent.keeper, metas)
      /\ \A i \in DOMAIN keys : keys[i] = Flags(keys[i].key, intent.keeper, metas)
  BY DEF matches, Reading, NothingElse
<1>2. /\ SignedBy(a, intent.keeper, Participant(intent))
      /\ Trades(open.order_id, open.instruction.data, intent)
  BY OpenShape
<1>3. /\ n \in Nat \ {0} /\ DOMAIN ixs = 1..n /\ ixs[n] = open.instruction
      /\ \A i \in 1..(n - 1) : Preparation(ixs[i], intent, open)
  BY <1>1 DEF Expected
<1>4. Invokes(tx, n, open.instruction)
  <2>1. n \in 1..Len(tx.ixs) /\ n \in DOMAIN ixs
    BY <1>3
  <2>2. InstructionMatches(s.instructions[n], ixs[n], intent.keeper, metas)
    BY <1>1, <2>1
  <2>3. IsTuple(ixs[n].accounts)
    BY <1>2, <1>3 DEF SignedBy
  <2>4. Invokes(tx, n, ixs[n])
    BY <2>1, <2>2, <2>3, MatchedInvokes
  <2> QED
    BY <1>3, <2>4
<1>5. ASSUME NEW i \in 1..(n - 1)
      PROVE  Prepares(tx, i, intent, open)
  <2>1. i \in 1..Len(tx.ixs) /\ i \in DOMAIN ixs
    BY <1>3
  <2>2. InstructionMatches(s.instructions[i], ixs[i], intent.keeper, metas)
    BY <1>1, <2>1
  <2>3. CASE ixs[i].program \in {ComputeBudget, Ed25519} /\ ixs[i].accounts = <<>>
    <3>1. KeyAt(tx, tx.ixs[i].program) = ixs[i].program /\ Len(tx.ixs[i].accounts) = 0
      BY <2>1, <2>2, <2>3 DEF InstructionMatches, Reading
    <3>2. IsTuple(tx.ixs[i].accounts)
      BY <2>1, TupleDomain DEF WellFormed
    <3>3. tx.ixs[i].accounts = <<>>
      BY <3>1, <3>2 DEF IsTuple
    <3> QED
      BY <2>3, <3>1, <3>3 DEF Prepares
  <2>4. CASE ixs[i] = CollateralAta(intent, open)[1]
    <3>1. IsTuple(ixs[i].accounts)
      BY <2>4, CreateShape DEF CollateralAta
    <3>2. Invokes(tx, i, ixs[i])
      BY <2>1, <2>2, <3>1, MatchedInvokes
    <3> QED
      BY <2>4, <3>2 DEF Prepares
  <2>5. CASE intent.op = "Fill" /\ ixs[i] = TakerAta(intent)[1]
    <3>1. IsTuple(ixs[i].accounts)
      BY <2>5, CreateShape DEF TakerAta
    <3>2. Invokes(tx, i, ixs[i])
      BY <2>1, <2>2, <3>1, MatchedInvokes
    <3> QED
      BY <2>5, <3>2 DEF Prepares
  <2> QED
    BY <1>3, <2>3, <2>4, <2>5 DEF Preparation
<1>6. \A m \in metas : /\ m.signer => m.key \in {intent.keeper, Participant(intent)}
                       /\ m.writable => m.key \in {intent.keeper} \cup MayChange(intent, open)
  BY <1>2, ExpectedMetas
<1>7. sign \subseteq {intent.keeper, Participant(intent)}
  BY <1>1, <1>6, FlagsOf
<1>8. write \subseteq {intent.keeper} \cup MayChange(intent, open)
  BY <1>1, <1>6, FlagsOf
<1>9. intent.keeper \in sign /\ Participant(intent) \in sign
  <2>1. DOMAIN keys = 1..Len(keys) /\ Len(keys) \in Nat
    BY TupleDomain DEF WellFormed
  <2>2. 2 \in DOMAIN a /\ 2 \in 1..Len(a) /\ a[2].key = Participant(intent) /\ a[2].signer
    <3>1. DOMAIN a = 1..Len(a) /\ Len(a) \in Nat /\ Len(a) >= 2 /\ a[2] = SW(Participant(intent))
      BY <1>2, TupleDomain DEF SignedBy
    <3>2. SW(Participant(intent)).key = Participant(intent) /\ SW(Participant(intent)).signer
      BY DEF SW, Meta
    <3> QED
      BY <3>1, <3>2
  <2>3. a[2] \in metas
    BY <1>3, <2>2 DEF Metas
  <2>4. Len(tx.ixs[n].accounts) = Len(a) /\ KeyAt(tx, tx.ixs[n].accounts[2]) = Participant(intent)
    BY <1>4, <2>2 DEF Invokes
  <2>5. tx.ixs[n].accounts[2] \in DOMAIN keys
    BY <1>3, <2>1, <2>2, <2>4 DEF Reading
  <2>6. keys[tx.ixs[n].accounts[2]].key = Participant(intent) /\ keys[tx.ixs[n].accounts[2]].signer
    BY <1>1, <2>2, <2>3, <2>4, <2>5, FlagsOf DEF KeyAt
  <2>7. 1 \in DOMAIN keys
    BY <2>1, <2>5
  <2>8. keys[1].signer
    BY <1>1, <2>7, FlagsOf
  <2> QED
    BY <1>1, <2>5, <2>6, <2>7, <2>8
<1>10. sign = {intent.keeper, Participant(intent)}
  BY <1>7, <1>9
<1> HIDE DEF sign, write, n
<1>11. n > 0
  BY <1>3
<1> QED
  BY <1>2, <1>4, <1>5, <1>8, <1>10, <1>11 DEF OpensOnly, sign, write, n

\* verify_vault_open, for every message, intent, set of tables and bounds: what it lets through is the intent's open.
LEMMA VerifiedOpens ==
    ASSUME NEW tx, WellFormed(tx), NEW order, NEW intent, intent.op \in IntentOps,
           verify_vault_open(tx, order, intent, Tables, Bounds)
    PROVE  OpensOnly(tx, order, intent)
<1>1. PICK s \in decode(tx, Tables) : \E open \in OpenOf(intent) : \E budget \in compute_budget(s, Bounds) :
        \E setup \in {budget \o TakerAta(intent) \o CollateralAta(intent, open)} :
          /\ open.order_id = order
          /\ \E quote \in quote_signature(s, Len(setup) + 1, QuoteSigner(intent), open.order_id) :
               \E ixs \in {setup \o <<quote, open.instruction>>} : matches(s, intent.keeper, ixs)
  BY DEF verify_vault_open
<1>2. PICK open \in OpenOf(intent), budget \in compute_budget(s, Bounds) :
        \E setup \in {budget \o TakerAta(intent) \o CollateralAta(intent, open)} :
          /\ open.order_id = order
          /\ \E quote \in quote_signature(s, Len(setup) + 1, QuoteSigner(intent), open.order_id) :
               \E ixs \in {setup \o <<quote, open.instruction>>} : matches(s, intent.keeper, ixs)
  BY <1>1
<1> DEFINE setup == budget \o TakerAta(intent) \o CollateralAta(intent, open)
<1>3. /\ open.order_id = order
      /\ \E quote \in quote_signature(s, Len(setup) + 1, QuoteSigner(intent), open.order_id) :
           matches(s, intent.keeper, setup \o <<quote, open.instruction>>)
  BY <1>2
<1>4. PICK quote \in quote_signature(s, Len(setup) + 1, QuoteSigner(intent), open.order_id) :
           matches(s, intent.keeper, setup \o <<quote, open.instruction>>)
  BY <1>3
<1>5. Reading(s, tx)
  BY DecodeReads
<1> DEFINE b1 == s.instructions[1]
           b2 == s.instructions[2]
<1>6. /\ budget = SubSeq(s.instructions, 1, 2) /\ Len(s.instructions) >= 2
      /\ b1.program = ComputeBudget /\ b1.accounts = <<>> /\ b2.program = ComputeBudget /\ b2.accounts = <<>>
  BY DEF compute_budget
<1>7. budget = <<b1, b2>>
  <2>1. PICK S : s.instructions \in Seq(S)
    BY <1>5 DEF Reading, IsTuple
  <2>2. SubSeq(s.instructions, 1, 2) = <<b1, b2>>
    <3>1. Len(s.instructions) \in Nat
      BY <2>1
    <3>2. 1 \in 1..Len(s.instructions)+1 /\ 2 \in 0..Len(s.instructions) /\ b1 \in S /\ b2 \in S
      BY <1>6, <2>1, <3>1
    <3>3. /\ SubSeq(s.instructions, 1, 2) \in Seq(S) /\ Len(SubSeq(s.instructions, 1, 2)) = 2
          /\ SubSeq(s.instructions, 1, 2)[1] = b1 /\ SubSeq(s.instructions, 1, 2)[2] = b2
      BY <1>6, <2>1, <3>1
    <3>4. <<b1, b2>> \in Seq(S) /\ Len(<<b1, b2>>) = 2
      BY <3>2
    <3>5. \A i \in 1..2 : SubSeq(s.instructions, 1, 2)[i] = <<b1, b2>>[i]
      BY <3>3
    <3> QED
      BY <3>3, <3>4, <3>5, SeqEqual
  <2> QED
    BY <1>6, <2>2
<1>8. quote.program = Ed25519 /\ quote.accounts = <<>>
  BY DEF quote_signature
<1> HIDE DEF b1, b2
<1>9. Expected(setup \o <<quote, open.instruction>>, intent, open)
  BY <1>6, <1>7, <1>8, ExpectedList
<1> HIDE DEF setup
<1> QED
  BY <1>3, <1>4, <1>5, <1>9, MatchedOpens

\* An intent is a sale's, a fill's or a buy's.
LEMMA IntentKinds ==
    ASSUME NEW j, j.op # "Sale" => j.intent.op \in {"Fill", "Buy"}, NEW quote, NEW intent \in Intents(j, quote)
    PROVE  intent.op \in IntentOps
<1>1. CASE j.op = "Sale"
  BY <1>1 DEF Intents, sale_intent, IntentOps
<1>2. CASE j.op # "Sale"
  BY <1>2 DEF Intents, IntentOps
<1> QED
  BY <1>1, <1>2

\* verify_and_sign_sponsored_tx: let what passes the verification of a sale, a fill or a buy be what verify_vault_open
\* accepts for the quote it comes with.  Then whatever the operator signs, in every interleaving of quotes, served
\* transactions and reconnects, and whatever the message's keys, tables and instructions, is the agreed open and its
\* preparation and nothing else: the agreed size, price, strike and parties under the quote's order, no signer but
\* keeper and operator, and no account written that the open does not write.
THEOREM SignedOpens ==
    ASSUME NEW CONSTANT j, j.op # "Sale" => j.intent.op \in {"Fill", "Buy"}, NEW CONSTANT messages
    PROVE  /\ Started /\ [][Next]_vars
           /\ \A v \in job.passes : WellFormed(messages[v]) /\ Signs(j, j.quotes[v[1]], messages[v])
           => [](signed # NoTx => OpensFor(j, j.quotes[signed[1]], messages[signed]))
<1> DEFINE Verified(v) == WellFormed(messages[v]) /\ Signs(j, j.quotes[v[1]], messages[v])
           Inv == (\A v \in job.passes : Verified(v)) /\ (signed # NoTx => signed \in job.passes)
<1>1. Started /\ (\A v \in job.passes : Verified(v)) => Inv
  BY DEF Started
<1>2. Inv /\ [Next]_vars => Inv'
  <2> HIDE DEF Verified
  <2> QED
    BY SignsVerified
<1>3. Inv => (signed # NoTx => OpensFor(j, j.quotes[signed[1]], messages[signed]))
  <2> SUFFICES ASSUME Verified(signed)
               PROVE  OpensFor(j, j.quotes[signed[1]], messages[signed])
    OBVIOUS
  <2> DEFINE quote == j.quotes[signed[1]]
             tx == messages[signed]
  <2>1. PICK intent \in Intents(j, quote) :
          Participates(intent) /\ verify_vault_open(tx, quote.order_id, intent, Tables, Bounds)
    BY DEF Signs
  <2>2. intent.op \in IntentOps
    BY IntentKinds
  <2>3. OpensOnly(tx, quote.order_id, intent)
    BY <2>1, <2>2, VerifiedOpens
  <2> QED
    BY <2>1, <2>3 DEF OpensFor
<1> QED
  BY <1>1, <1>2, <1>3, PTL
=============================================================================
