---------------------------- MODULE Confirmation ----------------------------
(***************************************************************************)
(* ChainClient::confirm_signatures (chain/confirmation.rs): what became of *)
(* sent transactions, heard from a node's signature subscriptions and then *)
(* from one pass over the status of those still open.  The node assigns    *)
(* its own subscription numbers, answers subscriptions in any order, and   *)
(* may notify of a signature before it answers.                            *)
(***************************************************************************)
EXTENDS Integers, Sequences, FiniteSets

CONSTANT Chunk   \* 256: signatures in one status request

ASSUME ChunkAssumption == Chunk \in Nat \ {0}

VARIABLES txs,    \* the chain, by signature: a sequence of [status, ...]
          conf,   \* the call: [at, sigs, results, subs, early, read]
          node,   \* the node's side of the socket: [asked, subs, told, wire]
          faults  \* failures that may still happen

NoConf == [at |-> "None", sigs |-> <<>>, results |-> <<>>, subs |-> {}, early |-> {}, read |-> <<>>]
NoNode == [asked |-> {}, subs |-> {}, told |-> {}, wire |-> {}]

Fails == faults > 0 /\ faults' = faults - 1

Final == {"Confirmed", "Failed"}

\* Mutant of StatusOf: a transaction that is only processed counts.
StatusOfAny(s) == IF txs[s].status = "Processed" THEN "Confirmed"
                  ELSE IF txs[s].status \in Final THEN txs[s].status ELSE "Pending"

\* signature_statuses of one signature: below the client's commitment it is still pending.
StatusOf(s) == IF txs[s].status \in Final THEN txs[s].status ELSE "Pending"

\* confirm_signatures: nothing to confirm returns at once.
Confirming(sigs) ==
    [NoConf EXCEPT !.at = IF sigs = <<>> THEN "Done" ELSE "Connecting", !.sigs = sigs,
                   !.results = [i \in DOMAIN sigs |-> "Pending"]]

\* The signatures still open, and the place of each in their order.
Open(c) == {i \in DOMAIN c.results : c.results[i] = "Pending"}
Place(c, i) == Cardinality({j \in Open(c) : j <= i})

\* The subscription ended, with whatever it heard: an error of it is not the caller's.
Unheard(c) == [c EXCEPT !.at = IF Open(c) = {} THEN "Done" ELSE "Pass", !.subs = {}, !.early = {}]

\* The socket opens and every signature is subscribed to; or an error or the deadline comes first.  Nothing is heard
\* before the last subscription is written.
Subscribe ==
    /\ conf.at = "Connecting"
    /\ \/ conf' = [conf EXCEPT !.at = "Listening"] /\ node' = [NoNode EXCEPT !.asked = DOMAIN conf.sigs]
       \/ conf' = Unheard(conf) /\ UNCHANGED node
    /\ UNCHANGED <<txs, faults>>

\* Heard everything.
Heard(c) == IF Open(c) = {} THEN Unheard(c) ELSE c

Result(c, i, status) == Heard([c EXCEPT !.results[i] = status])

\* Mutant of IndexOf: answers are taken to come in the order of the requests.
IndexOfNext(m) == Cardinality({i \in DOMAIN conf.sigs : conf.results[i] # "Pending"}) + Cardinality(conf.subs) + 1

\* An answer names its request.
IndexOf(m) == m.id

\* The answer to a subscription: its notification may have come before.
HearAnswer ==
    /\ conf.at = "Listening"
    /\ \E m \in node.wire :
         /\ m.type = "Answer"
         /\ LET early == {e \in conf.early : e[1] = m.sub}
                c == [conf EXCEPT !.early = @ \ early]
            IN conf' = IF early = {} THEN [conf EXCEPT !.subs = @ \cup {<<m.sub, IndexOf(m)>>}]
                       ELSE Result(c, IndexOf(m), (CHOOSE e \in early : TRUE)[2])
         /\ node' = IF conf'.at = "Listening" THEN [node EXCEPT !.wire = @ \ {m}] ELSE NoNode
    /\ UNCHANGED <<txs, faults>>

\* A notification: of a known subscription, or kept for its answer while there is room.
HearNotification ==
    /\ conf.at = "Listening"
    /\ \E m \in node.wire :
         /\ m.type = "Notification"
         /\ LET known == {s \in conf.subs : s[1] = m.sub}
            IN conf' = IF known # {}
                       THEN Result([conf EXCEPT !.subs = @ \ known], (CHOOSE s \in known : TRUE)[2], m.status)
                       ELSE IF Cardinality(conf.early) >= Len(conf.sigs) THEN Unheard(conf)
                       ELSE [conf EXCEPT !.early = @ \cup {<<m.sub, m.status>>}]
         /\ node' = IF conf'.at = "Listening" THEN [node EXCEPT !.wire = @ \ {m}] ELSE NoNode
    /\ UNCHANGED <<txs, faults>>

\* The deadline; or an error, a message that cannot be read or a close from the node.
StopListening ==
    /\ conf.at = "Listening"
    /\ conf' = Unheard(conf) /\ node' = NoNode
    /\ UNCHANGED <<txs, faults>>

\* The results of the pass, by place among the signatures still open.
Merged(c, read) == [i \in DOMAIN c.results |-> IF i \in Open(c) THEN read[Place(c, i)] ELSE c.results[i]]

\* What a status request says of the signatures at the next places.
Chunked(c) ==
    LET left == Cardinality(Open(c)) - Len(c.read)
        at(k) == CHOOSE i \in Open(c) : Place(c, i) = Len(c.read) + k
    IN [k \in 1..(IF left < Chunk THEN left ELSE Chunk) |-> StatusOf(c.sigs[at(k)])]

\* One status request of the pass; its answers count once all are in.
ReadStatuses ==
    /\ conf.at = "Pass"
    /\ LET read == conf.read \o Chunked(conf)
       IN \/ /\ Len(read) < Cardinality(Open(conf))
             /\ conf' = [conf EXCEPT !.read = read]
             /\ UNCHANGED faults
          \/ /\ Len(read) = Cardinality(Open(conf))
             /\ conf' = [conf EXCEPT !.at = "Done", !.read = <<>>, !.results = Merged(conf, read)]
             /\ UNCHANGED faults
          \/ Fails /\ conf' = [conf EXCEPT !.at = "Error", !.read = <<>>]
    /\ UNCHANGED <<txs, node>>

-----------------------------------------------------------------------------
(* The node. *)

NodeAnswers ==
    /\ \E i \in node.asked :
         LET sub == Cardinality(node.subs) + 1
         IN node' = [node EXCEPT !.asked = @ \ {i}, !.subs = @ \cup {<<sub, conf.sigs[i]>>},
                                 !.wire = @ \cup {[type |-> "Answer", id |-> i, sub |-> sub]}]
    /\ UNCHANGED <<txs, conf, faults>>

Told(sub, status) == [type |-> "Notification", sub |-> sub, status |-> status]

\* At the commitment subscribed to; or, by fault, of a subscription this socket has not made.
NodeNotifies ==
    /\ \/ \E s \in node.subs :
            /\ s[1] \notin node.told /\ txs[s[2]].status \in Final
            /\ node' = [node EXCEPT !.told = @ \cup {s[1]}, !.wire = @ \cup {Told(s[1], txs[s[2]].status)}]
            /\ UNCHANGED faults
       \/ /\ conf.at = "Listening" /\ Fails
          /\ node' = [node EXCEPT !.wire = @ \cup {Told(0, "Confirmed")}]
    /\ UNCHANGED <<txs, conf>>

ConfirmNext == Subscribe \/ HearAnswer \/ HearNotification \/ StopListening \/ ReadStatuses \/ NodeAnswers \/ NodeNotifies

-----------------------------------------------------------------------------
\* What is reported of a transaction is what became of it, whichever came first of answer and notification, however
\* they crossed, and in whichever chunk it was read: results[index] (confirm_signatures, subscribe_signatures).
ConfirmationIsTrue ==
    \A i \in DOMAIN conf.results : conf.results[i] \in {"Pending", txs[conf.sigs[i]].status}
=============================================================================
