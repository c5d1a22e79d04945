---------------------------- MODULE MCCommandPath ----------------------------
(* CommandPath on a few calls of each kind. *)
EXTENDS CommandPath

\* Two attempts to send the same quote, which share a correlation key, and a
\* cancellation that follows them on the data lane.
QuoteCalls == {"quote", "requote", "cancel_quote"}
QuoteAwaits == {"quote", "requote"}
QuoteKeys == [c \in QuoteAwaits |-> "order"]

\* Two subscription changes, one awaited and one sent.
ChangeCalls == {"subscribe", "unsubscribe"}
ChangeAwaits == {"subscribe"}
ChangeKeys == [c \in ChangeAwaits |-> "request"]

\* A query that may be queued before the session is ready, and a message of the
\* control lane.
MixedCalls == {"get_markets", "cancel_rfq"}
MixedAwaits == {"get_markets"}
MixedFenced == {"cancel_rfq"}
MixedKeys == [c \in MixedAwaits |-> "request"]
==============================================================================
