----------------------------- MODULE AwaitTracker -----------------------------
(***************************************************************************)
(* The table of requests that await a response: an entry per await id, and *)
(* an index from correlation keys to await ids.  Every client message that *)
(* can be awaited has exactly one correlation key, so the key vector of a  *)
(* registration is the key itself here.                                    *)
(***************************************************************************)
EXTENDS Naturals, FiniteSets, Functions

CONSTANT MaxPending  \* config.max_pending_awaits

ASSUME MaxPendingAssumption == MaxPending \in Nat \ {0}

\* by_id: await id -> correlation key of its PendingAwait; by_key: the index.
Empty == [by_id |-> <<>>, by_key |-> <<>>]

Pending(t) == DOMAIN t.by_id

Without(f, S) == Restrict(f, DOMAIN f \ S)
With(f, x, v) == [y \in DOMAIN f \cup {x} |-> IF y = x THEN v ELSE f[y]]

\* Mutant of cancel: the key stays in the index.
CancelKeepsKey(t, id) ==
    IF id \in Pending(t) THEN [t EXCEPT !.by_id = Without(t.by_id, {id})] ELSE t

\* cancel: the entry goes, and so does its key in the index.
cancel(t, id) ==
    IF id \in Pending(t)
    THEN [by_id |-> Without(t.by_id, {id}), by_key |-> Without(t.by_key, {t.by_id[id]})]
    ELSE t

\* prune_closed: cancel every entry whose caller has gone.
prune_closed(t, closed) ==
    LET gone == Pending(t) \cap closed IN
    [by_id |-> Without(t.by_id, gone), by_key |-> Without(t.by_key, {t.by_id[id] : id \in gone})]

Full(t) == Cardinality(Pending(t)) >= MaxPending
Taken(t, key) == key \in DOMAIN t.by_key

\* Mutant of register: entries whose callers have gone are not looked for.
RegisterWithoutPrune(t, id, key, closed) ==
    IF Full(t) THEN [tracker |-> t, result |-> "TooManyPending"]
    ELSE IF Taken(t, key) THEN [tracker |-> t, result |-> "DuplicateInFlight"]
    ELSE [tracker |-> [by_id  |-> With(t.by_id, id, key),
                       by_key |-> With(t.by_key, key, id)],
          result  |-> "ok"]

\* register: closed entries are looked for only when one might be in the way.
register(t, id, key, closed) ==
    LET pruned == IF Full(t) \/ Taken(t, key) THEN prune_closed(t, closed) ELSE t IN
    IF Full(pruned) THEN [tracker |-> pruned, result |-> "TooManyPending"]
    ELSE IF Taken(pruned, key) THEN [tracker |-> pruned, result |-> "DuplicateInFlight"]
    ELSE [tracker |-> [by_id  |-> With(pruned.by_id, id, key),
                       by_key |-> With(pruned.by_key, key, id)],
          result  |-> "ok"]

\* The index and the entries agree, and the table respects its limit.
Consistent(t) ==
    /\ Cardinality(Pending(t)) <= MaxPending
    /\ DOMAIN t.by_key = {t.by_id[id] : id \in Pending(t)}
    /\ \A id \in Pending(t) : t.by_key[t.by_id[id]] = id
==============================================================================
