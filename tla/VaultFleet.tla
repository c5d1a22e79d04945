----------------------------- MODULE VaultFleet -----------------------------
(***************************************************************************)
(* The vault fleet (ws/vault/fleet.rs): a task that follows the server's   *)
(* vault catalog over a WebSocket feed (ws/client.rs) and, whenever it     *)
(* changed, lists the operator's vaults page by page over HTTP             *)
(* (http/mod.rs, paging.rs).  What it publishes is what an operator with   *)
(* many vaults trades by.                                                  *)
(*                                                                         *)
(* Deadlines are countdowns, so time needs no bound: a deadline is the     *)
(* ticks left, and Off when none is set.  A tick passes only when nothing  *)
(* the task could handle is ready.                                         *)
(***************************************************************************)
EXTENDS Integers, Sequences, FiniteSets, Functions, FiniteSetsExt

CONSTANTS MaxVault,     \* vaults are 1..MaxVault, listed in this order, one to a page
          Bound,        \* VaultFleetConfig.timeout
          Retry,        \* VaultFleetConfig.retry
          MaxDelay,     \* MAX_INTERVAL
          MaxChanges,   \* bound on changes of the catalog
          MaxFaults,    \* bound on refusals, losses and errors
          MaxSlow       \* bound on ticks that pass while the server owes an answer

ASSUME FleetAssumption ==
    /\ {MaxVault, Bound, Retry, MaxDelay} \subseteq Nat \ {0}
    /\ Retry <= MaxDelay
    /\ {MaxChanges, MaxFaults, MaxSlow} \subseteq Nat

VARIABLES catalog,    \* the vaults whose delegate is the operator, on the server
          task,       \* [at, wait, delay]: where the task is, the ticks of the wait it is in, the next sleep
          sess,       \* [probe, silent, relist, wanted] of session
          listing,    \* the listing in flight: <<>>, or one [cursor, seen, got, etag, reply, timeout, done]
          cache,      \* the HTTP client's cached pages by cursor
          published,  \* the watch channel: [kind, vaults]
          conn,       \* the connection: [link, sent, inbox, stage]
          left,       \* [changes, faults, slow] that may still happen
          heard       \* ticks since the task last read a message

vars == <<catalog, task, sess, listing, cache, published, conn, left, heard>>

Vaults == 1..MaxVault
Off == -1
Start == 0
Idle == [probe |-> Off, silent |-> Bound, relist |-> Off, wanted |-> FALSE]
NoConn == [link |-> "Down", sent |-> <<>>, inbox |-> <<>>, stage |-> "None"]
Failed == [kind |-> "Failed", vaults |-> {}]

-----------------------------------------------------------------------------
(* Listing: HttpClient::delegated_vaults over paging::fetch_all. *)

\* The page after a cursor: the next vault, and where to go on if there are more.
Page(after) ==
    LET rest == {v \in catalog : v > after}
    IN IF rest = {} THEN [vaults |-> {}, next |-> Start]
       ELSE [vaults |-> {Min(rest)}, next |-> IF Cardinality(rest) > 1 THEN Min(rest) ELSE Start]

\* A request carries the ETag of the page cached for its path; a tag is as good as the page it stands for.
Ask(cursor, seen, got, timeout) ==
    [cursor |-> cursor, seen |-> seen, got |-> got, etag |-> cache[cursor], reply |-> <<>>, timeout |-> timeout,
     done |-> "No"]

\* Top of the loop: a wanted listing starts once none is in flight.  Only what sets wanted or ends a listing can cause it.
Top(s, l) ==
    IF s.wanted /\ l = <<>>
    THEN /\ sess' = [s EXCEPT !.wanted = FALSE, !.relist = Off]
         /\ listing' = <<Ask(Start, {}, {}, Bound)>>
    ELSE sess' = s /\ listing' = l

\* fetch_all after a page: done without a cursor; a repeated one is an error (an empty one is among the errors of
\* Fault); else the next page is asked for.
advance(l, page) ==
    LET got == l.got \cup page.vaults
    IN IF page.next = Start THEN [l EXCEPT !.done = "Ok", !.got = got, !.reply = <<>>]
       ELSE IF page.next \in l.seen THEN [l EXCEPT !.done = "Failed", !.reply = <<>>]
       ELSE Ask(page.next, l.seen \cup {page.next}, got, l.timeout)

\* HttpClient::get on an answer; any page's failure is the listing's.  A page that comes without an ETag is not cached.
ReadPage ==
    /\ task.at = "Loop" /\ conn.inbox = <<>>
    /\ \E l \in Range(listing) :
         /\ l.done = "No" /\ l.reply # <<>>
         /\ \E r \in Range(l.reply) :
              \/ /\ r.status = "Error"
                 /\ listing' = <<[l EXCEPT !.done = "Failed", !.reply = <<>>]>>
                 /\ UNCHANGED cache
              \/ /\ r.status # "Error"
                 /\ \E page \in IF r.status = "NotModified" THEN Range(cache[l.cursor]) ELSE {r.page} :
                      /\ cache' \in {cache, [cache EXCEPT ![l.cursor] = <<page>>]}
                      /\ listing' = <<advance(l, page)>>
    /\ UNCHANGED <<catalog, task, sess, published, conn, left, heard>>

-----------------------------------------------------------------------------
(* Session. *)

next_reconnect_delay(delay) == Min({2 * delay, MaxDelay})

\* The session ended with an error: it and the listing in flight are dropped, and follow sleeps.
FeedFails ==
    /\ published' = Failed
    /\ task' = [at |-> "Asleep", wait |-> task.delay, delay |-> next_reconnect_delay(task.delay)]
    /\ sess' = Idle /\ listing' = <<>> /\ conn' = NoConn

\* A write within the bound: it goes out; on a link that is dead or down it is lost, or fails, or blocks.
Write(c, message, t) ==
    \/ c.link = "Up" /\ conn' = [c EXCEPT !.sent = Append(@, message)] /\ task' = t
    \/ c.link # "Up" /\ conn' = c /\ task' = t
    \/ c.link = "Mute" /\ conn' = c /\ task' = [t EXCEPT !.at = "Blocked", !.wait = Bound]

WriteFails(c) == c.link # "Up"

Wake ==
    /\ task.at = "Asleep" /\ task.wait = 0
    /\ task' = [task EXCEPT !.at = "Connecting", !.wait = Bound]
    /\ UNCHANGED <<catalog, sess, listing, cache, published, conn, left, heard>>

\* The connection is there: Hello goes out.  If that write fails the connection might as well have been refused, and if
\* it blocks the link might as well go dead after it.
Connected ==
    /\ task.at = "Connecting"
    /\ task' = [task EXCEPT !.at = "Welcome", !.wait = Bound]
    /\ conn' = [link |-> "Up", sent |-> <<"Hello">>, inbox |-> <<>>, stage |-> "None"]
    /\ UNCHANGED <<catalog, sess, listing, cache, published, left, heard>>

\* validate_welcome, then StartAuth.
Welcomed ==
    /\ task.at = "Welcome" /\ conn.inbox # <<>>
    /\ LET c == [conn EXCEPT !.inbox = Tail(@)]
       IN \/ /\ Head(conn.inbox) = "Welcome"
             /\ Write(c, "StartAuth", [task EXCEPT !.at = "Loop", !.wait = 0])
             /\ heard' = 0
             /\ UNCHANGED <<sess, listing, published>>
          \/ /\ Head(conn.inbox) # "Welcome" \/ WriteFails(c)
             /\ FeedFails
             /\ UNCHANGED heard
    /\ UNCHANGED <<catalog, cache, left>>

\* connect, welcome or a write took longer than the bound.
WithinExpired ==
    /\ task.at \in {"Connecting", "Welcome", "Blocked"} /\ task.wait = 0
    /\ FeedFails
    /\ UNCHANGED <<catalog, cache, left, heard>>

\* What a message makes the session write.
Answers == [AuthRequest |-> "AuthChallenge", AuthSuccess |-> "Subscribe"]
Fatal == {"Closed", "Unreadable", "VersionMismatch", "AuthError", "BadChallenge", "RequestError"}

\* Mutant of Noticed: a change heard while a listing is in flight is taken to be in it.
NoticedIdle(s) == [s EXCEPT !.wanted = listing = <<>>]

\* A catalog change asks for a listing, also while one is in flight.
Noticed(s) == [s EXCEPT !.wanted = TRUE]

\* A message while a probe is scheduled shows that the feed is alive.
Receive ==
    /\ task.at = "Loop" /\ conn.inbox # <<>>
    /\ LET m == Head(conn.inbox)
           c == [conn EXCEPT !.inbox = Tail(@)]
           s == IF sess.probe = Off THEN sess ELSE [sess EXCEPT !.silent = 2 * Bound]
       IN \/ /\ m \in Fatal \/ (m \in DOMAIN Answers /\ WriteFails(c))
             /\ FeedFails
             /\ UNCHANGED heard
          \/ /\ m \in DOMAIN Answers
             /\ Write(c, Answers[m], task)
             /\ sess' = s /\ heard' = 0
             /\ UNCHANGED <<listing, published>>
          \/ /\ m = "SubscribeAck"
             /\ task' = [task EXCEPT !.delay = Retry]
             /\ Top(Noticed([s EXCEPT !.probe = Bound, !.silent = 2 * Bound]), listing)
             /\ conn' = c /\ heard' = 0
             /\ UNCHANGED published
          \/ /\ m = "VaultCatalogChanged"
             /\ Top(Noticed(s), listing)
             /\ conn' = c /\ heard' = 0
             /\ UNCHANGED <<task, published>>
          \/ /\ m = "Pong"
             /\ sess' = s /\ conn' = c /\ heard' = 0
             /\ UNCHANGED <<task, listing, published>>
    /\ UNCHANGED <<catalog, cache, left>>

-----------------------------------------------------------------------------
(* next_event: the socket first, then the listing, the relist, the probe and the silence. *)

ListedReady == \E l \in Range(listing) : l.done # "No" \/ l.timeout = 0
HttpReady == \E l \in Range(listing) : l.done = "No" /\ l.reply # <<>>

\* Mutant of publish: a failed listing is not tried again.
PublishOnce(ok, got) ==
    /\ published' = IF ok THEN [kind |-> "Listed", vaults |-> got] ELSE Failed
    /\ Top([sess EXCEPT !.relist = Off], <<>>)

publish(ok, got) ==
    /\ published' = IF ok THEN [kind |-> "Listed", vaults |-> got] ELSE Failed
    /\ Top([sess EXCEPT !.relist = IF ok THEN Off ELSE Retry], <<>>)

Listed ==
    /\ task.at = "Loop" /\ conn.inbox = <<>>
    /\ ~HttpReady
    /\ \E l \in Range(listing) : (l.done # "No" \/ l.timeout = 0) /\ publish(l.done = "Ok", l.got)
    /\ UNCHANGED <<catalog, task, cache, conn, left, heard>>

Relist ==
    /\ task.at = "Loop" /\ conn.inbox = <<>> /\ ~ListedReady /\ ~HttpReady
    /\ sess.relist = 0
    /\ Top(Noticed(sess), listing)
    /\ UNCHANGED <<catalog, task, cache, published, conn, left, heard>>

\* Mutant of Probed: asking is taken for an answer.
ProbedAlive(s) == [s EXCEPT !.probe = Bound, !.silent = 2 * Bound]

Probed(s) == [s EXCEPT !.probe = Bound]

Probe ==
    /\ task.at = "Loop" /\ conn.inbox = <<>> /\ ~ListedReady /\ ~HttpReady
    /\ sess.relist # 0 /\ sess.probe = 0
    /\ \/ Write(conn, "Ping", task) /\ sess' = Probed(sess) /\ UNCHANGED <<listing, published>>
       \/ WriteFails(conn) /\ FeedFails
    /\ UNCHANGED <<catalog, cache, left, heard>>

Silent ==
    /\ task.at = "Loop" /\ conn.inbox = <<>> /\ ~ListedReady /\ ~HttpReady
    /\ sess.relist # 0 /\ sess.probe # 0 /\ sess.silent = 0
    /\ FeedFails
    /\ UNCHANGED <<catalog, cache, left, heard>>

\* Dropping the fleet aborts its task: the watch channel keeps its last value and closes.
DropFleet ==
    /\ task' = [at |-> "Aborted", wait |-> 0, delay |-> 0]
    /\ sess' = Idle /\ listing' = <<>> /\ conn' = NoConn
    /\ UNCHANGED <<catalog, cache, published, left, heard>>

-----------------------------------------------------------------------------
(* The server and the network. *)

Reply == [Hello |-> "Welcome", StartAuth |-> "AuthRequest", AuthChallenge |-> "AuthSuccess", Ping |-> "Pong"]
Refusal == [Hello |-> "VersionMismatch", StartAuth |-> "BadChallenge", AuthChallenge |-> "AuthError",
            Subscribe |-> "RequestError"]

Push(message) == conn' = [conn EXCEPT !.inbox = Append(@, message)]

\* A subscription is in force before it is acknowledged.
ServerAnswers ==
    /\ conn.link = "Up"
    /\ \/ /\ conn.sent # <<>> /\ Head(conn.sent) = "Subscribe"
          /\ conn' = [conn EXCEPT !.sent = Tail(@), !.stage = "Subscribed"]
       \/ /\ conn.stage = "Subscribed"
          /\ conn' = [conn EXCEPT !.stage = "Acked", !.inbox = Append(@, "SubscribeAck")]
       \/ /\ conn.sent # <<>> /\ Head(conn.sent) \in DOMAIN Reply
          /\ conn' = [conn EXCEPT !.sent = Tail(@), !.inbox = Append(@, Reply[Head(conn.sent)])]
    /\ UNCHANGED <<catalog, task, sess, listing, cache, published, left, heard>>

\* A page is read from the catalog as it is now; the same as cached is not sent again.
HttpAnswers ==
    /\ \E l \in Range(listing) :
         /\ l.done = "No" /\ l.reply = <<>>
         /\ \E page \in {Page(l.cursor)} :
              listing' = <<[l EXCEPT !.reply = <<IF l.etag = <<page>> THEN [status |-> "NotModified"]
                                                 ELSE [status |-> "Ok", page |-> page]>>]>>
    /\ UNCHANGED <<catalog, task, sess, cache, published, conn, left, heard>>

\* The catalog gains or loses a vault; who is subscribed is told.
Change ==
    /\ left.changes > 0
    /\ \E v \in Vaults : catalog' = SymDiff(catalog, {v})
    /\ left' = [left EXCEPT !.changes = @ - 1]
    /\ IF conn.link = "Up" /\ conn.stage # "None" THEN Push("VaultCatalogChanged") ELSE UNCHANGED conn
    /\ UNCHANGED <<task, sess, listing, cache, published, heard>>

\* The connection is refused, goes dead, is closed, or brings an error; a page fails.
Fault ==
    /\ left.faults > 0
    /\ left' = [left EXCEPT !.faults = @ - 1]
    /\ \/ task.at = "Connecting" /\ FeedFails
       \/ /\ conn.link = "Up"
          /\ \/ conn' = [conn EXCEPT !.link = "Mute"]
             \/ conn' = [conn EXCEPT !.link = "Down", !.inbox = Append(@, "Closed")]
             \/ Push("Unreadable")
             \/ /\ conn.sent # <<>> /\ Head(conn.sent) \in DOMAIN Refusal
                /\ conn' = [conn EXCEPT !.sent = Tail(@), !.inbox = Append(@, Refusal[Head(conn.sent)])]
          /\ UNCHANGED <<task, sess, listing, published>>
       \/ /\ \E l \in Range(listing) :
               l.done = "No" /\ l.reply = <<>> /\ listing' = <<[l EXCEPT !.reply = <<[status |-> "Error"]>>]>>
          /\ UNCHANGED <<task, sess, conn, published>>
    /\ UNCHANGED <<catalog, cache, heard>>

\* What the server has to do now, and what the task has.
ServerOwes ==
    \/ task.at = "Connecting"
    \/ conn.link = "Up" /\ (conn.sent # <<>> \/ conn.stage = "Subscribed")
    \/ \E l \in Range(listing) : l.done = "No" /\ l.reply = <<>>

TaskReady ==
    \/ task.at \in {"Asleep", "Connecting", "Welcome", "Blocked"} /\ task.wait = 0
    \/ task.at \in {"Welcome", "Loop"} /\ conn.inbox # <<>>
    \/ task.at = "Loop" /\ (ListedReady \/ HttpReady \/ 0 \in {sess.relist, sess.probe, sess.silent})

Less(n) == IF n > 0 THEN n - 1 ELSE n

Tick ==
    /\ ~TaskReady
    /\ ServerOwes => left.slow > 0
    /\ left' = [left EXCEPT !.slow = IF ServerOwes THEN @ - 1 ELSE @]
    /\ task' = [task EXCEPT !.wait = Less(@)]
    /\ sess' = IF task.at = "Asleep" THEN sess
               ELSE [sess EXCEPT !.probe = Less(@), !.silent = Less(@), !.relist = Less(@)]
    /\ listing' = [i \in DOMAIN listing |-> [listing[i] EXCEPT !.timeout = Less(@)]]
    /\ heard' = Min({heard + 1, 3 * Bound + 1})
    /\ UNCHANGED <<catalog, cache, published, conn>>

-----------------------------------------------------------------------------
Init ==
    /\ catalog \in SUBSET Vaults
    /\ task = [at |-> "Connecting", wait |-> Bound, delay |-> Retry]
    /\ sess = Idle
    /\ listing = <<>>
    /\ cache = [c \in {Start} \cup Vaults |-> <<>>]
    /\ published = [kind |-> "Pending", vaults |-> {}]
    /\ conn = NoConn
    /\ left = [changes |-> MaxChanges, faults |-> MaxFaults, slow |-> MaxSlow]
    /\ heard = 0

Aborted == task.at = "Aborted"

Task == Wake \/ Connected \/ Welcomed \/ WithinExpired \/ Receive \/ ReadPage \/ Listed \/ Relist \/ Probe \/ Silent
Server == ServerAnswers \/ HttpAnswers

Next == ~Aborted /\ (Task \/ DropFleet \/ Server \/ Change \/ Fault \/ Tick)

\* The runtime polls the task; the server answers; time passes.
Fairness == WF_vars(Task) /\ WF_vars(Server) /\ WF_vars(~Aborted /\ Tick)

Spec == Init /\ [][Next]_vars /\ Fairness

-----------------------------------------------------------------------------
\* A listing stays published only while the feed is alive: the session has read a message at most two probe periods
\* ago, or is blocked for a third writing the probe that will end it (session, follow).
ListedIsLive ==
    published.kind = "Listed" /\ ~Aborted => task.at \in {"Loop", "Blocked"} /\ heard <= 3 * Bound

\* With the feed connected and quiet, what is published is what the catalog holds: a change that comes while a listing
\* is being read, page by page and through the HTTP cache, is listed again (session: wanted).
ListingIsCurrent ==
    published.kind = "Listed" /\ task.at = "Loop" /\ conn.link = "Up" /\ listing = <<>> /\ ~sess.wanted
    /\ "VaultCatalogChanged" \notin Range(conn.inbox)
    => published.vaults = catalog

\* Once the network behaves and the catalog rests, the fleet publishes that catalog and stays with it.
Converges == <>[](Aborted \/ published = [kind |-> "Listed", vaults |-> catalog])
=============================================================================
