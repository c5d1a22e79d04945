-------------------------- MODULE VaultFleetProofs --------------------------
(***************************************************************************)
(* What a fleet publishes, for any number of vaults, changes and faults    *)
(* and any timeouts: a listing is published only while the feed is alive,  *)
(* and is the catalog once the feed is quiet.                              *)
(***************************************************************************)
EXTENDS VaultFleet, FiniteSetTheorems, TLAPS

\* Unless a leaf names its prover: Zenon for what it finds at once, SMT, and Zenon again.
USE ZenonT(2), SMTT(20), ZenonT(20)

-----------------------------------------------------------------------------
(* Types. *)

Cursors == {Start} \cup Vaults
Pages == [vaults : SUBSET Vaults, next : Cursors]
Cached == {<<>>} \cup {<<p>> : p \in Pages}
Replies == [status : {"Error", "NotModified"}] \cup [status : {"Ok"}, page : Pages]
Replied == {<<>>} \cup {<<r>> : r \in Replies}
Listings ==
    [cursor : Cursors, seen : SUBSET Cursors, got : SUBSET Vaults, etag : Cached, reply : Replied, timeout : Int,
     done : {"No", "Ok", "Failed"}]
Requests == {"Hello", "StartAuth", "AuthChallenge", "Subscribe", "Ping"}
Messages == {"Welcome", "AuthRequest", "AuthSuccess", "SubscribeAck", "VaultCatalogChanged", "Pong"} \cup Fatal

Tasks == [at : {"Asleep", "Connecting", "Welcome", "Loop", "Blocked", "Aborted"}, wait : Int, delay : Int]
Sessions == [probe : Int, silent : Int, relist : Int, wanted : BOOLEAN]
Slots == {<<>>} \cup {<<l>> : l \in Listings}
Conns ==
    [link : {"Up", "Mute", "Down"}, sent : Seq(Requests), inbox : Seq(Messages), stage : {"None", "Subscribed", "Acked"}]

TaskTypes ==
    /\ task \in Tasks
    /\ sess \in Sessions
    /\ heard \in Int
    /\ published \in [kind : {"Pending", "Listed", "Failed"}, vaults : SUBSET Vaults]
ListTypes ==
    /\ listing \in Slots
    /\ cache \in [Cursors -> Cached]
    /\ catalog \subseteq Vaults
Types == TaskTypes /\ ListTypes /\ conn \in Conns

-----------------------------------------------------------------------------
(* Time. *)

\* A session reads a message before its silence runs out; a write that blocks has the bound left.  Nothing is listed
\* outside a session.
TimeInv ==
    /\ 0 <= sess.silent /\ sess.silent <= 2 * Bound
    /\ task.at = "Loop" => heard + sess.silent <= 2 * Bound
    /\ task.at = "Blocked" => heard + task.wait <= 3 * Bound /\ task.wait >= 0
    /\ listing # <<>> \/ published.kind = "Listed" => task.at \in {"Loop", "Blocked", "Aborted"}

-----------------------------------------------------------------------------
(* Listings. *)

\* Whoever lists is subscribed, so that changes reach it; there is no connection before one is made.
Attached ==
    /\ task.at # "Aborted" /\ (listing # <<>> \/ published.kind = "Listed" \/ sess.wanted \/ sess.relist # Off)
       => conn.stage # "None"
    /\ "SubscribeAck" \in Range(conn.inbox) \/ "VaultCatalogChanged" \in Range(conn.inbox) => conn.stage # "None"
    /\ task.at \in {"Asleep", "Connecting"} => conn = NoConn

\* No change is waiting to be listed.
Fresh == task.at = "Loop" /\ conn.link = "Up" /\ ~sess.wanted /\ "VaultCatalogChanged" \notin Range(conn.inbox)

\* The page a request asks for is the one after what was got; the tag it carries is of the page in the cache.
Asked(l) == l.done = "No" => l.etag = cache[l.cursor] /\ l.cursor \in l.seen \cup {Start}

\* What was got is the catalog so far, and an answer is the next page of it.
UpToDate(l) ==
    /\ l.done = "No" => /\ l.got = {v \in catalog : v <= l.cursor}
                        /\ \A r \in Range(l.reply) : /\ r.status = "NotModified" => cache[l.cursor] = <<Page(l.cursor)>>
                                                     /\ r.status = "Ok" => r.page = Page(l.cursor)
    /\ l.done = "Ok" => l.got = catalog

Current ==
    /\ \A l \in Range(listing) : Asked(l)
    /\ Fresh => \A l \in Range(listing) : UpToDate(l)
    /\ Fresh /\ listing = <<>> /\ published.kind = "Listed" => published.vaults = catalog

-----------------------------------------------------------------------------
(* Operators. *)

\* The least element of a set of vaults that has one.
LEMMA MinOfVaults ==
    ASSUME NEW S \in SUBSET Nat, S # {}
    PROVE  Min(S) \in S /\ \A y \in S : Min(S) <= y
<1> DEFINE R == {ss \in Nat \X Nat : ss[1] < ss[2]}
<1>1. IsWellFoundedOn(R, Nat)
    BY NatLessThanWellFounded DEF OpToRel
<1>2. \E x \in S : \A y \in S : ~ (<<y, x>> \in R)
    <2> HIDE DEF R
    <2> QED BY <1>1, WFMin
<1>3. PICK x \in S : \A y \in S : ~ (<<y, x>> \in R)
    BY <1>2
<1>4. \A y \in Nat : y < x => <<y, x>> \in R
    OBVIOUS
<1>5. ASSUME NEW y \in S
      PROVE  x <= y
    <2>1. x \in Nat /\ y \in Nat
        OBVIOUS
    <2> HIDE DEF R
    <2>2. ~ (y < x)
        BY <1>3, <1>4, <2>1
    <2> QED BY <2>1, <2>2
<1> QED BY <1>5 DEF Min

\* The lesser of two ticks.
LEMMA MinOfTwo ==
    ASSUME NEW a \in Int, NEW b \in Int
    PROVE  Min({a, b}) \in Int /\ Min({a, b}) <= a /\ Min({a, b}) <= b
<1>1. \E x \in {a, b} : \A y \in {a, b} : x <= y
    OBVIOUS
<1> QED BY <1>1 DEF Min

\* What a listing's slot holds.
LEMMA RangeOfOne ==
    /\ Range(<<>>) = {}
    /\ \A x : Range(<<x>>) = {x}
BY DEF Range

\* A queue gains the message that is pushed, and loses none but the one that is read.
LEMMA RangeOfQueue ==
    ASSUME NEW S, NEW q \in Seq(S)
    PROVE  /\ \A m \in S : Append(q, m) \in Seq(S) /\ Range(Append(q, m)) = Range(q) \cup {m}
           /\ q # <<>> => /\ Tail(q) \in Seq(S) /\ Head(q) \in S
                          /\ Range(Tail(q)) \subseteq Range(q)
                          /\ Range(q) = Range(Tail(q)) \cup {Head(q)}
<1>1. ASSUME NEW m \in S
      PROVE  Append(q, m) \in Seq(S) /\ Range(Append(q, m)) = Range(q) \cup {m}
    <2>1. Append(q, m) \in Seq(S) /\ DOMAIN Append(q, m) = 1..(Len(q) + 1) /\ DOMAIN q = 1..Len(q) /\ Len(q) \in Nat
        OBVIOUS
    <2>2. \A i \in 1..Len(q) : Append(q, m)[i] = q[i]
        OBVIOUS
    <2>3. Append(q, m)[Len(q) + 1] = m
        OBVIOUS
    <2> QED BY <2>1, <2>2, <2>3 DEF Range
<1>2. ASSUME q # <<>>
      PROVE  /\ Tail(q) \in Seq(S) /\ Head(q) \in S
             /\ Range(q) = Range(Tail(q)) \cup {Head(q)}
    <2>1. Tail(q) \in Seq(S) /\ Head(q) \in S /\ Len(q) \in Nat /\ Len(q) > 0 /\ Head(q) = q[1]
        BY <1>2
    <2>2. DOMAIN Tail(q) = 1..(Len(q) - 1) /\ DOMAIN q = 1..Len(q)
        BY <1>2
    <2>3. \A i \in 1..(Len(q) - 1) : Tail(q)[i] = q[i + 1]
        BY <1>2
    <2>4. Range(Tail(q)) \subseteq Range(q)
        BY <2>1, <2>2, <2>3 DEF Range
    <2>5. ASSUME NEW i \in 1..Len(q), i # 1
          PROVE  q[i] = Tail(q)[i - 1] /\ i - 1 \in DOMAIN Tail(q)
        BY <2>1, <2>2, <2>3, <2>5
    <2>6. Range(q) \subseteq Range(Tail(q)) \cup {Head(q)}
        BY <2>1, <2>2, <2>5, ZenonT(20) DEF Range
    <2>7. Head(q) \in Range(q)
        BY <2>1, <2>2 DEF Range
    <2> QED BY <2>1, <2>4, <2>6, <2>7
<1> QED BY <1>1, <1>2

-----------------------------------------------------------------------------
(* Types are kept. *)

LEMMA Numbers ==
    /\ MaxVault \in Nat /\ Bound \in Int /\ Bound > 0 /\ Retry \in Int /\ Retry > 0 /\ MaxDelay \in Int
    /\ Off \in Int /\ 2 * Bound \in Int /\ Start = 0 /\ Vaults \subseteq Nat \ {0}
BY FleetAssumption DEF Off, Vaults, Start

LEMMA PageType ==
    ASSUME catalog \subseteq Vaults, NEW c
    PROVE  Page(c) \in Pages
<1> DEFINE rest == {v \in catalog : v > c}
<1>1. CASE rest = {}
    BY <1>1 DEF Page, Pages, Cursors
<1>2. CASE rest # {}
    <2>1. rest \in SUBSET Nat
        BY Numbers
    <2>2. Min(rest) \in rest
        BY <1>2, <2>1, MinOfVaults
    <2>3. Min(rest) \in Vaults
        BY <2>2
    <2> QED BY <1>2, <2>3 DEF Page, Pages, Cursors
<1> QED BY <1>1, <1>2

LEMMA AskType ==
    ASSUME ListTypes, NEW cursor \in Cursors, NEW seen \in SUBSET Cursors, NEW got \in SUBSET Vaults, NEW timeout \in Int
    PROVE  Ask(cursor, seen, got, timeout) \in Listings
BY DEF ListTypes, Ask, Listings, Replied

LEMMA SlotType ==
    ASSUME ListTypes, NEW l \in Range(listing)
    PROVE  l \in Listings /\ listing = <<l>>
<1>1. listing # <<>>
    BY RangeOfOne
<1>2. PICK x \in Listings : listing = <<x>>
    BY <1>1 DEF ListTypes, Slots
<1> QED BY <1>2, RangeOfOne

LEMMA TopType ==
    ASSUME ListTypes, NEW s \in Sessions, NEW l \in Slots, Top(s, l)
    PROVE  sess' \in Sessions /\ listing' \in Slots
<1>1. Ask(Start, {}, {}, Bound) \in Listings
    BY AskType, Numbers DEF Cursors
<1> QED BY <1>1, Numbers DEF Top, Sessions, Slots

LEMMA FailType ==
    ASSUME TaskTypes, FeedFails
    PROVE  /\ task' \in [at : {"Asleep"}, wait : Int, delay : Int]
           /\ sess' \in Sessions /\ sess' = Idle /\ listing' = <<>>
           /\ published' \in [kind : {"Failed"}, vaults : {{}}] /\ conn' = NoConn
<1>1. next_reconnect_delay(task.delay) \in Int
    <2>1. 2 * task.delay \in Int /\ MaxDelay \in Int
        BY Numbers DEF TaskTypes, Tasks
    <2> QED BY <2>1, MinOfTwo DEF next_reconnect_delay
<1> QED BY <1>1, Numbers DEF FeedFails, TaskTypes, Tasks, Failed, Idle, Sessions

LEMMA WriteType ==
    ASSUME NEW c \in Conns, NEW m \in Requests, NEW t \in Tasks, Write(c, m, t)
    PROVE  /\ conn' \in Conns /\ conn'.inbox = c.inbox /\ conn'.stage = c.stage /\ conn'.link = c.link
           /\ task' \in Tasks
           /\ task' = t \/ (task'.at = "Blocked" /\ task'.wait = Bound)
<1>1. CASE conn' = [c EXCEPT !.sent = Append(@, m)] /\ task' = t
    <2>1. Append(c.sent, m) \in Seq(Requests)
        BY DEF Conns
    <2> QED BY <1>1, <2>1 DEF Conns
<1>2. CASE conn' = c /\ task' = t
    BY <1>2
<1>3. CASE conn' = c /\ task' = [t EXCEPT !.at = "Blocked", !.wait = Bound]
    <2>1. task' \in Tasks /\ task'.at = "Blocked" /\ task'.wait = Bound
        BY <1>3, Numbers DEF Tasks
    <2> QED BY <1>3, <2>1
<1> QED BY <1>1, <1>2, <1>3 DEF Write

\* A connection with its queue one message shorter.
LEMMA ReadType ==
    ASSUME conn \in Conns, conn.inbox # <<>>
    PROVE  /\ [conn EXCEPT !.inbox = Tail(@)] \in Conns
           /\ Head(conn.inbox) \in Messages
           /\ Range(conn.inbox) = Range(Tail(conn.inbox)) \cup {Head(conn.inbox)}
<1>1. conn.inbox \in Seq(Messages)
    BY DEF Conns
<1>2. Tail(conn.inbox) \in Seq(Messages) /\ Head(conn.inbox) \in Messages
    BY <1>1, RangeOfQueue
<1>3. Range(conn.inbox) = Range(Tail(conn.inbox)) \cup {Head(conn.inbox)}
    BY <1>1, RangeOfQueue
<1> QED BY <1>2, <1>3 DEF Conns

\* A connection with its queue one message longer.
LEMMA PushType ==
    ASSUME conn \in Conns, NEW m \in Messages
    PROVE  /\ Append(conn.inbox, m) \in Seq(Messages)
           /\ Range(Append(conn.inbox, m)) = Range(conn.inbox) \cup {m}
BY RangeOfQueue DEF Conns

LEMMA NoConnType == NoConn \in Conns /\ Range(NoConn.inbox) = {} /\ NoConn.stage = "None" /\ NoConn.link = "Down"
<1>1. <<>> \in Seq(Requests) /\ <<>> \in Seq(Messages)
    OBVIOUS
<1> QED BY <1>1, RangeOfOne DEF NoConn, Conns

\* What fetch_all makes of a page.
LEMMA AdvanceType ==
    ASSUME ListTypes, NEW l \in Listings, NEW page \in Pages
    PROVE  advance(l, page) \in Listings
<1>1. l.got \cup page.vaults \in SUBSET Vaults /\ page.next \in Cursors /\ l.seen \cup {page.next} \in SUBSET Cursors
      /\ l.timeout \in Int
    BY DEF Listings, Pages
<1>2. Ask(page.next, l.seen \cup {page.next}, l.got \cup page.vaults, l.timeout) \in Listings
    BY <1>1, AskType
<1>3. [l EXCEPT !.done = "Failed", !.reply = <<>>] \in Listings
    BY DEF Listings, Replied
<1>4. [l EXCEPT !.done = "Ok", !.got = l.got \cup page.vaults, !.reply = <<>>] \in Listings
    BY <1>1 DEF Listings, Replied
<1> QED BY <1>2, <1>3, <1>4 DEF advance

LEMMA FailsTypes ==
    ASSUME Types, FeedFails, heard' \in Int, UNCHANGED cache, catalog' \subseteq Vaults
    PROVE  Types'
<1>1. task' \in Tasks /\ sess' \in Sessions /\ listing' = <<>> /\ conn' = NoConn
      /\ published' \in [kind : {"Failed"}, vaults : {{}}]
    BY FailType DEF Types, Tasks
<1>2. published' \in [kind : {"Pending", "Listed", "Failed"}, vaults : SUBSET Vaults]
    BY <1>1
<1> QED BY <1>1, <1>2, NoConnType DEF Types, TaskTypes, ListTypes, Slots

LEMMA ReceiveTypes ==
    ASSUME Types, Receive
    PROVE  Types'
<1> DEFINE m == Head(conn.inbox)
           c == [conn EXCEPT !.inbox = Tail(@)]
           s == IF sess.probe = Off THEN sess ELSE [sess EXCEPT !.silent = 2 * Bound]
<1>1. c \in Conns /\ UNCHANGED <<catalog, cache>>
    BY ReadType DEF Types, Receive
<1>2. s \in Sessions
    BY Numbers DEF Types, TaskTypes, Sessions
<1>3. task \in Tasks /\ listing \in Slots /\ ListTypes /\ TaskTypes
    BY DEF Types, TaskTypes, ListTypes
<1>4. CASE FeedFails /\ UNCHANGED heard
    BY <1>1, <1>4, FailsTypes DEF Types, TaskTypes, ListTypes
<1>5. CASE /\ m \in DOMAIN Answers /\ Write(c, Answers[m], task)
           /\ sess' = s /\ heard' = 0 /\ UNCHANGED <<listing, published>>
    <2>1. Answers[m] \in Requests
        BY <1>5 DEF Answers, Requests
    <2>2. conn' \in Conns /\ task' \in Tasks
        <3> HIDE DEF m, c, s
        <3> QED BY <1>1, <1>3, <1>5, <2>1, WriteType
    <2> QED BY <1>1, <1>2, <1>3, <1>5, <2>2 DEF Types, TaskTypes, ListTypes
<1>6. CASE /\ task' = [task EXCEPT !.delay = Retry]
           /\ Top(Noticed([s EXCEPT !.probe = Bound, !.silent = 2 * Bound]), listing)
           /\ conn' = c /\ heard' = 0 /\ UNCHANGED published
    <2>1. task' \in Tasks
        BY <1>3, <1>6, Numbers DEF Tasks
    <2>2. Noticed([s EXCEPT !.probe = Bound, !.silent = 2 * Bound]) \in Sessions
        <3> HIDE DEF s
        <3> QED BY <1>2, Numbers DEF Noticed, Sessions
    <2>3. sess' \in Sessions /\ listing' \in Slots
        BY <1>3, <1>6, <2>2, TopType
    <2> QED BY <1>1, <1>3, <1>6, <2>1, <2>3 DEF Types, TaskTypes, ListTypes
<1>7. CASE /\ Top(Noticed(s), listing)
           /\ conn' = c /\ heard' = 0 /\ UNCHANGED <<task, published>>
    <2>2. Noticed(s) \in Sessions
        <3> HIDE DEF s
        <3> QED BY <1>2 DEF Noticed, Sessions
    <2>3. sess' \in Sessions /\ listing' \in Slots
        BY <1>3, <1>7, <2>2, TopType
    <2> QED BY <1>1, <1>3, <1>7, <2>3 DEF Types, TaskTypes, ListTypes
<1>8. CASE sess' = s /\ conn' = c /\ heard' = 0 /\ UNCHANGED <<task, listing, published>>
    BY <1>1, <1>2, <1>3, <1>8 DEF Types, TaskTypes, ListTypes
<1> QED
    <2>1. \/ FeedFails /\ UNCHANGED heard
          \/ /\ m \in DOMAIN Answers /\ Write(c, Answers[m], task)
             /\ sess' = s /\ heard' = 0 /\ UNCHANGED <<listing, published>>
          \/ /\ task' = [task EXCEPT !.delay = Retry]
             /\ Top(Noticed([s EXCEPT !.probe = Bound, !.silent = 2 * Bound]), listing)
             /\ conn' = c /\ heard' = 0 /\ UNCHANGED published
          \/ /\ Top(Noticed(s), listing)
             /\ conn' = c /\ heard' = 0 /\ UNCHANGED <<task, published>>
          \/ sess' = s /\ conn' = c /\ heard' = 0 /\ UNCHANGED <<task, listing, published>>
        BY Zenon DEF Receive
    <2> HIDE DEF m, c, s
    <2> QED BY <1>4, <1>5, <1>6, <1>7, <1>8, <2>1

LEMMA WelcomedTypes ==
    ASSUME Types, Welcomed
    PROVE  Types'
<1> DEFINE c == [conn EXCEPT !.inbox = Tail(@)]
<1>1. c \in Conns /\ UNCHANGED <<catalog, cache>>
    BY ReadType DEF Types, Welcomed
<1>2. CASE FeedFails /\ UNCHANGED heard
    BY <1>1, <1>2, FailsTypes DEF Types, TaskTypes, ListTypes
<1>3. CASE /\ Write(c, "StartAuth", [task EXCEPT !.at = "Loop", !.wait = 0])
           /\ heard' = 0 /\ UNCHANGED <<sess, listing, published>>
    <2>1. [task EXCEPT !.at = "Loop", !.wait = 0] \in Tasks
        <3>1. task \in Tasks
            BY DEF Types, TaskTypes
        <3>2. PICK n \in Int : n = 0
            OBVIOUS
        <3>3. [task EXCEPT !.at = "Loop", !.wait = n] \in Tasks
            BY <3>1 DEF Tasks
        <3> QED BY <3>2, <3>3
    <2>2. conn' \in Conns /\ task' \in Tasks
        <3> HIDE DEF c
        <3>1. "StartAuth" \in Requests
            BY DEF Requests
        <3> QED BY <1>1, <1>3, <2>1, <3>1, WriteType
    <2> QED BY <1>1, <1>3, <2>2 DEF Types, TaskTypes, ListTypes
<1> QED BY <1>2, <1>3 DEF Welcomed

\* HttpClient::get hands on a page: the cached one, or the one in the answer.
LEMMA ReadIsPage ==
    ASSUME ListTypes, NEW cursor \in Cursors, NEW r \in Replies, r.status # "Error",
           NEW page \in IF r.status = "NotModified" THEN Range(cache[cursor]) ELSE {r.page}
    PROVE  page \in Pages
<1>1. CASE r.status = "NotModified"
    <2>1. page \in Range(cache[cursor]) /\ cache[cursor] \in Cached
        BY <1>1 DEF ListTypes
    <2>2. cache[cursor] # <<>>
        BY <2>1, RangeOfOne
    <2> QED BY <2>1, <2>2, RangeOfOne DEF Cached
<1>2. CASE r.status # "NotModified"
    BY <1>2 DEF Replies
<1> QED BY <1>1, <1>2

LEMMA ReadPageTypes ==
    ASSUME Types, ReadPage
    PROVE  Types'
<1>1. UNCHANGED <<catalog, task, sess, published, conn, heard>> /\ ListTypes
    BY DEF ReadPage, Types
<1>2. PICK l \in Range(listing) : \E r \in Range(l.reply) :
            \/ listing' = <<[l EXCEPT !.done = "Failed", !.reply = <<>>]>> /\ UNCHANGED cache
            \/ \E page \in IF r.status = "NotModified" THEN Range(cache[l.cursor]) ELSE {r.page} :
                 /\ r.status # "Error"
                 /\ cache' \in {cache, [cache EXCEPT ![l.cursor] = <<page>>]}
                 /\ listing' = <<advance(l, page)>>
    BY DEF ReadPage
<1>3. l \in Listings
    BY <1>1, SlotType
<1>4. PICK r \in Range(l.reply) :
            \/ listing' = <<[l EXCEPT !.done = "Failed", !.reply = <<>>]>> /\ UNCHANGED cache
            \/ \E page \in IF r.status = "NotModified" THEN Range(cache[l.cursor]) ELSE {r.page} :
                 /\ r.status # "Error"
                 /\ cache' \in {cache, [cache EXCEPT ![l.cursor] = <<page>>]}
                 /\ listing' = <<advance(l, page)>>
    BY <1>2
<1>5. r \in Replies
    <2>1. l.reply \in Replied /\ l.reply # <<>>
        BY <1>3, RangeOfOne DEF Listings
    <2> QED BY <2>1, RangeOfOne DEF Replied
<1>6. CASE listing' = <<[l EXCEPT !.done = "Failed", !.reply = <<>>]>> /\ UNCHANGED cache
    <2>1. [l EXCEPT !.done = "Failed", !.reply = <<>>] \in Listings
        BY <1>3 DEF Listings, Replied
    <2> QED BY <1>1, <1>6, <2>1 DEF Types, TaskTypes, ListTypes, Slots
<1>7. ASSUME NEW page \in IF r.status = "NotModified" THEN Range(cache[l.cursor]) ELSE {r.page},
             r.status # "Error", cache' \in {cache, [cache EXCEPT ![l.cursor] = <<page>>]}, listing' = <<advance(l, page)>>
      PROVE  Types'
    <2>1. l.cursor \in Cursors
        BY <1>3 DEF Listings
    <2>2. page \in Pages
        BY <1>1, <1>5, <1>7, <2>1, ReadIsPage
    <2>3. advance(l, page) \in Listings
        BY <1>1, <1>3, <2>2, AdvanceType
    <2>4. cache' \in [Cursors -> Cached]
        <3>1. <<page>> \in Cached
            BY <2>2 DEF Cached
        <3> QED BY <1>1, <1>7, <2>1, <3>1 DEF ListTypes
    <2> QED BY <1>1, <1>7, <2>3, <2>4 DEF Types, TaskTypes, ListTypes, Slots
<1> QED BY <1>4, <1>6, <1>7

LEMMA HttpTypes ==
    ASSUME Types, HttpAnswers
    PROVE  Types'
<1>1. UNCHANGED <<catalog, task, sess, cache, published, conn, heard>> /\ ListTypes
    BY DEF HttpAnswers, Types
<1>2. PICK l \in Range(listing) :
        listing' = <<[l EXCEPT !.reply = <<IF l.etag = <<Page(l.cursor)>> THEN [status |-> "NotModified"]
                                           ELSE [status |-> "Ok", page |-> Page(l.cursor)]>>]>>
    BY DEF HttpAnswers
<1>3. l \in Listings /\ Page(l.cursor) \in Pages
    BY <1>1, SlotType, PageType DEF ListTypes
<1>4. ASSUME NEW r \in Replies
      PROVE  [l EXCEPT !.reply = <<r>>] \in Listings
    <2>1. <<r>> \in Replied
        BY DEF Replied
    <2> QED BY <1>3, <2>1 DEF Listings
<1>5. [status |-> "NotModified"] \in Replies /\ [status |-> "Ok", page |-> Page(l.cursor)] \in Replies
    BY <1>3 DEF Replies
<1>6. listing' \in Slots
    BY <1>2, <1>4, <1>5 DEF Slots
<1> QED BY <1>1, <1>6 DEF Types, TaskTypes, ListTypes

LEMMA ServerTypes ==
    ASSUME Types, ServerAnswers
    PROVE  Types'
<1>1. UNCHANGED <<catalog, task, sess, listing, cache, published, heard>> /\ conn \in Conns
    BY DEF ServerAnswers, Types
<1>2. conn.sent # <<>> => Tail(conn.sent) \in Seq(Requests) /\ Head(conn.sent) \in Requests
    BY <1>1, RangeOfQueue DEF Conns
<1>3. ASSUME conn.sent # <<>>, conn' = [conn EXCEPT !.sent = Tail(@), !.stage = "Subscribed"]
      PROVE  conn' \in Conns
    BY <1>1, <1>2, <1>3 DEF Conns
<1>4. ASSUME conn' = [conn EXCEPT !.stage = "Acked", !.inbox = Append(@, "SubscribeAck")]
      PROVE  conn' \in Conns
    <2>1. Append(conn.inbox, "SubscribeAck") \in Seq(Messages)
        BY <1>1, PushType DEF Messages
    <2> QED BY <1>1, <1>4, <2>1 DEF Conns
<1>5. ASSUME conn.sent # <<>>, Head(conn.sent) \in DOMAIN Reply,
             conn' = [conn EXCEPT !.sent = Tail(@), !.inbox = Append(@, Reply[Head(conn.sent)])]
      PROVE  conn' \in Conns
    <2>1. Reply[Head(conn.sent)] \in Messages
        BY <1>5 DEF Reply, Messages
    <2>2. Append(conn.inbox, Reply[Head(conn.sent)]) \in Seq(Messages)
        BY <1>1, <2>1, PushType
    <2> QED BY <1>1, <1>2, <1>5, <2>2 DEF Conns
<1>6. conn' \in Conns
    BY <1>3, <1>4, <1>5 DEF ServerAnswers
<1> QED BY <1>1, <1>6 DEF Types, TaskTypes, ListTypes

LEMMA ChangeTypes ==
    ASSUME Types, Change
    PROVE  Types'
<1>1. UNCHANGED <<task, sess, listing, cache, published, heard>> /\ conn \in Conns
    BY DEF Change, Types
<1>2. catalog' \subseteq Vaults
    BY DEF Change, Types, ListTypes, SymDiff
<1>3. ASSUME conn' = [conn EXCEPT !.inbox = Append(@, "VaultCatalogChanged")]
      PROVE  conn' \in Conns
    <2>1. Append(conn.inbox, "VaultCatalogChanged") \in Seq(Messages)
        BY <1>1, PushType DEF Messages
    <2> QED BY <1>1, <1>3, <2>1 DEF Conns
<1>4. conn' \in Conns
    BY <1>1, <1>3 DEF Change, Push
<1> QED BY <1>1, <1>2, <1>4 DEF Types, TaskTypes, ListTypes

LEMMA FaultTypes ==
    ASSUME Types, Fault
    PROVE  Types'
<1>1. UNCHANGED <<catalog, cache, heard>> /\ conn \in Conns /\ heard \in Int /\ catalog \subseteq Vaults
    BY DEF Fault, Types, TaskTypes, ListTypes
<1>2. CASE FeedFails
    BY <1>1, <1>2, FailsTypes
<1>3. CASE /\ \/ conn' = [conn EXCEPT !.link = "Mute"]
              \/ conn' = [conn EXCEPT !.link = "Down", !.inbox = Append(@, "Closed")]
              \/ Push("Unreadable")
              \/ /\ conn.sent # <<>> /\ Head(conn.sent) \in DOMAIN Refusal
                 /\ conn' = [conn EXCEPT !.sent = Tail(@), !.inbox = Append(@, Refusal[Head(conn.sent)])]
           /\ UNCHANGED <<task, sess, listing, published>>
    <2>1. ASSUME conn' = [conn EXCEPT !.link = "Mute"]
          PROVE  conn' \in Conns
        BY <1>1, <2>1 DEF Conns
    <2>2. ASSUME conn' = [conn EXCEPT !.link = "Down", !.inbox = Append(@, "Closed")]
          PROVE  conn' \in Conns
        <3>1. Append(conn.inbox, "Closed") \in Seq(Messages)
            BY <1>1, PushType DEF Messages, Fatal
        <3> QED BY <1>1, <2>2, <3>1 DEF Conns
    <2>3. ASSUME Push("Unreadable")
          PROVE  conn' \in Conns
        <3>1. Append(conn.inbox, "Unreadable") \in Seq(Messages)
            BY <1>1, PushType DEF Messages, Fatal
        <3> QED BY <1>1, <2>3, <3>1 DEF Conns, Push
    <2>4. ASSUME conn.sent # <<>>, Head(conn.sent) \in DOMAIN Refusal,
                 conn' = [conn EXCEPT !.sent = Tail(@), !.inbox = Append(@, Refusal[Head(conn.sent)])]
          PROVE  conn' \in Conns
        <3>1. Refusal[Head(conn.sent)] \in Messages
            BY <2>4 DEF Refusal, Messages, Fatal
        <3>2. Append(conn.inbox, Refusal[Head(conn.sent)]) \in Seq(Messages)
            BY <1>1, <3>1, PushType
        <3>3. Tail(conn.sent) \in Seq(Requests)
            BY <1>1, <2>4, RangeOfQueue DEF Conns
        <3> QED BY <1>1, <2>4, <3>2, <3>3 DEF Conns
    <2>5. conn' \in Conns
        BY <1>3, <2>1, <2>2, <2>3, <2>4
    <2> QED BY <1>1, <1>3, <2>5 DEF Types, TaskTypes, ListTypes
<1>4. CASE /\ \E l \in Range(listing) : listing' = <<[l EXCEPT !.reply = <<[status |-> "Error"]>>]>>
           /\ UNCHANGED <<task, sess, conn, published>>
    <2>1. PICK l \in Range(listing) : listing' = <<[l EXCEPT !.reply = <<[status |-> "Error"]>>]>>
        BY <1>4
    <2>2. l \in Listings
        BY SlotType DEF Types
    <2>3. <<[status |-> "Error"]>> \in Replied
        BY DEF Replied, Replies
    <2>4. [l EXCEPT !.reply = <<[status |-> "Error"]>>] \in Listings
        BY <2>2, <2>3 DEF Listings
    <2> QED BY <1>1, <1>4, <2>1, <2>4 DEF Types, TaskTypes, ListTypes, Slots
<1> QED BY <1>2, <1>3, <1>4 DEF Fault

LEMMA TickTypes ==
    ASSUME Types, Tick
    PROVE  Types'
<1>1. UNCHANGED <<catalog, cache, published, conn>> /\ task \in Tasks /\ sess \in Sessions /\ heard \in Int
    BY DEF Tick, Types, TaskTypes
<1>2. \A n \in Int : Less(n) \in Int
    BY DEF Less
<1>3. task' \in Tasks
    <2>1. Less(task.wait) \in Int
        BY <1>1, <1>2 DEF Tasks
    <2> QED BY <1>1, <2>1 DEF Tick, Tasks
<1>4. sess' \in Sessions
    <2>1. Less(sess.probe) \in Int /\ Less(sess.silent) \in Int /\ Less(sess.relist) \in Int
        BY <1>1, <1>2 DEF Sessions
    <2>2. [sess EXCEPT !.probe = Less(@), !.silent = Less(@), !.relist = Less(@)] \in Sessions
        BY <1>1, <2>1 DEF Sessions
    <2> QED BY <1>1, <2>2 DEF Tick
<1>5. heard' \in Int
    <2>1. heard + 1 \in Int /\ 3 * Bound + 1 \in Int
        BY <1>1, Numbers
    <2> QED BY <2>1, MinOfTwo DEF Tick
<1>6. listing' \in Slots
    <2>1. CASE listing = <<>>
        <3>1. listing' = <<>>
            BY <2>1 DEF Tick
        <3> QED BY <3>1 DEF Slots
    <2>2. CASE listing # <<>>
        <3>1. PICK l \in Listings : listing = <<l>>
            BY <2>2 DEF Types, ListTypes, Slots
        <3>2. listing' = <<[l EXCEPT !.timeout = Less(@)]>>
            BY <3>1 DEF Tick
        <3>3. Less(l.timeout) \in Int
            BY <1>2 DEF Listings
        <3>4. [l EXCEPT !.timeout = Less(@)] \in Listings
            BY <3>3 DEF Listings
        <3> QED BY <3>2, <3>4 DEF Slots
    <2> QED BY <2>1, <2>2
<1> QED BY <1>1, <1>3, <1>4, <1>5, <1>6 DEF Types, TaskTypes, ListTypes

LEMMA TypesStep ==
    ASSUME Types, [Next]_vars
    PROVE  Types'
<1>1. CASE UNCHANGED vars
    BY <1>1 DEF Types, TaskTypes, ListTypes, vars
<1>2. CASE Wake
    <2>1. task' \in Tasks
        <3>1. task \in Tasks
            BY DEF Types, TaskTypes
        <3> QED BY <1>2, <3>1, Numbers DEF Wake, Tasks
    <2> QED BY <1>2, <2>1 DEF Wake, Types, TaskTypes, ListTypes
<1>3. CASE Connected
    <2>1. task' \in Tasks
        <3>1. task \in Tasks
            BY DEF Types, TaskTypes
        <3> QED BY <1>3, <3>1, Numbers DEF Connected, Tasks
    <2>2. <<"Hello">> \in Seq(Requests) /\ <<>> \in Seq(Messages)
        BY DEF Requests
    <2>3. conn' \in Conns
        BY <1>3, <2>2 DEF Connected, Conns
    <2> QED BY <1>3, <2>1, <2>3 DEF Connected, Types, TaskTypes, ListTypes
<1>4. CASE WithinExpired \/ Silent
    BY <1>4, FailsTypes DEF WithinExpired, Silent, Types, TaskTypes, ListTypes
<1>5. CASE Listed
    <2>1. PICK l \in Range(listing) : publish(l.done = "Ok", l.got)
        BY <1>5 DEF Listed
    <2>2. l \in Listings /\ ListTypes /\ sess \in Sessions
        BY SlotType DEF Types, TaskTypes
    <2>3. published' \in [kind : {"Pending", "Listed", "Failed"}, vaults : SUBSET Vaults]
        BY <2>1, <2>2 DEF publish, Failed, Listings
    <2>4. \A n \in Int : [sess EXCEPT !.relist = n] \in Sessions
        BY <2>2 DEF Sessions
    <2>5. sess' \in Sessions /\ listing' \in Slots
        <3>1. PICK n \in Int : Top([sess EXCEPT !.relist = n], <<>>)
            BY <2>1, Numbers DEF publish
        <3>2. <<>> \in Slots
            BY DEF Slots
        <3> QED BY <2>2, <2>4, <3>1, <3>2, TopType
    <2> QED BY <1>5, <2>3, <2>5 DEF Listed, Types, TaskTypes, ListTypes
<1>6. CASE Relist
    <2>1. sess \in Sessions /\ ListTypes /\ listing \in Slots
        BY DEF Types, TaskTypes, ListTypes
    <2>2. Noticed(sess) \in Sessions
        BY <2>1 DEF Noticed, Sessions
    <2>3. sess' \in Sessions /\ listing' \in Slots
        BY <1>6, <2>1, <2>2, TopType DEF Relist
    <2> QED BY <1>6, <2>3 DEF Relist, Types, TaskTypes, ListTypes
<1>7. CASE Probe
    <2>1. sess \in Sessions /\ conn \in Conns /\ task \in Tasks
        BY DEF Types, TaskTypes, ListTypes
    <2>2. CASE Write(conn, "Ping", task) /\ sess' = Probed(sess) /\ UNCHANGED <<listing, published>>
        <3>1. Probed(sess) \in Sessions
            BY <2>1, Numbers DEF Probed, Sessions
        <3>2. "Ping" \in Requests
            BY DEF Requests
        <3>3. conn' \in Conns /\ task' \in Tasks
            BY <2>1, <2>2, <3>2, WriteType
        <3> QED BY <1>7, <2>2, <3>1, <3>3 DEF Probe, Types, TaskTypes, ListTypes
    <2>3. CASE FeedFails
        BY <1>7, <2>3, FailsTypes DEF Probe, Types, TaskTypes, ListTypes
    <2> QED BY <1>7, <2>2, <2>3 DEF Probe
<1>8. CASE DropFleet
    <2>1. task' \in Tasks /\ sess' \in Sessions
        BY <1>8, Numbers DEF DropFleet, Tasks, Sessions, Idle
    <2> QED BY <1>8, <2>1, NoConnType DEF DropFleet, Types, TaskTypes, ListTypes, Slots
<1> QED
    BY <1>1, <1>2, <1>3, <1>4, <1>5, <1>6, <1>7, <1>8, ReceiveTypes, WelcomedTypes, ReadPageTypes, HttpTypes,
       ServerTypes, ChangeTypes, FaultTypes, TickTypes DEF Next, Task, Server

LEMMA InitTypes == Init => Types
<1> SUFFICES ASSUME Init
             PROVE  Types
    OBVIOUS
<1>1. task \in Tasks /\ sess \in Sessions
    BY Numbers DEF Init, Tasks, Sessions, Idle
<1>2. cache \in [Cursors -> Cached] /\ listing \in Slots
    BY DEF Init, Cursors, Cached, Slots
<1> QED BY <1>1, <1>2, NoConnType DEF Init, Types, TaskTypes, ListTypes

-----------------------------------------------------------------------------
(* Nothing is listed without a live feed. *)

LEMMA FailsTime ==
    ASSUME Types, FeedFails
    PROVE  TimeInv'
<1>1. task'.at = "Asleep" /\ sess' = Idle /\ listing' = <<>> /\ published'.kind = "Failed"
    BY FailType DEF Types
<1> QED BY <1>1, Numbers DEF TimeInv, Idle

\* A message was read: the silence starts again, if it is watched, and what is written next may block for the bound.
LEMMA HeardTime ==
    ASSUME TimeInv, task \in Tasks, sess \in Sessions, task.at = "Loop",
           task'.at = task.at \/ (task'.at = "Blocked" /\ task'.wait = Bound),
           sess'.silent \in {sess.silent, 2 * Bound}, heard' = 0, UNCHANGED published
    PROVE  TimeInv'
BY Numbers DEF TimeInv, Tasks, Sessions

LEMMA TopSilent ==
    ASSUME NEW s \in Sessions, NEW l, Top(s, l)
    PROVE  sess'.silent = s.silent
BY DEF Top, Sessions

LEMMA ReceiveTime ==
    ASSUME Types, TimeInv, Receive
    PROVE  TimeInv'
<1> DEFINE m == Head(conn.inbox)
           c == [conn EXCEPT !.inbox = Tail(@)]
           s == IF sess.probe = Off THEN sess ELSE [sess EXCEPT !.silent = 2 * Bound]
<1>1. task \in Tasks /\ sess \in Sessions /\ task.at = "Loop"
    BY DEF Receive, Types, TaskTypes
<1>2. s \in Sessions /\ s.silent \in {sess.silent, 2 * Bound} /\ c \in Conns
    BY <1>1, ReadType, Numbers DEF Sessions, Receive, Types
<1>3. CASE FeedFails
    BY <1>3, FailsTime
<1>4. CASE m \in DOMAIN Answers /\ Write(c, Answers[m], task) /\ sess' = s /\ heard' = 0 /\ UNCHANGED published
    <2>1. Answers[m] \in Requests
        BY <1>4 DEF Answers, Requests
    <2>2. task' = task \/ (task'.at = "Blocked" /\ task'.wait = Bound)
        <3> HIDE DEF m, c, s
        <3> QED BY <1>1, <1>2, <1>4, <2>1, WriteType
    <2> HIDE DEF m, c, s
    <2> QED BY <1>1, <1>2, <1>4, <2>2, HeardTime
<1>5. CASE /\ task' = [task EXCEPT !.delay = Retry] /\ heard' = 0 /\ UNCHANGED published
           /\ Top(Noticed([s EXCEPT !.probe = Bound, !.silent = 2 * Bound]), listing)
    <2> HIDE DEF s
    <2>1. [s EXCEPT !.probe = Bound, !.silent = 2 * Bound] \in Sessions
        BY <1>2, Numbers DEF Sessions
    <2>2. /\ Noticed([s EXCEPT !.probe = Bound, !.silent = 2 * Bound]) \in Sessions
          /\ Noticed([s EXCEPT !.probe = Bound, !.silent = 2 * Bound]).silent = 2 * Bound
        BY <1>2, <2>1, Numbers DEF Noticed, Sessions
    <2>3. sess'.silent = 2 * Bound
        BY <1>5, <2>2, TopSilent
    <2>4. task'.at = task.at
        BY <1>1, <1>5 DEF Tasks
    <2> QED BY <1>1, <1>5, <2>3, <2>4, HeardTime
<1>6. CASE Top(Noticed(s), listing) /\ heard' = 0 /\ UNCHANGED <<task, published>>
    <2> HIDE DEF s
    <2>1. Noticed(s) \in Sessions /\ Noticed(s).silent = s.silent
        BY <1>2 DEF Noticed, Sessions
    <2>2. sess'.silent = s.silent
        BY <1>6, <2>1, TopSilent
    <2> QED BY <1>1, <1>2, <1>6, <2>2, HeardTime
<1>7. CASE sess' = s /\ heard' = 0 /\ UNCHANGED <<task, published>>
    <2> HIDE DEF s
    <2> QED BY <1>1, <1>2, <1>7, HeardTime
<1> QED
    <2>1. \/ FeedFails
          \/ m \in DOMAIN Answers /\ Write(c, Answers[m], task) /\ sess' = s /\ heard' = 0 /\ UNCHANGED published
          \/ /\ task' = [task EXCEPT !.delay = Retry] /\ heard' = 0 /\ UNCHANGED published
             /\ Top(Noticed([s EXCEPT !.probe = Bound, !.silent = 2 * Bound]), listing)
          \/ Top(Noticed(s), listing) /\ heard' = 0 /\ UNCHANGED <<task, published>>
          \/ sess' = s /\ heard' = 0 /\ UNCHANGED <<task, published>>
        BY Zenon DEF Receive
    <2> HIDE DEF m, c, s
    <2> QED BY <1>3, <1>4, <1>5, <1>6, <1>7, <2>1

\* Time passes in the loop only while silence is left, and in a write only while its bound is.
LEMMA TickTime ==
    ASSUME Types, TimeInv, Tick
    PROVE  TimeInv'
<1>1. task \in Tasks /\ sess \in Sessions /\ heard \in Int /\ UNCHANGED published
    BY DEF Tick, Types, TaskTypes
<1>2. heard' \in Int /\ heard' <= heard + 1
    <2>1. heard + 1 \in Int /\ 3 * Bound + 1 \in Int
        BY <1>1, Numbers
    <2> QED BY <2>1, MinOfTwo DEF Tick
<1>3. task'.at = task.at /\ task'.wait = Less(task.wait) /\ task.wait \in Int
    BY <1>1 DEF Tick, Tasks
<1>4. sess'.silent = IF task.at = "Asleep" THEN sess.silent ELSE Less(sess.silent)
    BY <1>1 DEF Tick, Sessions
<1>5. listing = <<>> => listing' = <<>>
    BY DEF Tick
<1>6. task.at = "Loop" => sess.silent # 0
    BY DEF Tick, TaskReady
<1>7. task.at = "Blocked" => task.wait # 0
    BY DEF Tick, TaskReady
<1>8. sess.silent \in Int
    BY <1>1 DEF Sessions
<1> QED BY <1>1, <1>2, <1>3, <1>4, <1>5, <1>6, <1>7, <1>8, Numbers DEF TimeInv, Less

LEMMA WelcomedTime ==
    ASSUME Types, TimeInv, Welcomed
    PROVE  TimeInv'
<1> DEFINE c == [conn EXCEPT !.inbox = Tail(@)]
<1>1. c \in Conns /\ task \in Tasks /\ task.at = "Welcome" /\ sess \in Sessions
    BY ReadType DEF Types, TaskTypes, Welcomed
<1>2. CASE FeedFails
    BY <1>2, FailsTime
<1>3. CASE /\ Write(c, "StartAuth", [task EXCEPT !.at = "Loop", !.wait = 0])
           /\ heard' = 0 /\ UNCHANGED <<sess, listing, published>>
    <2>1. listing' = <<>> /\ published'.kind # "Listed" /\ sess' = sess
        BY <1>1, <1>3 DEF TimeInv
    <2>2. task' = [task EXCEPT !.at = "Loop", !.wait = 0] \/ task' = [task EXCEPT !.at = "Blocked", !.wait = Bound]
        BY <1>3 DEF Write
    <2>3. task'.at = "Loop" \/ (task'.at = "Blocked" /\ task'.wait = Bound)
        BY <1>1, <2>2 DEF Tasks
    <2> QED BY <1>1, <1>3, <2>1, <2>3, Numbers DEF TimeInv, Sessions
<1> QED BY <1>2, <1>3 DEF Welcomed

LEMMA TimeStep ==
    ASSUME Types, TimeInv, [Next]_vars
    PROVE  TimeInv'
<1>1. CASE UNCHANGED vars
    BY <1>1 DEF TimeInv, vars
<1>2. task \in Tasks /\ sess \in Sessions /\ heard \in Int
    BY DEF Types, TaskTypes
<1>3. CASE Wake \/ Connected
    <2>1. task.at \notin {"Loop", "Blocked", "Aborted"} /\ task'.at \in {"Connecting", "Welcome"}
          /\ UNCHANGED <<sess, listing, published>>
        BY <1>2, <1>3 DEF Wake, Connected, Tasks
    <2> QED BY <2>1 DEF TimeInv
<1>4. CASE WithinExpired \/ Silent
    BY <1>4, FailsTime DEF WithinExpired, Silent
<1>5. CASE ReadPage \/ HttpAnswers \/ ServerAnswers \/ Change
    <2>1. UNCHANGED <<task, sess, published, heard>> /\ (listing = <<>> => listing' = <<>>)
        BY <1>5, RangeOfOne DEF ReadPage, HttpAnswers, ServerAnswers, Change
    <2> QED BY <2>1 DEF TimeInv
<1>6. CASE Listed \/ Relist
    <2>1. task.at = "Loop" /\ UNCHANGED <<task, heard>>
        BY <1>6 DEF Listed, Relist
    <2>2. PICK s \in Sessions, l \in {<<>>, listing} : Top(s, l) /\ s.silent = sess.silent
        <3>1. CASE Listed
            <4>1. PICK n \in Int : Top([sess EXCEPT !.relist = n], <<>>)
                BY <3>1, Numbers DEF Listed, publish
            <4>2. [sess EXCEPT !.relist = n] \in Sessions /\ [sess EXCEPT !.relist = n].silent = sess.silent
                BY <1>2 DEF Sessions
            <4> QED BY <4>1, <4>2
        <3>2. CASE Relist
            <4>1. Noticed(sess) \in Sessions /\ Noticed(sess).silent = sess.silent
                BY <1>2 DEF Sessions, Noticed
            <4> QED BY <3>2, <4>1 DEF Relist
        <3> QED BY <1>6, <3>1, <3>2
    <2>3. sess'.silent = sess.silent
        BY <2>2, TopSilent
    <2> QED BY <2>1, <2>3 DEF TimeInv
<1>7. CASE Probe
    <2>1. CASE Write(conn, "Ping", task) /\ sess' = Probed(sess) /\ UNCHANGED <<listing, published>>
        <3>1. task.at = "Loop" /\ heard' = heard /\ sess'.silent = sess.silent
            BY <1>2, <1>7, <2>1 DEF Probe, Probed, Sessions
        <3>2. "Ping" \in Requests /\ conn \in Conns
            BY DEF Requests, Types
        <3>3. task' = task \/ (task'.at = "Blocked" /\ task'.wait = Bound)
            BY <1>2, <2>1, <3>2, WriteType
        <3>4. heard <= 2 * Bound
            BY <1>2, <3>1, Numbers DEF TimeInv, Sessions
        <3> QED BY <1>2, <2>1, <3>1, <3>3, <3>4, Numbers DEF TimeInv
    <2>2. CASE FeedFails
        BY <2>2, FailsTime
    <2> QED BY <1>7, <2>1, <2>2 DEF Probe
<1>8. CASE DropFleet
    <2>1. task'.at = "Aborted" /\ sess' = Idle /\ listing' = <<>>
        BY <1>8 DEF DropFleet
    <2> QED BY <2>1, Numbers DEF TimeInv, Idle
<1>9. CASE Fault
    <2>1. CASE FeedFails
        BY <2>1, FailsTime
    <2>2. CASE UNCHANGED <<task, sess, published>> /\ (listing = <<>> => listing' = <<>>)
        BY <1>9, <2>2 DEF Fault, TimeInv
    <2> QED BY <1>9, <2>1, <2>2, RangeOfOne DEF Fault
<1> QED
    BY <1>1, <1>3, <1>4, <1>5, <1>6, <1>7, <1>8, <1>9, ReceiveTime, WelcomedTime, TickTime DEF Next, Task, Server

LEMMA TypesHold == Spec => []Types
<1>1. Types /\ [Next]_vars => Types'
    BY TypesStep
<1> QED BY <1>1, InitTypes, PTL DEF Spec

\* session gives up on a feed it has not heard for two probe periods, and follow on a write that takes longer than the
\* bound: for any catalog, timeouts, changes and faults, what is published as listed is of a session that has read a
\* message within three bounds.
THEOREM ListedStaysLive == Spec => []ListedIsLive
<1>1. Init => TimeInv
    BY Numbers DEF Init, TimeInv, Idle
<1>2. Types /\ TimeInv /\ [Next]_vars => TimeInv'
    BY TimeStep
<1>3. Types /\ TimeInv => ListedIsLive
    <2> SUFFICES ASSUME Types, TimeInv, published.kind = "Listed", task.at # "Aborted"
                 PROVE  task.at \in {"Loop", "Blocked"} /\ heard <= 3 * Bound
        BY DEF ListedIsLive, Aborted
    <2>1. task.wait \in Int /\ sess.silent \in Int /\ heard \in Int
        BY DEF Types, TaskTypes, Tasks, Sessions
    <2> QED BY <2>1, Numbers DEF TimeInv
<1> QED BY <1>1, <1>2, <1>3, TypesHold, PTL DEF Spec

-----------------------------------------------------------------------------
(* Whoever lists is subscribed. *)

LEMMA FailsAttached ==
    ASSUME Types, FeedFails
    PROVE  Attached'
<1>1. sess' = Idle /\ listing' = <<>> /\ published'.kind = "Failed" /\ conn' = NoConn
    BY FailType DEF Types
<1> QED BY <1>1, NoConnType DEF Attached, Idle

\* The session asks for no more than before, or the connection is subscribed.
LEMMA StaysAttached ==
    ASSUME Attached, task.at \in {"Welcome", "Loop", "Blocked"}, task'.at \in {"Welcome", "Loop", "Blocked"},
           conn'.stage = "None" => conn.stage = "None",
           conn'.stage = "None" =>
             /\ (listing # <<>> \/ published.kind = "Listed" \/ sess.wanted \/ sess.relist # Off)
                \/ ~(listing' # <<>> \/ published'.kind = "Listed" \/ sess'.wanted \/ sess'.relist # Off)
             /\ \A m \in {"SubscribeAck", "VaultCatalogChanged"} : m \in Range(conn'.inbox) => m \in Range(conn.inbox)
    PROVE  Attached'
BY DEF Attached

LEMMA TopKeeps ==
    ASSUME NEW s \in Sessions, NEW l, Top(s, l)
    PROVE  /\ sess'.wanted => s.wanted
           /\ sess'.relist # Off => s.relist # Off
           /\ ~s.wanted => listing' = l
BY DEF Top, Sessions

LEMMA ReceiveAttached ==
    ASSUME Types, Attached, Receive
    PROVE  Attached'
<1> DEFINE m == Head(conn.inbox)
           c == [conn EXCEPT !.inbox = Tail(@)]
           s == IF sess.probe = Off THEN sess ELSE [sess EXCEPT !.silent = 2 * Bound]
<1>1. task \in Tasks /\ sess \in Sessions /\ conn \in Conns /\ task.at = "Loop" /\ conn.inbox # <<>>
    BY DEF Receive, Types, TaskTypes
<1>2. s.wanted = sess.wanted /\ s.relist = sess.relist
    BY <1>1 DEF Sessions
<1>3. /\ c \in Conns /\ c.stage = conn.stage /\ c.inbox = Tail(conn.inbox) /\ m \in Range(conn.inbox)
      /\ \A x \in Range(c.inbox) : x \in Range(conn.inbox)
    BY <1>1, ReadType DEF Conns
<1>4. CASE FeedFails
    BY <1>4, FailsAttached
<1>5. CASE m \in DOMAIN Answers /\ Write(c, Answers[m], task) /\ sess' = s /\ UNCHANGED <<listing, published>>
    <2>1. Answers[m] \in Requests
        BY <1>5 DEF Answers, Requests
    <2> HIDE DEF m, c, s
    <2>2. conn'.stage = c.stage /\ conn'.inbox = c.inbox /\ task'.at \in {"Loop", "Blocked"}
        BY <1>1, <1>3, <1>5, <2>1, WriteType
    <2> QED BY <1>1, <1>2, <1>3, <1>5, <2>2, StaysAttached
<1>6. CASE m \in {"SubscribeAck", "VaultCatalogChanged"} /\ conn' = c /\ task'.at = task.at
    <2>1. conn.stage # "None"
        BY <1>3, <1>6 DEF Attached
    <2> HIDE DEF m, c, s
    <2> QED BY <1>1, <1>3, <1>6, <2>1, StaysAttached
<1>7. CASE sess' = s /\ conn' = c /\ UNCHANGED <<task, listing, published>>
    <2> HIDE DEF m, c, s
    <2> QED BY <1>1, <1>2, <1>3, <1>7, StaysAttached
<1> QED
    <2>1. \/ FeedFails
          \/ m \in DOMAIN Answers /\ Write(c, Answers[m], task) /\ sess' = s /\ UNCHANGED <<listing, published>>
          \/ m = "SubscribeAck" /\ conn' = c /\ task' = [task EXCEPT !.delay = Retry]
          \/ m = "VaultCatalogChanged" /\ conn' = c /\ UNCHANGED task
          \/ sess' = s /\ conn' = c /\ UNCHANGED <<task, listing, published>>
        BY Zenon DEF Receive
    <2>2. task' = [task EXCEPT !.delay = Retry] => task'.at = task.at
        BY <1>1 DEF Tasks
    <2> HIDE DEF m, c, s
    <2> QED BY <1>4, <1>5, <1>6, <1>7, <2>1, <2>2

\* What arrives on a connection, except a change of the catalog.
LEMMA ServerFacts ==
    ASSUME Types, ServerAnswers
    PROVE  /\ conn.link = "Up" /\ conn'.link = "Up" /\ Range(conn.inbox) \subseteq Range(conn'.inbox)
           /\ conn'.stage = "None" => /\ conn.stage = "None"
                                      /\ "SubscribeAck" \in Range(conn'.inbox) => "SubscribeAck" \in Range(conn.inbox)
           /\ "VaultCatalogChanged" \in Range(conn'.inbox) => "VaultCatalogChanged" \in Range(conn.inbox)
<1>1. conn \in Conns /\ conn.link = "Up"
    BY DEF ServerAnswers, Types
<1>2. CASE conn' = [conn EXCEPT !.sent = Tail(@), !.stage = "Subscribed"]
    <2>1. conn'.stage = "Subscribed" /\ conn'.inbox = conn.inbox /\ conn'.link = conn.link
        BY <1>1, <1>2 DEF Conns
    <2> QED BY <1>1, <2>1
<1>3. CASE conn' = [conn EXCEPT !.stage = "Acked", !.inbox = Append(@, "SubscribeAck")]
    <2>1. Range(Append(conn.inbox, "SubscribeAck")) = Range(conn.inbox) \cup {"SubscribeAck"}
        BY <1>1, PushType DEF Messages
    <2>2. conn'.stage = "Acked" /\ conn'.inbox = Append(conn.inbox, "SubscribeAck") /\ conn'.link = conn.link
        BY <1>1, <1>3 DEF Conns
    <2> QED BY <1>1, <2>1, <2>2
<1>4. CASE /\ Head(conn.sent) \in DOMAIN Reply
           /\ conn' = [conn EXCEPT !.sent = Tail(@), !.inbox = Append(@, Reply[Head(conn.sent)])]
    <2>1. Reply[Head(conn.sent)] \in Messages \ {"SubscribeAck", "VaultCatalogChanged"}
        BY <1>4 DEF Reply, Messages
    <2>2. Range(Append(conn.inbox, Reply[Head(conn.sent)])) = Range(conn.inbox) \cup {Reply[Head(conn.sent)]}
        BY <1>1, <2>1, PushType
    <2>3. /\ conn'.stage = conn.stage /\ conn'.link = conn.link
          /\ conn'.inbox = Append(conn.inbox, Reply[Head(conn.sent)])
        BY <1>1, <1>4 DEF Conns
    <2> QED BY <1>1, <2>1, <2>2, <2>3
<1> QED BY <1>2, <1>3, <1>4 DEF ServerAnswers

\* A fault that hits the connection.
Hit ==
    /\ conn.link = "Up"
    /\ \/ conn' = [conn EXCEPT !.link = "Mute"]
       \/ conn' = [conn EXCEPT !.link = "Down", !.inbox = Append(@, "Closed")]
       \/ Push("Unreadable")
       \/ /\ conn.sent # <<>> /\ Head(conn.sent) \in DOMAIN Refusal
          /\ conn' = [conn EXCEPT !.sent = Tail(@), !.inbox = Append(@, Refusal[Head(conn.sent)])]
    /\ UNCHANGED <<task, sess, listing, published>>

LEMMA HitFacts ==
    ASSUME Types, Hit
    PROVE  /\ conn.link = "Up" /\ conn'.stage = conn.stage /\ Range(conn.inbox) \subseteq Range(conn'.inbox)
           /\ \A m \in {"SubscribeAck", "VaultCatalogChanged"} : m \in Range(conn'.inbox) => m \in Range(conn.inbox)
<1>1. conn \in Conns /\ conn.link = "Up"
    BY DEF Hit, Types
<1>2. CASE conn' = [conn EXCEPT !.link = "Mute"]
    <2>1. conn'.stage = conn.stage /\ conn'.inbox = conn.inbox
        BY <1>1, <1>2 DEF Conns
    <2> QED BY <1>1, <2>1
<1>3. ASSUME NEW m \in Fatal, conn'.inbox = Append(conn.inbox, m), conn'.stage = conn.stage
      PROVE  /\ conn.link = "Up" /\ conn'.stage = conn.stage /\ Range(conn.inbox) \subseteq Range(conn'.inbox)
             /\ \A x \in {"SubscribeAck", "VaultCatalogChanged"} : x \in Range(conn'.inbox) => x \in Range(conn.inbox)
    <2>1. m \in Messages /\ m \notin {"SubscribeAck", "VaultCatalogChanged"}
        BY DEF Fatal, Messages
    <2>2. Range(Append(conn.inbox, m)) = Range(conn.inbox) \cup {m}
        BY <1>1, <2>1, PushType
    <2> QED BY <1>1, <1>3, <2>1, <2>2
<1>4. CASE conn' = [conn EXCEPT !.link = "Down", !.inbox = Append(@, "Closed")]
    <2>1. conn'.stage = conn.stage /\ conn'.inbox = Append(conn.inbox, "Closed")
        BY <1>1, <1>4 DEF Conns
    <2>2. "Closed" \in Fatal
        BY DEF Fatal
    <2> QED BY <1>3, <2>1, <2>2
<1>5. CASE Push("Unreadable")
    <2>1. conn'.stage = conn.stage /\ conn'.inbox = Append(conn.inbox, "Unreadable")
        BY <1>1, <1>5 DEF Conns, Push
    <2>2. "Unreadable" \in Fatal
        BY DEF Fatal
    <2> QED BY <1>3, <2>1, <2>2
<1>6. CASE /\ Head(conn.sent) \in DOMAIN Refusal
           /\ conn' = [conn EXCEPT !.sent = Tail(@), !.inbox = Append(@, Refusal[Head(conn.sent)])]
    <2>1. conn'.stage = conn.stage /\ conn'.inbox = Append(conn.inbox, Refusal[Head(conn.sent)])
        BY <1>1, <1>6 DEF Conns
    <2>2. Refusal[Head(conn.sent)] \in Fatal
        BY <1>6 DEF Fatal, Refusal
    <2> QED BY <1>3, <2>1, <2>2
<1> QED BY <1>2, <1>4, <1>5, <1>6 DEF Hit

\* The three kinds of fault.
LEMMA FaultCases ==
    ASSUME Fault
    PROVE  /\ UNCHANGED <<catalog, cache, heard>>
           /\ \/ FeedFails
              \/ Hit
              \/ /\ \E l \in Range(listing) :
                      l.done = "No" /\ l.reply = <<>> /\ listing' = <<[l EXCEPT !.reply = <<[status |-> "Error"]>>]>>
                 /\ UNCHANGED <<task, sess, conn, published>>
BY DEF Fault, Hit

LEMMA AttachedStep ==
    ASSUME Types, TimeInv, Attached, [Next]_vars
    PROVE  Attached'
<1>1. CASE UNCHANGED vars
    BY <1>1 DEF Attached, vars
<1>2. task \in Tasks /\ sess \in Sessions /\ conn \in Conns
    BY DEF Types, TaskTypes
<1>3. CASE Wake
    <2>1. task.at = "Asleep" /\ UNCHANGED <<conn, sess, listing, published>>
        BY <1>3 DEF Wake
    <2> QED BY <2>1 DEF Attached
<1>4. CASE Connected
    <2>1. task.at = "Connecting" /\ conn = NoConn /\ UNCHANGED <<sess, listing, published>>
        BY <1>4 DEF Connected, Attached
    <2>2. task'.at = "Welcome" /\ Range(conn'.inbox) = {}
        BY <1>2, <1>4, RangeOfOne DEF Connected, Tasks
    <2> QED BY <2>1, <2>2, NoConnType DEF Attached
<1>5. CASE WithinExpired \/ Silent
    BY <1>5, FailsAttached DEF WithinExpired, Silent
<1>6. CASE Welcomed
    <2> DEFINE c == [conn EXCEPT !.inbox = Tail(@)]
    <2>1. CASE FeedFails
        BY <2>1, FailsAttached
    <2>2. CASE /\ Write(c, "StartAuth", [task EXCEPT !.at = "Loop", !.wait = 0])
               /\ UNCHANGED <<sess, listing, published>>
        <3>1. /\ c \in Conns /\ c.stage = conn.stage /\ c.inbox = Tail(conn.inbox)
              /\ \A x \in Range(c.inbox) : x \in Range(conn.inbox)
            BY <1>2, <1>6, ReadType DEF Conns, Welcomed
        <3>2. task' = [task EXCEPT !.at = "Loop", !.wait = 0] \/ task' = [task EXCEPT !.at = "Blocked", !.wait = Bound]
            BY <2>2 DEF Write
        <3>3. task'.at \in {"Loop", "Blocked"} /\ task.at = "Welcome"
            BY <1>2, <1>6, <3>2 DEF Tasks, Welcomed
        <3>4. conn'.stage = c.stage /\ conn'.inbox = c.inbox
            <4> HIDE DEF c
            <4> QED BY <2>2, <3>1 DEF Write, Conns
        <3> HIDE DEF c
        <3> QED BY <2>2, <3>1, <3>3, <3>4, StaysAttached
    <2> QED BY <1>6, <2>1, <2>2 DEF Welcomed
<1>7. CASE ReadPage \/ HttpAnswers
    <2>1. UNCHANGED <<task, sess, published, conn>> /\ listing # <<>>
        BY <1>7, RangeOfOne DEF ReadPage, HttpAnswers
    <2> QED BY <2>1 DEF Attached
<1>8. CASE Listed
    <2>1. task.at = "Loop" /\ UNCHANGED <<task, conn>> /\ listing # <<>>
        BY <1>8, RangeOfOne DEF Listed
    <2> QED BY <2>1 DEF Attached
<1>9. CASE Relist
    <2>1. task.at = "Loop" /\ UNCHANGED <<task, conn>> /\ sess.relist # Off
        BY <1>9 DEF Relist, Off
    <2> QED BY <2>1 DEF Attached
<1>10. CASE Probe
    <2>1. CASE Write(conn, "Ping", task) /\ sess' = Probed(sess) /\ UNCHANGED <<listing, published>>
        <3>1. task.at = "Loop" /\ sess'.wanted = sess.wanted /\ sess'.relist = sess.relist
            BY <1>2, <1>10, <2>1 DEF Probe, Probed, Sessions
        <3>2. "Ping" \in Requests
            BY DEF Requests
        <3>3. task'.at \in {"Loop", "Blocked"} /\ conn'.stage = conn.stage /\ conn'.inbox = conn.inbox
            BY <1>2, <2>1, <3>1, <3>2, WriteType
        <3> QED BY <2>1, <3>1, <3>3, StaysAttached
    <2>2. CASE FeedFails
        BY <2>2, FailsAttached
    <2> QED BY <1>10, <2>1, <2>2 DEF Probe
<1>11. CASE DropFleet
    BY <1>11, NoConnType DEF DropFleet, Attached
<1>12. CASE ~Aborted /\ ServerAnswers
    <2>1. UNCHANGED <<task, sess, listing, published>>
        BY <1>12 DEF ServerAnswers
    <2>2. task.at \in {"Welcome", "Loop", "Blocked"}
        BY <1>2, <1>12, ServerFacts, NoConnType DEF Attached, Tasks, Aborted
    <2> QED BY <1>12, <2>1, <2>2, ServerFacts, StaysAttached
<1>13. CASE Change
    <2>1. UNCHANGED <<task, sess, listing, published>>
        BY <1>13 DEF Change
    <2>2. CASE UNCHANGED conn
        BY <2>1, <2>2 DEF Attached
    <2>3. CASE conn.link = "Up" /\ conn.stage # "None" /\ Push("VaultCatalogChanged")
        <3>1. conn'.stage # "None"
            BY <1>2, <2>3 DEF Push, Conns
        <3> QED BY <2>1, <2>3, <3>1, NoConnType DEF Attached
    <2> QED BY <1>13, <2>2, <2>3 DEF Change
<1>14. CASE ~Aborted /\ Fault
    <2>1. CASE FeedFails
        BY <2>1, FailsAttached
    <2>2. CASE Hit
        <3>1. UNCHANGED <<task, sess, listing, published>>
            BY <2>2 DEF Hit
        <3>2. task.at \in {"Welcome", "Loop", "Blocked"}
            BY <1>2, <1>14, <2>2, HitFacts, NoConnType DEF Attached, Tasks, Aborted
        <3> QED BY <2>2, <3>1, <3>2, HitFacts, StaysAttached
    <2>3. CASE listing # <<>> /\ UNCHANGED <<task, sess, conn, published>>
        BY <2>3 DEF Attached
    <2> QED BY <1>14, <2>1, <2>2, <2>3, FaultCases, RangeOfOne
<1>15. CASE Tick
    <2>1. UNCHANGED <<published, conn>> /\ task'.at = task.at /\ (listing = <<>> => listing' = <<>>)
        BY <1>2, <1>15 DEF Tick, Tasks
    <2>2. sess'.wanted = sess.wanted /\ sess'.relist \in {sess.relist, Less(sess.relist)}
        BY <1>2, <1>15 DEF Tick, Sessions
    <2>3. sess.relist = Off => sess'.relist = Off
        BY <2>2 DEF Less, Off
    <2> QED BY <2>1, <2>2, <2>3 DEF Attached
<1> QED
    BY <1>1, <1>3, <1>4, <1>5, <1>6, <1>7, <1>8, <1>9, <1>10, <1>11, <1>12, <1>13, <1>14, <1>15, ReceiveAttached
       DEF Next, Task, Server

-----------------------------------------------------------------------------
(* What is published is the catalog. *)

\* The pages of a catalog that rests follow one another without gap, and the last one completes it.
LEMMA NextPage ==
    ASSUME catalog \subseteq Vaults, NEW after \in Cursors, NEW got, got = {v \in catalog : v <= after}
    PROVE  /\ Page(after).next = Start => got \cup Page(after).vaults = catalog
           /\ Page(after).next # Start => got \cup Page(after).vaults = {v \in catalog : v <= Page(after).next}
<1> DEFINE rest == {v \in catalog : v > after}
<1>1. after \in Nat /\ catalog \subseteq Nat \ {0}
    BY Numbers DEF Cursors
<1>2. \A v \in catalog : v \in got <=> v \notin rest
    BY <1>1
<1>3. CASE rest = {}
    <2>1. Page(after) = [vaults |-> {}, next |-> Start]
        BY <1>3 DEF Page
    <2>2. got = catalog
        BY <1>2, <1>3
    <2> QED BY <2>1, <2>2
<1>4. CASE rest # {}
    <2>1. Min(rest) \in rest /\ \A y \in rest : Min(rest) <= y
        <3>1. rest \in SUBSET Nat
            BY <1>1
        <3> QED BY <1>4, <3>1, MinOfVaults
    <2>2. Page(after) = [vaults |-> {Min(rest)}, next |-> IF Cardinality(rest) > 1 THEN Min(rest) ELSE Start]
        BY <1>4 DEF Page
    <2>3. CASE Cardinality(rest) > 1
        <3>1. Page(after).next = Min(rest) /\ Page(after).vaults = {Min(rest)}
            BY <2>2, <2>3
        <3>2. Min(rest) # Start
            BY <1>1, <2>1, Numbers
        <3>3. ASSUME NEW v \in catalog
              PROVE  v \in got \cup {Min(rest)} <=> v <= Min(rest)
            <4>1. Min(rest) \in Nat /\ v \in Nat /\ after < Min(rest)
                BY <1>1, <2>1
            <4>2. CASE v \in rest
                BY <1>2, <2>1, <4>1, <4>2
            <4>3. CASE v \notin rest
                BY <1>1, <1>2, <4>1, <4>3
            <4> QED BY <4>2, <4>3
        <3>4. Min(rest) \in catalog /\ got \subseteq catalog
            BY <2>1
        <3>5. got \cup {Min(rest)} = {v \in catalog : v <= Min(rest)}
            <4> HIDE DEF rest
            <4> QED BY <3>3, <3>4
        <3> QED BY <3>1, <3>2, <3>5
    <2>4. CASE ~(Cardinality(rest) > 1)
        <3>1. Page(after).next = Start /\ Page(after).vaults = {Min(rest)}
            BY <2>2, <2>4
        <3>2. IsFiniteSet(rest)
            <4>1. IsFiniteSet(Vaults)
                BY FS_Interval, Numbers DEF Vaults
            <4>2. rest \in SUBSET Vaults
                OBVIOUS
            <4> QED BY <4>1, <4>2, FS_Subset
        <3>3. Cardinality(rest) = 1
            <4> HIDE DEF rest
            <4>1. Cardinality(rest) \in Nat /\ Cardinality(rest) # 0
                BY <1>4, <3>2, FS_CardinalityType, FS_EmptySet
            <4> QED BY <2>4, <4>1
        <3>4. PICK x : rest = {x}
            <4> HIDE DEF rest
            <4> QED BY <3>2, <3>3, FS_Singleton
        <3>5. rest = {Min(rest)}
            <4> HIDE DEF rest
            <4> QED BY <2>1, <3>4
        <3>6. \A v \in catalog : v \in got \cup {Min(rest)}
            <4> HIDE DEF rest
            <4> QED BY <1>2, <3>5
        <3>7. got \cup {Min(rest)} = catalog
            <4>1. Min(rest) \in catalog /\ got \subseteq catalog
                BY <2>1
            <4> HIDE DEF rest
            <4> QED BY <3>6, <4>1
        <3> QED BY <3>1, <3>7
    <2> QED BY <2>3, <2>4
<1> QED BY <1>3, <1>4

\* Nothing to say where nothing is listed.
LEMMA NothingListed ==
    ASSUME listing' = <<>>, published'.kind # "Listed" \/ ~Fresh'
    PROVE  Current'
BY RangeOfOne DEF Current

\* Listings and catalog rest, and no change comes to be waited for, or goes unlisted.
LEMMA StaysCurrent ==
    ASSUME Current, UNCHANGED <<catalog, cache, listing, published>>, Fresh' => Fresh
    PROVE  Current'
<1>1. \A l \in Range(listing) : Asked(l)' /\ (UpToDate(l) => UpToDate(l)')
    BY DEF Current, Asked, UpToDate, Page
<1> QED BY <1>1 DEF Current

\* A listing that is asked for starts with nothing got and the first page to get.
LEMMA TopCurrent ==
    ASSUME Types, Current, NEW s \in Sessions, s.wanted, NEW l \in {<<>>, listing}, Top(s, l), UNCHANGED <<catalog, cache>>
    PROVE  Current'
<1>1. CASE l = <<>>
    <2>1. PICK a : a = Ask(Start, {}, {}, Bound) /\ listing' = <<a>>
        BY <1>1 DEF Top
    <2>2. a.cursor = Start /\ a.etag = cache[Start] /\ a.done = "No" /\ a.got = {} /\ a.reply = <<>>
        BY <2>1 DEF Ask
    <2>3. Range(listing') = {a} /\ listing' # <<>>
        BY <2>1, RangeOfOne
    <2>4. Asked(a)'
        BY <2>2 DEF Asked
    <2>5. {v \in catalog : v <= Start} = {}
        <3>1. \A v \in catalog : v \in Nat /\ v # 0
            BY Numbers DEF Types, ListTypes
        <3> QED BY <3>1, Numbers
    <2>6. UpToDate(a)'
        BY <2>2, <2>5, RangeOfOne DEF UpToDate
    <2> QED BY <2>3, <2>4, <2>6 DEF Current
<1>2. CASE l # <<>>
    <2>1. sess' = s /\ listing' = listing /\ listing # <<>>
        BY <1>2 DEF Top
    <2>2. ~Fresh'
        BY <2>1 DEF Fresh
    <2>3. \A x \in Range(listing) : Asked(x)'
        BY DEF Current, Asked
    <2> QED BY <2>1, <2>2, <2>3 DEF Current
<1> QED BY <1>1, <1>2

\* A page that is read extends what was got, by the catalog's next part if nothing changed.
LEMMA ReadPageCurrent ==
    ASSUME Types, Current, ReadPage
    PROVE  Current'
<1>1. UNCHANGED <<catalog, task, sess, published, conn>> /\ ListTypes
    BY DEF ReadPage, Types
<1>2. PICK l \in Range(listing) : l.done = "No" /\ \E r \in Range(l.reply) :
            \/ r.status = "Error" /\ listing' = <<[l EXCEPT !.done = "Failed", !.reply = <<>>]>> /\ UNCHANGED cache
            \/ /\ r.status # "Error"
               /\ \E page \in IF r.status = "NotModified" THEN Range(cache[l.cursor]) ELSE {r.page} :
                    /\ cache' \in {cache, [cache EXCEPT ![l.cursor] = <<page>>]}
                    /\ listing' = <<advance(l, page)>>
    BY DEF ReadPage
<1>3. PICK r \in Range(l.reply) :
            \/ r.status = "Error" /\ listing' = <<[l EXCEPT !.done = "Failed", !.reply = <<>>]>> /\ UNCHANGED cache
            \/ /\ r.status # "Error"
               /\ \E page \in IF r.status = "NotModified" THEN Range(cache[l.cursor]) ELSE {r.page} :
                    /\ cache' \in {cache, [cache EXCEPT ![l.cursor] = <<page>>]}
                    /\ listing' = <<advance(l, page)>>
    BY <1>2
<1>4. l \in Listings /\ l.cursor \in Cursors /\ l.cursor \in l.seen \cup {Start}
    BY <1>1, <1>2, SlotType DEF Listings, Current, Asked
<1>5. Fresh' => Fresh /\ UpToDate(l)
    BY <1>1, <1>2 DEF Fresh, Current
<1>6. ASSUME NEW x, listing' = <<x>>, Asked(x)', Fresh' => UpToDate(x)'
      PROVE  Current'
    BY <1>6, RangeOfOne DEF Current
<1>7. CASE listing' = <<[l EXCEPT !.done = "Failed", !.reply = <<>>]>>
    <2>1. PICK x : x = [l EXCEPT !.done = "Failed", !.reply = <<>>]
        OBVIOUS
    <2>2. x.done = "Failed"
        BY <1>4, <2>1 DEF Listings
    <2>3. Asked(x)' /\ UpToDate(x)'
        BY <2>2 DEF Asked, UpToDate
    <2> QED BY <1>6, <1>7, <2>1, <2>3
<1>8. ASSUME NEW page \in IF r.status = "NotModified" THEN Range(cache[l.cursor]) ELSE {r.page},
             r.status # "Error", cache' \in {cache, [cache EXCEPT ![l.cursor] = <<page>>]}, listing' = <<advance(l, page)>>
      PROVE  Current'
    <2>1. r \in Replies
        <3>1. l.reply \in Replied /\ l.reply # <<>>
            BY <1>3, <1>4, RangeOfOne DEF Listings
        <3> QED BY <3>1, RangeOfOne DEF Replied
    <2>2. Fresh' => page = Page(l.cursor) /\ l.got = {v \in catalog : v <= l.cursor}
        <3> SUFFICES ASSUME Fresh'
                     PROVE  page = Page(l.cursor) /\ l.got = {v \in catalog : v <= l.cursor}
            OBVIOUS
        <3>1. /\ l.got = {v \in catalog : v <= l.cursor}
              /\ r.status = "NotModified" => cache[l.cursor] = <<Page(l.cursor)>>
              /\ r.status = "Ok" => r.page = Page(l.cursor)
            BY <1>2, <1>5 DEF UpToDate
        <3>2. CASE r.status = "NotModified"
            BY <1>8, <3>1, <3>2, RangeOfOne
        <3>3. CASE r.status = "Ok"
            BY <1>8, <3>1, <3>3
        <3> QED BY <1>8, <2>1, <3>1, <3>2, <3>3 DEF Replies
    <2>3. PICK x : x = advance(l, page)
        OBVIOUS
    <2>4. PICK got : got = l.got \cup page.vaults
        OBVIOUS
    <2>5. /\ Fresh' /\ page.next = Start => got = catalog
          /\ Fresh' /\ page.next # Start => got = {v \in catalog : v <= page.next}
        BY <1>1, <1>4, <2>2, <2>4, NextPage DEF ListTypes
    <2>6. CASE page.next = Start
        <3>1. x.done = "Ok" /\ x.got = got
            BY <1>4, <2>3, <2>4, <2>6 DEF advance, Listings
        <3>2. Asked(x)' /\ (Fresh' => UpToDate(x)')
            BY <1>1, <2>5, <2>6, <3>1 DEF Asked, UpToDate
        <3> QED BY <1>6, <1>8, <2>3, <3>2
    <2>7. CASE page.next # Start /\ page.next \in l.seen
        <3>1. x.done = "Failed"
            BY <1>4, <2>3, <2>7 DEF advance, Listings
        <3>2. Asked(x)' /\ UpToDate(x)'
            BY <3>1 DEF Asked, UpToDate
        <3> QED BY <1>6, <1>8, <2>3, <3>2
    <2>8. CASE page.next # Start /\ page.next \notin l.seen
        <3>1. x = Ask(page.next, l.seen \cup {page.next}, got, l.timeout)
            BY <2>3, <2>4, <2>8 DEF advance
        <3>2. /\ x.cursor = page.next /\ x.etag = cache[page.next] /\ x.got = got /\ x.reply = <<>>
              /\ x.done = "No" /\ page.next \in x.seen
            BY <3>1 DEF Ask
        <3>3. page.next # l.cursor
            BY <1>4, <2>8
        <3>4. cache'[page.next] = cache[page.next]
            <4>1. DOMAIN cache = Cursors
                BY <1>1 DEF ListTypes
            <4>2. page.next \in Cursors
                BY <1>1, <1>4, <1>8, <2>1, ReadIsPage DEF Pages
            <4> QED BY <1>8, <3>3, <4>1, <4>2
        <3>5. Asked(x)'
            BY <3>2, <3>4 DEF Asked
        <3>6. Fresh' => UpToDate(x)'
            BY <1>1, <2>5, <2>8, <3>2, RangeOfOne DEF UpToDate
        <3> QED BY <1>6, <1>8, <2>3, <3>5, <3>6
    <2> QED BY <2>6, <2>7, <2>8
<1> QED BY <1>3, <1>7, <1>8

\* The listing in flight changes in what the catalog does not bear on.
LEMMA ReplyCurrent ==
    ASSUME Types, Current, UNCHANGED <<catalog, cache, published>>, Fresh' => Fresh,
           NEW l \in Range(listing), NEW x, listing' = <<x>>,
           x.cursor = l.cursor, x.seen = l.seen, x.got = l.got, x.etag = l.etag, x.done = l.done,
           x.reply = l.reply \/
             \A r \in Range(x.reply) : /\ r.status = "NotModified" => l.etag = <<Page(l.cursor)>>
                                       /\ r.status = "Ok" => r.page = Page(l.cursor)
    PROVE  Current'
<1>1. Range(listing') = {x} /\ listing' # <<>>
    BY RangeOfOne
<1>2. Asked(l) /\ (Fresh => UpToDate(l))
    BY DEF Current
<1>3. Asked(x)'
    BY <1>2 DEF Asked
<1>4. Page(l.cursor)' = Page(l.cursor)
    BY DEF Page
<1>5. ASSUME Fresh
      PROVE  UpToDate(x)'
    <2>1. UpToDate(l)
        BY <1>2, <1>5
    <2>2. x.done = "No" => x.got = {v \in catalog : v <= x.cursor}
        BY <2>1 DEF UpToDate
    <2>3. x.done = "Ok" => x.got = catalog
        BY <2>1 DEF UpToDate
    <2>4. ASSUME x.done = "No", NEW r \in Range(x.reply)
          PROVE  /\ r.status = "NotModified" => cache[x.cursor] = <<Page(x.cursor)>>
                 /\ r.status = "Ok" => r.page = Page(x.cursor)
        <3>1. l.etag = cache[l.cursor]
            BY <1>2, <2>4 DEF Asked
        <3>2. CASE x.reply = l.reply
            BY <2>1, <2>4, <3>2 DEF UpToDate
        <3>3. CASE /\ r.status = "NotModified" => l.etag = <<Page(l.cursor)>>
                   /\ r.status = "Ok" => r.page = Page(l.cursor)
            BY <3>1, <3>3
        <3> QED BY <2>4, <3>2, <3>3
    <2> QED BY <1>4, <2>2, <2>3, <2>4 DEF UpToDate
<1> QED BY <1>1, <1>3, <1>5 DEF Current

LEMMA HttpCurrent ==
    ASSUME Types, Current, HttpAnswers
    PROVE  Current'
<1>1. UNCHANGED <<catalog, task, sess, cache, published, conn>> /\ ListTypes
    BY DEF HttpAnswers, Types
<1>2. PICK l \in Range(listing) :
        listing' = <<[l EXCEPT !.reply = <<IF l.etag = <<Page(l.cursor)>> THEN [status |-> "NotModified"]
                                           ELSE [status |-> "Ok", page |-> Page(l.cursor)]>>]>>
    BY DEF HttpAnswers
<1>3. PICK r : r = IF l.etag = <<Page(l.cursor)>> THEN [status |-> "NotModified"]
                   ELSE [status |-> "Ok", page |-> Page(l.cursor)]
    OBVIOUS
<1>4. PICK x : x = [l EXCEPT !.reply = <<r>>]
    OBVIOUS
<1>5. l \in Listings
    BY <1>1, SlotType
<1>6. /\ x.cursor = l.cursor /\ x.seen = l.seen /\ x.got = l.got /\ x.etag = l.etag /\ x.done = l.done
      /\ x.reply = <<r>>
    BY <1>4, <1>5 DEF Listings
<1>7. listing' = <<x>>
    BY <1>2, <1>3, <1>4
<1>8. Fresh' => Fresh
    BY <1>1 DEF Fresh
<1>9. /\ r.status = "NotModified" => l.etag = <<Page(l.cursor)>>
      /\ r.status = "Ok" => r.page = Page(l.cursor)
    BY <1>3
<1>10. Range(x.reply) = {r}
    BY <1>6, RangeOfOne
<1> QED BY <1>1, <1>6, <1>7, <1>8, <1>9, <1>10, ReplyCurrent

LEMMA NoticedWants ==
    ASSUME NEW s \in Sessions
    PROVE  Noticed(s) \in Sessions /\ Noticed(s).wanted
<1>1. Noticed(s) \in Sessions
    BY DEF Noticed, Sessions
<1>2. Noticed(s).wanted = TRUE
    BY DEF Noticed, Sessions
<1> QED BY <1>1, <1>2

LEMMA ReceiveCurrent ==
    ASSUME Types, Current, Receive
    PROVE  Current'
<1> DEFINE m == Head(conn.inbox)
           c == [conn EXCEPT !.inbox = Tail(@)]
           s == IF sess.probe = Off THEN sess ELSE [sess EXCEPT !.silent = 2 * Bound]
<1>1. task \in Tasks /\ sess \in Sessions /\ conn \in Conns /\ task.at = "Loop" /\ conn.inbox # <<>>
      /\ UNCHANGED <<catalog, cache>>
    BY DEF Receive, Types, TaskTypes
<1>2. s \in Sessions /\ s.wanted = sess.wanted
    BY <1>1, Numbers DEF Sessions
<1>3. c \in Conns /\ c.link = conn.link /\ c.inbox = Tail(conn.inbox) /\ Range(conn.inbox) = Range(c.inbox) \cup {m}
    BY <1>1, ReadType DEF Conns
<1>4. CASE FeedFails
    BY <1>4, FailType, NothingListed DEF Types
<1>5. ASSUME m # "VaultCatalogChanged", sess' = s, conn'.link = c.link, conn'.inbox = c.inbox,
             UNCHANGED <<listing, published>>
      PROVE  Current'
    <2> HIDE DEF m, c, s
    <2>1. Fresh' => Fresh
        BY <1>1, <1>2, <1>3, <1>5 DEF Fresh
    <2> QED BY <1>1, <1>5, <2>1, StaysCurrent
<1>6. CASE m \in DOMAIN Answers /\ Write(c, Answers[m], task) /\ sess' = s /\ UNCHANGED <<listing, published>>
    <2>1. Answers[m] \in Requests /\ m # "VaultCatalogChanged"
        BY <1>6 DEF Answers, Requests
    <2> HIDE DEF m, c, s
    <2>2. conn'.link = c.link /\ conn'.inbox = c.inbox
        BY <1>1, <1>3, <1>6, <2>1, WriteType
    <2> QED BY <1>5, <1>6, <2>1, <2>2
<1>7. CASE Top(Noticed([s EXCEPT !.probe = Bound, !.silent = 2 * Bound]), listing)
    <2> HIDE DEF m, c, s
    <2>1. [s EXCEPT !.probe = Bound, !.silent = 2 * Bound] \in Sessions
        BY <1>2, Numbers DEF Sessions
    <2>2. PICK t \in Sessions : t = Noticed([s EXCEPT !.probe = Bound, !.silent = 2 * Bound]) /\ t.wanted
        BY <2>1, NoticedWants
    <2> QED BY <1>1, <1>7, <2>2, TopCurrent
<1>8. CASE Top(Noticed(s), listing)
    <2> HIDE DEF m, c, s
    <2>1. PICK t \in Sessions : t = Noticed(s) /\ t.wanted
        BY <1>2, NoticedWants
    <2> QED BY <1>1, <1>8, <2>1, TopCurrent
<1>9. CASE m = "Pong" /\ sess' = s /\ conn' = c /\ UNCHANGED <<listing, published>>
    <2> HIDE DEF m, c, s
    <2> QED BY <1>5, <1>9
<1> QED
    <2>1. \/ FeedFails
          \/ m \in DOMAIN Answers /\ Write(c, Answers[m], task) /\ sess' = s /\ UNCHANGED <<listing, published>>
          \/ Top(Noticed([s EXCEPT !.probe = Bound, !.silent = 2 * Bound]), listing)
          \/ Top(Noticed(s), listing)
          \/ m = "Pong" /\ sess' = s /\ conn' = c /\ UNCHANGED <<listing, published>>
        BY Zenon DEF Receive
    <2> HIDE DEF m, c, s
    <2> QED BY <1>4, <1>6, <1>7, <1>8, <1>9, <2>1

LEMMA ListedCurrent ==
    ASSUME Types, Current, Listed
    PROVE  Current'
<1>1. task \in Tasks /\ sess \in Sessions /\ UNCHANGED <<catalog, task, cache, conn>>
    BY DEF Listed, Types, TaskTypes
<1>2. PICK l \in Range(listing) : publish(l.done = "Ok", l.got)
    BY DEF Listed
<1>3. PICK n \in Int : Top([sess EXCEPT !.relist = n], <<>>)
    BY <1>2, Numbers DEF publish
<1>4. PICK s \in Sessions : s = [sess EXCEPT !.relist = n] /\ s.wanted = sess.wanted
    <2>1. [sess EXCEPT !.relist = n] \in Sessions
        BY <1>1 DEF Sessions
    <2>2. [sess EXCEPT !.relist = n].wanted = sess.wanted
        BY <1>1 DEF Sessions
    <2> QED BY <2>1, <2>2
<1>5. CASE sess.wanted
    BY <1>1, <1>3, <1>4, <1>5, TopCurrent
<1>6. CASE ~sess.wanted
    <2>1. sess' = s /\ listing' = <<>>
        BY <1>3, <1>4, <1>6 DEF Top
    <2>2. Fresh' => UpToDate(l)
        BY <1>1, <1>4, <2>1 DEF Fresh, Current
    <2>3. Fresh' /\ l.done = "Ok" => l.got = catalog
        BY <2>2 DEF UpToDate
    <2>4. /\ l.done = "Ok" => published'.vaults = l.got
          /\ l.done # "Ok" => published'.kind = "Failed"
        BY <1>2 DEF publish, Failed
    <2> QED BY <1>1, <2>1, <2>3, <2>4, RangeOfOne DEF Current
<1> QED BY <1>5, <1>6

LEMMA CurrentStep ==
    ASSUME Types, TimeInv, Attached, Current, [Next]_vars
    PROVE  Current'
<1>1. CASE UNCHANGED vars
    BY <1>1, StaysCurrent DEF vars, Fresh
<1>2. task \in Tasks /\ sess \in Sessions /\ conn \in Conns
    BY DEF Types, TaskTypes
<1>3. CASE Wake \/ Connected \/ Welcomed
    <2>1. task.at \in {"Asleep", "Connecting", "Welcome"}
        BY <1>3 DEF Wake, Connected, Welcomed
    <2>2. listing = <<>> /\ published.kind # "Listed"
        BY <2>1 DEF TimeInv
    <2>3. CASE FeedFails
        BY <2>3, FailType, NothingListed DEF Types
    <2>4. CASE UNCHANGED <<listing, published>>
        BY <2>2, <2>4, NothingListed
    <2> QED BY <1>3, <2>3, <2>4 DEF Wake, Connected, Welcomed
<1>4. CASE WithinExpired \/ Silent
    BY <1>4, FailType, NothingListed DEF WithinExpired, Silent, Types
<1>5. CASE Relist
    BY <1>2, <1>5, NoticedWants, TopCurrent DEF Relist
<1>6. CASE Probe
    <2>1. CASE Write(conn, "Ping", task) /\ sess' = Probed(sess) /\ UNCHANGED <<listing, published>>
        <3>1. task.at = "Loop" /\ sess'.wanted = sess.wanted /\ UNCHANGED <<catalog, cache>>
            BY <1>2, <1>6, <2>1 DEF Probe, Probed, Sessions
        <3>2. "Ping" \in Requests
            BY DEF Requests
        <3>3. conn'.link = conn.link /\ conn'.inbox = conn.inbox
            BY <1>2, <2>1, <3>2, WriteType
        <3>4. Fresh' => Fresh
            BY <3>1, <3>3 DEF Fresh
        <3> QED BY <2>1, <3>1, <3>4, StaysCurrent
    <2>2. CASE FeedFails
        BY <2>2, FailType, NothingListed DEF Types
    <2> QED BY <1>6, <2>1, <2>2 DEF Probe
<1>7. CASE DropFleet
    <2>1. listing' = <<>> /\ task'.at = "Aborted"
        BY <1>7 DEF DropFleet
    <2> QED BY <2>1, NothingListed DEF Fresh
<1>8. CASE ServerAnswers
    <2>1. UNCHANGED <<catalog, task, sess, cache, listing, published>>
        BY <1>8 DEF ServerAnswers
    <2>2. Fresh' => Fresh
        BY <1>8, <2>1, ServerFacts DEF Fresh
    <2> QED BY <2>1, <2>2, StaysCurrent
<1>9. CASE Change
    <2>1. UNCHANGED <<task, sess, cache, listing, published>>
        BY <1>9 DEF Change
    <2>2. CASE conn.link = "Up" /\ conn.stage # "None"
        <3>1. conn'.inbox = Append(conn.inbox, "VaultCatalogChanged")
            BY <1>2, <1>9, <2>2 DEF Change, Push, Conns
        <3>2. "VaultCatalogChanged" \in Range(conn'.inbox)
            BY <1>2, <3>1, PushType DEF Messages
        <3>3. ~Fresh'
            BY <3>2 DEF Fresh
        <3>4. \A l \in Range(listing) : Asked(l)'
            BY <2>1 DEF Current, Asked
        <3> QED BY <2>1, <3>3, <3>4 DEF Current
    <2>3. CASE conn.link # "Up"
        <3>1. ~Fresh'
            BY <1>9, <2>3 DEF Change, Fresh
        <3>2. \A l \in Range(listing) : Asked(l)'
            BY <2>1 DEF Current, Asked
        <3> QED BY <2>1, <3>1, <3>2 DEF Current
    <2>4. CASE conn.stage = "None" /\ task.at # "Aborted"
        <3>1. listing = <<>> /\ published.kind # "Listed"
            BY <2>4 DEF Attached
        <3> QED BY <2>1, <3>1, NothingListed
    <2>5. CASE task.at = "Aborted"
        <3>1. ~Fresh'
            BY <2>1, <2>5 DEF Fresh
        <3>2. \A l \in Range(listing) : Asked(l)'
            BY <2>1 DEF Current, Asked
        <3> QED BY <2>1, <3>1, <3>2 DEF Current
    <2> QED BY <2>2, <2>3, <2>4, <2>5
<1>10. CASE Fault
    <2>1. CASE FeedFails
        BY <2>1, FailType, NothingListed DEF Types
    <2>2. CASE Hit
        <3>1. UNCHANGED <<catalog, cache, task, sess, listing, published>>
            BY <1>10, <2>2, FaultCases DEF Hit
        <3>2. Fresh' => Fresh
            BY <2>2, <3>1, HitFacts DEF Fresh
        <3> QED BY <3>1, <3>2, StaysCurrent
    <2>3. ASSUME NEW l \in Range(listing), listing' = <<[l EXCEPT !.reply = <<[status |-> "Error"]>>]>>,
                 UNCHANGED <<task, sess, conn, published>>
          PROVE  Current'
        <3>1. l \in Listings
            BY SlotType DEF Types
        <3>2. PICK x : x = [l EXCEPT !.reply = <<[status |-> "Error"]>>]
            OBVIOUS
        <3>3. /\ x.cursor = l.cursor /\ x.seen = l.seen /\ x.got = l.got /\ x.etag = l.etag /\ x.done = l.done
              /\ x.reply = <<[status |-> "Error"]>>
            BY <3>1, <3>2 DEF Listings
        <3>4. \A r \in Range(x.reply) : r.status = "Error"
            BY <3>3, RangeOfOne
        <3>5. Fresh' => Fresh
            BY <2>3 DEF Fresh
        <3>6. UNCHANGED <<catalog, cache>>
            BY <1>10, FaultCases
        <3> QED BY <2>3, <3>2, <3>3, <3>4, <3>5, <3>6, ReplyCurrent
    <2> QED BY <1>10, <2>1, <2>2, <2>3, FaultCases
<1>11. CASE Tick
    <2>1. UNCHANGED <<catalog, cache, published, conn>> /\ task'.at = task.at /\ sess'.wanted = sess.wanted
        BY <1>2, <1>11 DEF Tick, Tasks, Sessions
    <2>2. Fresh' => Fresh
        BY <2>1 DEF Fresh
    <2>3. CASE listing = <<>>
        <3>1. listing' = <<>>
            BY <1>11, <2>3 DEF Tick
        <3> QED BY <2>1, <2>2, <2>3, <3>1, StaysCurrent
    <2>4. CASE listing # <<>>
        <3>1. PICK l \in Listings : listing = <<l>>
            BY <2>4 DEF Types, ListTypes, Slots
        <3>2. PICK x : x = [l EXCEPT !.timeout = Less(@)] /\ listing' = <<x>>
            BY <1>11, <3>1 DEF Tick
        <3>3. /\ x.cursor = l.cursor /\ x.seen = l.seen /\ x.got = l.got /\ x.etag = l.etag /\ x.done = l.done
              /\ x.reply = l.reply
            BY <3>2 DEF Listings
        <3>4. l \in Range(listing)
            BY <3>1, RangeOfOne
        <3> QED BY <2>1, <2>2, <3>2, <3>3, <3>4, ReplyCurrent
    <2> QED BY <2>3, <2>4
<1> QED
    BY <1>1, <1>3, <1>4, <1>5, <1>6, <1>7, <1>8, <1>9, <1>10, <1>11, ReceiveCurrent, ReadPageCurrent, ListedCurrent,
       HttpCurrent DEF Next, Task, Server

\* session lists the catalog again whenever a change is announced, even while it is listing: for any number of vaults,
\* changes and faults, what is published while the feed is connected and every announcement is read is the catalog,
\* although a listing is put together from pages read one after the other, some of them from the HTTP client's cache.
THEOREM ListingStaysCurrent == Spec => []ListingIsCurrent
<1>1. Init => TimeInv /\ Attached /\ Current
    <2> SUFFICES ASSUME Init
                 PROVE  TimeInv /\ Attached /\ Current
        OBVIOUS
    <2>1. TimeInv
        BY Numbers DEF Init, TimeInv, Idle
    <2>2. Attached
        BY NoConnType DEF Init, Attached, Idle
    <2> QED BY <2>1, <2>2, RangeOfOne DEF Init, Current
<1>2. Types /\ TimeInv /\ Attached /\ Current /\ [Next]_vars => TimeInv' /\ Attached' /\ Current'
    BY TimeStep, AttachedStep, CurrentStep
<1>3. Current => ListingIsCurrent
    BY DEF Current, Fresh, ListingIsCurrent
<1> QED BY <1>1, <1>2, <1>3, TypesHold, PTL DEF Spec
=============================================================================
