# TLA+ verification of the maker SDK

The SDK keeps a market maker, or the operator of a vault, connected to a trading
server over a WebSocket, signs what it agreed to, and submits transactions to a
chain. This project models the parts whose correctness depends on the order in
which tasks, channels, timers, servers and transactions act, checks them with TLC
on small instances, and proves most of the safety properties with TLAPS for every
value of the constants.

## The parts and their modules

| Part | Source | Modules |
| --- | --- | --- |
| Session task: connect, authenticate, reconcile, serve, retry, panic handler | `ws/managed/session*.rs`, `reconnect_window.rs`, `state.rs`, `ws/reconnect.rs` | `ManagedSession`, `Lifecycle` |
| Command path: handles, queue, epoch fence, tracker, writer lanes | `ws/managed/mod.rs`, `session_io.rs`, `session_message.rs`, `tracker.rs`, `writer.rs` | `CommandPath`, `AwaitTracker` |
| Desired subscriptions (quote endpoint) | `desired_subscriptions.rs`, `session_ready.rs` | `Subscriptions` |
| Vault sale and served transactions | `ws/vault/client.rs`, `sell.rs`, `gate.rs`, `examples/vault_operator.rs`; `chain/vault/served.rs`, `trading.rs`, `price_route.rs`, `pda.rs`; `counterparty.rs` | `OperatorJob`, `VaultSale`, `SaleTerms`, `VaultScenarios`, `Served`, `ServedSwap`, `VaultTrading`, `VaultAccounts` |
| Vault fleet | `ws/vault/fleet.rs`, `ws/client.rs`, `http/mod.rs`, `paging.rs` | `VaultFleet` |
| Capital cycle of a vault: crank, curator, owner | `examples/vault_capital.rs`, `chain/vault/` (`account`, `crank`, `scan`, `manager`, `curator`, `router`, `venues`, `router_price`, `governance`, `lifecycle`, `owner_rpc`) | `VaultCycle`, `VaultCapital`, `Curator`, `CuratorRouter`, `SwapRoutes`, `PriceRoutes`, `VaultOwner`, `VaultProgram` |
| Maker's desk: nonce, quote, inbound stream, outcome | `nonce.rs`, `quote.rs`, `spreads.rs`, `orders/`, `inbound.rs`, `ws/maker/outcome.rs`, `examples/managed_quote.rs` | `MakerDesk`, `QuoteBinding`, `QuoteOutcome`, `Spreads` |
| Submission, confirmation, wrapped SOL, funding | `chain/rpc.rs`, `batch.rs`, `confirmation.rs`, `wsol.rs`, `settlement.rs` | `Funding`, `Confirmation` |

One session task serves one managed connection. Handles reach it through a
bounded command queue and an unbounded cancel channel, and watch its state. In its
loop it forwards frames to a writer task, spawned per connection, over two bounded
lanes. Losing a connection drops the lanes and aborts the writer, which ends in its
own time, so writers of two connections can coexist. A sale, a swap and a quote
are commands on that path; what they need of it (a fenced command arrives in its
epoch or not at all, a local refusal was never sent, any other failure says
nothing) is what `CommandPath` shows and `OperatorJob` and `MakerDesk` assume.

How state and actions correspond to the code:

* `Lifecycle`: what a holder of a handle may observe: states, the epochs they
  carry, one Disconnected per connection, one final Terminated, which comes after
  the Disconnected of the last connection. `panicked` is the exception in it: a
  panicking session announces its loss while it still shows its last state.
* `ManagedSession`: `phase` is the suspension point of the task, `end` the value
  `run_session` returns; the other variables are the locals and watches of the same
  names. One action per outcome of each select. `midPoll` says that a shutdown was
  requested after the poll in progress had looked at it. The panic handler makes
  three writes, and is three steps: `Panic` takes the grant away, `PanicAnnounce`
  sends Disconnected, `PanicTerminate` publishes Closed. Between the last two a
  handle can still read Ready, which `ReadyIsLive` allows and nothing else.
* `AwaitTracker`: `register`, `cancel`, `prune_closed` as operators. `CommandPath`:
  callers, queue, loop, lanes, writers and peer; each call is one message.
* `Subscriptions`: the target, the change in flight, its receipt and deadline, and
  recovery. The server is external: it applies or refuses frames in order, and a
  new session starts empty or with what it had.
* `OperatorJob`: one job of an operator as a state machine over `pc`, the call in
  progress and what the server holds. Which served transactions pass verification
  is data of the job. The session may be lost, come back, or end for good
  (`Terminate`); a swap waits until it is ready (`AwaitReady`) and is submitted
  under the epoch it read then, which may be over by the time it is queued.
  `VaultSale` computes what passes: `Served` and `ServedSwap` are the
  checks of `verify_and_sign_sponsored_tx` and `verify_and_sign_swap`, applied to
  the messages of `VaultScenarios`; what was agreed is read off the message the
  runtime would execute, independently of those checks.
* `VaultCycle`: every party reads, decides and sends; its transaction lands later,
  on whatever the chain holds by then, or expires. The program on the chain is not
  in the repository: `VaultProgram` (external) is taken from the instructions the
  SDK builds and from what its readers expect. Jupiter, the users and the other
  operator are external too. The crank's process may restart at any of its steps,
  and forgets its window when it does.
* `VaultFleet`: the task with its feed, its HTTP listing and its cache. Deadlines
  are countdowns, and a tick passes only when the task has nothing to handle. A page
  may come without an ETag, and is then not cached.
* `MakerDesk`: tasks that draw nonces from the shared generator one atomic access
  at a time, build, sign and send quotes, and follow them through a broadcast ring
  that lags; and the call of `Funding` that deposits for a filled order, with the
  socket of `Confirmation` below it. `Around` in `Funding` is all that a call's
  surroundings may do: chain, wallet and node move, the holder closes their token
  account and gets its rent back, the caller is dropped. A call to the node that
  fails may have reached it: a batch whose send failed can still land. `SendQuote`
  ends with the quote sent, skipped because the session is not ready, or with an
  error that stops the task, the quote sent or not.
* `MCCommandPath`, `MCVaultCycle` and `MCMakerDesk` hold the instances checked.

Definitions marked "Mutant of" are plausible bugs of the definition after them.
Each shows that a property notices it.

## Runs

| Run | Instance | Checks |
| --- | --- | --- |
| `maker_session` | limit 3, 4 connections | `TypeOK`, `DisconnectedOnce`, `ReadyIsLive`, `NeverResumesExpired`, `TruthfulReason`, `BackoffSchedule`, `ImplementsLifecycle` |
| `vault_session` | no limit, counter saturates at 3, fair | `GrantScope`, `StopsWhenAsked`, `RetriesOrStops` |
| `signature_strikes` | as `maker_session` | `StrikesAreConsecutive`, violated |
| `quote_commands` | two quotes of one order and a cancellation, 1 connection | `TypeOK`, `AnswersAreTrue`, `TrackerSound`, `DataFrameOrder`, `RefusedIsNotSent`, `OnlyLiveRequestsRefuse` |
| `epoch_commands` | two subscription changes, 2 connections | `EpochFence`, `RefusedIsNotSent` |
| `command_liveness` | a query and a control message, 1 connection, fair | `EverySendIsAnswered`, `TimedOutIsForgotten` |
| `subscriptions` | 2 channels, 1 mint, 3 changes, 3 connections, fair | `TypeOK`, `DeadlineOfChange`, `TargetEstablished`, `ChangeIsResolved` |
| `unset_subscriptions` | no initial subscription | `EveryTargetEstablished`, violated |
| `vault_sale` | sales, served opens and swaps, 2 connections, fair | `InFlightIsComplete`, `SaleStaysInEpoch`, `SignedIsAgreed`, `SwapIsAgreed`, `JobEnds` |
| `vault_cycle` | 12 scenarios of one vault, fair | `OutcomeIsTrue`, `WindowIsHonoured`, `RequestsArePaid`, `ShutdownCompletes` |
| `maker_desk` | 5 scenarios | `QuoteOutcomeIsTrue`, `ConfirmationIsTrue`, `SpreadIsCovered`, `ReserveIsKept` |
| `vault_fleet` | 2 vaults, 2 changes, 2 faults, fair | `ListedIsLive`, `ListingIsCurrent`, `Converges` |

Finding: the strike counter is reset when an authenticated session ends as
Disconnected, not when an authentication succeeds. A session that authenticates
and is then rejected with `invalid_signature`, while it waits to become ready or
later in the loop, adds its strike to those of earlier sessions that were rejected
before they authenticated. So the rejections that end the task need not be
consecutive, as the name of the test
`invalid_signature_terminates_only_after_three_consecutive_rejections` and
CHANGELOG.md:372 say.

Finding: recovery re-subscribes only when products are known, and only a
Subscribe names them. A client without an initial subscription that adds a channel
and then reconnects is Ready with that channel in its target but not at the
server, against the comment on `DesiredSubscriptions`.

### Bounds

`MaxEpoch` bounds connections. Four let the strike limit and the reconnect limit
of three both be reached; with two, a command can meet another connection than
its own, while the old writer still runs. The queue, the lanes and the tracker
hold one entry, so that each is full with two calls; in `quote_commands` queue and
lanes hold two, so that three frames can wait behind each other and the order of
two can be disturbed. `AttemptMax` stands for `u64::MAX`. Symmetry is not used.
Delays are abstract units; jitter is left out.

`vault_sale`: two connections are enough for a sale to be interrupted and the
session to come back; four pushes are a created RFQ, two quotes and a served
transaction. The scenarios hold, for each job, the message agreed on next to
messages that differ from it in one respect. Integers are scaled down (`MaxU64`
1000, 100 basis points to the whole) so that overflow and rounding are reached.

`vault_cycle`: time runs to 4 with windows of 2 and transactions that live 1, so
that a window closes under a transaction in flight. Batches hold one user, so two
users need two. The scenarios put the vault in its windows, between two operators'
swaps, being left, wound down and governed; each bounds how often users, trader
and other operator act.

`maker_desk`: `Racing` has tasks drawing nonces concurrently, `Streaming` and
`Single` an inbound stream with a ring of three, one fault and a reconnect;
`Batch` and `Funding1` a confirmation in chunks of one and a deposit while the
wallet moves. Two transactions let a landed one be confused with the next.
Entropy draws are 2 or 3 of 8 nonces: a draw of zero, one in 2^64, is left out.
The desk may stop, so deadlock is not checked.

`vault_fleet`: two vaults are two pages, so a change can fall between them. With
unit delays and a cap of two the backoff both grows and is capped. Faults are
bounded by number so that `Converges` speaks of what follows the last.

### Fairness

Outside the loop every wait of the session task has a deadline, so it moves on.
Inside, `select!` polls its branches in random order, so a branch that stays ready
is taken. Writes have a timeout; a write ends, or ends the session. The reconnect
window polls the sleep before the commands, but a sleep is pending on its first
poll, so each window looks at the queue once: strong fairness of `WindowCommand`.
Nothing is assumed of the server in these runs.

`vault_sale`: the operator's task runs, its timers fire, the session reconnects.
`vault_cycle`: crank and owner run on, transactions of each sender land or expire,
time passes and trades settle; holders of a vault that winds down ask for their
shares; and while a request waits, an open slot is worked on with Jupiter
answering. The last two are conditions on people: without them nobody is owed.
`vault_fleet`: the runtime polls the task, the server answers, time passes.

## Proofs

The theorems hold for every value of the constants that satisfies the named
assumptions of the modules: any number of connections, calls, signatures, vaults
and changes, any buffers, amounts and delays. Few of the properties are inductive;
each proof module starts with the invariant that is. A lemma per action, or per part
of the invariant, shows that it is kept.

**`ManagedSessionProofs`**: `TypeCorrect`, `EndsAreAnnouncedOnce`,
`ReadyIsOfTheOpenConnection`, `GrantEndsWithItsConnection`,
`ExpiredSessionsStayDropped`, `ReasonsAreTrue` and `Refinement` (of `Lifecycle`).
`Inv` adds which state and which `open` each phase goes with (`PhaseInv`), how
events count connections (`EventInv`), where a grant may be held (`GrantInv`), that
an expired id is dropped or about to be (`ResumeInv`), and how strikes, the pending
rejection and the history agree (`RejectionInv`, `ReasonInv`). `BackoffIsKept`
proves `BackoffSchedule`. The provers have no theory of powers, so that 2^0 = 1 and
2^(n+1) = 2 * 2^n are hypotheses of that theorem.

**`SubscriptionsProofs`**: `DeadlinesAreOfChanges`, `SubscriptionTypes` and
`TargetIsEstablished`. Request ids are numbered in order, and `DeadlineInv` says
that the change in flight and the awaited receipt are those of the latest change.
`FlowInv` follows the frame of a change from the lane to its acknowledgement, and
says at each point what the server has. `TargetIsEstablished` assumes that initial
subscriptions are configured; the second finding is what happens without.

**`CommandPathProofs`**: `RefusalsAreFinal` and `FramesKeepTheirOrder`. The first
rests on `PlaceInv`: a command is in at most one place (queue, lane of a connection,
hands of a writer, wire), once, and a place of a connection is only for commands not
bound to another. `OrderInv` says that a frame ahead of another on its way to the
wire was queued before it. **`CommandAnswerProofs`**: `FenceHolds` from
`PlaceInv`; `CommandPathTypes` and `TrackerStaysSound` from `TrackerInv`, which
has the two tables of the tracker agree and both empty outside a session;
`AnswersStayTrue`; and `RefusedForLiveRequests` from `RegisterInv`.

**`OperatorJobProofs`**, for any job: `NothingInFlightIsMissed` from `FlightInv`
(a submission is the last call of a job, and the job reports that call's reply) and
`SalesStayInTheirEpoch` from `SaleInv` (the server's log is that of the calls made
so far, all fenced by the sale's epoch). `SignedOpens` says what a signature of a
sale, a fill or a buy means. Let the transactions that pass be those `Signs`
accepts, whatever their keys, tables and instructions. Then whatever is signed is
the open of the quote it came with (size, price, strike, order, parties) and the
preparation that goes with it: no other signer than keeper and operator, and no
account written that the open does not write. The argument has four parts. What
`decode` yields is a reading of the message's own bytes (`Reading`). The account
lists the builders make name the agreed parties and order (`Built`, `SignedBy`).
`verify_vault_open` compares with a list of expected instructions (`Expected`).
And `matches` leaves no instruction unaccounted for and grants no flag that is not
expected (`OpensOnly`). The hypothesis `WellFormed` says only that the message's
lists are lists.

**`VaultFleetProofs`**: `ListedStaysLive` from `TimeInv` (the time since a message
was heard and what is left of the silence deadline add up to at most two bounds)
and `ListingStaysCurrent` from `Attached` and `Current`: unless a change is
announced or noted, the pages got so far are the catalog up to the cursor, and what
the cache would answer is the next page of it.

**`FundingProofs`**: `ConfirmationStaysTrue` and `ReserveStaysKept`, of `FundSpec`:
one call with anything its surroundings may do (`Around`). `ConfInv`, `NodeInv`,
`SocketInv` and `PassInv` relate what was heard, by signature or still only by
subscription, to the transactions; `SentInv` and `PlanInv` say that the wallet,
with what has left it since it was read, has the wrap, its costs and the reserve.
`since` is what others took after the balance was validated, and the rent of a
token account that was closed after it was found to exist: the deposit pays that
rent without having planned it, so `ReserveIsKept` is the reserve less `since`.

**`MakerDeskProofs`**: `DeskImplementsFunding` shows that every step of the desk is a
step of `FundSpec` or leaves its variables alone, so the two theorems above hold of
the desk. `SpreadsStayCovered` proves `SpreadIsCovered` for a desk that starts
fresh, from any broadcasts: its invariant is that every order is of a broadcast and
locks what the spread's arithmetic says. The arithmetic itself is
`SpreadIsAlwaysCovered` and `PremiumIsSplit`, for all strikes, quantities, scales
and rates. The funding scenarios start with an order already filled, and are
instances of the theorems of `FundSpec` instead.

### Only model-checked

* The liveness properties: `StopsWhenAsked`, `RetriesOrStops`, `ChangeIsResolved`,
  `EverySendIsAnswered`, `TimedOutIsForgotten`, `JobEnds`, `RequestsArePaid`,
  `ShutdownCompletes`, `Converges`. Fairness is out of the prover's reach.
* `QuoteOutcomeIsTrue`. It needs that order ids are distinct, which rests on
  arithmetic modulo the size of the nonce space over all tasks, and what each
  message between venue and tracker still allows.
* `OutcomeIsTrue` and `WindowIsHonoured` of `VaultCycle`. What is shown to be true
  is what the external program did; a proof would mostly be about the model of the
  program. `WindowIsHonoured` is about the decisions of the crank: an opening it
  gave up on can still land after an early close.
* `SignedIsAgreed` and `SwapIsAgreed`, on the messages of `VaultScenarios`. For
  opens `SignedOpens` proves more, of every message; the verification of swaps,
  which follows price routes of any length, is not proved.

## What is abstracted

* A hop of a swap route has data or none, and an amount offset or none; the caps on
  its data's length and on the offset, and the scale of its amount, are left out
  (`HopValid`). No property tells them apart.
* `fit` counts the bytes of a message by a formula close to the encoding, not by
  encoding it, so a limit is met at about the size it is met in the code.
* `CapabilitiesKnown` stands for the bits of `KNOWN_MASK`, one name per bit.
* `Subscribe` of `Confirmation` is one step: the request and its answer, error or
  deadline.
* A request account whose amount went to zero is taken to be closed.

## Not modelled

* Readiness: its outcomes are in `ManagedSession`, recovery in `Subscriptions`,
  paging in `VaultFleet`; the reconciliation reads are not.
* Subscriptions on the vault endpoint, which recovers without a snapshot.
* The ping and pong deadlines: a ping competes for the control lane and a missed
  pong ends a session, but the timers are not modelled.
* The gap channel that asks the session to reconnect.
* Deposit and withdrawal of maker funds, `settle.rs`, fee views, the vault
  projection, and the other HTTP endpoints: plain reads or single calls.
* Serialisation layout, signatures, key derivation, account decoding and socket
  I/O, which hold no state of their own.
