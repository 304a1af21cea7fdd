# CyberHerd in TLA+

A verification project for the CyberHerd extension of LNbits: a Python asyncio
program that keeps, for each operator, a "herd" of Nostr users who zapped,
reposted or liked the operator's notes of the day, and shares the payouts of a
Lightning wallet among them.  The models are translated from the source;
`PROJECT.json` maps every definition to the lines it stands for.

## 1. Inventory

One process, one asyncio loop, one SQL database.  Concurrency is between
coroutines at `await`; what protects the state is a handful of asyncio locks
and one database transaction helper.

| Component | State | Operations | Interacts with |
|---|---|---|---|
| Membership core: `services/headbutt.py`, `crud.py`, member routes of `views_api.py` | `cyber_herd` rows (seat, ban, address, amount, kinds, payouts), `engagement_awards`, `processed_events`; the admission ("headbutt") lock | admit a zap or a social event, displace the lowest member, refuse; ban, unban, delete, prune, activate, deactivate, POST, PUT | asks the membership day to catch up; runs split recomputes and notices after the commit |
| Payment intake: `tasks.process_incoming_payment`, `services/payment_coordinator.py` | processed payment hashes, monitors | classify a settled payment, check the note or the membership, claim, trigger the admission | zap totals lock, admission |
| Social intake: `services/subscriptions.py` | `tracked_event_ids`, `engagement_observations` | track today's note, filter stale days, observe, trigger the admission | admission lock, splits |
| Membership day: `tasks.py` | `membership_reset_days` (day, `splits_pending`), `member_cycles`, day lock | `ensure_membership_day`, midnight job, manual reset | every intake, splits |
| Split targets: `services/splits.py` | signature cache, debounce tasks, target lock; SplitPayments' target table (external) | debounced, direct and strict recompute; reset to the zap wallet | members, settings |
| Shares: `services/shares.py` | none | points to six-decimal percentages, largest remainder | members, splits |
| Feeder transfer: `services/send_splits.py` | transfer record per feeding, transfer lock | move one threshold to the source wallet | membership day, treats, LNbits wallets |
| Treat distribution: `services/treats.py`, `patches/` | frozen distributions, claims | prepare, claim, reconcile | SplitPayments hooks, queued messages |
| Queued messages: `services/treats.py`, `chat_updates.py`, `streams.py` | message and branch rows, the pause switch, the live stream | queue, sign, store, send, record | admissions, distributions, the feeder; the messaging extension |
| Zap totals: `services/zap_totals.py` | lifetime totals, ledger of counted payments, one lock per owner | increment, query, rebuild from history | payment intake, member profiles |
| Relay connections: `nostr_websocket_monitor.py`, `tracking_targets.py` | socket, subscriptions, memory of acted events; saved notes | subscribe, poll, watch, recover, track the newest note | social intake, settings |
| Message texts: `services/messaging.py`, ... | template cache | render, publish | all |
| Startup and shutdown: `__init__.py` | tasks | day recovery, payout and target refresh, then intake | all |

The locks, and which path takes them in which order, are module `Locks`.

What is hard: operator requests commit between any two steps of an admission;
the same payment is delivered by the listener, by recovery and after restarts;
a social event is observed in one critical section and decided in another;
three tasks of a monitor process the same events; a history is read page by page
while it grows; a message is stored, sent and recorded in separate steps;
midnight falls anywhere; resets commit the members first and the targets
later; recomputes write snapshots; the process dies between any two steps.
The list with lines is `hazards` in `PROJECT.json`.

What makes each component correct:

- core: a payment counts once; only the lowest member is displaced, and only
  when outbid; bans hold; capacity is respected; awards are given once per
  cycle; stored payouts are those of the stored rows;
- day: the rollover reaches every opted-in herd and its targets, and wipes
  nothing of the new day;
- targets: they follow the members, never go backwards, and never pay a
  former cycle;
- transfer and distribution: one payment per feeding and per recipient,
  through crashes and repeats;
- totals: a lifetime total includes a zap at most once, and a rebuild loses none;
- relays: the newest note is tracked and its engagements are decided, and the subscriptions for it come back, whatever is lost;
- recovery: a pass leaves nothing behind that was its to decide;
- messages: one event per message, in its conversation, after what it replies to;
- locks: every path that was begun ends;
- shares: the percentages add up to the allocation and keep the order of points.

## 2. Modules

| Module | What it is |
|---|---|
| `Herd` | the membership core with both intakes, the day and the operator |
| `PaymentLedger` | the abstract specification of what the herd promises about money |
| `HerdProofs` | the inductive invariant of `Herd` and its theorems: admissions, cycles, and that `Herd` implements `PaymentLedger` |
| `Splits` | the split targets: recomputes, signature cache, resets, pending work |
| `SplitsProofs` | the inductive invariant of `Splits` and its theorems |
| `Distribution` | a feeding's transfer, and the distribution SplitPayments makes of it |
| `PayoutPromise` | the abstract specification of what a distribution promises |
| `DistributionProofs` | the inductive invariant of `Distribution` and its theorems, among them that it implements `PayoutPromise` |
| `ZapTotals` | lifetime totals: increments, queries, backfills over a growing history |
| `TotalsProofs` | the inductive invariant of `ZapTotals` and its theorems |
| `Monitor` | one owner's websocket monitor, note tracking and engagement intake |
| `MonitorProofs` | the inductive invariant of `Monitor` and its theorems |
| `Recovery` | the payment listener and a recovery pass over the wallet's history |
| `RecoveryProofs` | the inductive invariant of `Recovery` and its theorem |
| `Delivery` | queued messages, their branches, and the worker that publishes them |
| `DeliveryProofs` | the inductive invariant of `Delivery` and its theorems |
| `Locks` | the locks of all components and the paths that nest them |
| `LocksProofs` | the order of the locks, and that no tasks wait in a circle |
| `MCHerd`, `MCSplits`, `MCDistribution`, `MCZapTotals`, `MCMonitor`, `MCRecovery`, `MCDelivery`, `MCLocks` | values for the constants of the small instances |

Operators introduced by `Fault:` in a comment are not used by any
specification: each is a definition with one plausible bug, and the `mutants` of
`PROJECT.json` say which property detects it.

### Herd

State: `rows`, `active`, `banned`, `hasAddress`, `amount`, `kinds`, `payouts`
are the columns of `cyber_herd` that decisions read; `awards`, `observed`,
`tracked`, `markedDay`, `cycleStart` the tables of the cycle; `ledger` and
`processed` the processed-event tables with what became of each event; `minimum`
and `capacity` the settings; `waiting`, `desk`, `notices` what lives in memory.
`told` is a history variable: payments whose refusal was published.

An event goes through: `Happen` (external), `Present` or `Observe` (checks before
the lock; observation has a critical section of its own), `Enter` (takes the
lock and catches up the day, two things between which no other admission
comes), then one of the decisions in its transaction, then `AnswerFailure` for
a deferred notice.  `GiveUp` is every attempt that rolls back.  The lock is
the value of `desk`; operator actions do not look at it, as the routes do not.
`Restart` loses `waiting`, `desk` and `notices`.

Payouts are the points they were computed from: `recompute_member_payouts` runs in the
same transaction as the mutation, so each mutation ends in `payouts' = Points'`
where the code calls it, and leaves `payouts` alone where the code does not
(`RefreshProfile`).

Abstractions: a note is the day it was published; a pubkey is a number, as
the tie break compares them; events of kinds 6 and 7 at once do not occur; PUT is
modelled by the total it writes; network lookups are nondeterministic results.

`PaymentLedger` has two variables, `outcome` and `balance`; the refinement
maps them to `ledger` and `amount`.  It allows a credit once per manual reset, one
displaced member per credit, and no other way for a balance to grow but an
amount the operator writes.

### Splits

State: `points`, `addressed`, `policy` are the herd and its settings as a recompute
reads them; `targets` SplitPayments' table; `cache` the signature cache; `pc`,
`read`, `lock`, `owed` the coroutines, their local snapshots, the target lock and
the after-commit callbacks; `gate` the admission lock held by a reset across its
steps; `today`, `markedDay`, `pending`, `awake`, `up` the day and the permanent
tasks.  `joined` and `written` are history: who was seated since the last
reset, and the version (`changes`) the targets were computed from.

A recompute takes three steps (settings, members and signature, write), a
reset three (drop the signature, write, clear the mark).  `EnsureDay` stands for
every caller of `ensure_membership_day`.  Percent rounding is abstracted: a plan
records points, the member percentage and the zap wallet.

### Distribution

State: `transfer`, `frozen`, `manifest`, `record`, `notice` are the rows of `delivery_records`, a
table that decisions read by identifier; `call` is the local state of
`transfer_herd_balance_to_source` under the transfer lock; `inbox`, `split`, `paying` are what the
patched SplitPayments has in memory; `work` the row at which the worker is; `funds`, `purpose`,
`funding`, `payout`, `targets` belong to LNbits and SplitPayments.  `sent` is history: how many payments
to a recipient were started.

A transfer takes seven steps (start, invoice, record, targets, snapshot, payment, paid), and any of them
may be its last: `TransferFails` is an exception, `PayTransfer` may return nothing although it paid, `Crash`
drops the call.  `StartTransfer` resumes what the record says.  SplitPayments takes an invoice (`Deliver`),
fixes its list (`FreezeForSplit`), and for each entry claims, asks for an invoice and starts a
task (`Claim` to `Attempt`); the tasks run on their own (`PayOut`, `RecordPending`).  The worker looks at a
row and its payment and writes in a later step (`Look`, `Settle`), as `_reconcile_payment` awaits between the
two.  `Retarget` is the whole of module `Splits`, seen from here.

An invoice made and not recorded is never paid: its number stays with the feeding and has no effect.  A
share whose claim is followed by a crash stays `preparing`, a failed transfer stays
`prepared`, and what a listener had not claimed when the process died is not paid: the code retries
no payment, and the model does not either.

Abstractions: the balance is counted in thresholds; whether an address belongs to exactly one active
member is fixed (`Members`); shares that are too small, receivers that refuse and payments that fail are
nondeterministic.  Not modelled: transfers without a feeding identifier, extensions switched off between two
steps (SplitPayments then works without records); the publication of a queued notice is in `Delivery`.

`PayoutPromise` knows the fixed lists, the invoices that feedings pay (`fed`) and that are paid (`settled`), the
payments and what members were told; it has no transfers, records, tasks or crashes.  The refinement maps
`listed`, `list` and `told` to `frozen`, `manifest` and `notice`, and computes `fed` and `settled` from `purpose` and
`funding`.  It allows a list once and before its feeding, a payment only out of a settled invoice, to somebody on
the list, once, and to nobody who was told of a skipped share, and a word to a member once, in keeping
with the payment.  It does not promise that anything is paid.

### ZapTotals

State: `accounted` is `processed_zaps`, `times` and `rowTarget` are `zap_totals`; a total is kept as the
multiset of payments it sums.  `watch` and `tracked` are settings, `members` the zappers with a row; `waiting`,
`pending` and `scan` live in memory.  `settled` is LNbits' history, ordered by invoice time, so a payment that
settles late enters the history before others and shifts the pages.

`Record` is the increment at the end of an admission, under the totals lock (`scan.busy` is that lock);
`StartScan`, one `ReadPage` per page and `Finish` are a rebuild, whether a query for one zapper, a backfill
over all zaps or one over the tracked notes.  `Reset` is the manual reset, which does not take the totals lock.
The pubkeys a step uses were read earlier (`pending`, `waiting`, `scan.watch`), as in the code.

### Monitor

State: `saved` (rows of `tracking_targets`), `tracked` (the announcement in the settings), `done`
(processed engagements); `acted` the monitor's memory of events, `job` what each of its three tasks is at,
`conn`, `feed` and `heard` the socket and its subscriptions, `asking` the note that each subscriber has read,
`pollAhead` whether the poll acted after the socket's last event.  `regime` and `upsets` bound what goes wrong.
`disturbed` is history, see below.

A note is saved, then projected and written under the owner's lock, then the subscriptions are refreshed,
still under it (`TakeUp`, `Project`, `Write`, `Refresh`).  An engagement is looked up and decided in two steps.
`Finish` stores an event only after it was acted on.  A reset clears the memory in a step after its commit; a
settings save reads and writes the row in two.  The relays hold all events from the start; what they do not
have yet is an event that has not been delivered.  Streams and goals as tracked targets are left out; a stream's
own subscription is there because the watchdog looks at it.

`_subscribe_to_tracked_notes` waits for the database and for the socket, so it is two steps.  Four tasks run it: a new
connection, the watchdog, an append under the owner's lock, and the refresh after a settings save (`Subscribers`).
`Begin` reads the tracked note.  `Ask` replaces the subscriptions with new ones for the note that was read; the sends are one
step, as they suspend only on a full buffer.  Subscribers overlap, and the one with the older note may ask last.  An
exception is logged and dropped, and nobody hears of it: `AskFails` leaves the old subscriptions when the read fails, and
a part of the new ones when a send fails; `GiveUp` is the sends that fail because the socket is gone.  A relay forgets
the subscriptions of a closed socket while the monitor keeps them as answered (`"gone"`), so on the next
socket the watchdog does not miss them when that connection fails to subscribe.  The watchdog sees two things
only, no subscription at all and one that was never answered; a single closed one it does not see.  What it does
not see is left to the stall check (`ForceReconnect`).

`SubscriptionFollows` says what the monitor has asked for, on a socket on which no subscriber has failed, none has begun
beside one that had read another note, and no settings save has put back a row without a refresh (`Undisturbed`).
On any other socket it is false of the code.  `Resubscribed` says what becomes of those: again and again
all subscriptions are open on a socket that forwards, for the note that is tracked.  It needs the stall check, which
the environment can turn off (`CYBERHERD_WS_STALL_THRESHOLD_SECONDS`, or a poll interval of 0); then a closed subscription
and a failed subscriber last until the socket breaks or the next note.  While the socket delivers other events the
check waits, so on a busy day it comes late.

### Recovery

State: `queued` is LNbits' queue of the invoice listener, `credited` the processed payments, `active`, `saved`,
`tracked` what an attempt asks for, `job` the attempt of the listener and of the pass, `pass` the pass with its
own view of the settings.  Both actors run the same attempt (`AlreadyRecorded`, `JudgeMember`,
`JudgeTracked`, `JudgeFetched`, `Credit`).  `pass.owed` is history: the payments that a pass can be
held to.  Passes are one at a time; `StartScan` reads the tracked ids and starts the scan in one step.

### Delivery

State: `thread`, `message`, `treat`, `switch`, `invited` are `delivery_records` of the several kinds, `cycle` the
membership cycle, `live` the live stream, `rest` and `work` the worker's pass and position, `relays` the
events that the relays have.  A row's identity is a tuple of what `key` digests; `Insert` leaves a row that
exists alone, which makes every queueing repeatable.

The first message of a member in a cycle opens a branch and becomes its root; a message in another
conversation opens a branch of its own.  `Sign`, `SaveSigned`, `Send` and `Submit` are separate steps, each of
which may be the last (`Fail`, `Crash`).  Signing again makes another event, so it shows if an event goes out
unstored.  Left out: texts, the retry delay of 30 seconds, websocket broadcasts, rendering that fails for
good.

### Locks

State: where each task is on its path, who holds each lock and who waits for it, in order of arrival.
A path is the sequence of locks a coroutine takes and frees; consecutive statements that take the same locks are one.
`Fail` is an exception anywhere, which frees what the task holds; `HandOver` serves the first waiter, as
asyncio does.  A transaction holds the connection's lock, and statements inside it need no other: that
is what `Write(TRUE)` says.  Left out: locks under which nothing else is awaited (registries, leaderboard watchers,
`_stream_lock`), and locks of other extensions.  `_handle_repost_admission` (`headbutt.py:2375`) would
take the target lock inside the transaction, but nothing calls it.  Callbacks of a zap run after the admission is over
but under the totals lock (`payment_coordinator.py:733`).

## 3. Runs

The runs of `Herd` and `Splits` stop when the events and counters are used up, so deadlock is not
checked there.

| Run | Bounds | Shows |
|---|---|---|
| `herd_cycles` | `ByFamily` of `MCHerd` tells two families apart by the minimum.  Minimum 1: 3 people, 3 zaps of 2, 2 and 3 sats, a like and a repost, capacity 1 or 2, restarts, one day.  Minimum 2: 2 people, 1 zap, 2 social events, 1 seat, 2 days of 1 second, manual resets, bans, refreshes | `NoUnfairDisplacement`, `PaymentsCountOnce` (refinement), `KindsAwarded`, `RolloverKeepsTodaysZaps`.  Two equal zaps make the tie; three payers and one or two seats make free seats, displacement and outbidding happen; restarts redeliver; a midnight or a reset falls between any two steps |
| `herd_operator` | 2 people, 1 zap, 1 repost, capacity 1, minimum 1 or 2, every operator request except profile refresh | `TypeOK`, `BannedInactive`, `PayoutsFresh`, `AdmissionRespectsCapacity`, `AwardsSurvive`. One admission of each kind suffices: the requests come between all of its steps |
| `splits_admissions` | 2 people, 1 or 2 points, two allocations, 3 changes, 1 fault, 2 days | `QuietMeansCurrent` where every change runs its own recompute |
| `splits_operators` | 2 people, 1 point, with and without zap wallet, 2 changes, 1 fault (crash, write or reset), 2 days | `TypeOK`, `PaysOnlyThisCycle`, `TargetsMoveForward`, `NewDayReachesTargets` |
| `distribution` | 1 feeding, 2 invoices, 2 recipients of whom 1 is a member, 2 thresholds or an empty wallet, 2 faults; `Small` in `MCDistribution` lets two of "second invoice", "second recipient", "two faults" never come together, and uses the second invoice second | all of its properties, `PayoutsAsPromised` being the refinement of `PayoutPromise`; a second invoice is needed to move a threshold twice, a second recipient for the non-member's path and tasks side by side, two faults for a crash followed by a second delivery |
| `totals` | 2 payments of one sender, pages of 1, a query and two kinds of backfill, 2 upsets (reset or change of pubkey), failures and crashes without bound | `CountedOnce`, `RefreshComplete`.  A payment with an earlier invoice that settles between two pages shifts them; the second upset makes a row of another pubkey |
| `monitor` | 2 notes, an engagement with the later; nothing wrong and all three tasks at once, or 2 subscribers at once; or one of each at a time and one upset (loss, closed subscriptions, failed subscriber, other failure, crash, reset, save) | `SubscriptionFollows`, `AppendsConverge`, and the liveness properties `NewestTracked`, `EngagementsDecided`, `Resubscribed`.  A socket closed by the stall check needs no upset, so a subscriber of the old socket meets one of the new with 2 at once.  Two of them with an upset are in the proof only |
| `recovery` | 2 notes, 3 payments of 2 people, pages of 2, 1 upset | `PassComplete`.  Two pages and a payment that settles late shift the offset |
| `delivery` | 3 member messages (one refused), 1 share, 1 feeding, 1 stream; 3 messages, 1 cycle, 2 readings, 1 fault, or 2 messages, 2 cycles, 1 reading, 1 invitation, 1 fault | all of its properties.  Any three of the messages: a root with two that wait, a chain of two notices, a notice between |
| `locks` | 3 tasks on any three different of the 8 paths that nest locks, or two on the same path beside one on a short path | `NoCircle`, `EveryPathEnds`; deadlock is checked.  Circles of three through different locks, and a path that meets itself, are in it |
| `notice`, `monitor_quiet` | as small as the case | a violation each, see section 6 |

Days of one second suffice in `herd_cycles`: only the order of midnights and steps matters to its
properties.  `splits_admissions` excludes failed recompute writes and operator changes, since with either the
property fails (section 6); the other properties are checked with them.  `SubscriptionFollows` leaves out disturbed
sockets (section 2), `AppendsConverge` behaviours in which something failed.

Fairness is used by the liveness properties only.  `NewDayReachesTargets` and `SettledIsAccounted`: asyncio runs every ready task,
hence weak fairness of each step of a task that has started; the midnight and
the startup tasks are created with `create_permanent_unique_task`, which
restarts them when they raise, hence weak fairness of `EnsureDay` while one of
them is awake.  `treats.run` is such a task too (`__init__.py:121`) and visits every open row in each round,
catching exceptions row by row, hence weak fairness of `Look` for each share and of `Settle`.  Transfers,
deliveries and payment tasks get no fairness: they may stop for good.  Nothing is assumed of users, payers and operators.  Faults are
bounded, so SplitPayments is assumed to recover.

`Monitor`: the reader, the poll, the recovery and the watchdog are tasks that run as long as the monitor does, hence
weak fairness of their steps, of subscribers at work, of connecting (`_connect_to_relay` loops) and of the stall
check (`_handle_subscription_timeouts` loops every 5 seconds); memories expire (`Forget`).  The stall check fires when the
socket has been silent for 90 seconds and the poll has acted within the last 90; the poll runs every 10 seconds and acts on
today's events again each 300 seconds, so with these defaults a socket that delivers nothing is closed in the end.
A connection that subscribes gets strong fairness: it takes moments, and the stall check leaves it 90 seconds.  The poll gets
strong fairness for each event: the relays answer it again and again, and it is ready for an event again and
again, not always.  The socket's deliveries get none, nor do failures and the other way of the watchdog.  `Delivery`: the worker's loop runs every ten seconds and visits each row it has read
(`treats.run`), hence weak fairness of `Worker`.  `Locks`: asyncio runs every task that can run; starting a path and
failing are not promised.  `ZapTotals` and `Recovery` state safety only.

## 4. Proofs

For all constants that satisfy the assumptions of the modules: in `Herd` people are a finite set of
numbers, events are distinct from `Idle` and sats are positive; in `ZapTotals` and `Recovery` payments are finitely
many, and no two have the same time; in `Monitor` and `Recovery` notes are a finite set of numbers; in
`Delivery` special values are no streams; in `Locks` nobody is no task, and every task takes one of the paths.

| Theorem | Module | Statement |
|---|---|---|
| `TypeCorrect` | `HerdProofs` | `Spec => []TypeOK` |
| `BannedNeverSeated` | `HerdProofs` | `Spec => []BannedInactive` |
| `KindsAlwaysAwarded` | `HerdProofs` | `Spec => []KindsAwarded` |
| `HerdImplementsLedger` | `HerdProofs` | `Spec => PaymentsCountOnce`, the refinement of `PaymentLedger` |
| `DisplacementIsFair` | `HerdProofs` | `Spec => NoUnfairDisplacement` |
| `CapacityRespected` | `HerdProofs` | `Spec => AdmissionRespectsCapacity` |
| `AwardsErasedTogether` | `HerdProofs` | `Spec => AwardsSurvive` |
| `PayoutsNeverStale` | `HerdProofs` | `Spec => []PayoutsFresh`, for operations without profile refreshes |
| `TodaysZapsSurvive` | `HerdProofs` | `Spec => RolloverKeepsTodaysZaps` |
| `SplitsTypeCorrect` | `SplitsProofs` | `Spec => []TypeOK` |
| `FormerMembersUnpaid` | `SplitsProofs` | `Spec => []PaysOnlyThisCycle`, for herds that opted in to daily resets |
| `TargetsNeverGoBack` | `SplitsProofs` | `Spec => TargetsMoveForward` |
| `QuietTargetsCurrent` | `SplitsProofs` | `EveryChangeRecomputes` implies `Spec => []QuietMeansCurrent` |
| `DistributionTypeCorrect` | `DistributionProofs` | `Spec => []TypeOK` |
| `FeedingMovedOnce` | `DistributionProofs` | `Spec => []FeedingMovesOnce` |
| `NobodyPaidTwice` | `DistributionProofs` | `Spec => []RecipientPaidOnce` |
| `NoticesTrue` | `DistributionProofs` | `Spec => []NoticesTellTheTruth` |
| `RecipientsStayFixed` | `DistributionProofs` | `Spec => RecipientsFixedAtFunding` |
| `OutcomesStand` | `DistributionProofs` | `Spec => OutcomeStands` |
| `DistributionKeepsPromise` | `DistributionProofs` | `Spec => PayoutsAsPromised`, the refinement of `PayoutPromise` |
| `TotalsTypeCorrect` | `TotalsProofs` | `Spec => []TypeOK` |
| `TotalsCountOnce` | `TotalsProofs` | `Spec => []CountedOnce` |
| `TotalsRefreshComplete` | `TotalsProofs` | `Spec => RefreshComplete` |
| `DeliveryTypeCorrect` | `DeliveryProofs` | `Spec => []TypeOK` |
| `DeliveryOneEvent` | `DeliveryProofs` | `Spec => []OneEventPerMessage` |
| `DeliveryRepliesFound` | `DeliveryProofs` | `Spec => []RepliesFound` |
| `DeliveryOwnConversation` | `DeliveryProofs` | `Spec => []OwnConversation` |
| `DeliveryNoticesInOrder` | `DeliveryProofs` | `Spec => []NoticesInOrder` |
| `MonitorSubscriptionFollows` | `MonitorProofs` | `Spec => []SubscriptionFollows` |
| `MonitorAppendsConverge` | `MonitorProofs` | `Spec => []AppendsConverge` |
| `RecoveryPassComplete` | `RecoveryProofs` | `Spec => PassComplete` |
| `LocksInvariant` | `LocksProofs` | `Spec => []IInv`, where tasks and locks are on the paths |
| `LocksNoCircle` | `LocksProofs` | `Spec => []NoCircle` |

The argument for `Herd`.  `Inv` is the conjunction of the type invariant's parts, the exclusion of bans and
seats and the inclusion of kinds in awards, for none of them is inductive alone:
`KindsAwarded` needs to know that a promoted observation is a set of kinds, a ban needs
`active` to be a subset of `rows`.  One lemma per shared write (`ClearedKeeps`, `NewDayKeeps`,
`SeatKeeps`, `UpdateKeeps`) shows that it establishes the invariant in the next state from
the facts its callers supply; the step lemmas then go through the actions, and `NextKeeps`
joins them.

The other theorems about `Herd` use `Inv` for the types of their facts.  The refinement maps each
step to a ledger step or a stutter: a decided zap to `Credit` or `Refuse`, a seat given to a social
event, a deletion and a new day to `Drop`, PUT and POST to `Write`.  The displacement and capacity
theorems first show that nothing but a decision, giving up or a crash leaves the desk
(`WaysOffTheDesk`), and then what a decision does to the seats (`SeatsAfterZap`, `SeatsAfterSocial`).
`TodaysZapsSurvive` needs an invariant of its own, `DaysInv`: a payment at the desk or credited was paid
no later than the marked day, because `Enter` catches up the day in the critical section that the
decision ends.  `PayoutsNeverStale` assumes that `"refresh"` does not occur: with it the formula is false,
as the code stores an address without a recompute.

The argument for `Splits`.  `LockInv`: whoever is reading or writing holds the target lock, and no write
has come since its reading.  `GateInv`: a reset under way holds the gate and is pending.  `CycleInv`:
seats of a former cycle survive only in the targets of a pending reset and in the snapshot of the one
recompute this reset waits for.  The last conjunct is what makes `PaysOnlyThisCycle` inductive: a stale
recompute may still write after the membership was reset, but then the reset is queued behind it on the
lock, and the mark stays until the reset has written.

`QuietTargetsCurrent` has the hypothesis `EveryChangeRecomputes`: no operator request that only schedules a
recompute, no failed write of a recompute, and a zap wallet in every policy.  Without each of the three the formula is false,
as section 6 tells of the code.  `CoverInv` is the argument: unless work is to come that will read the herd as it is
now, a writer that holds the lock has read it already, and with the lock free the targets are current.  The other parts
are what makes that inductive: who holds the lock (`HolderInv`), no seats while a reset is under way (`EmptyInv`), and a
cached signature that is the targets' own (`CacheInv`), for a recompute that finds it skips its write.

The argument for `Distribution`.  `TransferInv`: a payment exists only of the invoice the record names, and
only after the snapshot; the call knows which.  That is why a repeated call cannot pay again: it finds the
record, and with it the invoice that is paid already.  `PayoutInv`, share by share: before an attempt nothing
is sent and no task exists; a start belongs to an attempt whose payment does not exist; a skipped notice
leaves a share unpaid for ever; and what the worker has read stays true until it writes, since a settled
payment and the record of an attempt change no more.  `FreezeEffect` and `OutcomeEffect` say what the two
shared writes do.  The refinement of `PayoutPromise` needs to know besides where a payment comes from
(`PromiseInv`): what the listener is about to claim, and every record beyond its plan, is on the fixed list of
a settled invoice (`Covers`), and that stays so (`CoverStays`), since a settled invoice stays settled and a fixed list
fixed.  Then a start, which belongs to an attempt, is a payment the promise allows; the worker tells what it
promises, since its verdict is the payment's; and the rest is a list, money coming in, or a stutter.

The argument for `ZapTotals`.  A rebuild overwrites totals, so it must itself have counted each payment once:
`ScanOK` says that what it found it has seen, and at most once, which the set of seen payments ensures however
the pages shift.  The rest is `CountedOnce`: an increment consults the ledger, and a rebuild adds what it found
to it in the transaction that writes the rows.  The lock is not needed for this; it is for `RefreshComplete`.

`FullScanInv` is what a full rebuild owes: each payment to its pubkey that the ledger has was on a page it has
read, or is in a place further on.  A payment that settles late pushes others to later places, never to
earlier ones (`PlacesGrow`); and when a page comes up short, no place is left (`PlacesSuffice`, `NoGap`): places in the
history are numbered without a gap.

The argument for `Delivery`.  Its invariant says that the relays have only what is stored (`RelaysInv`),
that the worker publishes only what is ready, and has stored the event before it is sent (`WorkInv`), that
the root recorded in a branch has been sent (`RootInv`), and that messages outside the branches wait for such
(`ParentInv`).  `OneEventPerMessage` follows from the first, `RepliesFound` needs all of them: what the worker
sends is a reply to a root or a message that is there and no longer changes.  Queueing preserves the invariant because it
only adds rows and branches (`Grows`, `NewRows`, `NewBranches`).  For `NoticesInOrder`, `OrderInv` says that a notice
waits for the one queued before it in the same destination, if there is one, and that none is queued later with an
earlier number, as the sequence of the switch only grows.

The argument for `Monitor`.  `SubscriptionFollows` says nothing while a subscriber is at work, so it is not
inductive.  `SubscribersAgree` adds that on an undisturbed socket, with no refresh due, every subscriber at work has
read the note that is tracked: who writes the tracked note has the refresh before it, a refresh that
begins beside somebody with another note disturbs the socket (`BeginAgrees`), and a connection begins with its own
reading.  Hence whoever asks last asks with the tracked note.  `AppendsConverge` rests on `Projected`: while nobody has yet to
project, a writer carries the newest saved note.  A note saved after the writer projected comes with a task at
`project`, which waits for the lock and then projects anew; that is why the projection has to be under the lock.

The argument for `Recovery`.  `PassInv`: a payment that a pass owes is recorded, at hand, on the page, or in a
place that the pass has not come to, as long as nothing failed.  Places are numbered in the order of
time among the payments since the start of the scan, and as in `ZapTotals` payments only move to later ones and
leave no gap (`RankOrder`, `NoGap`, `PageFull`).  At hand, an owed payment is admitted or found recorded: its zapper is a member,
or it names the tracked note, and then fetching the note tracks no other, since the tracked note is the
newest saved one (`TrackedInv`).

The argument for `Locks`.  `Order` numbers the locks.  `PathsOrdered` shows of each path that it takes locks in this
order only and frees all of them, from two lemmas about putting paths together (`ThenOrdered`,
`WithinOrdered`).  The invariant: who holds a lock is on its path between taking and freeing it (`HolderInv`); who waits is
about to take the lock, waits in one queue and once, and somebody has the lock (`WaiterInv`), also after locks
were handed over at an exception (`HandOverKeeps`).  In a circle every task would wait for a lock further down than the ones it holds, so
the order would have no end.  The number of tasks is arbitrary; the table of paths is that of the code.

Every safety property that a passing run checks is proved.  Only model-checked are the liveness properties,
`NewDayReachesTargets`, `SettledIsAccounted`, `NewestTracked`, `EngagementsDecided`, `Resubscribed`, `EverySubmitted` and
`EveryPathEnds`: liveness under fairness needs `ENABLED`, which is out of the provers' reach.

## 5. Plan

1. `Herd`, `PaymentLedger`, `Splits`, `Distribution`, `Delivery`, `ZapTotals`, `Monitor`, `Recovery` and `Locks`, and the
   proofs of their safety properties: done.
2. The refinements of `PaymentLedger` by `Herd` and of `PayoutPromise` by `Distribution`: done.
3. Left to model: `Shares`, largest remainder against a reference definition; PUT's read before its transaction
   and combined events in `Herd`; streams and goals as tracked targets in `Monitor`.

## 6. Where the code and its documents disagree

As runs:

- `notice`: a refused zap's notice is skipped, as the payment's claim looks like an answer already given
  (`headbutt.py:2085`, against `cyberherd_explanation.md:194`).
- `monitor_quiet`: with nothing new on the relays the poll acts on today's events again whenever the dedup time is
  over, and the watchdog takes the silent socket for a stalled one and closes it
  (`nostr_websocket_monitor.py:282`, against its own docstring: "During genuinely quiet periods both are
  silent, so this does not fire").

Without a run:

- Deleting or pruning a banned member forgets the ban, and the person can be seated again (`crud.py:2086`;
  `cyberherd_explanation.md:342`: "Banned members must be unbanned before reactivation").
- A social event observed before a manual reset and decided after it is awarded in the new cycle
  (`headbutt.py:913`; `cyberherd_explanation.md:171`: "Replaying an event from before a daily or manual reset does
  not grant a fresh award").
- An operator's change that commits while the debounced recompute is writing starts no other recompute, and the targets
  keep the older members (`splits.py:101`; `README.md:248`: "member payouts and split targets are recomputed
  for the remaining members").
- Without daily resets the pending split work of a failed manual reset is never repeated (`tasks.py:319`; `tasks.py:285`:
  "retain failed split work for retry").
- A recovery pass scans payments from the earliest tracked note, not since midnight: a member's zap of an earlier
  note of the day is not recovered once it was missed (`payment_coordinator.py:1262`; `views_api.py:692`: "Scans payments to
  herd wallet since midnight").
- A refresh of the subscriptions that fails after a settings save is not repeated: there is no periodic refresh, and the
  exception does not get as far as the message (`nostr_websocket_monitor.py:721`; `views_api.py:1535`: "Will be picked up by
  periodic refresh loop within 60 seconds").
- `_check_and_trigger_splits` promises an automatic transfer (`payment_coordinator.py:779`), but the call it makes
  returns at once unless a feeder was triggered (`send_splits.py:246`).

No document speaks of these: without a zap wallet,
clearing the targets leaves the old signature cached, so members who return with
the same rows are skipped (`splits.py:212`); the profile refresh of a totals
rebuild stores an address without recomputing payouts (`crud.py:1390`); the
failed write of a direct recompute is not repeated.

## 7. Not modelled

- Message texts, templates, websocket broadcasts, nudges and score snapshots; messages published directly, of which
  nothing is kept.
- Parsing helpers, signature checks, relay queries, migrations, the user interface: I/O and formatting whose effect on
  the state is that events arrive in any order, any number of times, or not at all.
- The registry that starts and stops monitors, relay readiness, the authentication and expiry of streams; streams and
  goals as tracked targets.
- The leaderboard: its broadcasts may overlap and arrive out of order, and the next one corrects it.
- Lock registries that evict unused locks at thousands of owners.
- Percentages (`shares.py`), and events of two kinds at once.
- Code that nothing calls: `process_zap_receipt_for_tracked_notes`, `_handle_repost_admission`,
  the legacy poll of `subscriptions.py`.

`components` in `PROJECT.json` gives the reason for each part.
