# Verification of miogram

miogram is an anonymous-chat service on Telegram: one main bot and several helper bots, each a
process of the same Go program (`src/cmd/miogram`), that share one Redis and one PostgreSQL. This
directory holds TLA+ models of it, the TLC configurations that check them, and TLAPS proofs.
`PROJECT.json` names, for every definition, the source lines it models.

- [The system](#the-system)
- [Plan](#plan)
- [Chat](#chat-chattla-chatcontracttla)
- [Fleet](#fleet-fleettla)
- [Payments](#payments-paymentstla)
- [Messages](#messages-inboundtla-outboundtla-messagestla-exchangetla)
- [Routing](#routing-routingtla-ringtla)
- [Community](#community-accountstla-broadcasttla-tictactoetla)
- [Runs and bounds](#runs-and-bounds)
- [Fairness](#fairness)
- [Proofs](#proofs)
- [Where the code and its texts disagree](#where-the-code-and-its-texts-disagree)
- [What is not modelled](#what-is-not-modelled)

## The system

| component | state | operations | interacts with | hard | correct when |
|---|---|---|---|---|---|
| chat lifecycle (`storage/store.go`, `bot/main.go`, `bot/profile.go`, `bot/chat.go`) | `notif` (searches, requests), `chats`, `chatmsgs`, `users.step`, `users.balance` | search, request, accept, reject, connect, fall back to a synthetic partner, relay, end | workers and schedulers, through PostgreSQL only | overlapping transactions, deadlocks, crash between claim and connect, steps overwritten by other handlers | nobody is in two chats; coins are charged and given back once; searches and synthetic chats end |
| job scheduler (`jobs/scheduler.go`) | none of its own | connect expired searches, end due synthetic chats, expire searches and payments, purge, gifts, broadcasts | the same tables, in every instance at once | duplicate work, stale selections, jobs that overwrite | each job's effect happens once |
| payments (`payments/service.go`, `bot/static.go`, `bot/admin.go`) | `payments`, `users.balance` | buy, go to the gateway, verify, re-verify, pay by card, review, expire | the gateways, administrators, scheduler | checks a network call before the write | credited once, and only for money |
| fleet manager (`fleet/manager.go`) | mode, leadership, ring of live bots | elect, renew, enter mode, broadcast, reconcile, statistics | Redis lease, key and channel | leases that run out unnoticed, lost broadcasts | one leader in the end, followers in its mode |
| queue (`queue/redis.go`) | inbound lists, user locks, routing map with its reverse index, lease | enqueue, dequeue, lock, register, move | every process | scripts beside plans made of several commands; keys that expire or are evicted | nothing doubled, maps consistent, a lock is its holder's |
| webhook and workers (`cmd/miogram/main.go`) | update-id keys, goroutines | accept an update once, run it under its user's lock | queue, bot service | Telegram repeats, lock time-outs reorder, crashes lose | each update handled at most once, and handled unless an accident took it |
| telegram client (`telegram/client.go`) | outbound shards, response keys | enqueue, send with retries, answer | queue, limiter | the caller gives up, the send goes on, floods | order per chat; sent at most once; success means sent |
| limiter and ring (`fleet/limiter.go`, `fleet/ring.go`) | budget, slots, hash ring | acquire, penalize, grow; owner of a key | client, manager | several shards, boundary values | the budget keeps its floor; keys move little |
| bot service: routing (`bot/service.go`) | assignment user to bot (Redis and PostgreSQL) | register, resolve, bounce, classroom choice | fleet, queue | two stores, mode changes | chatting users stay where they are; assignments to live bots |
| tic-tac-toe (`bot/chat_features.go`) | `tictactoe_games` | start, move, restart | a chat's two users | both press at once | turns alternate; what is over stays over |
| accounts (`bot/auth.go`, `bot/profile.go`, `bot/service.go`, `jobs/scheduler.go`) | rows of `users`; `notif` (direct messages, requests for news) | sign up, reward, write, open, ask for news, give | users, schedulers | one statement after the other, without transactions, in several handlers and jobs | rewarded once, charged before delivered |
| broadcasts (`bot/admin.go`, `jobs/scheduler.go`) | `cron` | create, send a batch, delete | every instance's scheduler | all work on the same row without a lock; a query that breaks half-way | everybody is reached, the end is too |
| profile editing, admin forms, pages, texts | single rows | one read and one write per update | users | the step of the user is shared with everything else | (covered where they touch the step) |

The hazards, each at its line and with the property that watches it, or the reason why none does, are
in `PROJECT.json`.

## Plan

Modules, most important behaviour first; all of them are there:

1. **Chat** with **ChatContract** (the abstract specification it implements).
2. **Fleet**: leader, lease, mode.
3. **Payments**.
4. **Inbound** and **Outbound**, composed by **Messages** and checked against **Exchange**.
5. **Routing**, over **Ring**.
6. **Accounts**, **Broadcast**, **TicTacToe**, small modules that one run checks.

Every safety property of the passing runs has its theorem, the two refinements among them, and so have
the consequences of the two contracts that matter to a user (see [Proofs](#proofs)). No module declares a
RECURSIVE operator. What could follow is in [What is not modelled](#what-is-not-modelled): the deletion of
old chats and messages, which needs a second clock in Chat.

## Chat (`Chat.tla`, `ChatContract.tla`)

PostgreSQL runs at READ COMMITTED. A transaction is modelled as the statements that lock rows or read
what the transaction decides on, followed by one commit that publishes its writes and frees its rows;
a statement outside a transaction is one action. Row locks are the variables `userLock`, `noteLock`
and `chatLock`; a statement on a row held by another process is disabled, which is waiting.

| code | model |
|---|---|
| `users.step`, `users.balance`, `notif`, `chats` (with the count of `chatmsgs`) | `step`, `balance`, `note`, `chat` |
| goroutine of `worker`, `Scheduler` of an instance | a process with `pc` and `job` (its local variables) |
| `handleAnon`, `handleAnonGPS`, `handleProvinceSearch` | `StartSearch`, `ClaimMatch`, `AlreadySearching`, `EndOwnSearches`, `InsertSearch`, `SettleStep` |
| `gibRequestChat`, `gibAcceptChat`, `gibRejectChat` | `RequestChat`, `AcceptRequest`, `RejectRequest`, `AnswerTooLate` |
| `CreateChat`, and `connectAnonUsers` after its failure | `LockUsers`, `RefuseBusy`, `CommitChat`, `RestoreMatch` |
| `relayChatMessage` | `RelayMessage` |
| `handleEndChat`, `EndChat` | `StartEndChat`, `LockChat`, `CommitEnd`, `RefuseEnded`, `ResetOwnStep` |
| `CreateFakeChatFromSearch` | `LockSearch`, `LockSearcher`, `CommitFakeChat` |
| `endDueFakeChats`, `expireSearches`, the statements of `RunOnce` on `notif` | `StartEndDue`, `StartExpire`, `ExpireSearch`, `ResetConnecting`, `PurgeNotes` |
| handlers that set the step whether or not a chat is on; `handleProfile`, which writes back the step loaded with the user | `ChangeStep`, `LoadStep`, `RewriteStep` |
| `defer tx.Rollback`, a deadlock that PostgreSQL breaks; a process that dies | `Abort`, `Crash` |

Searches have three ages (up to 30 s, up to a minute, beyond), which is what the code compares. Which
searches pass the filters on gender, age and place is left open. The Redis lock of a user is left out:
workers of one user overlap freely here, so nothing shown rests on that lock, which may expire.

`ChatContract` says what a chat promises with nothing of how: a conversation takes one or two users
who are free, charges each its price, ends once, and an end gives each party nothing or its price
back. `ImplementsContract` is the refinement: `talk` is the status and the prices of a row of `chats`,
`purse` is `users.balance`. The contract leaves open whether a refund comes; see `RefundsArrive`. What
follows from it for a user is stated beside it: one talk at a time (`OneTalk`), no coins but one's own
(`OwnCoins`, checked as `CoinsOnlySpent`), and an end that stands (`EndStands`).

## Fleet (`Fleet.tla`)

| code | model |
|---|---|
| `fleet:leader`, `fleet:mode`, the subscribers of `fleet:control` | `lease`, `modeKey`, `channel` |
| `Manager.Run` | `Start`; its loops are the other actions |
| `leaderElectionLoop`, `runLeaderDuties` | `TryLeaderLock`, `StandDown`, `Release`, `Resign` |
| `evaluateMode`, `applySchedule`, `enterMode` | `EvaluateMode`, `ApplySchedule`, `EnterMode` and `Publish` (the write of the key and the broadcast are two steps) |
| `subscribeLoop`, `followLoop` | `Receive`, `ApplySharedMode` |
| time to live of the lease; `FLEET_OFFPEAK_AFTER`; `FLEET_PEAK_HOURS` | `Expire`, `CalmDown`, `ClockTurns` |

A lease may run out at any moment: its holder is slow, or cannot reach Redis. Broadcasts may be lost
for any subset of the subscribers. The token of a term is told apart by its instance: an instance
uses no other than the present one. `FLEET_MODE` and the peak hours are `fleetMode` and `hours`; the first
is read by `EvaluateMode` only (`ForcedNormal`). In `ApplySharedMode` the read of the key and the store are one
step; a store that comes late has the effect of a broadcast that comes late. A queue whose length
cannot be read counts as not busy, as in the code.

## Payments (`Payments.tla`)

Every party reads the row, talks to somebody, and writes it; the model's steps end where another party
can come between.

| code | model |
|---|---|
| `buyCoin` | `BuyCoin` |
| `startCardPayment` (check, then unguarded write) | `StartCard`, `WriteCard` |
| `enterCardReceiptMode`, `submitCardReceipt` | `SubmitReceipt` |
| `adminReviewCardReceipt` | `Reopen`, `Reject`, `Approve` |
| `Request`, `zarinpalRequest`, `idpayRequest` | `Request`, `StoreAuthority`, `Refuse` |
| `Verify`, `zarinpalVerify`, `idpayVerify`; `ReVerifyPayment` | `Verify`, `ReVerifyPayment`, `Confirm`, `Refuse` |
| `success` | `Success` |
| `expirePayments` | `SelectStale`, `ExpireNext` |
| errors that are ignored, processes that die | the failing disjuncts of `WriteCard`, `StoreAuthority`, `ExpireNext`; `Fail` |

The gateway is external: it issues authorities, the buyer pays one (`Pay`), and it confirms an
authority that was paid as often as it is asked. `credits` counts, per payment, how often the coins
were added to `users.balance`, and by whom. Age is what the code compares: 750 s (a payment is used
again by `buyCoin`) and 900 s (it expires). All payments are one buyer's. Several workers may be in
`startCardPayment` at once: the lock on the buyer expires after 30 s, and a send through the queue
may take minutes. Amounts never change after the insert, so their comparison with the gateway's
answer is left out, as are tracking numbers and the messages to the administrators.

`CreditPerRequest` is the most that `success` promises: one credit for each purchase requested
(`Purchases`). One credit for each purchase *paid* would be false: a `Request` in progress that stores its
authority after the first credit puts the row back to `move_gateway`, and a handler that has the gateway's
confirmation of the same, paid purchase credits it again. It takes three handlers.

## Messages (`Inbound.tla`, `Outbound.tla`, `Messages.tla`, `Exchange.tla`)

The way of an update in and of a reply out. `Inbound` and `Outbound` have no variable in common;
`Messages` lets the handler of an update make a call and wait for it while it holds the user's lock,
and lets the process die with its workers, its consumers and its limiter.

| code | model |
|---|---|
| what Telegram has been told; `miogram:update:*`; the list of a bot | `telegram`, `seen`, `inbox` |
| `worker` goroutines; `miogram:userlock:*` | `worker`, `lock` |
| `webhookHandler` with `enqueueUniqueScript` | `Webhook`, `EnqueueUnique`: the OK may be lost, and Telegram sends the update again |
| `worker`: `DequeueInbound`, `AcquireLock`, `Process`, the release | `Pop`, `AcquireLock`, `GiveUp`, `LockFails`, `HandlerCalls`, `HandlerReturns`, `Release` |
| `PerUserLockTTL` | `ExpireLock` under a handler that still runs, `ExpireDeadLock` |
| `callViaQueue`, `EnqueueOutbound` | `Call`, `Post`, `TimeOut` |
| `runOutboundQueueShard` | `shard`; `Take`, `Acquire`, `Accept`, `Refuse`, `Flood`, `PauseEnds`, `Respond` |
| `Limiter`: `reserve`, `grow`, `Penalize`, `prune` | `budget`, `slots`, `cooling`; `Acquire`, `AcquireUncounted`, `AwaitSlot`, `Flood`, `SlotLeaves`, `CooldownEnds` |
| the process dies | `Crash` |

A handler is reduced to one reply, which bears the name of its update. The time a consumer sleeps for a
slot is left out: it may take the slot as soon as there is one. `slots` are the sends that the limiter
counts. When the window is full and its oldest send is exactly a second old, `prune` keeps that send
(`Before` is strict), the time to wait is zero, and `Acquire` takes zero for a grant that no slot records:
`AcquireUncounted`. So nothing is stated about the number of sends in a second, only that the budget keeps
its floor (in `TypeOK`), or `AIMD_MAX` where that is lower. The answer's key and its delivery to a
caller that still waits are one step. The deduplication key lives for a day, as long as Telegram repeats
an update, so it never runs out here.

`Exchange` says what is promised with nothing of how: an update comes in once, is handled at most once
and then finished or lost; a message goes out at most once, a reply not before its update is being
handled. In the refinement `KeepsContract` the stage of an update is read off the keys, the list and the
workers (`Stage`), and `out` is what Telegram has carried out. An update whose handler waits for a lock
is still queued: `GiveUp` puts it back without a step of the contract.

Two updates of one user may be handled in the wrong order (`GiveUp`); nothing promises their order.
`ChatOrder` is about what one chat is sent: the shard of a chat and its consumer keep the order of the
calls, through floods and crashes, except for answers to buttons, which are pushed in front.

## Routing (`Routing.tla`, `Ring.tla`)

| code | model |
|---|---|
| `user_bot_routing`, `user_bot_reverse`, `users.assigned_bot` | `route`, `reverse`, `assigned` |
| the mode an instance believes in; `cfg.Helpers` | `mode`, `ring` |
| the bot a user writes to; his message `/start classroom_<id>` | `at`, `link` |
| `Process`: the bounce of off-peak helpers, the invitation of the main bot in peak | `StartBounce`, `Invite`, `Serve` |
| `handleClassroomChoice` | `Classroom` |
| `resolveDelivery`, `deliverVia` | `Notify` (some message to a user), `Lookup`, `ReadAssigned`, `DeliverVia` |
| `registerBotForUser`, `RegisterUserBot`, `MoveUserBot`, `UpdateAssignedBot` | `WriteRedis`, then `WritePostgres` |
| `registerUserBotScript` | `SetRoute`: nothing where the bot is the same, else a write of the map, an entry in the new index, and the entry in the old index removed |
| a Redis that comes back empty; one that evicts a key (`allkeys-lru` in `docker-compose.yml`) | `Forget`; `Evict`, `EvictIndex` |
| `Ring.Assign` | `Assign`: the member whose point comes first on the circle |

Modes change as they like, so that what is shown holds for whatever Fleet does. Whether a helper's
heartbeat is alive, and whether the receiver is chatting, is left open. `Ring` takes `hashPoint` as any
function without collisions, and `Routing` takes the points of users as given.

What the model makes visible, beside its properties: in peak the main bot answers every update of a
registered user with an invitation, also of one who is chatting; the ring does not look at heartbeats, so
an invitation may name a helper that is down; a resolver that finds a helper in Redis during peak does
not ask whether it is alive; a backfill of Redis from PostgreSQL may undo a newer move. In off-peak all
of that dies out (`OffPeakBringsHome`). What does not die out is an eviction: the script skips a write that
changes no route and looks at no index but those of the old and the new route, so that a user whose shard
of the map was evicted stays in the index of a bot that no longer serves him, and one whose index was
evicted is missing from it until he is moved. `torn` names those users, and `ReverseExact` is about the
others.

## Community (`Accounts.tla`, `Broadcast.tla`, `TicTacToe.tla`)

Three modules without a variable in common; `MCCommunity` checks them in one run, in which each behaviour
exercises one of them.

*Accounts.* Every statement is a step. `handler` is a handler between two statements; handlers of one
user overlap only after his lock is lost (`LoseLock`; see `LockProtects`).

| code | model |
|---|---|
| `handleAuth` with `CreateUser` | `StartBot`, `CreateUser`, `SetReferral`, `PayInviter`, `PayParent`, `PayAds` |
| `resolveDelivery`, for a user without a row | `CreateForDelivery` |
| `checkProfileCoin` | `EditProfile`, `CheckProfileCoin`, `PayProfile`, `PayThanks` |
| `gibSimpleNotif`, `afterUserOnline` | `AskNews`, `InsertWatch`, `Charge`; `ComeOnline`, `Tell` |
| `gibDirectInput`, `gibDirectSend`, `gibDirectGet`, the purge of `notif` | `WriteLetter`, `PressSend`, `OpenLetter`, `Stamp`, `PurgeLetters` |
| `inactiveUsers` | `SelectInactive`, `GiveGift` (an absolute balance) |
| `coin_all`, coins earned and spent elsewhere | `GiveAll`, `Earn` |

Rewards are one coin each, since the administrator sets their size. Statements succeed: the code ignores
the errors of several of them, so that a failing `INSERT` is charged all the same. `CoinsAccounted` leaves
out users whose coins moved between the read and the write of `inactiveUsers`: that movement is undone.
`RewardsOnce` leaves out users whose lock was lost, except for the bonus of the advertisement, which is
guarded in the statement itself (`AdsOnce`, one of its conjuncts).

*Broadcast.* `batch` is what an instance's `processCron` has read. Every instance works on the same row:
one sets back the position of another and users get the message again, but none is skipped. The rows of a
batch arrive one by one, and `rows.Next` may end on an error (`QueryBreaks`), which the code does not tell
from the last row: after some users the position is written back and the next batch goes on from there;
before the first one `DeleteRow` removes the broadcast, and whoever was to come gets nothing.
`BroadcastReachesAll` leaves out those messages (`broken`) and no others.

*TicTacToe.* A move is one transaction on the locked row (`Play`); starting, restarting and failing are
single statements of the handlers, which `hand` gives for each worker. A player has one handler while his
lock lives; it lives for 30 s or 60 s, a send may take minutes, and after `LockRunsOut` any number of workers
handle his updates. The rules of the game do not rest on the lock (`GamesFair`, `OverStaysOver`), but
`FailedUnplayed` does: past a lost lock the player who starts can move in a second handler, and the
`UPDATE` to `send_failed`, which looks at no status, spoils a game in play. It leaves out games whose
starter lost his lock (`unlocked`) and no others. Board and lines are parameters; the code's are the 3 by 3
board with its eight lines.

## Runs and bounds

| run | shows | instance |
|---|---|---|
| `chat_connect` | `TypeOK`, `OneActiveChat`, `OneFakePerSearch`, `CoinsOnlySpent`, `ImplementsContract` | 2 users, 2 workers, 2 schedulers, one `notif` row, 2 chats |
| `chat_live` | `SearchResolved`, `FakeChatEnds` | 2 users, a worker, a scheduler, one search, one chat |
| `chat_refund` | violation of `RefundsArrive` | as `chat_live` |
| `chat_rejected` | violation of `RejectionStands` | as `chat_live` |
| `fleet` | `TypeOK`, `LeaseKept`, `LeadershipReturns`, `FollowersAligned` | 2 instances, one crash, one broadcast in flight, three settings |
| `fleet_authority` | violation of `LeaderAuthoritative` | 2 instances, no crash |
| `fleet_forced` | violation of `ForcedNormal` | as `fleet_authority` |
| `payments` | `TypeOK`, `CardOnce`, `GatewayPaidFor`, `SuccessIsCredited`, `CreditPerRequest`, `OpenPaymentEnds` | one payment, 2 authorities, a worker, 3 handlers, a scheduler, one failure |
| `payments_second` | violation of `NoSecondCredit` | one payment, one authority, one handler |
| `messages` | `TypeOK`, `LockProtects`, `OkMeansDelivered`, `ChatOrder`, `KeepsContract`, `ConfirmedAreHandled`, `CallsEnd` | 2 updates of a user, 3 notices, 2 workers, 2 shards, 3 attempts, 2 accidents |
| `routing` | `TypeOK`, `ReverseExact`, `DurableWasRouted`, `OffPeakBringsHome`, `Served` | one user, 2 helpers with 2 points each, 2 handlers, one accident |
| `community` | `RewardsOnce`, `CoinsAccounted`, `NoFreeLetter`, `BroadcastReachesAll`, `GamesFair`, `FailedUnplayed`, `NewsFollows`, `BroadcastEnds`, `OverStaysOver`, `OrphansEnd` | 3 users, 2 handlers, 2 instances; 3 subscribers, 2 instances, batches of 2; 2 players, 2 workers, 2 games, a line of 3 cells |

Why these are enough. Two connecting transactions on the same user need two processes; a third adds
no new pair of conflicting statements. One `notif` row and two rows of `chats` allow a request to be
answered twice at once, and a chat to follow another; two schedulers can find the same search and make the
second synthetic chat of it in the second row.
`MinMessages = 1` keeps both a short and a long chat; the code's 5 counts further to the same
comparison. `NoteId` and `ChatId` bound the serials: with all rows used up a process that would
insert waits, which no property of `chat_live` relies on (its search ends in other ways, too).
In `fleet`, `MaxCrashes` bounds the crashes and `MaxInFlight` the unread broadcasts; a broadcast that
finds its subscriber's buffer full is lost, which the code's buffer does as well. The settings are
a reactive fleet with peak hours that are over or begin, a forced peak, a forced normal mode; unset
peak hours are the case of `hours` that never changes and are not among them. In `payments` two
authorities are what an overwritten authority needs, three handlers what two verifications need and a
request that comes between them; one worker in `startCardPayment` is enough beside them, since two of them
make the same unguarded write; `MaxFailures` bounds ignored errors and deaths. A second payment only adds the reuse by `buyCoin`;
the safety properties are proved for any number of payments. The payment runs switch deadlock checking
off because a shop with no further purchase really stops; so do `messages`, where every update and notice
has been dealt with in the end, and `community`, where games and broadcasts are over. No other run does.

In `messages` a behaviour has one of four loads (`MCLoad`): two updates of one user, who meet at his lock;
an urgent reply beside a notice to the same chat; two notices to one shard; two to two shards, which meet
at the limiter. `MaxFaults` counts what goes wrong: a crash, a lost OK, a failing Redis, a lock that
expires under its handler, a caller that gives up; two of them allow one after another's repair. A budget
between 1 and 2 is one that can be exhausted, halved and grown; `AIMD_MAX` is unset, as in the
configuration (`Ceiling = 0`), and `BudgetBound` bounds the growth. In `routing` users do not interact, so one
is enough; two handlers are a mover and the one it races. `MaxFaults` counts failing statements,
handlers that die, a Redis that forgets or evicts a key and changes of the ring; changes of mode are not counted. In
`community`, `MaxMoves` bounds coins from elsewhere and pressed buttons, `MaxFaults` handlers that die and
locks that are lost, `MaxCrashes` instances that die in a batch and queries that break. Each load fixes who has a row and coins,
and what people do in it; the inactivity job runs with lost locks left out, which it does not use. Two
games are what a restart pressed by both players makes; the lock is lost under the player who opens the
first game, in behaviours with one game (`LockOfX` of `MCCommunity`), and the proofs have no such limit;
three cells with two lines allow a win, a draw and a game that goes on.

## Fairness

- **Chat.** Time passes; a handler or transaction that has begun goes on or fails, since PostgreSQL
  breaks deadlocks and a statement returns or errors. The scheduler's loop comes back to each of its
  jobs every second or every `JOB_INTERVAL`, so a job that has work again and again is done again
  and again (strong fairness: another job of the loop may run in between), and ending a chat does not
  fail for ever. Nothing is assumed of users: no search has to be made, no button pressed.
- **Fleet.** A process that is down is started again (`restart: unless-stopped` in
  `docker-compose.yml`); a lease whose holder is dead or a candidate runs out; every loop comes back;
  a leader whose lease is gone comes to the tick of its renewal. A lease may still run out at any time.
- **Payments.** The schedulers' `expirePayments` runs, and time passes. An earlier job of `RunOnce`
  that returns an error skips it for that round; the assumption is that not every round fails.
- **Messages.** Goroutines of a live process go on, sends and pauses end, and a crashed process is started
  again; the lock of a dead worker runs out (`PerUserLockTTL`); seconds pass. Nothing is assumed of
  Telegram: neither that it delivers an update nor that it answers well. Since a load is finite,
  `ConfirmedAreHandled` and `CallsEnd` say "again and again nothing is left over".
- **Routing.** Handlers go on, and every user keeps writing: `OffPeakBringsHome` and `Served` are about
  users who do. That a worker takes a user's update again and again (strong fairness) rests on
  `ConfirmedAreHandled`. Both properties presuppose that modes settle, which Fleet's `FollowersAligned`
  is about.
- **Community.** Schedulers and handlers go on. `NewsFollows` presupposes that whoever is watched writes
  again and again, and coins to ask with are finite, so that nobody asks for ever.

## Proofs

Checked by TLAPS for every value of the constants that satisfies the modules' assumptions.

| theorem | states | along |
|---|---|---|
| `ChatProofs!TypeCorrect`, `OneChatEach` | `[]TypeOK`, `[]OneActiveChat` | `IndInv` of Chat |
| `ChatProofs!OneFakeEach` | `[]OneFakePerSearch` | `IndFakes` |
| `ChatProofs!CoinsAreOwn`, `EndedForGood` | `[]CoinsOnlySpent`, `Contract!EndStands` | the contract, step by step |
| `ChatProofs!ChatKeepsContract` | `ImplementsContract`, that is, `ContractSpec` under the mapping | `IndInv`, `IndFakes`; each step begins, finishes or is unseen |
| `FleetProofs!TypeCorrect`, `LeaseIsKept` | `[]TypeOK`, `LeaseKept` | `IndInv` of FleetProofs |
| `FleetProofs!ForcedNormalKept` | `[]ForcedNormalUnscheduled` | `IndForced` |
| `PaymentsProofs!TypeCorrect`, `CardCreditedOnce`, `GatewayCreditIsPaid`, `SuccessMeansCredit` | `[]TypeOK`, `[]CardOnce`, `[]GatewayPaidFor`, `[]SuccessIsCredited` | `IndInv` of PaymentsProofs |
| `PaymentsProofs!CreditsPerRequest` | `[]CreditPerRequest` | `Backed` |
| `RoutingProofs!TypeCorrect`, `ReverseIsExact`, `DurableIsRouted` | `[]TypeOK`, `[]ReverseExact`, `[]DurableWasRouted` | the types; `Carried` |
| `RoutingProofs!RingMovesLittle` | a user's helper changes only from one that is gone or to one that is new | the nearest point is unique |
| `TicTacToeProofs!GameTypeCorrect`, `GamesAreFair`, `FailedIsUnplayed`, `OverIsOver` | `[]GameTypeOK`, `[]GamesFair`, `[]FailedUnplayed`, `OverStaysOver` | `IndInv` of TicTacToeProofs |
| `MessagesProofs!TypeCorrect`, `LocksProtect`, `OkIsDelivered` | `[](TypeOK /\ Held)`, `[]LockProtects`, `[]OkMeansDelivered` | `Guarded`; `OnePlace` and `Answers` |
| `MessagesProofs!ChatsInOrder` | `[]ChatOrder` | `IndOrder` |
| `MessagesProofs!ExchangeKept` | `KeepsContract`, that is, `ExchangeSpec` under the mapping | `IndStage`, `Answers`; each step moves one stage, delivers or stutters |
| `MessagesProofs!SentOnce`, `HandlersRunOnce` | `[]Contract!AtMostOnce`, `Contract!HandledOnce` | the contract, step by step |
| `AccountsProofs!AccTypeCorrect`, `AdsPaidOnce`, `RewardsPaidOnce` | `[]AccTypeOK`, `[]AdsOnce`, `[]RewardsOnce` | `IndTypes`; `AdsFlag`; `IndRewards` |
| `AccountsProofs!CoinsAdd`, `LettersPaid` | `[]CoinsAccounted`, `[]NoFreeLetter` | `IndCoins`; `IndLetters` |
| `BroadcastProofs!CronTypeCorrect`, `BroadcastReaches` | `[]CronTypeOK`, `[]BroadcastReachesAll` | `IndInv` of BroadcastProofs |

*Chat.* That nobody is in two chats is not inductive: a transaction that has counted the active chats
of its users and is about to insert one could meet an insert of another. `ClaimsHold` says why it
cannot: whoever is past that count holds the rows of the users it will connect, and they are free; an
insert needs that lock. `WellFormed` carries what rows and local variables name, since only then do
the statements lock real rows. `IndInv` is the conjunction with `TypeOK`. The lemma of each action
treats the conjuncts it can disturb.

`OneFakePerSearch` needs to know where a synthetic chat comes from: a row of `notif` that is closed for
good (`FromClosed`), while a scheduler about to make one holds the lock of a row that is still open
(`Holds`). Two schedulers that selected the same search meet at that lock, and the second finds it closed.
`IndFakes` adds that whoever is about to end a chat holds it while it is on (`HoldsChat`). For most actions
one condition is enough (`StepKeeps`): they open no closed row and leave locked ones alone.

For the refinement, `CommitChat` and `CommitFakeChat` are a `Begin`: the claims of `IndInv` say that the
parties are free when the commit comes, although they were counted some statements earlier. `CommitEnd` is a
`Finish`: by `HoldsChat` the chat is still on, and what it gives back are prices it has. Every other statement
moves no coins, and of a chat at most its messages and age, which the mapping does not look at (`Unseen`).

What users have of it is then proved from the contract's steps alone. `OwnCoins` is not inductive without
`OneTalk`: a `Begin` charges a user on top of what his present conversation cost him unless he has none. An
end gives back at most the price, which has left the purse; and since an ended conversation stays ended
(`EndStands`), it is given back once. None of it speaks of locks, statements or crashes any more: that is
what `ChatKeepsContract` is for.

*Fleet.* `LeaseKept` is a property of steps. Its invariant is type correctness, which needs
`Announced` (what is broadcast is a mode). The proof goes action by action; only `Expire` and
`Release` touch a lease that is held.

`ForcedNormalUnscheduled` is about modes that are believed in; what could bring peak to an instance is also
the shared key, a broadcast on its way, and a leader about to write. `NoPeak` says that none of them has it,
and without peak hours only `EvaluateMode` makes it, which the override stops. `fleet_forced` shows that the
hypothesis is needed.

*Payments.* `CardOnce` needs `Flagged` (the column `credited` is the number of approvals), because the
status may return to `card_review` after an approval: a `Request` in progress overwrites `success`
with `move_gateway`. `GatewayPaidFor` needs `Requested` (an authority is requested for one payment,
and row and handlers hold it for that one only, though a row's authority is overwritten) and `Confirmed` (a handler
that is about to credit has the gateway's confirmation). `Requested` also says that a row in `move_gateway` has
an authority, which `ReVerifyPayment` does not ask for.

`CreditPerRequest` counts: the status `move_gateway` is worth one credit to come (`ToCome`). `Backed` says that
the credits made and the one to come are no more than the purchases requested. A `Success` turns the one to
come into one made; only `StoreAuthority` restores it, and that comes with a new purchase; whatever else
overwrites the status can only lose it.

*Routing.* `ReverseExact` is what the script itself rests on: it removes a user from the index of his old
route alone, which leaves him in no other only if he was in no other, and it skips a write that changes no
route, which is right only if the entry is there. So the exactness before a script gives the exactness
after it, for a user of whom nothing was evicted; no step but a restart of Redis takes a user out of `torn`.
`DurableWasRouted` is not: a handler that writes PostgreSQL must have routed the user before. `Carried`
adds that (`CarriesRouted`) and that a handler with any other reason carries the main bot (`HomeIsMain`).
`RingMovesLittle` is about `Assign` alone: two helpers at the same distance of a key would be one point,
so the helper with the nearest point is unique, and one that is in both sets of members and nearest in
one of them is not beaten by a member of that set.

*TicTacToe.* `FairRow` says of one row what `GamesFair` and `FailedUnplayed` say, and who plays it. That
`send_failed` comes too late for no game needs `Unplayed`: while a player's handler sends the boards and
still has his lock, it is his turn and the board is empty, because his next move needs a handler and he has
no second one (`HandsHeld`: two workers are at a player's updates only if he is in `unlocked`). `HandsKnown` says
that the row a handler is about exists.

*Messages.* `Guarded` is `LockProtects` said worker by worker: a
worker that releases deletes the key only if it holds its own token, so the release of one that outlived
its lock leaves the successor's. `OkMeansDelivered` needs to know that a job is in one place only
(`OnePlace`): what is on a list, or with a consumer that has not sent it, has not been carried out, and a
consumer that reports success has carried its job out once. `Answers` adds that nothing is sent before
its call. Lists are sequences: the lemma `Queues` says what pushing and popping do to their ranges.

`ChatOrder` is about deliveries, which come late; its invariant is about positions (`Precedes`). A list holds
its calls in the order they were made (`ListsInOrder`), and when the later of two has left it, the earlier
has left list and consumer (`TakenInOrder`), since a shard has one consumer, which keeps its job
through every retry. Answers to buttons overtake, which is why `Patient` leaves them out. A crash takes the
job the consumer has and leaves the list, which is in Redis, as it is, so it disturbs neither.

For the refinement, `OneHolder` says that an update that came in is in the list, with one worker, lost or
done with, and in one of them only; `Sorted` reads off `Stage` what that means. `RepliesLate` says that
an update whose reply was asked for is on no list, so that a reply is delivered only for one that is
being handled or was. A worker's step moves the stage of its own update and of no other (`Stays`); a crash
loses those it interrupts in one step of the contract. `SentOnce` and `HandlersRunOnce` are what the
contract comes to for a message and for an update, and are proved from its steps: a stage only goes forward,
and a reply that is out has an update that is past the list.

*Accounts.* Handlers, resolvers and jobs write the same rows one statement at a time. `AdsFlag` needs
nothing but the guarded statement, so it holds without locks. The other rewards are paid after a check
made statements before, and `IndRewards` carries the check along: what the handler of a user may rely on at
each of its steps (`Owed`), which no other handler of his can undo, because there is none while his lock
holds (`Sole`). A row that a resolver creates in between does no harm: creating it pays nothing, the handler
that had found no row goes on and pays, and no other one begins, since there is a row (`PaidFor`). `CoinsAccounted` needs, for every job that has read a balance, that the row still
has it, or has it with the gift of another instance that read the same (`IndCoins`). `NoFreeLetter` needs
what has been charged and not yet delivered: `IndLetters` counts the handlers that stand between the two,
so that one that dies leaves a letter paid for and not delivered, never the reverse.

*Broadcast.* Several schedulers write positions of their own over one row, so no position is the
greatest. The invariant is that each of them is sound by itself: everybody up to a position, in the row or
with an instance, was sent the message, if he still has a row in `users` (`ServedTo`), and a batch is an initial part
of those that are left (`BatchServed`). The row is deleted by an instance whose selection past a sound
position was empty, or whose query broke before its first row, and then the message is `broken`. The
least and the greatest member of a set are found by the well-foundedness of the numbers.

Only model-checked: the liveness properties (`SearchResolved`, `FakeChatEnds`, `LeadershipReturns`,
`FollowersAligned`, `OpenPaymentEnds`, `ConfirmedAreHandled`, `CallsEnd`, `OffPeakBringsHome`, `Served`,
`NewsFollows`, `BroadcastEnds`, `OrphansEnd`), which rest on fairness and `ENABLED`, and those are out of
this prover's reach. The other way round, the types of the three modules of `community` are proved
(`AccTypeCorrect`, `CronTypeCorrect`, `GameTypeCorrect`) and no run repeats them, nor what the contracts come
to beyond `CoinsOnlySpent`, nor `ForcedNormalUnscheduled`, whose settings `fleet` does not have. The properties of the violation runs are
false of the code and so are no theorems.

## Where the code and its texts disagree

- `chat_refund`: the end of a short chat records and announces a refund, but credits only a user
  whose step still says `chatting`; other handlers overwrite the step in mid-chat.
- `chat_rejected`: `gibAcceptChat` never reads the status of the request, so a request that was
  rejected connects the two users while its row exists.
- `fleet_authority`: an instance that starts writes its own mode to the shared key. A leader in peak
  does not write it again ("The leader is authoritative"), and the followers stay in off-peak.
- `fleet_forced`: `FLEET_MODE` is a "forced override" that should "short-circuit everything"; `applySchedule`
  never looks at it, so that with peak hours configured a fleet forced to normal goes to peak during them.
- `payments_second`: "Guard against double credit" looks at the column `credited`, which the gateway's
  `success` does not set; `startCardPayment` overwrites a `success` that came after its check, and the
  approval credits a second time.

Reachable in the models but promised by no text, so recorded among the hazards only:

- `Payments`: a purchase that the gateway has confirmed is not credited if the row leaves `move_gateway`
  before `success`, and `ReVerifyPayment` then refuses it.
- `Payments`: a purchase paid once is credited twice if a late `Request` puts the row back to `move_gateway`
  between two verifications that the gateway has confirmed.
- `Accounts`: a direct message at the receiver's cost is marked `end` when it is offered, and the next
  `RunOnce` deletes the row, so that a receiver who decides to pay finds it gone.
- `Outbound`: a send at the very moment the oldest slot turns a second old is granted and not counted.
- `Broadcast`: a batch whose query breaks before its first row deletes the broadcast, and nobody of those
  still to come is served.
- `TicTacToe`: a game in play is set to `send_failed` by the handler that started it and outlived its lock.
- `Routing`: after Redis evicted a shard of the map or the index of a bot, the index names a user under a bot
  that does not serve him, or not at all.

Comments on code that no path reaches: `types.go` and `manager.go` describe messages that wait for a dead
bot's successor, but `Call` turns every answer that is not Ok into an error, and the branch that would
keep the message (`send`, `bot/service.go`) asks for an answer without an error. `redis.go` says of a
helper without heartbeat that the resolver treats it as inactive; the resolver does so only for users
whose bot it did not find in Redis during peak.

## What is not modelled

- *Chat:* the deletion of messages, of chats half an hour after their end and of `chatmsgs` after a week;
  the privacy switch; the guards on silence, blocks and last activity; the filters of a search.
- *Fleet and queue:* statistics; the lists of pending messages and their sweep, which nothing fills;
  `migrateHelpersToMain` and `SetUserBot`, which nothing calls; `maybeRedirectNewUser`, which never acts.
- *Messages:* the encoding of requests and answers; updates that name no user, which are ignored; the
  registration of the webhook; how long a consumer sleeps.
- *Routing:* the cooldown and the texts of invitations and notices.
- *Community:* likes, blocks, lists and reports, each one write of one row; the boards shown to players,
  which are edited after the commit without order, so that the last edit may be of the older board.
- *Not planned:* account dialogues, profile editing, administrators' forms, keyboards, texts,
  configuration, the tunnel and the scripts; they are one read and one write per update, wording, or
  process plumbing, and what they share with the rest (the step of a user, a payment, coins) is in the
  models.
