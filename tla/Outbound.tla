------------------------------ MODULE Outbound ------------------------------
(***************************************************************************)
(* Calls of the Bot API through Redis (telegram/client.go) under the rate  *)
(* limiter (fleet/limiter.go).  A caller pushes a job on the list of a     *)
(* shard and waits, with a time-out, for the answer; the consumer of the   *)
(* shard sends it, at most MaxTries times as long as Telegram answers with *)
(* a flood wait.  All shards of a bot share one limiter.  Time enters as   *)
(* what may happen: a slot leaves the window of a second, a cooldown ends. *)
(* Every pass of the loop but the last is a flood, so floodResponses is    *)
(* the number of passes before this one.                                   *)
(***************************************************************************)
EXTENDS Naturals, Sequences, Functions

CONSTANTS
  Job,        \* calls that can be made
  Urgent,     \* those of answerCallbackQuery
  Shard,      \* consumers of the bot
  ShardOf,    \* ShardOf[j]: the shard its chat hashes to
  MaxTries,   \* attempts of one job (3 in the code)
  Floor, Seed, \* AIMD_FLOOR, AIMD_SEED
  Ceiling,     \* AIMD_MAX; 0 where there is none
  BudgetBound, \* bound: the budget does not grow past it
  NoJob

ASSUME OutboundAssumption ==
  /\ Urgent \subseteq Job
  /\ ShardOf \in [Job -> Shard]
  /\ NoJob \notin Job
  /\ MaxTries \in Nat \ {0}
  /\ Floor \in Nat \ {0} /\ Seed \in Nat /\ Floor <= Seed
  /\ Ceiling \in Nat /\ BudgetBound \in Nat

VARIABLES
  outbox,    \* the lists outbound:<bot>:shard:<n>
  shard,     \* the consumer: where it is, its job, failed tries, the result
  caller,    \* what a job's caller knows
  accepted,  \* how often Telegram has carried out a job
  pushed,    \* the jobs in the order they were enqueued
  budget,    \* whole messages per second the limiter allows
  slots,     \* the sends of the trailing second that the limiter counts
  cooling    \* within the cooldown after a flood

limiter      == <<budget, slots, cooling>>
outboundVars == <<outbox, shard, caller, accepted, pushed, budget, slots, cooling>>

Consumer(pc, j, tries, result) == [pc |-> pc, job |-> j, tries |-> tries, result |-> result]
IdleConsumer == Consumer("idle", NoJob, 0, "none")

OutboundInit ==
  /\ outbox = [s \in Shard |-> << >>]
  /\ shard = [s \in Shard |-> IdleConsumer]
  /\ caller = [j \in Job |-> "none"]
  /\ accepted = [j \in Job |-> 0]
  /\ pushed = << >>
  /\ budget = Seed
  /\ slots = 0
  /\ cooling = FALSE

\* The wrong push, at the head for every method.
PushFront(j) == outbox' = [outbox EXCEPT ![ShardOf[j]] = <<j>> \o @]

\* RPUSH, and LPUSH for the answers to pressed buttons.
Push(j) ==
  outbox' = [outbox EXCEPT ![ShardOf[j]] = IF j \in Urgent THEN <<j>> \o @ ELSE Append(@, j)]

Enqueue(j, who) ==
  /\ caller[j] = "none"
  /\ Push(j)
  /\ caller' = [caller EXCEPT ![j] = who]
  /\ pushed' = Append(pushed, j)
  /\ UNCHANGED <<shard, accepted, limiter>>

\* callViaQueue: the caller waits for the answer.
Call(j) == Enqueue(j, "waiting")

\* EnqueueOutbound: fire and forget.
Post(j) == Enqueue(j, "posted")

\* The wait of callViaQueue ends (timeout + 2 min): the job goes on.
TimeOut(j) ==
  /\ caller[j] = "waiting"
  /\ caller' = [caller EXCEPT ![j] = "timeout"]
  /\ UNCHANGED <<outbox, shard, accepted, pushed, limiter>>

\* BLPOP of the consumer.
Take(s) ==
  /\ shard[s].pc = "idle"
  /\ outbox[s] # << >>
  /\ shard' = [shard EXCEPT ![s] = Consumer("acquire", Head(outbox[s]), 0, "none")]
  /\ outbox' = [outbox EXCEPT ![s] = Tail(@)]
  /\ UNCHANGED <<caller, accepted, pushed, limiter>>

\* AIMD_MAX caps what is written; a seed above it stays until the next write.
Clipped(b) == IF Ceiling > 0 /\ b > Ceiling THEN Ceiling ELSE b

\* grow: one increment after a second without a flood, or none.
Grown == {budget} \cup (IF cooling THEN {} ELSE {Clipped(budget + 1)} \cap 1..BudgetBound)

\* Penalize with the decay of 0.5 that config.go has.
Halved == Clipped(IF budget \div 2 < Floor THEN Floor ELSE budget \div 2)

\* reserve grants a slot.
Acquire(s) ==
  /\ shard[s].pc = "acquire"
  /\ \E b \in Grown :
       /\ slots < b
       /\ budget' = b
  /\ slots' = slots + 1
  /\ shard' = [shard EXCEPT ![s].pc = "send"]
  /\ UNCHANGED <<outbox, caller, accepted, pushed, cooling>>

\* reserve: the window is full, and its oldest send exactly a second old: prune
\* keeps it (Before is strict), the wait is zero, and Acquire takes that for a
\* grant, which no slot counts.
AcquireUncounted(s) ==
  /\ shard[s].pc = "acquire"
  /\ slots > 0
  /\ \E b \in Grown : slots >= b /\ budget' = b
  /\ shard' = [shard EXCEPT ![s].pc = "send"]
  /\ UNCHANGED <<outbox, caller, accepted, pushed, slots, cooling>>

\* reserve: the window is full and its oldest send younger; the budget may have
\* grown all the same.
AwaitSlot(s) ==
  /\ shard[s].pc = "acquire"
  /\ \E b \in Grown \ {budget} : slots >= b /\ budget' = b
  /\ UNCHANGED <<outbox, shard, caller, accepted, pushed, slots, cooling>>

Settle(s, result) == shard' = [shard EXCEPT ![s].pc = "respond", ![s].result = result]

\* The wrong loop, that tries again after a lost answer.
AcceptAndRetry(s) ==
  /\ shard[s].pc = "send"
  /\ accepted' = [accepted EXCEPT ![shard[s].job] = @ + 1]
  /\ \/ Settle(s, "ok")
     \/ /\ shard[s].tries + 1 < MaxTries
        /\ shard' = [shard EXCEPT ![s].pc = "acquire", ![s].tries = @ + 1]
  /\ UNCHANGED <<outbox, caller, pushed, limiter>>

\* callDirect: Telegram carries the call out; the answer arrives or is lost.
Accept(s) ==
  /\ shard[s].pc = "send"
  /\ accepted' = [accepted EXCEPT ![shard[s].job] = @ + 1]
  /\ \E result \in {"ok", "error"} : Settle(s, result)
  /\ UNCHANGED <<outbox, caller, pushed, limiter>>

\* The wrong loop, that takes every answer for success.
RefuseAsOk(s) ==
  /\ shard[s].pc = "send"
  /\ Settle(s, "ok")
  /\ UNCHANGED <<outbox, caller, accepted, pushed, limiter>>

\* callDirect: the call does not reach Telegram, is refused, or a flood answer
\* names no time to wait.
Refuse(s) ==
  /\ shard[s].pc = "send"
  /\ Settle(s, "error")
  /\ UNCHANGED <<outbox, caller, accepted, pushed, limiter>>

\* The wrong Penalize, without the floor.
FloodToNothing(s) ==
  /\ shard[s].pc = "send"
  /\ shard' = [shard EXCEPT ![s].pc = "pause"]
  /\ budget' = budget \div 2 /\ cooling' = TRUE
  /\ UNCHANGED <<outbox, caller, accepted, pushed, slots>>

\* 429 with retry_after: Penalize for the first one, then the pause.
Flood(s) ==
  /\ shard[s].pc = "send"
  /\ shard' = [shard EXCEPT ![s].pc = "pause"]
  /\ IF shard[s].tries = 0
     THEN budget' = Halved /\ cooling' = TRUE
     ELSE UNCHANGED <<budget, cooling>>
  /\ UNCHANGED <<outbox, caller, accepted, pushed, slots>>

\* The wrong loop, that does not count its attempts.
PauseEndsAgain(s) ==
  /\ shard[s].pc = "pause"
  /\ shard' = [shard EXCEPT ![s].pc = "acquire"]
  /\ UNCHANGED <<outbox, caller, accepted, pushed, limiter>>

\* The pause is over: another attempt, or the flood is the answer.
PauseEnds(s) ==
  /\ shard[s].pc = "pause"
  /\ IF shard[s].tries + 1 < MaxTries
     THEN shard' = [shard EXCEPT ![s].pc = "acquire", ![s].tries = @ + 1]
     ELSE Settle(s, "error")
  /\ UNCHANGED <<outbox, caller, accepted, pushed, limiter>>

\* The answer is pushed; a caller that still waits gets it, or it expires unread.
Respond(s) ==
  LET j == shard[s].job IN
  /\ shard[s].pc = "respond"
  /\ caller' = [caller EXCEPT ![j] = IF @ = "waiting" THEN shard[s].result ELSE @]
  /\ shard' = [shard EXCEPT ![s] = IdleConsumer]
  /\ UNCHANGED <<outbox, accepted, pushed, limiter>>

\* prune: the oldest send leaves the trailing second.
SlotLeaves ==
  /\ slots > 0
  /\ slots' = slots - 1
  /\ UNCHANGED <<outbox, shard, caller, accepted, pushed, budget, cooling>>

\* FLOOD_COOLDOWN has passed since the last flood.
CooldownEnds ==
  /\ cooling
  /\ cooling' = FALSE
  /\ UNCHANGED <<outbox, shard, caller, accepted, pushed, budget, slots>>

\* The process dies: its consumers lose their jobs, the callers are gone, and
\* the limiter starts afresh; the lists stay.
CrashConsumers ==
  /\ shard' = [s \in Shard |-> IdleConsumer]
  /\ caller' = [j \in Job |-> IF caller[j] = "waiting" THEN "gone" ELSE caller[j]]
  /\ budget' = Seed /\ slots' = 0 /\ cooling' = FALSE
  /\ UNCHANGED <<outbox, accepted, pushed>>

ConsumerStep(s) == \/ Take(s) \/ Acquire(s) \/ Accept(s) \/ Refuse(s) \/ Flood(s)
                   \/ PauseEnds(s) \/ Respond(s)

\* A job on a list or with a consumer.
Underway(j) == \E s \in Shard : j \in Range(outbox[s]) \/ shard[s].job = j
=============================================================================
