--------------------------- MODULE MessagesProofs ---------------------------
(***************************************************************************)
(* Proofs about Messages, for any load, any number of users, workers and   *)
(* shards.                                                                 *)
(***************************************************************************)
EXTENDS Messages, SequenceTheorems, TLAPS

InboundTypes ==
  /\ telegram \in [Update -> {"waiting", "confirmed"}]
  /\ seen \subseteq Update /\ lost \subseteq Update
  /\ inbox \in Seq(Update)
  /\ worker \in [Worker -> [pc : {"idle", "waiting"} \cup Inside, up : Update \cup {None}]]
  /\ lock \in [User -> Worker \cup {Dead, None}]
  /\ overdue \subseteq Worker
  /\ faults \in 0..MaxFaults

Budgets == {b \in Nat : b >= Clipped(Floor)}

OutboundTypes ==
  /\ outbox \in [Shard -> Seq(Job)]
  /\ shard \in [Shard -> [pc : {"idle", "acquire", "send", "pause", "respond"},
                          job : Job \cup {NoJob}, tries : 0..MaxTries - 1,
                          result : {"none", "ok", "error"}]]
  /\ caller \in [Job -> {"none", "waiting", "posted", "ok", "error", "timeout", "gone"}]
  /\ accepted \in [Job -> Nat]
  /\ pushed \in Seq(Job)
  /\ budget \in Budgets /\ slots \in Nat /\ cooling \in BOOLEAN

\* A worker that is not idle holds an update, a consumer a job.
Held ==
  /\ \A w \in Worker : worker[w].pc # "idle" => worker[w].up \in Update
  /\ \A s \in Shard : shard[s].pc # "idle" => shard[s].job \in Job

LEMMA TypesAre == TypeOK <=> load \subseteq Job /\ InboundTypes /\ OutboundTypes
  BY DEF TypeOK, InboundTypes, OutboundTypes, Budgets

\* The seed, whatever the ceiling, and all that grow and Penalize make of a budget.
LEMMA BudgetsAre ==
  /\ Seed \in Budgets
  /\ budget \in Budgets => Grown \subseteq Budgets /\ Halved \in Budgets
<1>1. Floor \in Nat /\ Ceiling \in Nat /\ Seed \in Nat /\ Floor <= Seed
  BY OutboundAssumption
<1>2. Seed \in Budgets
  BY <1>1 DEF Budgets, Clipped
<1>3. ASSUME NEW m \in Nat, m >= Floor PROVE Clipped(m) \in Budgets
  BY <1>1, <1>3 DEF Budgets, Clipped
<1>4. ASSUME budget \in Budgets PROVE Clipped(budget + 1) \in Budgets
  BY <1>1, <1>4 DEF Budgets, Clipped
<1>5. ASSUME budget \in Budgets PROVE Halved \in Budgets
  <2>1. budget \div 2 \in Nat
    BY <1>5 DEF Budgets
  <2> DEFINE m == IF budget \div 2 < Floor THEN Floor ELSE budget \div 2
  <2>2. m \in Nat /\ m >= Floor
    BY <1>1, <2>1
  <2> QED
    BY <1>3, <2>2 DEF Halved
<1> QED
  BY <1>2, <1>4, <1>5 DEF Grown

-----------------------------------------------------------------------------
(* Types.                                                                  *)

LEMMA Sequences ==
    ASSUME NEW S
    PROVE  /\ << >> \in Seq(S)
           /\ \A s \in Seq(S), e \in S : Append(s, e) \in Seq(S) /\ <<e>> \o s \in Seq(S)
           /\ \A s \in Seq(S) : s # << >> => Tail(s) \in Seq(S) /\ Head(s) \in S
<1>1. \A s \in Seq(S), e \in S : <<e>> \o s \in Seq(S)
  BY ConcatProperties
<1>2. \A s \in Seq(S), e \in S : Append(s, e) \in Seq(S)
  BY AppendProperties
<1> QED
  BY <1>1, <1>2, EmptySeq, HeadTailProperties

LEMMA TypesInit == Init => TypeOK /\ Held
<1> SUFFICES ASSUME Init PROVE TypeOK /\ Held
  OBVIOUS
<1>1. InboundTypes /\ \A w \in Worker : worker[w].pc # "idle" => worker[w].up \in Update
  BY InboundAssumption DEF Init, InboundInit, InboundTypes, IdleLoop, Loop
<1>2. OutboundTypes /\ \A s \in Shard : shard[s].pc # "idle" => shard[s].job \in Job
  <2>1. 0 \in 0..MaxTries - 1 /\ Seed \in Budgets
    BY OutboundAssumption, BudgetsAre
  <2>2. IdleConsumer \in [pc : {"idle"}, job : {NoJob}, tries : 0..MaxTries - 1, result : {"none"}]
    BY <2>1 DEF IdleConsumer, Consumer
  <2>3. << >> \in Seq(Job)
    BY Sequences
  <2> QED
    BY <2>1, <2>2, <2>3 DEF Init, OutboundInit, OutboundTypes
<1> QED
  BY <1>1, <1>2, TypesAre DEF Init, Held

LEMMA WorkerTypes ==
    ASSUME InboundTypes, \A w \in Worker : worker[w].pc # "idle" => worker[w].up \in Update,
           \/ \E u \in Update : Webhook(u)
           \/ \E w \in Worker : Pop(w) \/ AcquireLock(w) \/ GiveUp(w) \/ LockFails(w) \/ Release(w)
           \/ \E v \in User : ExpireDeadLock(v) \/ ExpireLock(v)
           \/ CrashWorkers
    PROVE  InboundTypes' /\ \A w \in Worker : worker'[w].pc # "idle" => worker'[w].up \in Update
<1> USE DEF InboundTypes, Inside
<1>1. ASSUME NEW u \in Update, Webhook(u) PROVE InboundTypes' /\ worker' = worker
  <2>1. inbox' \in Seq(Update) /\ seen' \subseteq Update
    <3>1. Append(inbox, u) \in Seq(Update)
      BY Sequences
    <3> QED
      BY <1>1, <3>1 DEF Webhook, EnqueueUnique
  <2>2. faults' \in 0..MaxFaults
    BY <1>1, InboundAssumption DEF Webhook, Fault
  <2> QED
    BY <1>1, <2>1, <2>2 DEF Webhook
<1>2. ASSUME NEW w \in Worker, Pop(w)
      PROVE  InboundTypes' /\ worker' = [worker EXCEPT ![w] = Loop("waiting", Head(inbox))] /\ Head(inbox) \in Update
  BY <1>2, HeadTailProperties DEF Pop, Loop
<1>3. ASSUME NEW w \in Worker, AcquireLock(w) PROVE InboundTypes'
  BY <1>3, InboundAssumption DEF AcquireLock
<1>4. ASSUME NEW w \in Worker, GiveUp(w) \/ LockFails(w) \/ Release(w)
      PROVE  InboundTypes' /\ worker' = [worker EXCEPT ![w] = IdleLoop]
  <2>1. IdleLoop \in [pc : {"idle", "waiting"} \cup Inside, up : Update \cup {None}]
    BY DEF IdleLoop, Loop
  <2>2. CASE GiveUp(w)
    <3>1. inbox' \in Seq(Update)
      BY <2>2, Sequences DEF GiveUp
    <3> QED
      BY <2>1, <2>2, <3>1 DEF GiveUp
  <2>3. CASE LockFails(w)
    <3>1. inbox' \in Seq(Update)
      <4>1. worker[w].up \in Update
        BY <2>3 DEF LockFails
      <4>2. Append(inbox, worker[w].up) \in Seq(Update)
        BY <4>1, Sequences
      <4> QED
        BY <2>3, <4>2 DEF LockFails
    <3>2. faults' \in 0..MaxFaults
      BY <2>3, InboundAssumption DEF LockFails, Fault
    <3> QED
      BY <2>1, <2>3, <3>1, <3>2 DEF LockFails
  <2>4. CASE Release(w)
    BY <2>1, <2>4, InboundAssumption DEF Release, DropOwnLock
  <2> QED
    BY <1>4, <2>2, <2>3, <2>4
<1>5. ASSUME NEW v \in User, ExpireDeadLock(v) \/ ExpireLock(v) PROVE InboundTypes' /\ worker' = worker
  BY <1>5, InboundAssumption DEF ExpireDeadLock, ExpireLock, Fault
<1>6. ASSUME CrashWorkers PROVE InboundTypes' /\ worker' = [w \in Worker |-> IdleLoop]
  <2>1. IdleLoop \in [pc : {"idle", "waiting"} \cup Inside, up : Update \cup {None}]
    BY DEF IdleLoop, Loop
  <2>2. faults' \in 0..MaxFaults
    BY <1>6, InboundAssumption DEF CrashWorkers, Fault
  <2>3. lost' \subseteq Update
    BY <1>6 DEF CrashWorkers
  <2>4. lock' \in [User -> Worker \cup {Dead, None}]
    BY <1>6 DEF CrashWorkers
  <2> QED
    BY <1>6, <2>1, <2>2, <2>3, <2>4 DEF CrashWorkers
<1>7. IdleLoop.pc = "idle"
  BY DEF IdleLoop, Loop
<1>8. ASSUME NEW w \in Worker, worker' = [worker EXCEPT ![w] = IdleLoop]
      PROVE  \A x \in Worker : worker'[x].pc # "idle" => worker'[x].up \in Update
  BY <1>7, <1>8
<1>9. ASSUME worker' = [w \in Worker |-> IdleLoop]
      PROVE  \A x \in Worker : worker'[x].pc # "idle" => worker'[x].up \in Update
  BY <1>7, <1>9
<1>10. ASSUME NEW w \in Worker, AcquireLock(w)
       PROVE  \A x \in Worker : worker'[x].pc # "idle" => worker'[x].up \in Update
  BY <1>10 DEF AcquireLock
<1>11. ASSUME NEW w \in Worker, Pop(w)
       PROVE  \A x \in Worker : worker'[x].pc # "idle" => worker'[x].up \in Update
  <2> DEFINE new == Loop("waiting", Head(inbox))
  <2>1. new.up \in Update
    BY <1>2, <1>11 DEF Loop
  <2>2. worker' = [worker EXCEPT ![w] = new]
    BY <1>2, <1>11
  <2>3. \A x \in Worker : worker'[x] = IF x = w THEN new ELSE worker[x]
    BY <2>2
  <2> HIDE DEF new
  <2> QED
    BY <2>1, <2>3
<1> HIDE DEF InboundTypes
<1> QED
  BY <1>1, <1>2, <1>3, <1>4, <1>5, <1>6, <1>8, <1>9, <1>10, <1>11

Jobs == Job \cup {NoJob}
Shop == [pc : {"idle", "acquire", "send", "pause", "respond"}, job : Jobs, tries : 0..MaxTries - 1,
         result : {"none", "ok", "error"}]
ShardsHeld == \A s \in Shard : shard[s].pc # "idle" => shard[s].job \in Job

LEMMA ConsumerTypes ==
    ASSUME OutboundTypes, ShardsHeld, NEW s \in Shard,
           ConsumerStep(s) \/ AcquireUncounted(s) \/ AwaitSlot(s)
    PROVE  OutboundTypes' /\ ShardsHeld'
<1> USE DEF OutboundTypes, Jobs, Shop
<1>1. shard[s] \in Shop /\ MaxTries \in Nat \ {0} /\ Floor \in Nat \ {0}
  BY OutboundAssumption
<1>2. Halved \in Budgets /\ Grown \subseteq Budgets
  BY BudgetsAre
<1>3. ASSUME Take(s) PROVE OutboundTypes' /\ ShardsHeld'
  <2>1. Head(outbox[s]) \in Job /\ Tail(outbox[s]) \in Seq(Job)
    BY <1>3, Sequences DEF Take
  <2>2. Consumer("acquire", Head(outbox[s]), 0, "none") \in Shop
    BY <1>1, <2>1 DEF Consumer
  <2>3. shard' \in [Shard -> Shop] /\ ShardsHeld'
    BY <1>3, <2>1, <2>2 DEF Take, ShardsHeld, Consumer
  <2>4. outbox' \in [Shard -> Seq(Job)]
    BY <1>3, <2>1 DEF Take
  <2> QED
    BY <1>3, <2>3, <2>4 DEF Take, limiter
<1>4. ASSUME Acquire(s) \/ AcquireUncounted(s) PROVE OutboundTypes' /\ ShardsHeld'
  <2>1. budget' \in Budgets
    BY <1>2, <1>4 DEF Acquire, AcquireUncounted
  <2>2. shard[s].pc = "acquire" /\ shard' = [shard EXCEPT ![s].pc = "send"]
    BY <1>4 DEF Acquire, AcquireUncounted
  <2>3. shard' \in [Shard -> Shop] /\ ShardsHeld'
    BY <2>2 DEF ShardsHeld
  <2>4. slots' \in Nat /\ UNCHANGED <<outbox, caller, accepted, pushed, cooling>>
    BY <1>4 DEF Acquire, AcquireUncounted
  <2> QED
    BY <2>1, <2>3, <2>4
<1>5. ASSUME AwaitSlot(s) PROVE OutboundTypes' /\ ShardsHeld'
  BY <1>2, <1>5 DEF AwaitSlot, ShardsHeld
<1>6. ASSUME NEW r \in {"ok", "error"}, shard[s].pc # "idle", Settle(s, r)
      PROVE  shard' \in [Shard -> Shop] /\ ShardsHeld'
  <2> DEFINE c == [shard[s] EXCEPT !.pc = "respond", !.result = r]
  <2>1. c \in Shop /\ c.job = shard[s].job
    BY <1>1, <1>6
  <2>2. shard[s].job \in Job
    BY <1>6 DEF ShardsHeld
  <2>3. shard' = [shard EXCEPT ![s] = c]
    BY <1>6 DEF Settle
  <2> HIDE DEF c
  <2>4. shard \in [Shard -> Shop]
    OBVIOUS
  <2> HIDE DEF OutboundTypes, Shop
  <2> QED
    BY <2>1, <2>2, <2>3, <2>4 DEF ShardsHeld
<1>7. ASSUME Accept(s) PROVE OutboundTypes' /\ ShardsHeld'
  <2>1. shard' \in [Shard -> Shop] /\ ShardsHeld'
    BY <1>6, <1>7 DEF Accept
  <2>2. accepted' \in [Job -> Nat]
    <3>1. shard[s].job \in Job
      BY <1>7 DEF Accept, ShardsHeld
    <3> QED
      BY <1>7, <3>1 DEF Accept
  <2> QED
    BY <1>7, <2>1, <2>2 DEF Accept, limiter
<1>8. ASSUME Refuse(s) PROVE OutboundTypes' /\ ShardsHeld'
  <2>1. shard' \in [Shard -> Shop] /\ ShardsHeld'
    BY <1>6, <1>8 DEF Refuse
  <2> QED
    BY <1>8, <2>1 DEF Refuse, limiter
<1>9. ASSUME Flood(s) PROVE OutboundTypes' /\ ShardsHeld'
  <2>1. shard' \in [Shard -> Shop] /\ ShardsHeld'
    BY <1>9 DEF Flood, ShardsHeld
  <2>2. budget' \in Budgets /\ cooling' \in BOOLEAN
    BY <1>2, <1>9 DEF Flood
  <2> QED
    BY <1>9, <2>1, <2>2 DEF Flood
<1>10. ASSUME PauseEnds(s) PROVE OutboundTypes' /\ ShardsHeld'
  <2>1. shard' \in [Shard -> Shop] /\ ShardsHeld'
    <3>1. CASE shard[s].tries + 1 < MaxTries
      <4>1. shard[s].tries + 1 \in 0..MaxTries - 1
        BY <1>1, <3>1
      <4>2. shard' = [shard EXCEPT ![s] = [shard[s] EXCEPT !.pc = "acquire", !.tries = shard[s].tries + 1]]
        BY <1>10, <3>1 DEF PauseEnds
      <4>3. [shard[s] EXCEPT !.pc = "acquire", !.tries = shard[s].tries + 1] \in Shop
        BY <1>1, <4>1
      <4>4. shard[s].job \in Job
        BY <1>10 DEF PauseEnds, ShardsHeld
      <4> QED
        BY <4>2, <4>3, <4>4 DEF ShardsHeld
    <3>2. CASE ~(shard[s].tries + 1 < MaxTries)
      BY <1>6, <1>10, <3>2 DEF PauseEnds
    <3> QED
      BY <3>1, <3>2
  <2> QED
    BY <1>10, <2>1 DEF PauseEnds, limiter
<1>11. ASSUME Respond(s) PROVE OutboundTypes' /\ ShardsHeld'
  <2>1. IdleConsumer \in Shop /\ IdleConsumer.pc = "idle"
    BY <1>1 DEF IdleConsumer, Consumer
  <2>2. shard' \in [Shard -> Shop] /\ ShardsHeld'
    BY <1>11, <2>1 DEF Respond, ShardsHeld
  <2>3. caller' \in [Job -> {"none", "waiting", "posted", "ok", "error", "timeout", "gone"}]
    BY <1>1, <1>11 DEF Respond
  <2> QED
    BY <1>11, <2>2, <2>3 DEF Respond, limiter
<1> HIDE DEF OutboundTypes
<1> QED
  BY <1>3, <1>4, <1>5, <1>7, <1>8, <1>9, <1>10, <1>11 DEF ConsumerStep

LEMMA OutboxTypes ==
    ASSUME OutboundTypes, ShardsHeld, NEW j \in Job,
           Call(j) \/ Post(j) \/ TimeOut(j)
    PROVE  OutboundTypes' /\ ShardsHeld'
<1> USE DEF OutboundTypes
<1>1. ASSUME NEW who \in {"waiting", "posted"}, Enqueue(j, who) PROVE OutboundTypes' /\ ShardsHeld'
  <2>1. outbox' \in [Shard -> Seq(Job)]
    <3>1. ShardOf[j] \in Shard
      BY OutboundAssumption
    <3>2. outbox[ShardOf[j]] \in Seq(Job)
      BY <3>1
    <3>3. <<j>> \o outbox[ShardOf[j]] \in Seq(Job) /\ Append(outbox[ShardOf[j]], j) \in Seq(Job)
      BY <3>2, Sequences
    <3> QED
      BY <1>1, <3>1, <3>3 DEF Enqueue, Push
  <2>2. pushed' \in Seq(Job)
    <3>1. Append(pushed, j) \in Seq(Job)
      BY Sequences
    <3> QED
      BY <1>1, <3>1 DEF Enqueue
  <2>3. caller' \in [Job -> {"none", "waiting", "posted", "ok", "error", "timeout", "gone"}]
    BY <1>1 DEF Enqueue
  <2> QED
    BY <1>1, <2>1, <2>2, <2>3 DEF Enqueue, limiter, ShardsHeld
<1>2. ASSUME TimeOut(j) PROVE OutboundTypes' /\ ShardsHeld'
  BY <1>2 DEF TimeOut, limiter, ShardsHeld
<1> HIDE DEF OutboundTypes
<1> QED
  BY <1>1, <1>2 DEF Call, Post

LEMMA TimeTypes ==
    ASSUME OutboundTypes, ShardsHeld, SlotLeaves \/ CooldownEnds \/ CrashConsumers
    PROVE  OutboundTypes' /\ ShardsHeld'
<1>1. CASE SlotLeaves
  BY <1>1 DEF SlotLeaves, OutboundTypes, ShardsHeld
<1>3. CASE CooldownEnds
  BY <1>3 DEF CooldownEnds, OutboundTypes, ShardsHeld
<1>2. CASE CrashConsumers
  <2>1. 0 \in 0..MaxTries - 1 /\ Seed \in Budgets
    BY OutboundAssumption, BudgetsAre
  <2>2. IdleConsumer.pc = "idle" /\ IdleConsumer \in Shop
    BY <2>1 DEF IdleConsumer, Consumer, Shop, Jobs
  <2>3. shard' \in [Shard -> Shop] /\ ShardsHeld'
    BY <1>2, <2>2 DEF CrashConsumers, ShardsHeld
  <2> QED
    BY <1>2, <2>1, <2>3 DEF CrashConsumers, OutboundTypes, Shop, Jobs
<1> QED
  BY <1>1, <1>2, <1>3

WorkersHeld == \A w \in Worker : worker[w].pc # "idle" => worker[w].up \in Update

LEMMA HandlerTypes ==
    ASSUME InboundTypes, WorkersHeld, NEW w \in Worker, NEW pc \in Inside,
           worker[w].pc # "idle", At(w, pc),
           UNCHANGED <<telegram, seen, inbox, lock, overdue, lost, faults>>
    PROVE  InboundTypes' /\ WorkersHeld'
BY DEF InboundTypes, WorkersHeld, At

LEMMA TypesStep ==
    ASSUME TypeOK, Held, [Next]_vars
    PROVE  TypeOK' /\ Held'
<1>1. load \subseteq Job /\ InboundTypes /\ OutboundTypes /\ WorkersHeld /\ ShardsHeld
  BY TypesAre DEF Held, WorkersHeld, ShardsHeld
<1>2. load' = load
  BY DEF Next, vars
<1>3. ASSUME UNCHANGED inboundVars PROVE InboundTypes' /\ WorkersHeld'
  BY <1>1, <1>3 DEF inboundVars, InboundTypes, WorkersHeld
<1>4. ASSUME UNCHANGED outboundVars PROVE OutboundTypes' /\ ShardsHeld'
  BY <1>1, <1>4 DEF outboundVars, OutboundTypes, ShardsHeld
<1>5. InboundTypes' /\ WorkersHeld' /\ OutboundTypes' /\ ShardsHeld'
  <2>1. CASE \E w \in Worker : WorkerStep(w)
    <3>1. PICK w \in Worker : WorkerStep(w)
      BY <2>1
    <3>2. CASE HandlerCalls(w)
      <4>1. worker[w].up \in Update /\ worker[w].up \in Job /\ worker[w].pc # "idle"
        BY <1>1, <3>2, MessagesAssumption DEF HandlerCalls, WorkersHeld
      <4>2. InboundTypes' /\ WorkersHeld'
        BY <1>1, <3>2, <4>1, HandlerTypes DEF HandlerCalls, Inside
      <4>3. OutboundTypes' /\ ShardsHeld'
        BY <1>1, <3>2, <4>1, OutboxTypes DEF HandlerCalls
      <4> QED
        BY <4>2, <4>3
    <3>3. CASE HandlerReturns(w)
      <4>1. InboundTypes' /\ WorkersHeld'
        BY <1>1, <3>3, HandlerTypes DEF HandlerReturns, Inside
      <4> QED
        BY <1>4, <3>3, <4>1 DEF HandlerReturns
    <3>4. CASE /\ Pop(w) \/ AcquireLock(w) \/ GiveUp(w) \/ LockFails(w) \/ Release(w)
               /\ UNCHANGED outboundVars
      BY <1>1, <1>4, <3>4, WorkerTypes DEF WorkersHeld
    <3> QED
      BY <3>1, <3>2, <3>3, <3>4 DEF WorkerStep
  <2>2. CASE \E s \in Shard : ConsumerStep(s) /\ UNCHANGED inboundVars
    BY <1>1, <1>3, <2>2, ConsumerTypes
  <2>3. CASE Environment
    <3>1. CASE \E u \in load \cap Update : Webhook(u) /\ UNCHANGED outboundVars
      BY <1>1, <1>4, <3>1, WorkerTypes DEF WorkersHeld
    <3>2. CASE \E v \in User : (ExpireDeadLock(v) \/ ExpireLock(v)) /\ UNCHANGED outboundVars
      BY <1>1, <1>4, <3>2, WorkerTypes DEF WorkersHeld
    <3>3. CASE \E j \in load \cap Notice : PostNotice(j)
      BY <1>1, <1>3, <3>3, OutboxTypes, MessagesAssumption DEF PostNotice
    <3>4. CASE Crash
      BY <1>1, <3>4, WorkerTypes, TimeTypes DEF Crash, WorkersHeld
    <3>5. CASE CallerGivesUp
      <4>1. OutboundTypes' /\ ShardsHeld'
        BY <1>1, <3>5, OutboxTypes DEF CallerGivesUp
      <4>2. InboundTypes' /\ WorkersHeld'
        BY <1>1, <3>5, InboundAssumption DEF CallerGivesUp, Fault, InboundTypes, WorkersHeld
      <4> QED
        BY <4>1, <4>2
    <3>6. CASE /\ (\E s \in Shard : AcquireUncounted(s) \/ AwaitSlot(s)) \/ SlotLeaves \/ CooldownEnds
               /\ UNCHANGED inboundVars
      BY <1>1, <1>3, <3>6, ConsumerTypes, TimeTypes
    <3> QED
      BY <2>3, <3>1, <3>2, <3>3, <3>4, <3>5, <3>6 DEF Environment
  <2>4. CASE UNCHANGED vars
    <3>1. UNCHANGED inboundVars /\ UNCHANGED outboundVars
      BY <2>4 DEF vars, inboundVars, outboundVars
    <3> QED
      BY <1>3, <1>4, <3>1
  <2> QED
    BY <2>1, <2>2, <2>3, <2>4 DEF Next
<1>6. TypeOK'
  <2>1. load' \subseteq Job
    BY <1>1, <1>2
  <2> QED
    BY <1>5, <2>1 DEF TypeOK, InboundTypes, OutboundTypes, Budgets
<1> QED
  BY <1>5, <1>6 DEF Held, WorkersHeld, ShardsHeld

\* In every behaviour the state has its types, and neither a busy worker nor a
\* busy consumer is without its update or job.
THEOREM TypeCorrect == Spec => [](TypeOK /\ Held)
<1>1. Init => TypeOK /\ Held
  BY TypesInit
<1>2. TypeOK /\ Held /\ [Next]_vars => (TypeOK /\ Held)'
  BY TypesStep
<1> QED
  BY <1>1, <1>2, PTL DEF Spec

-----------------------------------------------------------------------------
(* The lock of a user.                                                     *)

\* A handler whose lock has not run out holds the lock of its user.
Guarded == \A w \in Worker : worker[w].pc \in Inside /\ w \notin overdue => lock[From[worker[w].up]] = w

LEMMA GuardedIsProtected == TypeOK /\ Guarded => LockProtects
BY DEF Guarded, LockProtects, Handlers

LEMMA GuardedStep ==
    ASSUME TypeOK, Held, Guarded, [Next]_vars
    PROVE  Guarded'
<1>1. InboundTypes /\ WorkersHeld
  BY TypesAre DEF Held, WorkersHeld
<1> DEFINE Who(w) == From[worker[w].up]
<1>2. \A w \in Worker : worker[w].pc # "idle" => Who(w) \in User
  BY <1>1, InboundAssumption DEF WorkersHeld
<1>3. None \notin Worker /\ Dead \notin Worker
  BY InboundAssumption
<1>4. IdleLoop.pc \notin Inside
  BY DEF IdleLoop, Loop, Inside
<1> USE DEF InboundTypes
<1>5. ASSUME UNCHANGED <<worker, lock, overdue>> PROVE Guarded'
  BY <1>5 DEF Guarded
<1>6. ASSUME NEW w \in Worker, Pop(w) PROVE Guarded'
  BY <1>1, <1>6 DEF Pop, Loop, Inside, Guarded
<1>7. ASSUME NEW w \in Worker, AcquireLock(w) PROVE Guarded'
  <2>1. Who(w) \in User /\ lock[Who(w)] = None
    BY <1>2, <1>7 DEF AcquireLock
  <2>2. lock'[Who(w)] = w /\ \A v \in User \ {Who(w)} : lock'[v] = lock[v]
    BY <1>1, <1>7, <2>1 DEF AcquireLock
  <2>3. Who(w)' = Who(w) /\ \A x \in Worker \ {w} : worker'[x] = worker[x]
    BY <1>1, <1>7 DEF AcquireLock
  <2>4. ASSUME NEW x \in Worker, x # w, worker'[x].pc \in Inside, x \notin overdue'
        PROVE  lock'[Who(x)'] = x
    <3>1. lock[Who(x)] = x
      BY <1>7, <2>3, <2>4 DEF AcquireLock, Guarded
    <3>2. Who(x) \in User
      BY <1>2, <2>3, <2>4 DEF Inside
    <3> QED
      BY <1>3, <2>1, <2>2, <2>3, <2>4, <3>1, <3>2
  <2> QED
    BY <2>2, <2>3, <2>4 DEF Guarded
<1>8. ASSUME NEW w \in Worker, GiveUp(w) \/ LockFails(w) PROVE Guarded'
  <2>1. worker' = [worker EXCEPT ![w] = IdleLoop] /\ UNCHANGED <<lock, overdue>>
    BY <1>8 DEF GiveUp, LockFails
  <2> QED
    BY <1>1, <1>4, <2>1 DEF Guarded
<1>9. ASSUME NEW w \in Worker, Release(w) PROVE Guarded'
  <2>1. worker' = [worker EXCEPT ![w] = IdleLoop] /\ overdue' = overdue \ {w}
    BY <1>9 DEF Release
  <2>2. \A v \in User : lock[v] # w => lock'[v] = lock[v]
    BY <1>1, <1>9 DEF Release, DropOwnLock
  <2>3. ASSUME NEW x \in Worker, worker'[x].pc \in Inside, x \notin overdue'
        PROVE  lock'[Who(x)'] = x
    <3>1. x # w /\ worker'[x] = worker[x] /\ x \notin overdue
      BY <1>1, <1>4, <2>1, <2>3
    <3>2. lock[Who(x)] = x /\ Who(x) \in User
      BY <1>2, <2>3, <3>1 DEF Guarded, Inside
    <3> QED
      BY <2>2, <3>1, <3>2
  <2> QED
    BY <2>3 DEF Guarded
<1>10. ASSUME NEW v \in User, ExpireDeadLock(v) PROVE Guarded'
  <2>1. lock[v] = Dead /\ lock' = [lock EXCEPT ![v] = None] /\ UNCHANGED <<worker, overdue>>
    BY <1>10 DEF ExpireDeadLock
  <2> QED
    BY <1>1, <1>2, <1>3, <2>1 DEF Guarded, Inside
<1>11. ASSUME NEW v \in User, ExpireLock(v) PROVE Guarded'
  <2>1. lock' = [lock EXCEPT ![v] = None] /\ overdue' = overdue \cup {lock[v]} /\ worker' = worker
    BY <1>11 DEF ExpireLock
  <2>2. ASSUME NEW x \in Worker, worker'[x].pc \in Inside, x \notin overdue'
        PROVE  lock'[Who(x)'] = x
    <3>1. lock[Who(x)] = x /\ Who(x) \in User /\ x # lock[v]
      BY <1>2, <2>1, <2>2 DEF Guarded, Inside
    <3>2. Who(x) # v
      BY <3>1
    <3> QED
      BY <1>1, <2>1, <3>1, <3>2
  <2> QED
    BY <2>2 DEF Guarded
<1>12. ASSUME CrashWorkers PROVE Guarded'
  BY <1>4, <1>12 DEF CrashWorkers, Guarded
<1>13. ASSUME NEW w \in Worker, HandlerCalls(w) \/ HandlerReturns(w) PROVE Guarded'
  <2>1. worker[w].pc \in Inside /\ UNCHANGED <<lock, overdue>>
    BY <1>13 DEF HandlerCalls, HandlerReturns, Inside
  <2>2. \A x \in Worker : worker'[x].up = worker[x].up /\ (worker'[x].pc \in Inside => worker[x].pc \in Inside)
    BY SMTT(20), <1>1, <1>13, <2>1 DEF HandlerCalls, HandlerReturns, At
  <2> QED
    BY <2>1, <2>2 DEF Guarded
<1>14. CASE \E w \in Worker : WorkerStep(w)
  BY <1>6, <1>7, <1>8, <1>9, <1>13, <1>14 DEF WorkerStep
<1>15. CASE \E s \in Shard : ConsumerStep(s) /\ UNCHANGED inboundVars
  BY <1>5, <1>15 DEF inboundVars
<1>16. CASE Environment
  <2>1. ASSUME NEW u \in Update, Webhook(u) PROVE Guarded'
    BY <1>5, <2>1 DEF Webhook
  <2> QED
    BY <1>5, <1>10, <1>11, <1>12, <1>16, <2>1
       DEF Environment, PostNotice, Crash, CallerGivesUp, inboundVars
<1>17. CASE UNCHANGED vars
  BY <1>5, <1>17 DEF vars
<1> QED
  BY <1>14, <1>15, <1>16, <1>17 DEF Next

\* A handler keeps the lock of its user until it runs out: no worker that gave
\* up, outlived its own lock or came with another process takes or deletes it.
THEOREM LocksProtect == Spec => []LockProtects
<1>1. Init => Guarded
  BY DEF Init, InboundInit, Guarded, IdleLoop, Loop, Inside
<1>2. TypeOK /\ Held /\ Guarded /\ [Next]_vars => Guarded'
  BY GuardedStep
<1> QED
  BY <1>1, <1>2, TypeCorrect, GuardedIsProtected, PTL DEF Spec

-----------------------------------------------------------------------------
(* Answers.                                                                *)

\* Every job is in one place, the lists hold what has not been carried out, and
\* what a consumer is about to report is what happened.
OnePlace ==
  /\ \A s \in Shard : IsInjective(outbox[s])
  /\ \A s \in Shard : \A j \in Range(outbox[s]) : ShardOf[j] = s /\ caller[j] # "none" /\ accepted[j] = 0
  /\ \A s \in Shard : shard[s].pc # "idle" =>
       LET j == shard[s].job
       IN  /\ ShardOf[j] = s /\ j \notin Range(outbox[s])
           /\ caller[j] # "none"
           /\ shard[s].pc # "respond" => accepted[j] = 0
           /\ shard[s].pc = "respond" => shard[s].result # "none"
           /\ shard[s].pc = "respond" /\ shard[s].result = "ok" => accepted[j] = 1

Answers ==
  \A j \in Job : /\ caller[j] = "none" => accepted[j] = 0
                 /\ caller[j] = "ok" => accepted[j] = 1

LEMMA Queues ==
    ASSUME NEW q \in Seq(Job), IsInjective(q)
    PROVE  /\ \A j \in Job : j \notin Range(q) =>
                /\ IsInjective(Append(q, j)) /\ Range(Append(q, j)) = Range(q) \cup {j}
                /\ IsInjective(<<j>> \o q) /\ Range(<<j>> \o q) = Range(q) \cup {j}
           /\ q # << >> =>
                /\ Head(q) \in Range(q)
                /\ IsInjective(Tail(q)) /\ Range(Tail(q)) \subseteq Range(q) \ {Head(q)}
<1>1. DOMAIN q = 1..Len(q) /\ Len(q) \in Nat
  OBVIOUS
<1>2. ASSUME NEW j \in Job, j \notin Range(q)
      PROVE  IsInjective(Append(q, j)) /\ Range(Append(q, j)) = Range(q) \cup {j}
  <2>1. /\ DOMAIN Append(q, j) = 1..Len(q) + 1
        /\ \A i \in 1..Len(q) : Append(q, j)[i] = q[i]
        /\ Append(q, j)[Len(q) + 1] = j
    BY AppendProperties
  <2>2. 1..Len(q) + 1 = 1..Len(q) \cup {Len(q) + 1}
    BY <1>1
  <2> QED
    BY <1>1, <1>2, <2>1, <2>2 DEF IsInjective, Range
<1>3. ASSUME NEW j \in Job, j \notin Range(q)
      PROVE  IsInjective(<<j>> \o q) /\ Range(<<j>> \o q) = Range(q) \cup {j}
  <2> DEFINE r == <<j>> \o q
  <2>1. /\ DOMAIN r = 1..Len(q) + 1
        /\ \A i \in 2..Len(q) + 1 : r[i] = q[i - 1]
        /\ r[1] = j
    BY ConcatProperties
  <2>2. 1..Len(q) + 1 = {1} \cup 2..Len(q) + 1
    BY <1>1
  <2>3. \A i \in 2..Len(q) + 1 : i - 1 \in 1..Len(q)
    BY <1>1
  <2>4. \A i \in 1..Len(q) : i + 1 \in 2..Len(q) + 1 /\ (i + 1) - 1 = i
    BY <1>1
  <2>5. \A i \in 2..Len(q) + 1 : r[i] \in Range(q)
    BY <1>1, <2>1, <2>3 DEF Range
  <2>6. IsInjective(r)
    <3>1. ASSUME NEW a \in 2..Len(q) + 1, NEW b \in 2..Len(q) + 1, r[a] = r[b] PROVE a = b
      <4>1. a - 1 = b - 1
        <5>1. q[a - 1] = q[b - 1]
          BY <2>1, <3>1
        <5> QED
          BY <1>1, <2>3, <5>1 DEF IsInjective
      <4> QED
        BY <1>1, <4>1
    <3> QED
      BY <1>3, <2>1, <2>2, <2>5, <3>1 DEF IsInjective
  <2>7. \A e \in Range(q) : e \in Range(r)
    <3>1. ASSUME NEW i \in 1..Len(q) PROVE q[i] \in Range(r)
      BY <2>1, <2>2, <2>4 DEF Range
    <3> QED
      BY <1>1, <3>1 DEF Range
  <2>8. Range(r) \subseteq Range(q) \cup {j} /\ j \in Range(r)
    BY <1>1, <2>1, <2>2, <2>5 DEF Range
  <2> QED
    BY <2>6, <2>7, <2>8
<1>4. ASSUME q # << >>
      PROVE  Head(q) \in Range(q) /\ IsInjective(Tail(q)) /\ Range(Tail(q)) \subseteq Range(q) \ {Head(q)}
  <2>1. /\ Len(q) >= 1 /\ Head(q) = q[1]
        /\ DOMAIN Tail(q) = 1..Len(q) - 1
        /\ \A i \in 1..Len(q) - 1 : Tail(q)[i] = q[i + 1]
    BY <1>1, <1>4, HeadTailProperties
  <2>2. \A i \in 1..Len(q) - 1 : i + 1 \in 1..Len(q) /\ i + 1 # 1
    BY <1>1
  <2>3. 1 \in 1..Len(q)
    BY <1>1, <2>1
  <2>4. Head(q) \in Range(q)
    BY <1>1, <2>1, <2>3 DEF Range
  <2>5. \A i \in 1..Len(q) - 1 : Tail(q)[i] \in Range(q) /\ Tail(q)[i] # Head(q)
    BY <1>1, <2>1, <2>2, <2>3 DEF IsInjective, Range
  <2>6. IsInjective(Tail(q))
    <3>1. ASSUME NEW a \in 1..Len(q) - 1, NEW b \in 1..Len(q) - 1, Tail(q)[a] = Tail(q)[b] PROVE a = b
      <4>1. q[a + 1] = q[b + 1]
        BY <2>1, <3>1
      <4>2. a + 1 = b + 1
        BY <1>1, <2>2, <4>1 DEF IsInjective
      <4> QED
        BY <1>1, <4>2
    <3> QED
      BY <2>1, <3>1 DEF IsInjective
  <2> QED
    BY <2>1, <2>4, <2>5, <2>6 DEF Range
<1> QED
  BY <1>2, <1>3, <1>4

LEMMA AnswersEnqueue ==
    ASSUME OutboundTypes, ShardsHeld, OnePlace, Answers,
           NEW j \in Job, Call(j) \/ Post(j)
    PROVE  OnePlace' /\ Answers'
<1> USE DEF OutboundTypes
<1>1. PICK who \in {"waiting", "posted"} : Enqueue(j, who)
  BY DEF Call, Post
<1>2. caller[j] = "none" /\ accepted[j] = 0 /\ shard' = shard /\ accepted' = accepted
  BY <1>1 DEF Enqueue, Answers
<1>3. caller'[j] = who /\ \A i \in Job \ {j} : caller'[i] = caller[i]
  BY <1>1 DEF Enqueue
<1>4. \A s \in Shard : j \notin Range(outbox[s]) /\ (shard[s].pc # "idle" => shard[s].job # j)
  BY <1>2 DEF OnePlace
<1> DEFINE d == ShardOf[j]
<1>5. d \in Shard /\ outbox[d] \in Seq(Job) /\ IsInjective(outbox[d])
  BY OutboundAssumption DEF OnePlace
<1>6. IsInjective(outbox'[d]) /\ Range(outbox'[d]) = Range(outbox[d]) \cup {j}
  <2>1. outbox'[d] = Append(outbox[d], j) \/ outbox'[d] = <<j>> \o outbox[d]
    BY <1>1, <1>5 DEF Enqueue, Push
  <2>2. j \notin Range(outbox[d])
    BY <1>4, <1>5
  <2> HIDE DEF OutboundTypes, d
  <2>3. /\ IsInjective(Append(outbox[d], j)) /\ Range(Append(outbox[d], j)) = Range(outbox[d]) \cup {j}
        /\ IsInjective(<<j>> \o outbox[d]) /\ Range(<<j>> \o outbox[d]) = Range(outbox[d]) \cup {j}
    BY <1>5, <2>2, Queues
  <2> QED
    BY <2>1, <2>3
<1>7. \A s \in Shard \ {d} : outbox'[s] = outbox[s]
  BY <1>1, <1>5 DEF Enqueue, Push
<1>8. \A s \in Shard : \A i \in Range(outbox[s]) : i \in Job
  BY DEF Range
<1>9. \A s \in Shard : IsInjective(outbox'[s])
  BY <1>6, <1>7 DEF OnePlace
<1>10. ASSUME NEW s \in Shard, NEW i \in Range(outbox'[s])
       PROVE  ShardOf[i] = s /\ caller'[i] # "none" /\ accepted'[i] = 0
  <2>1. CASE i = j
    BY <1>2, <1>3, <1>4, <1>7, <1>10, <2>1
  <2>2. CASE i # j
    <3>1. i \in Range(outbox[s])
      <4>1. CASE s = d
        BY <1>6, <1>10, <2>2, <4>1
      <4>2. CASE s # d
        BY <1>7, <1>10, <4>2
      <4> QED
        BY <4>1, <4>2
    <3>2. ShardOf[i] = s /\ caller[i] # "none" /\ accepted[i] = 0 /\ i \in Job
      BY <1>8, <3>1 DEF OnePlace
    <3> QED
      BY <1>2, <1>3, <2>2, <3>2
  <2> QED
    BY <2>1, <2>2
<1>11. ASSUME NEW s \in Shard, shard'[s].pc # "idle"
       PROVE  LET i == shard'[s].job
              IN  /\ ShardOf[i] = s /\ i \notin Range(outbox'[s])
                  /\ caller'[i] # "none"
                  /\ shard'[s].pc # "respond" => accepted'[i] = 0
                  /\ shard'[s].pc = "respond" => shard'[s].result # "none"
                  /\ shard'[s].pc = "respond" /\ shard'[s].result = "ok" => accepted'[i] = 1
  <2>1. shard[s].job \in Job \ {j}
    BY <1>2, <1>4, <1>11 DEF ShardsHeld
  <2>2. shard[s].job \notin Range(outbox'[s])
    BY <1>2, <1>6, <1>7, <1>11, <2>1 DEF OnePlace
  <2> QED
    BY <1>2, <1>3, <1>11, <2>1, <2>2 DEF OnePlace
<1>12. Answers'
  BY <1>2, <1>3 DEF Answers
<1> HIDE DEF OutboundTypes
<1> QED
  BY <1>9, <1>10, <1>11, <1>12 DEF OnePlace

LEMMA AnswersStay ==
    ASSUME OnePlace, Answers, UNCHANGED <<outbox, shard, caller, accepted>>
    PROVE  OnePlace' /\ Answers'
BY DEF OnePlace, Answers

\* What consumers do with the job they hold.
LEMMA AnswersConsume ==
    ASSUME OutboundTypes, ShardsHeld, OnePlace, Answers,
           NEW s \in Shard, ConsumerStep(s) \/ AcquireUncounted(s)
    PROVE  OnePlace' /\ Answers'
<1> USE DEF OutboundTypes
<1> DEFINE j == shard[s].job
           Good(r) == shard'[r].pc # "idle" =>
                        LET i == shard'[r].job
                        IN  /\ ShardOf[i] = r /\ i \notin Range(outbox'[r])
                            /\ caller'[i] # "none"
                            /\ shard'[r].pc # "respond" => accepted'[i] = 0
                            /\ shard'[r].pc = "respond" => shard'[r].result # "none"
                            /\ shard'[r].pc = "respond" /\ shard'[r].result = "ok" => accepted'[i] = 1
<1>1. \A r \in Shard : \A i \in Range(outbox[r]) : i \in Job
  BY DEF Range
\* A step that moves the consumer s and touches neither lists nor jobs.
<1>2. ASSUME UNCHANGED <<outbox, caller, accepted>>, \A r \in Shard \ {s} : shard'[r] = shard[r], Good(s)
      PROVE  OnePlace' /\ Answers'
  <2>1. ASSUME NEW r \in Shard PROVE Good(r)
    <3>1. CASE r # s
      BY <1>2, <3>1 DEF OnePlace
    <3> QED
      BY <1>2, <3>1
  <2>2. Answers'
    BY <1>2 DEF Answers
  <2>3. \A r \in Shard : IsInjective(outbox'[r])
    BY <1>2 DEF OnePlace
  <2>4. \A r \in Shard : \A i \in Range(outbox'[r]) : ShardOf[i] = r /\ caller'[i] # "none" /\ accepted'[i] = 0
    BY <1>2 DEF OnePlace
  <2> QED
    BY <2>1, <2>2, <2>3, <2>4 DEF OnePlace
<1>3. CASE Take(s)
  <2>1. outbox[s] # << >> /\ outbox[s] \in Seq(Job) /\ IsInjective(outbox[s])
    BY <1>3 DEF Take, OnePlace
  <2> DEFINE h == Head(outbox[s])
  <2>2. h \in Range(outbox[s]) /\ IsInjective(Tail(outbox[s])) /\ Range(Tail(outbox[s])) \subseteq Range(outbox[s]) \ {h}
    BY <2>1, Queues
  <2>3. /\ outbox'[s] = Tail(outbox[s]) /\ \A r \in Shard \ {s} : outbox'[r] = outbox[r]
        /\ shard'[s] = Consumer("acquire", h, 0, "none") /\ \A r \in Shard \ {s} : shard'[r] = shard[r]
        /\ UNCHANGED <<caller, accepted>>
    BY <1>3 DEF Take
  <2>4. shard'[s].pc = "acquire" /\ shard'[s].job = h
    BY <2>3 DEF Consumer
  <2>5. ShardOf[h] = s /\ caller[h] # "none" /\ accepted[h] = 0
    BY <2>2 DEF OnePlace
  <2>6. ASSUME NEW r \in Shard PROVE Good(r)
    <3>1. CASE r = s
      BY <2>2, <2>3, <2>4, <2>5, <3>1
    <3>2. CASE r # s
      BY <2>3, <3>2 DEF OnePlace
    <3> QED
      BY <3>1, <3>2
  <2>7. Answers'
    BY <2>3 DEF Answers
  <2>8. ASSUME NEW r \in Shard PROVE IsInjective(outbox'[r]) /\ Range(outbox'[r]) \subseteq Range(outbox[r])
    <3>1. CASE r = s
      BY <2>2, <2>3, <3>1
    <3>2. CASE r # s
      BY <2>3, <3>2 DEF OnePlace
    <3> QED
      BY <3>1, <3>2
  <2>9. \A r \in Shard : \A i \in Range(outbox'[r]) : ShardOf[i] = r /\ caller'[i] # "none" /\ accepted'[i] = 0
    BY <2>3, <2>8 DEF OnePlace
  <2> QED
    BY <2>6, <2>7, <2>8, <2>9 DEF OnePlace
<1>4. CASE Acquire(s) \/ AcquireUncounted(s) \/ Flood(s)
  <2>1. /\ shard[s].pc \in {"acquire", "send"}
        /\ UNCHANGED <<outbox, caller, accepted>>
        /\ \E pc \in {"send", "pause"} : shard' = [shard EXCEPT ![s].pc = pc]
    BY <1>4 DEF Acquire, AcquireUncounted, Flood
  <2>2. shard'[s].job = j /\ shard'[s].pc # "respond"
    BY <2>1
  <2>3. Good(s)
    BY <2>1, <2>2 DEF OnePlace
  <2> QED
    BY <1>2, <2>1, <2>3
<1>5. CASE Refuse(s) \/ PauseEnds(s)
  <2>1. shard[s].pc \in {"send", "pause"} /\ UNCHANGED <<outbox, caller, accepted>>
    BY <1>5 DEF Refuse, PauseEnds
  <2>2. \A r \in Shard \ {s} : shard'[r] = shard[r]
    BY <1>5 DEF Refuse, PauseEnds, Settle
  <2>3. shard'[s].job = j /\ (shard'[s].pc = "acquire" \/ shard'[s].result = "error")
    BY <1>5 DEF Refuse, PauseEnds, Settle
  <2>4. Good(s)
    BY <2>1, <2>3 DEF OnePlace
  <2> QED
    BY <1>2, <2>1, <2>2, <2>4
<1>6. CASE Accept(s)
  <2>1. shard[s].pc = "send" /\ j \in Job /\ ShardOf[j] = s /\ accepted[j] = 0
    BY <1>6 DEF Accept, ShardsHeld, OnePlace
  <2>2. caller[j] # "none" /\ j \notin Range(outbox[s])
    BY <2>1 DEF OnePlace
  <2>3. accepted'[j] = 1 /\ (\A i \in Job \ {j} : accepted'[i] = accepted[i]) /\ UNCHANGED <<outbox, caller>>
    BY <1>6, <2>1 DEF Accept
  <2>4. shard'[s].pc = "respond" /\ shard'[s].job = j /\ shard'[s].result # "none" /\ \A r \in Shard \ {s} : shard'[r] = shard[r]
    BY <1>6 DEF Accept, Settle
  <2>5. \A r \in Shard : j \notin Range(outbox[r])
    BY <2>1, <2>2 DEF OnePlace
  <2>6. ASSUME NEW r \in Shard, r # s, shard[r].pc # "idle" PROVE shard[r].job \in Job \ {j}
    BY <2>1, <2>6 DEF OnePlace, ShardsHeld
  <2>7. \A r \in Shard : \A i \in Range(outbox'[r]) : ShardOf[i] = r /\ caller'[i] # "none" /\ accepted'[i] = 0
    BY <1>1, <2>3, <2>5 DEF OnePlace
  <2>8. \A r \in Shard : Good(r)
    <3>1. Good(s)
      BY <2>1, <2>2, <2>3, <2>4
    <3>2. ASSUME NEW r \in Shard, r # s PROVE Good(r)
      BY <2>3, <2>4, <2>6, <3>2 DEF OnePlace
    <3> QED
      BY <3>1, <3>2
  <2>9. Answers'
    BY <2>1, <2>2, <2>3 DEF Answers
  <2> QED
    BY <2>3, <2>7, <2>8, <2>9 DEF OnePlace
<1>7. CASE Respond(s)
  <2>1. shard[s].pc = "respond" /\ j \in Job /\ caller[j] # "none"
    BY <1>7 DEF Respond, ShardsHeld, OnePlace
  <2>2. UNCHANGED <<outbox, accepted>> /\ \A i \in Job \ {j} : caller'[i] = caller[i]
    BY <1>7, <2>1 DEF Respond
  <2>3. caller'[j] = IF caller[j] = "waiting" THEN shard[s].result ELSE caller[j]
    BY <1>7, <2>1 DEF Respond
  <2>4. caller'[j] # "none"
    <3>1. shard[s].result # "none"
      BY <2>1 DEF OnePlace
    <3> QED
      BY <2>1, <2>3, <3>1
  <2>5. shard'[s].pc = "idle" /\ \A r \in Shard \ {s} : shard'[r] = shard[r]
    BY <1>7 DEF Respond, IdleConsumer, Consumer
  <2>6. Answers'
    BY <2>1, <2>2, <2>3, <2>4 DEF Answers, OnePlace
  <2>7. \A i \in Job : caller[i] # "none" => caller'[i] # "none"
    BY <2>2, <2>4
  <2>8. ASSUME NEW r \in Shard PROVE Good(r)
    <3>1. CASE r = s
      BY <2>5, <3>1
    <3>2. CASE r # s
      BY <2>2, <2>5, <2>7, <3>2 DEF OnePlace, ShardsHeld
    <3> QED
      BY <3>1, <3>2
  <2>9. \A r \in Shard : IsInjective(outbox'[r])
    BY <2>2 DEF OnePlace
  <2>10. \A r \in Shard : \A i \in Range(outbox'[r]) : ShardOf[i] = r /\ caller'[i] # "none" /\ accepted'[i] = 0
    BY <1>1, <2>2, <2>7 DEF OnePlace
  <2> QED
    BY <2>6, <2>8, <2>9, <2>10 DEF OnePlace
<1> HIDE DEF OutboundTypes
<1> QED
  BY <1>3, <1>4, <1>5, <1>6, <1>7 DEF ConsumerStep

LEMMA AnswersGone ==
    ASSUME OutboundTypes, ShardsHeld, OnePlace, Answers,
           (\E j \in Job : TimeOut(j)) \/ CrashConsumers
    PROVE  OnePlace' /\ Answers'
<1> USE DEF OutboundTypes
<1>1. outbox' = outbox /\ accepted' = accepted /\ \A s \in Shard : shard'[s] = shard[s] \/ shard'[s].pc = "idle"
  BY DEF TimeOut, CrashConsumers, limiter, IdleConsumer, Consumer
<1>2. \A i \in Job : (caller'[i] = caller[i] \/ caller'[i] \in {"timeout", "gone"}) /\ (caller'[i] = "none" => caller[i] = "none")
  BY DEF TimeOut, CrashConsumers
<1>3. \A s \in Shard : \A i \in Range(outbox[s]) : i \in Job
  BY DEF Range
<1>4. Answers'
  BY <1>1, <1>2 DEF Answers
<1>5. \A s \in Shard : IsInjective(outbox'[s])
  BY <1>1 DEF OnePlace
<1>6. \A s \in Shard : \A i \in Range(outbox'[s]) : ShardOf[i] = s /\ caller'[i] # "none" /\ accepted'[i] = 0
  BY <1>1, <1>2, <1>3 DEF OnePlace
<1>7. ASSUME NEW s \in Shard, shard'[s].pc # "idle"
      PROVE  LET i == shard'[s].job
             IN  /\ ShardOf[i] = s /\ i \notin Range(outbox'[s])
                 /\ caller'[i] # "none"
                 /\ shard'[s].pc # "respond" => accepted'[i] = 0
                 /\ shard'[s].pc = "respond" => shard'[s].result # "none"
                 /\ shard'[s].pc = "respond" /\ shard'[s].result = "ok" => accepted'[i] = 1
  <2>1. shard'[s] = shard[s] /\ shard[s].job \in Job
    BY <1>1, <1>7 DEF ShardsHeld
  <2> QED
    BY <1>1, <1>2, <1>7, <2>1 DEF OnePlace
<1> QED
  BY <1>4, <1>5, <1>6, <1>7 DEF OnePlace

LEMMA AnswersStep ==
    ASSUME TypeOK, Held, OnePlace, Answers, [Next]_vars
    PROVE  OnePlace' /\ Answers'
<1>1. OutboundTypes /\ ShardsHeld
  BY TypesAre DEF Held, ShardsHeld
<1>2. CASE \E w \in Worker : WorkerStep(w)
  <2>1. PICK w \in Worker : WorkerStep(w)
    BY <1>2
  <2>2. CASE HandlerCalls(w)
    <3>1. worker[w].up \in Job
      BY <2>2, MessagesAssumption DEF HandlerCalls, Held
    <3> QED
      BY <1>1, <2>2, <3>1, AnswersEnqueue DEF HandlerCalls
  <2> QED
    BY <2>1, <2>2, AnswersStay DEF WorkerStep, HandlerReturns, outboundVars
<1>3. CASE \E s \in Shard : ConsumerStep(s) /\ UNCHANGED inboundVars
  BY <1>1, <1>3, AnswersConsume
<1>4. CASE Environment
  <2>1. CASE \E j \in load \cap Notice : PostNotice(j)
    BY <1>1, <2>1, AnswersEnqueue, MessagesAssumption DEF PostNotice
  <2>2. CASE Crash \/ CallerGivesUp
    BY <1>1, <2>2, AnswersGone DEF Crash, CallerGivesUp
  <2>3. CASE UNCHANGED outboundVars
    BY <2>3, AnswersStay DEF outboundVars
  <2>4. CASE (\E s \in Shard : AwaitSlot(s)) \/ SlotLeaves \/ CooldownEnds
    BY <2>4, AnswersStay DEF AwaitSlot, SlotLeaves, CooldownEnds
  <2>5. CASE \E s \in Shard : AcquireUncounted(s)
    BY <1>1, <2>5, AnswersConsume
  <2> QED
    BY <1>4, <2>1, <2>2, <2>3, <2>4, <2>5 DEF Environment
<1>5. CASE UNCHANGED vars
  BY <1>5, AnswersStay DEF vars
<1> QED
  BY <1>2, <1>3, <1>4, <1>5 DEF Next

LEMMA AnswersAlways == Spec => [](OnePlace /\ Answers)
<1>1. Init => OnePlace /\ Answers
  <2> SUFFICES ASSUME Init PROVE OnePlace /\ Answers
    OBVIOUS
  <2>1. \A s \in Shard : outbox[s] = << >> /\ shard[s].pc = "idle"
    BY DEF Init, OutboundInit, IdleConsumer, Consumer
  <2>2. Range(<< >>) = {} /\ IsInjective(<< >>)
    BY DEF Range, IsInjective
  <2> QED
    BY <2>1, <2>2 DEF Init, OutboundInit, OnePlace, Answers
<1>2. TypeOK /\ Held /\ OnePlace /\ Answers /\ [Next]_vars => (OnePlace /\ Answers)'
  BY AnswersStep
<1> QED
  BY <1>1, <1>2, TypeCorrect, PTL DEF Spec

\* A caller that reads Ok had its message carried out exactly once, although
\* consumers try again after floods, answers are lost and callers give up.
THEOREM OkIsDelivered == Spec => []OkMeansDelivered
<1>1. Answers => OkMeansDelivered
  BY DEF Answers, OkMeansDelivered
<1> QED
  BY <1>1, AnswersAlways, PTL

-----------------------------------------------------------------------------
(* The order of the messages to a chat.                                    *)

Precedes(l, i, j) == \E p, q \in DOMAIN l : p < q /\ l[p] = i /\ l[q] = j

LEMMA PrecedesAppended ==
    ASSUME NEW l \in Seq(Job), NEW k \in Job, NEW i, NEW j
    PROVE  Precedes(Append(l, k), i, j) <=> Precedes(l, i, j) \/ (i \in Range(l) /\ j = k)
<1> DEFINE m == Append(l, k)
<1>1. /\ DOMAIN l = 1..Len(l) /\ Len(l) \in Nat
      /\ DOMAIN m = 1..Len(l) + 1
      /\ \A p \in 1..Len(l) : m[p] = l[p]
      /\ m[Len(l) + 1] = k
  BY AppendProperties
<1>2. 1..Len(l) + 1 = 1..Len(l) \cup {Len(l) + 1} /\ \A p \in 1..Len(l) : p < Len(l) + 1
  BY <1>1
<1> HIDE DEF m
<1>3. ASSUME Precedes(m, i, j) PROVE Precedes(l, i, j) \/ (i \in Range(l) /\ j = k)
  <2>1. PICK p \in DOMAIN m, q \in DOMAIN m : p < q /\ m[p] = i /\ m[q] = j
    BY <1>3 DEF Precedes
  <2>2. p \in 1..Len(l)
    BY <1>1, <2>1
  <2>3. CASE q \in 1..Len(l)
    BY <1>1, <2>1, <2>2, <2>3 DEF Precedes
  <2>4. CASE q = Len(l) + 1
    BY <1>1, <2>1, <2>2, <2>4 DEF Range
  <2> QED
    BY <1>1, <1>2, <2>1, <2>3, <2>4
<1>4. ASSUME Precedes(l, i, j) PROVE Precedes(m, i, j)
  <2>1. PICK p \in DOMAIN l, q \in DOMAIN l : p < q /\ l[p] = i /\ l[q] = j
    BY <1>4 DEF Precedes
  <2>2. p \in DOMAIN m /\ q \in DOMAIN m /\ m[p] = i /\ m[q] = j
    BY <1>1, <1>2, <2>1
  <2> QED
    BY <2>1, <2>2 DEF Precedes
<1>5. ASSUME i \in Range(l), j = k PROVE Precedes(m, i, j)
  <2>1. PICK p \in DOMAIN l : l[p] = i
    BY <1>5 DEF Range
  <2>2. p \in DOMAIN m /\ m[p] = i /\ p < Len(l) + 1 /\ Len(l) + 1 \in DOMAIN m /\ m[Len(l) + 1] = j
    BY <1>1, <1>2, <1>5, <2>1
  <2> QED
    BY <2>2 DEF Precedes
<1> QED
  BY <1>3, <1>4, <1>5 DEF m

\* What is put in front precedes the others, whose order stays.
LEMMA PrecedesPrepended ==
    ASSUME NEW l \in Seq(Job), NEW k \in Job, NEW i, NEW j, Precedes(<<k>> \o l, i, j)
    PROVE  Precedes(l, i, j) \/ i = k
<1> DEFINE m == <<k>> \o l
<1>1. /\ DOMAIN l = 1..Len(l) /\ Len(l) \in Nat
      /\ DOMAIN m = 1..Len(l) + 1
      /\ \A p \in 2..Len(l) + 1 : m[p] = l[p - 1]
      /\ m[1] = k
  BY ConcatProperties
<1>2. PICK p \in DOMAIN m, q \in DOMAIN m : p < q /\ m[p] = i /\ m[q] = j
  BY DEF Precedes
<1> HIDE DEF m
<1>3. CASE p = 1
  BY <1>1, <1>2, <1>3
<1>4. CASE p # 1
  <2>1. p \in 2..Len(l) + 1 /\ q \in 2..Len(l) + 1
    BY <1>1, <1>2, <1>4
  <2>2. p - 1 \in DOMAIN l /\ q - 1 \in DOMAIN l /\ p - 1 < q - 1
    BY <1>1, <1>2, <2>1
  <2>3. l[p - 1] = i /\ l[q - 1] = j
    BY <1>1, <1>2, <2>1
  <2> QED
    BY <2>2, <2>3 DEF Precedes
<1> QED
  BY <1>3, <1>4

\* The head precedes the others, whose order stays.
LEMMA PrecedesTaken ==
    ASSUME NEW l \in Seq(Job), l # << >>
    PROVE  /\ \A i \in Range(l) \ {Head(l)} : Precedes(l, Head(l), i)
           /\ \A i, j : Precedes(Tail(l), i, j) => Precedes(l, i, j)
           /\ \A i \in Range(l) \ {Head(l)} : i \in Range(Tail(l))
<1>1. /\ DOMAIN l = 1..Len(l) /\ Len(l) \in Nat /\ Len(l) >= 1 /\ Head(l) = l[1]
      /\ DOMAIN Tail(l) = 1..Len(l) - 1
      /\ \A p \in 1..Len(l) - 1 : Tail(l)[p] = l[p + 1]
  BY HeadTailProperties
<1>2. ASSUME NEW i \in Range(l) \ {Head(l)} PROVE Precedes(l, Head(l), i) /\ i \in Range(Tail(l))
  <2>1. PICK q \in 1..Len(l) : l[q] = i
    BY <1>1, <1>2 DEF Range
  <2>2. 1 < q /\ 1 \in 1..Len(l)
    BY <1>1, <1>2, <2>1
  <2>3. q - 1 \in 1..Len(l) - 1 /\ (q - 1) + 1 = q
    BY <1>1, <2>1, <2>2
  <2>4. Tail(l)[q - 1] = i
    BY <1>1, <2>1, <2>3
  <2> QED
    BY <1>1, <2>1, <2>2, <2>3, <2>4 DEF Precedes, Range
<1>3. ASSUME NEW i, NEW j, Precedes(Tail(l), i, j) PROVE Precedes(l, i, j)
  <2>1. PICK p \in 1..Len(l) - 1, q \in 1..Len(l) - 1 : p < q /\ Tail(l)[p] = i /\ Tail(l)[q] = j
    BY <1>1, <1>3 DEF Precedes
  <2>2. p + 1 \in DOMAIN l /\ q + 1 \in DOMAIN l /\ p + 1 < q + 1
    BY <1>1, <2>1
  <2>3. l[p + 1] = i /\ l[q + 1] = j
    BY <1>1, <2>1
  <2> QED
    BY <2>2, <2>3 DEF Precedes
<1> QED
  BY <1>2, <1>3

LEMMA PrecedesOneWay ==
    ASSUME NEW l \in Seq(Job), IsInjective(l), NEW i, NEW j, Precedes(l, i, j)
    PROVE  /\ ~Precedes(l, j, i)
           /\ i \in Range(l) /\ j \in Range(l)
<1>1. DOMAIN l = 1..Len(l) /\ Len(l) \in Nat
  OBVIOUS
<1>2. PICK p \in DOMAIN l, q \in DOMAIN l : p < q /\ l[p] = i /\ l[q] = j
  BY DEF Precedes
<1>3. ASSUME NEW a \in DOMAIN l, NEW b \in DOMAIN l, a < b, l[a] = j, l[b] = i PROVE FALSE
  <2>1. a = q /\ b = p
    BY <1>2, <1>3 DEF IsInjective
  <2> QED
    BY <1>1, <1>2, <1>3, <2>1
<1> QED
  BY <1>2, <1>3 DEF Precedes, Range

\* The jobs that have been enqueued, each once.
Register ==
  /\ IsInjective(pushed)
  /\ \A j \in Job : caller[j] # "none" <=> j \in Range(pushed)

\* Two calls to one shard that answer no button.
Patient(i, j) == ShardOf[i] = ShardOf[j] /\ {i, j} \cap Urgent = {}

\* A list holds them in the order of the calls ...
ListsInOrder ==
  \A i, j \in Job :
    Patient(i, j) /\ Precedes(outbox[ShardOf[i]], i, j) => Precedes(pushed, i, j)

\* ... and when the later one has left it, the earlier one has come and gone.
TakenInOrder ==
  \A i, j \in Job :
    /\ Patient(i, j) /\ Precedes(pushed, i, j)
    /\ j \notin Range(outbox[ShardOf[j]])
    => i \notin Range(outbox[ShardOf[i]]) /\ shard[ShardOf[i]].job # i

IdleFree == \A s \in Shard : shard[s].pc = "idle" => shard[s].job = NoJob

IndOrder == Register /\ ListsInOrder /\ TakenInOrder /\ IdleFree

LEMMA OrderEnqueue ==
    ASSUME OutboundTypes, ShardsHeld, OnePlace, IndOrder,
           NEW k \in Job, Call(k) \/ Post(k)
    PROVE  IndOrder'
<1> USE DEF OutboundTypes
<1>1. PICK who \in {"waiting", "posted"} : Enqueue(k, who)
  BY DEF Call, Post
<1> DEFINE d == ShardOf[k]
<1>2. /\ d \in Shard /\ outbox[d] \in Seq(Job) /\ pushed \in Seq(Job) /\ IsInjective(pushed)
      /\ caller[k] = "none" /\ k \notin Range(pushed)
      /\ shard' = shard /\ pushed' = Append(pushed, k)
  BY <1>1, OutboundAssumption DEF Enqueue, IndOrder, Register
<1>3. /\ outbox'[d] = IF k \in Urgent THEN <<k>> \o outbox[d] ELSE Append(outbox[d], k)
      /\ \A s \in Shard \ {d} : outbox'[s] = outbox[s]
  BY <1>1, <1>2 DEF Enqueue, Push
<1>4. \A s \in Shard : k \notin Range(outbox[s])
  BY <1>2 DEF OnePlace
<1>5. IsInjective(outbox[d])
  BY <1>2 DEF OnePlace
<1>6. \A i, j \in Job : Precedes(pushed', i, j) <=> Precedes(pushed, i, j) \/ (i \in Range(pushed) /\ j = k)
  BY <1>2, PrecedesAppended
<1>7. IsInjective(pushed') /\ Range(pushed') = Range(pushed) \cup {k}
  BY <1>2, Queues
<1>8. Range(outbox'[d]) = Range(outbox[d]) \cup {k}
  BY <1>2, <1>3, <1>4, <1>5, Queues
<1>9. Register'
  <2>1. caller'[k] # "none" /\ \A j \in Job \ {k} : caller'[j] = caller[j]
    BY <1>1 DEF Enqueue
  <2> QED
    BY <1>7, <2>1 DEF IndOrder, Register
<1>10. ListsInOrder'
  <2>1. ASSUME NEW i \in Job, NEW j \in Job, Patient(i, j), Precedes(outbox'[ShardOf[i]], i, j)
        PROVE  Precedes(pushed', i, j)
    <3>1. ShardOf[i] \in Shard
      BY OutboundAssumption
    <3>2. CASE Precedes(outbox[ShardOf[i]], i, j)
      BY <1>6, <2>1, <3>2 DEF IndOrder, ListsInOrder
    <3>3. CASE ~Precedes(outbox[ShardOf[i]], i, j)
      <4>1. ShardOf[i] = d
        BY <1>3, <2>1, <3>1, <3>3
      <4>2. CASE k \in Urgent
        <5>1. i = k
          <6>1. Precedes(<<k>> \o outbox[d], i, j) /\ ~Precedes(outbox[d], i, j)
            BY ZenonT(20), <1>3, <2>1, <3>3, <4>1, <4>2
          <6> QED
            BY <1>2, <6>1, PrecedesPrepended
        <5> QED
          BY <2>1, <4>2, <5>1 DEF Patient
      <4>3. CASE k \notin Urgent
        <5>1. i \in Range(outbox[d]) /\ j = k
          <6>1. Precedes(Append(outbox[d], k), i, j) /\ ~Precedes(outbox[d], i, j)
            BY <1>3, <2>1, <3>3, <4>1, <4>3
          <6> QED
            BY <1>2, <6>1, PrecedesAppended
        <5>2. i \in Range(pushed)
          BY <1>2, <5>1 DEF OnePlace, IndOrder, Register
        <5> QED
          BY <1>6, <5>1, <5>2
      <4> QED
        BY <4>2, <4>3
    <3> QED
      BY <3>2, <3>3
  <2> QED
    BY <2>1 DEF ListsInOrder, Patient
<1>11. TakenInOrder'
  <2>1. ASSUME NEW i \in Job, NEW j \in Job, Patient(i, j), Precedes(pushed', i, j),
               j \notin Range(outbox'[ShardOf[j]])
        PROVE  i \notin Range(outbox'[ShardOf[i]]) /\ shard'[ShardOf[i]].job # i
    <3>1. ShardOf[i] \in Shard /\ ShardOf[j] \in Shard
      BY OutboundAssumption
    <3>2. j # k
      BY <1>8, <2>1
    <3>3. j \notin Range(outbox[ShardOf[j]])
      BY <1>3, <1>8, <2>1, <3>1
    <3>4. Precedes(pushed, i, j)
      BY <1>6, <2>1, <3>2
    <3>5. i \in Range(pushed)
      BY <1>2, <3>4, PrecedesOneWay
    <3>6. i \notin Range(outbox[ShardOf[i]]) /\ shard[ShardOf[i]].job # i
      BY <2>1, <3>3, <3>4 DEF IndOrder, TakenInOrder
    <3> QED
      BY <1>2, <1>3, <1>8, <3>1, <3>5, <3>6
  <2> QED
    BY <2>1 DEF TakenInOrder, Patient
<1>12. IdleFree'
  BY <1>2 DEF IndOrder, IdleFree
<1> QED
  BY <1>9, <1>10, <1>11, <1>12 DEF IndOrder

\* Steps that leave the lists alone, and let consumers keep or drop their jobs.
LEMMA OrderKept ==
    ASSUME IndOrder, UNCHANGED <<outbox, pushed>>,
           \A j \in Job : caller'[j] # "none" <=> caller[j] # "none",
           \A s \in Shard : \/ shard'[s] = IdleConsumer
                            \/ shard'[s].job = shard[s].job /\ (shard'[s].pc = "idle" => shard[s].pc = "idle")
    PROVE  IndOrder'
<1>1. \A s \in Shard : shard'[s].job = shard[s].job \/ shard'[s].job = NoJob
  BY DEF IdleConsumer, Consumer
<1>2. TakenInOrder'
  <2>1. \A i \in Job : ShardOf[i] \in Shard /\ i # NoJob
    BY OutboundAssumption
  <2> QED
    BY <1>1, <2>1 DEF IndOrder, TakenInOrder, Patient
<1>3. IdleFree'
  BY DEF IndOrder, IdleFree, IdleConsumer, Consumer
<1>4. Register'
  BY DEF IndOrder, Register
<1>5. ListsInOrder'
  BY DEF IndOrder, ListsInOrder, Patient
<1> QED
  BY <1>2, <1>3, <1>4, <1>5 DEF IndOrder

LEMMA OrderTake ==
    ASSUME OutboundTypes, OnePlace, IndOrder, NEW s \in Shard, Take(s)
    PROVE  IndOrder'
<1> USE DEF OutboundTypes
<1> DEFINE l == outbox[s]
           h == Head(l)
<1>1. /\ l \in Seq(Job) /\ l # << >> /\ IsInjective(l) /\ pushed \in Seq(Job) /\ IsInjective(pushed)
      /\ shard[s].pc = "idle" /\ shard[s].job = NoJob
  BY DEF Take, OnePlace, IndOrder, Register, IdleFree
<1>2. /\ outbox'[s] = Tail(l) /\ (\A r \in Shard \ {s} : outbox'[r] = outbox[r])
      /\ shard'[s] = Consumer("acquire", h, 0, "none") /\ (\A r \in Shard \ {s} : shard'[r] = shard[r])
      /\ UNCHANGED <<caller, pushed>>
  BY DEF Take
<1>3. shard'[s].pc = "acquire" /\ shard'[s].job = h
  BY <1>2 DEF Consumer
<1>4. h \in Range(l) /\ h \notin Range(Tail(l)) /\ Range(Tail(l)) \subseteq Range(l)
  BY <1>1, Queues
<1>5. h \in Job /\ ShardOf[h] = s
  BY <1>1, <1>4 DEF OnePlace, Range
<1>6. /\ \A i \in Range(l) \ {h} : Precedes(l, h, i) /\ i \in Range(Tail(l))
      /\ \A i, j : Precedes(Tail(l), i, j) => Precedes(l, i, j)
  BY <1>1, PrecedesTaken
<1>7. \A i \in Job : ShardOf[i] \in Shard /\ i # NoJob
  BY OutboundAssumption
<1> HIDE DEF l, h
<1>8. ListsInOrder'
  <2>1. ASSUME NEW i \in Job, NEW j \in Job, Patient(i, j), Precedes(outbox'[ShardOf[i]], i, j)
        PROVE  Precedes(pushed, i, j)
    <3>1. Precedes(outbox[ShardOf[i]], i, j)
      <4>1. CASE ShardOf[i] = s
        <5>1. Precedes(Tail(l), i, j)
          BY <1>2, <2>1, <4>1
        <5>2. Precedes(l, i, j)
          BY <1>6, <5>1
        <5> QED
          BY <4>1, <5>2 DEF l
      <4>2. CASE ShardOf[i] # s
        BY <1>2, <1>7, <2>1, <4>2
      <4> QED
        BY <4>1, <4>2
    <3> QED
      BY <2>1, <3>1 DEF IndOrder, ListsInOrder
  <2> QED
    BY <1>2, <2>1 DEF ListsInOrder, Patient
<1>9. TakenInOrder'
  <2>1. ASSUME NEW i \in Job, NEW j \in Job, Patient(i, j), Precedes(pushed, i, j),
               j \notin Range(outbox'[ShardOf[j]])
        PROVE  i \notin Range(outbox'[ShardOf[i]]) /\ shard'[ShardOf[i]].job # i
    <3>1. CASE j \notin Range(outbox[ShardOf[j]])
      <4>1. i \notin Range(outbox[ShardOf[i]]) /\ shard[ShardOf[i]].job # i
        BY <2>1, <3>1 DEF IndOrder, TakenInOrder
      <4>2. CASE ShardOf[i] = s
        BY <1>2, <1>3, <1>4, <4>1, <4>2 DEF l
      <4>3. CASE ShardOf[i] # s
        BY <1>2, <1>7, <4>1, <4>3
      <4> QED
        BY <4>2, <4>3
    <3>2. CASE j \in Range(outbox[ShardOf[j]])
      <4>1. ShardOf[j] = s /\ j \in Range(l)
        BY <1>2, <1>7, <2>1, <3>2 DEF l
      <4>2. j = h /\ ShardOf[i] = s
        BY <1>2, <1>6, <2>1, <4>1 DEF Patient
      <4>3. i # j
        BY <1>1, <2>1, PrecedesOneWay
      <4>4. i \notin Range(l)
        <5>1. SUFFICES ASSUME i \in Range(l) PROVE FALSE
          OBVIOUS
        <5>2. Precedes(l, j, i)
          BY <1>6, <4>2, <4>3, <5>1
        <5>3. Patient(j, i)
          BY <2>1 DEF Patient
        <5>4. Precedes(pushed, j, i)
          BY <4>1, <5>2, <5>3 DEF IndOrder, ListsInOrder, l
        <5> QED
          BY <1>1, <2>1, <5>4, PrecedesOneWay
      <4> QED
        BY <1>2, <1>3, <1>4, <4>2, <4>3, <4>4
    <3> QED
      BY <3>1, <3>2
  <2> QED
    BY <1>2, <2>1 DEF TakenInOrder, Patient
<1>10. IdleFree'
  BY <1>2, <1>3 DEF IndOrder, IdleFree
<1>11. Register'
  BY <1>2 DEF IndOrder, Register
<1> QED
  BY <1>8, <1>9, <1>10, <1>11 DEF IndOrder

LEMMA OrderConsume ==
    ASSUME OutboundTypes, ShardsHeld, OnePlace, IndOrder, NEW s \in Shard,
           ConsumerStep(s) \/ AcquireUncounted(s)
    PROVE  IndOrder'
<1> USE DEF OutboundTypes
<1>1. CASE Take(s)
  BY <1>1, OrderTake
<1>2. CASE Acquire(s) \/ AcquireUncounted(s) \/ Flood(s) \/ Accept(s) \/ Refuse(s) \/ PauseEnds(s)
  <2>1. UNCHANGED <<outbox, pushed, caller>>
    BY <1>2 DEF Acquire, AcquireUncounted, Flood, Accept, Refuse, PauseEnds
  <2>2. /\ shard'[s].job = shard[s].job /\ shard'[s].pc # "idle"
        /\ \A r \in Shard \ {s} : shard'[r] = shard[r]
    BY <1>2 DEF Acquire, AcquireUncounted, Flood, Accept, Refuse, PauseEnds, Settle
  <2> QED
    BY <2>1, <2>2, OrderKept
<1>3. CASE Respond(s)
  <2>1. shard[s].pc = "respond" /\ shard[s].job \in Job /\ caller[shard[s].job] # "none" /\ shard[s].result # "none"
    BY <1>3 DEF Respond, ShardsHeld, OnePlace
  <2>2. /\ UNCHANGED <<outbox, pushed>>
        /\ shard'[s] = IdleConsumer /\ \A r \in Shard \ {s} : shard'[r] = shard[r]
    BY <1>3 DEF Respond
  <2>3. \A j \in Job : caller'[j] # "none" <=> caller[j] # "none"
    BY <1>3, <2>1 DEF Respond
  <2> QED
    BY <2>2, <2>3, OrderKept
<1> QED
  BY <1>1, <1>2, <1>3 DEF ConsumerStep

LEMMA OrderStep ==
    ASSUME TypeOK, Held, OnePlace, IndOrder, [Next]_vars
    PROVE  IndOrder'
<1>1. OutboundTypes /\ ShardsHeld
  BY TypesAre DEF Held, ShardsHeld
<1>2. ASSUME UNCHANGED <<outbox, shard, caller, pushed>> PROVE IndOrder'
  BY <1>2, OrderKept
<1>3. CASE \E w \in Worker : WorkerStep(w)
  <2>1. PICK w \in Worker : WorkerStep(w)
    BY <1>3
  <2>2. CASE HandlerCalls(w)
    <3>1. worker[w].up \in Job
      BY <2>2, MessagesAssumption DEF HandlerCalls, Held
    <3> QED
      BY <1>1, <2>2, <3>1, OrderEnqueue DEF HandlerCalls
  <2> QED
    BY <1>2, <2>1, <2>2 DEF WorkerStep, HandlerReturns, outboundVars
<1>4. CASE \E s \in Shard : ConsumerStep(s) /\ UNCHANGED inboundVars
  BY <1>1, <1>4, OrderConsume
<1>5. CASE Environment
  <2>1. CASE \E j \in load \cap Notice : PostNotice(j)
    BY <1>1, <2>1, OrderEnqueue, MessagesAssumption DEF PostNotice
  <2>2. CASE Crash
    <3>1. UNCHANGED <<outbox, pushed>> /\ \A s \in Shard : shard'[s] = IdleConsumer
      BY <2>2 DEF Crash, CrashConsumers
    <3>2. \A j \in Job : caller'[j] # "none" <=> caller[j] # "none"
      BY <2>2 DEF Crash, CrashConsumers
    <3> QED
      BY <3>1, <3>2, OrderKept
  <2>3. CASE CallerGivesUp
    <3>1. UNCHANGED <<outbox, pushed, shard>>
      BY <2>3 DEF CallerGivesUp, TimeOut
    <3>2. \A j \in Job : caller'[j] # "none" <=> caller[j] # "none"
      BY <1>1, <2>3 DEF CallerGivesUp, TimeOut, OutboundTypes
    <3> QED
      BY <3>1, <3>2, OrderKept
  <2>4. CASE UNCHANGED outboundVars
    BY <1>2, <2>4 DEF outboundVars
  <2>5. CASE (\E s \in Shard : AwaitSlot(s)) \/ SlotLeaves \/ CooldownEnds
    BY <1>2, <2>5 DEF AwaitSlot, SlotLeaves, CooldownEnds
  <2>6. CASE \E s \in Shard : AcquireUncounted(s)
    BY <1>1, <2>6, OrderConsume
  <2> QED
    BY <1>5, <2>1, <2>2, <2>3, <2>4, <2>5, <2>6 DEF Environment
<1>6. CASE UNCHANGED vars
  BY <1>2, <1>6 DEF vars
<1> QED
  BY <1>3, <1>4, <1>5, <1>6 DEF Next

LEMMA OrderInit == Init => IndOrder
<1> SUFFICES ASSUME Init PROVE IndOrder
  OBVIOUS
<1>1. /\ pushed = << >> /\ (\A j \in Job : caller[j] = "none")
      /\ (\A s \in Shard : outbox[s] = << >> /\ shard[s] = IdleConsumer)
  BY DEF Init, OutboundInit
<1>2. Range(<< >>) = {} /\ IsInjective(<< >>) /\ \A i, j : ~Precedes(<< >>, i, j)
  BY DEF Range, IsInjective, Precedes
<1>3. \A j \in Job : ShardOf[j] \in Shard
  BY OutboundAssumption
<1> QED
  BY <1>1, <1>2, <1>3 DEF IndOrder, Register, ListsInOrder, TakenInOrder, IdleFree, IdleConsumer, Consumer

LEMMA OrderMeans == TypeOK /\ Held /\ OnePlace /\ IndOrder => ChatOrder
<1> SUFFICES ASSUME TypeOK, Held, OnePlace, IndOrder,
                    NEW p \in DOMAIN pushed, NEW q \in DOMAIN pushed, p < q,
                    ShardOf[pushed[p]] = ShardOf[pushed[q]],
                    {pushed[p], pushed[q]} \cap Urgent = {}, accepted[pushed[q]] > 0
             PROVE  ~Underway(pushed[p])
  BY DEF ChatOrder
<1> DEFINE i == pushed[p]
           j == pushed[q]
<1>1. i \in Job /\ j \in Job /\ Precedes(pushed, i, j) /\ Patient(i, j)
  BY DEF TypeOK, Precedes, Patient
<1>2. j \notin Range(outbox[ShardOf[j]])
  BY <1>1, OutboundAssumption DEF OnePlace
<1>3. i \notin Range(outbox[ShardOf[i]]) /\ shard[ShardOf[i]].job # i
  BY <1>1, <1>2 DEF IndOrder, TakenInOrder
<1>4. i # NoJob
  BY <1>1, OutboundAssumption
<1>5. ASSUME NEW s \in Shard PROVE i \notin Range(outbox[s]) /\ shard[s].job # i
  BY <1>3, <1>4 DEF OnePlace, IndOrder, IdleFree
<1> QED
  BY <1>5 DEF Underway

\* The messages to a chat reach Telegram in the order of their calls: one that has
\* been carried out finds no earlier one on a list or with a consumer, whatever
\* floods, refusals, lost answers and crashes came between.
THEOREM ChatsInOrder == Spec => []ChatOrder
<1>1. Init => IndOrder
  BY OrderInit
<1>2. TypeOK /\ Held /\ OnePlace /\ IndOrder /\ [Next]_vars => IndOrder'
  BY OrderStep
<1>3. TypeOK /\ Held /\ OnePlace /\ IndOrder => ChatOrder
  BY OrderMeans
<1> QED
  BY <1>1, <1>2, <1>3, TypeCorrect, AnswersAlways, PTL DEF Spec

-----------------------------------------------------------------------------
(* The contract of the exchange.                                           *)

Holding(w) == worker[w].pc # "idle"
Carried(u) == \E w \in Worker : worker[w].up = u
Waits(u)   == \E w \in Worker : worker[w].pc = "waiting" /\ worker[w].up = u
Queued(u)  == u \in Range(inbox) \/ Waits(u)

\* An update that has come in is in the list, with one worker, lost or done with,
\* and only one of them ...
OneHolder ==
  /\ IsInjective(inbox)
  /\ lost \subseteq seen
  /\ Range(inbox) \subseteq seen \ lost
  /\ \A w \in Worker : IF Holding(w) THEN worker[w].up \in seen \ (lost \cup Range(inbox))
                       ELSE worker[w].up = None
  /\ \A w, x \in Worker : Holding(w) /\ Holding(x) /\ worker[w].up = worker[x].up => w = x

\* ... and one whose reply has been asked for is on no list any more.
RepliesLate ==
  \A u \in Update : caller[u] # "none" => u \in lost \/ (u \in seen /\ ~Queued(u))

IndStage == OneHolder /\ RepliesLate

LEMMA InboxIsJobs == InboundTypes => inbox \in Seq(Job)
<1> SUFFICES ASSUME InboundTypes PROVE inbox \in Seq(Job)
  OBVIOUS
<1>1. inbox \in Seq(Update) /\ Update \subseteq Job
  BY MessagesAssumption DEF InboundTypes
<1> QED
  BY <1>1

\* What the list of updates becomes.
LEMMA InboxChanges ==
    ASSUME InboundTypes, IsInjective(inbox)
    PROVE  /\ \A u \in Update : u \notin Range(inbox) =>
                IsInjective(Append(inbox, u)) /\ Range(Append(inbox, u)) = Range(inbox) \cup {u}
           /\ inbox # << >> =>
                /\ Head(inbox) \in Range(inbox) \cap Update
                /\ IsInjective(Tail(inbox)) /\ Range(Tail(inbox)) = Range(inbox) \ {Head(inbox)}
<1>1. inbox \in Seq(Job) /\ Update \subseteq Job /\ inbox \in Seq(Update)
  BY InboxIsJobs, MessagesAssumption DEF InboundTypes
<1>2. \A u \in Update : u \notin Range(inbox) =>
        IsInjective(Append(inbox, u)) /\ Range(Append(inbox, u)) = Range(inbox) \cup {u}
  BY <1>1, Queues
<1>3. ASSUME inbox # << >>
      PROVE  /\ Head(inbox) \in Range(inbox) \cap Update
             /\ IsInjective(Tail(inbox)) /\ Range(Tail(inbox)) = Range(inbox) \ {Head(inbox)}
  <2>1. Head(inbox) \in Update
    BY <1>1, <1>3, HeadTailProperties
  <2>2. /\ Head(inbox) \in Range(inbox) /\ IsInjective(Tail(inbox))
        /\ Range(Tail(inbox)) \subseteq Range(inbox) \ {Head(inbox)}
    BY <1>1, <1>3, Queues
  <2>3. \A u \in Range(inbox) \ {Head(inbox)} : u \in Range(Tail(inbox))
    BY <1>1, <1>3, PrecedesTaken
  <2> QED
    BY <2>1, <2>2, <2>3
<1> QED
  BY <1>2, <1>3

\* Workers and the list, step by step.
LEMMA HolderSteps ==
    ASSUME InboundTypes, WorkersHeld, OneHolder,
           \/ \E u \in Update : Webhook(u)
           \/ \E w \in Worker : Pop(w) \/ AcquireLock(w) \/ GiveUp(w) \/ LockFails(w) \/ Release(w)
           \/ CrashWorkers
    PROVE  /\ OneHolder'
           /\ \A u \in Update : u \in lost => u \in lost'
           /\ \A u \in Update : u \in seen /\ ~Queued(u) => u \in seen' /\ ~Queued(u)'
<1> USE DEF InboundTypes
<1>1. IdleLoop.pc = "idle" /\ IdleLoop.up = None /\ \A u \in Update : u # None
  BY InboundAssumption DEF IdleLoop, Loop
<1>2. IsInjective(inbox)
  BY DEF OneHolder
<1>3. ASSUME NEW u \in Update, Webhook(u)
      PROVE  /\ OneHolder' /\ lost' = lost /\ worker' = worker /\ seen \subseteq seen'
             /\ \A x \in seen : x \in Range(inbox') => x \in Range(inbox)
  <2>1. lost' = lost /\ worker' = worker
    BY <1>3 DEF Webhook
  <2>2. CASE u \in seen
    <3>1. seen' = seen /\ inbox' = inbox
      BY <1>3, <2>2 DEF Webhook, EnqueueUnique
    <3> QED
      BY <2>1, <3>1 DEF OneHolder, Holding
  <2>3. CASE u \notin seen
    <3>1. seen' = seen \cup {u} /\ inbox' = Append(inbox, u)
      BY <1>3, <2>3 DEF Webhook, EnqueueUnique
    <3>2. u \notin Range(inbox)
      BY <2>3 DEF OneHolder
    <3>3. IsInjective(inbox') /\ Range(inbox') = Range(inbox) \cup {u}
      BY <1>2, <3>1, <3>2, InboxChanges
    <3> QED
      BY <2>1, <2>3, <3>1, <3>3 DEF OneHolder, Holding
  <2> QED
    BY <2>2, <2>3
\* A worker puts its update where there was none, and is idle.
<1>4. ASSUME NEW w \in Worker, Holding(w), seen' = seen, worker' = [worker EXCEPT ![w] = IdleLoop],
             \/ inbox' = inbox /\ lost' = lost
             \/ inbox' = Append(inbox, worker[w].up) /\ lost' = lost
             \/ inbox' = inbox /\ lost' = lost \cup {worker[w].up}
      PROVE  OneHolder'
  <2> DEFINE u == worker[w].up
  <2>1. u \in Update /\ u \in seen \ (lost \cup Range(inbox))
    BY <1>4 DEF WorkersHeld, Holding, OneHolder
  <2>2. IsInjective(Append(inbox, u)) /\ Range(Append(inbox, u)) = Range(inbox) \cup {u}
    BY <1>2, <2>1, InboxChanges
  <2>3. worker'[w] = IdleLoop /\ \A x \in Worker \ {w} : worker'[x] = worker[x]
    BY <1>4
  <2>4. \A x \in Worker \ {w} : Holding(x) => worker[x].up # u
    BY <1>4 DEF OneHolder
  <2>5. IsInjective(inbox') /\ Range(inbox') \cup lost' \subseteq Range(inbox) \cup lost \cup {u} /\ Range(inbox') \cap lost' = {}
    <3>1. Range(inbox) \cap lost = {}
      BY DEF OneHolder
    <3>2. CASE inbox' = inbox /\ lost' = lost
      BY <1>2, <3>1, <3>2
    <3>3. CASE inbox' = Append(inbox, u) /\ lost' = lost
      BY <2>1, <2>2, <3>1, <3>3
    <3>4. CASE inbox' = inbox /\ lost' = lost \cup {u}
      BY <1>2, <2>1, <3>1, <3>4
    <3> QED
      BY <1>4, <3>2, <3>3, <3>4
  <2> HIDE DEF u
  <2>6. lost' \subseteq seen' /\ Range(inbox') \subseteq seen' \ lost'
    BY <1>4, <2>1, <2>5 DEF OneHolder
  <2>7. \A x \in Worker : IF Holding(x)' THEN worker'[x].up \in seen' \ (lost' \cup Range(inbox'))
                          ELSE worker'[x].up = None
    <3>1. ASSUME NEW x \in Worker, x # w
          PROVE  IF Holding(x)' THEN worker'[x].up \in seen' \ (lost' \cup Range(inbox'))
                 ELSE worker'[x].up = None
      BY <1>4, <2>3, <2>4, <2>5, <3>1 DEF OneHolder, Holding
    <3> QED
      BY <1>1, <2>3, <3>1 DEF Holding
  <2>8. \A y, x \in Worker : Holding(y)' /\ Holding(x)' /\ worker'[y].up = worker'[x].up => y = x
    BY <1>1, <2>3 DEF OneHolder, Holding
  <2> QED
    BY <2>5, <2>6, <2>7, <2>8 DEF OneHolder
<1>5. ASSUME NEW w \in Worker, Pop(w)
      PROVE  OneHolder' /\ lost' = lost /\ seen' = seen /\ \A u \in Update : Queued(u)' => Queued(u)
  <2> DEFINE h == Head(inbox)
  <2>1. h \in Range(inbox) \cap Update /\ IsInjective(Tail(inbox)) /\ Range(Tail(inbox)) = Range(inbox) \ {h}
    BY <1>2, <1>5, InboxChanges DEF Pop
  <2>2. /\ inbox' = Tail(inbox) /\ lost' = lost /\ seen' = seen
        /\ worker'[w] = Loop("waiting", h) /\ \A x \in Worker \ {w} : worker'[x] = worker[x]
    BY <1>5 DEF Pop
  <2>3. worker'[w].pc = "waiting" /\ worker'[w].up = h
    BY <2>2 DEF Loop
  <2> HIDE DEF h
  <2>4. \A x \in Worker \ {w} : Holding(x) => worker[x].up # h
    BY <2>1 DEF OneHolder
  <2>5. \A x \in Worker : IF Holding(x)' THEN worker'[x].up \in seen' \ (lost' \cup Range(inbox'))
                          ELSE worker'[x].up = None
    BY <2>1, <2>2, <2>3 DEF OneHolder, Holding
  <2>6. \A y, x \in Worker : Holding(y)' /\ Holding(x)' /\ worker'[y].up = worker'[x].up => y = x
    BY <2>2, <2>3, <2>4 DEF OneHolder, Holding
  <2>7. OneHolder'
    BY <2>1, <2>2, <2>5, <2>6 DEF OneHolder
  <2>8. \A u \in Update : Queued(u)' => Queued(u)
    BY <2>1, <2>2, <2>3 DEF Queued, Waits
  <2> QED
    BY <2>2, <2>7, <2>8
<1>6. ASSUME NEW w \in Worker, AcquireLock(w)
      PROVE  OneHolder' /\ lost' = lost /\ seen' = seen /\ \A u \in Update : Queued(u)' => Queued(u)
  <2>1. /\ UNCHANGED <<inbox, lost, seen>> /\ worker[w].pc = "waiting"
        /\ worker'[w].pc = "handling" /\ worker'[w].up = worker[w].up
        /\ \A x \in Worker \ {w} : worker'[x] = worker[x]
    BY <1>6 DEF AcquireLock
  <2> QED
    BY <2>1 DEF OneHolder, Holding, Queued, Waits
<1>7. ASSUME NEW w \in Worker, GiveUp(w) \/ LockFails(w) \/ Release(w)
      PROVE  /\ OneHolder' /\ lost \subseteq lost' /\ seen' = seen
             /\ \A u \in Update : Queued(u)' => Queued(u)
  <2>1. /\ Holding(w) /\ seen' = seen /\ worker' = [worker EXCEPT ![w] = IdleLoop]
        /\ \/ inbox' = inbox /\ lost' = lost
           \/ inbox' = Append(inbox, worker[w].up) /\ lost' = lost /\ worker[w].pc = "waiting"
           \/ inbox' = inbox /\ lost' = lost \cup {worker[w].up}
    BY <1>7 DEF GiveUp, LockFails, Release, Holding
  <2>2. OneHolder'
    BY <1>4, <2>1
  <2>3. \A u \in Update : Waits(u)' => Waits(u)
    BY <1>1, <2>1 DEF Waits
  <2>4. \A u \in Range(inbox') : u \in Range(inbox) \/ Waits(u)
    <3>1. worker[w].up \in Update /\ worker[w].up \notin Range(inbox)
      BY <2>1 DEF WorkersHeld, OneHolder, Holding
    <3>2. Range(Append(inbox, worker[w].up)) = Range(inbox) \cup {worker[w].up}
      BY <1>2, <3>1, InboxChanges
    <3> QED
      BY <2>1, <3>2 DEF Waits
  <2> QED
    BY <2>1, <2>2, <2>3, <2>4 DEF Queued
<1>8. ASSUME CrashWorkers
      PROVE  OneHolder' /\ lost \subseteq lost' /\ seen' = seen /\ \A u \in Update : Queued(u)' => Queued(u)
  <2>1. /\ UNCHANGED <<inbox, seen>> /\ \A w \in Worker : worker'[w] = IdleLoop
        /\ lost' = lost \cup {worker[w].up : w \in {x \in Worker : Holding(x)}}
    BY <1>8 DEF CrashWorkers, Holding
  <2>2. \A w \in Worker : Holding(w) => worker[w].up \in seen \ Range(inbox)
    BY DEF OneHolder
  <2>3. lost' \subseteq seen /\ Range(inbox) \cap lost' = {} /\ lost \subseteq lost'
    BY <2>1, <2>2 DEF OneHolder
  <2>4. OneHolder'
    BY <1>1, <2>1, <2>3 DEF OneHolder, Holding
  <2> QED
    BY <1>1, <2>1, <2>3, <2>4 DEF Queued, Waits
<1>9. ASSUME NEW u \in Update, Webhook(u)
      PROVE  \A x \in Update : x \in seen /\ ~Queued(x) => x \in seen' /\ ~Queued(x)'
  <2>1. /\ worker' = worker /\ seen \subseteq seen'
        /\ \A x \in seen : x \in Range(inbox') => x \in Range(inbox)
    BY <1>3, <1>9
  <2> QED
    BY <2>1 DEF Queued, Waits
<1> HIDE DEF InboundTypes
<1> QED
  BY <1>3, <1>5, <1>6, <1>7, <1>8, <1>9

LEMMA StageIndStep ==
    ASSUME TypeOK, Held, IndStage, [Next]_vars
    PROVE  IndStage'
<1>1. InboundTypes /\ WorkersHeld /\ OneHolder /\ RepliesLate
  BY TypesAre DEF Held, WorkersHeld, IndStage
\* Steps that leave the updates where they are.
<1>2. ASSUME UNCHANGED <<seen, inbox, worker, lost>>,
             \A u \in Update : caller'[u] # "none" => caller[u] # "none"
      PROVE  IndStage'
  <2>1. OneHolder'
    BY <1>1, <1>2 DEF OneHolder, Holding
  <2>2. \A u \in Update : Queued(u)' => Queued(u)
    BY <1>2 DEF Queued, Waits
  <2>3. RepliesLate'
    BY <1>1, <1>2, <2>2 DEF RepliesLate
  <2> QED
    BY <2>1, <2>3 DEF IndStage
<1>3. ASSUME \/ \E u \in Update : Webhook(u)
             \/ \E w \in Worker : Pop(w) \/ AcquireLock(w) \/ GiveUp(w) \/ LockFails(w) \/ Release(w)
             \/ CrashWorkers,
             \A u \in Update : caller'[u] # "none" => caller[u] # "none"
      PROVE  IndStage'
  <2>1. /\ OneHolder'
        /\ \A u \in Update : u \in lost => u \in lost'
        /\ \A u \in Update : u \in seen /\ ~Queued(u) => u \in seen' /\ ~Queued(u)'
    BY <1>1, <1>3, HolderSteps
  <2>2. RepliesLate'
    BY <1>1, <1>3, <2>1 DEF RepliesLate
  <2> QED
    BY <2>1, <2>2 DEF IndStage
<1>4. ASSUME NEW w \in Worker, HandlerCalls(w) \/ HandlerReturns(w)
      PROVE  IndStage'
  <2> DEFINE u == worker[w].up
  <2>1. /\ UNCHANGED <<seen, inbox, lost>> /\ worker[w].pc \in {"handling", "calling"}
        /\ worker'[w].pc \in {"calling", "returning"} /\ worker'[w].up = u
        /\ \A x \in Worker \ {w} : worker'[x] = worker[x]
    BY <1>1, <1>4 DEF HandlerCalls, HandlerReturns, At, InboundTypes
  <2>2. \A x \in Job \ {u} : caller'[x] = caller[x]
    BY <1>1, <1>4 DEF HandlerCalls, HandlerReturns, Call, Enqueue, outboundVars, TypeOK
  <2>3. OneHolder'
    BY <1>1, <2>1 DEF OneHolder, Holding
  <2>4. \A x \in Update : Queued(x)' => Queued(x)
    BY <2>1 DEF Queued, Waits
  <2>5. u \in seen /\ ~Queued(u)
    BY <1>1, <2>1 DEF OneHolder, Holding, Queued, Waits
  <2>6. \A x \in Update : x # u => caller'[x] = caller[x]
    BY <2>2, MessagesAssumption
  <2>7. RepliesLate'
    <3>1. ASSUME NEW x \in Update, caller'[x] # "none" PROVE x \in lost' \/ (x \in seen' /\ ~Queued(x)')
      <4>1. x \in lost \/ (x \in seen /\ ~Queued(x))
        BY <1>1, <2>5, <2>6, <3>1 DEF RepliesLate
      <4> QED
        BY <2>1, <2>4, <3>1, <4>1
    <3> QED
      BY <3>1 DEF RepliesLate
  <2> QED
    BY <2>3, <2>7 DEF IndStage
<1>5. CASE \E w \in Worker : WorkerStep(w)
  BY <1>3, <1>4, <1>5 DEF WorkerStep, outboundVars
<1>6. CASE \E s \in Shard : ConsumerStep(s) /\ UNCHANGED inboundVars
  <2>1. PICK s \in Shard : ConsumerStep(s) /\ UNCHANGED inboundVars
    BY <1>6
  <2>2. \A u \in Update : caller'[u] # "none" => caller[u] # "none"
    BY <2>1, MessagesAssumption
       DEF ConsumerStep, Take, Acquire, Accept, Refuse, Flood, PauseEnds, Respond, TypeOK
  <2> QED
    BY <1>2, <2>1, <2>2 DEF inboundVars
<1>7. CASE Environment
  <2>1. CASE \E j \in load \cap Notice : PostNotice(j)
    <3>1. PICK j \in Notice : PostNotice(j)
      BY <2>1
    <3>2. \A u \in Update : caller'[u] = caller[u]
      BY <3>1, MessagesAssumption DEF PostNotice, Post, Enqueue, TypeOK
    <3> QED
      BY <1>2, <3>1, <3>2 DEF PostNotice, inboundVars
  <2>2. CASE Crash
    <3>1. \A u \in Update : caller'[u] # "none" => caller[u] # "none"
      BY <2>2, MessagesAssumption DEF Crash, CrashConsumers
    <3> QED
      BY <1>3, <2>2, <3>1 DEF Crash
  <2>3. CASE CallerGivesUp
    <3>1. \A u \in Update : caller'[u] # "none" => caller[u] # "none"
      BY <2>3, MessagesAssumption DEF CallerGivesUp, TimeOut, TypeOK
    <3> QED
      BY <1>2, <2>3, <3>1 DEF CallerGivesUp
  <2>4. CASE \E u \in Update : Webhook(u) /\ UNCHANGED outboundVars
    BY <1>3, <2>4 DEF outboundVars
  <2>5. CASE \E v \in User : (ExpireDeadLock(v) \/ ExpireLock(v)) /\ UNCHANGED outboundVars
    BY <1>2, <2>5 DEF ExpireDeadLock, ExpireLock, outboundVars
  <2>6. CASE ((\E s \in Shard : AcquireUncounted(s) \/ AwaitSlot(s)) \/ SlotLeaves \/ CooldownEnds) /\ UNCHANGED inboundVars
    BY <1>2, <2>6 DEF AcquireUncounted, AwaitSlot, SlotLeaves, CooldownEnds, inboundVars
  <2> QED
    BY <1>7, <2>1, <2>2, <2>3, <2>4, <2>5, <2>6 DEF Environment
<1>8. CASE UNCHANGED vars
  BY <1>2, <1>8 DEF vars
<1> QED
  BY <1>5, <1>6, <1>7, <1>8 DEF Next


-----------------------------------------------------------------------------
(* How the steps map to the contract.                                      *)

Sorted ==
  \A u \in Update :
     /\ Stage(u) = "lost" <=> u \in lost
     /\ Stage(u) = "new" <=> u \notin seen
     /\ Stage(u) = "queued" <=> Queued(u)
     /\ Stage(u) = "handled" <=> Carried(u) /\ ~Queued(u)
     /\ Stage(u) = "done" <=> u \in seen \ lost /\ ~Queued(u) /\ ~Carried(u)
     /\ Stage(u) \in {"lost", "new", "queued", "handled", "done"}

LEMMA StageIs == InboundTypes /\ OneHolder => Sorted
<1> SUFFICES ASSUME InboundTypes, OneHolder, NEW u \in Update
             PROVE  /\ Stage(u) = "lost" <=> u \in lost
                    /\ Stage(u) = "new" <=> u \notin seen
                    /\ Stage(u) = "queued" <=> Queued(u)
                    /\ Stage(u) = "handled" <=> Carried(u) /\ ~Queued(u)
                    /\ Stage(u) = "done" <=> u \in seen \ lost /\ ~Queued(u) /\ ~Carried(u)
                    /\ Stage(u) \in {"lost", "new", "queued", "handled", "done"}
  BY DEF Sorted
<1>1. Waits(u) <=> \E w \in Worker : worker[w] = Loop("waiting", u)
  <2>1. \A w \in Worker : worker[w] = Loop("waiting", u) <=> worker[w].pc = "waiting" /\ worker[w].up = u
    BY DEF InboundTypes, Loop
  <2> QED
    BY <2>1 DEF Waits
<1>2. Queued(u) => u \in seen \ lost /\ (Waits(u) => Carried(u))
  BY DEF OneHolder, Queued, Waits, Holding, Carried
<1>3. Carried(u) => u \in seen \ lost
  BY InboundAssumption DEF OneHolder, Holding, Carried
<1>4. Stage(u) = IF u \in lost THEN "lost" ELSE IF u \notin seen THEN "new"
                 ELSE IF Queued(u) THEN "queued" ELSE IF Carried(u) THEN "handled" ELSE "done"
  BY <1>1 DEF Stage, Queued, Carried
<1>5. lost \subseteq seen
  BY DEF OneHolder
<1> QED
  BY <1>2, <1>3, <1>4, <1>5

LEMMA StageWillBe == (InboundTypes /\ OneHolder => Sorted)'
BY StageIs, PTL

\* What a step does to the stages.
Stays(S) == \A u \in Update \ S : Stage(u)' = Stage(u)

\* A stage changes only with what it is made of.
LEMMA StageStays ==
    ASSUME Sorted, Sorted', NEW S,
           \A u \in Update \ S :
              /\ u \in lost' <=> u \in lost
              /\ u \in seen' <=> u \in seen
              /\ Queued(u)' <=> Queued(u)
              /\ Queued(u) \/ (Carried(u)' <=> Carried(u))
    PROVE  Stays(S)
<1> SUFFICES ASSUME NEW u \in Update \ S PROVE Stage(u)' = Stage(u)
  BY DEF Stays
<1>1. /\ u \in lost' <=> u \in lost
      /\ u \in seen' <=> u \in seen
      /\ Queued(u)' <=> Queued(u)
      /\ Queued(u) \/ (Carried(u)' <=> Carried(u))
  OBVIOUS
<1>2. /\ Stage(u) = "lost" <=> Stage(u)' = "lost"
      /\ Stage(u) = "new" <=> Stage(u)' = "new"
      /\ Stage(u) = "queued" <=> Stage(u)' = "queued"
      /\ Stage(u) = "handled" <=> Stage(u)' = "handled"
      /\ Stage(u) = "done" <=> Stage(u)' = "done"
  BY <1>1 DEF Sorted
<1>3. Stage(u) \in {"lost", "new", "queued", "handled", "done"}
  BY DEF Sorted
<1> QED
  BY <1>2, <1>3

\* The step seen by the contract.
LEMMA Stutters == Stays({}) /\ accepted' = accepted => UNCHANGED Contract!exchangeVars
<1> SUFFICES ASSUME Stays({}), accepted' = accepted PROVE UNCHANGED Contract!exchangeVars
  OBVIOUS
<1>1. [u \in Update |-> Stage(u)'] = [u \in Update |-> Stage(u)]
  BY DEF Stays
<1> QED
  BY <1>1 DEF Contract!exchangeVars

LEMMA Moves ==
    ASSUME NEW u \in Update, NEW from, NEW to, Stage(u) = from, Stage(u)' = to,
           Stays({u}), accepted' = accepted
    PROVE  Contract!Move(u, from, to)
<1>1. [x \in Update |-> Stage(x)'] = [[x \in Update |-> Stage(x)] EXCEPT ![u] = to]
  BY DEF Stays
<1>2. [x \in Update |-> Stage(x)][u] = from
  OBVIOUS
<1> QED
  BY <1>1, <1>2 DEF Contract!Move

LEMMA Loses ==
    ASSUME Sorted, Sorted', accepted' = accepted, NEW L \in SUBSET Update,
           lost' = lost \cup L, \A u \in L : Queued(u) \/ Carried(u), Stays(L)
    PROVE  Contract!Lose
<1>1. \A u \in L : Stage(u) \in {"queued", "handled"} /\ Stage(u)' = "lost"
  BY DEF Sorted
<1>2. [u \in Update |-> Stage(u)'] = [u \in Update |-> IF u \in L THEN "lost" ELSE [x \in Update |-> Stage(x)][u]]
  BY <1>1 DEF Stays
<1>3. L \in SUBSET {u \in Update : [x \in Update |-> Stage(x)][u] \in {"queued", "handled"}}
  BY <1>1
<1> QED
  BY <1>2, <1>3 DEF Contract!Lose

LEMMA Delivers ==
    ASSUME Sorted, RepliesLate, accepted \in [Job -> Nat], Stays({}),
           NEW j \in Job, accepted[j] = 0, caller[j] # "none", accepted' = [accepted EXCEPT ![j] = 1]
    PROVE  Contract!Deliver(j)
<1>1. j \in Update => [x \in Update |-> Stage(x)][j] \in {"handled", "done", "lost"}
  BY DEF Sorted, RepliesLate
<1>2. [u \in Update |-> Stage(u)'] = [u \in Update |-> Stage(u)]
  BY DEF Stays
<1> QED
  BY <1>1, <1>2 DEF Contract!Deliver

LEMMA InboundImplements ==
    ASSUME InboundTypes, WorkersHeld, OneHolder, Sorted, Sorted', accepted' = accepted,
           \/ \E u \in Update : Webhook(u)
           \/ \E w \in Worker : Pop(w) \/ AcquireLock(w) \/ GiveUp(w) \/ LockFails(w) \/ Release(w)
           \/ CrashWorkers
    PROVE  Contract!ExchangeNext \/ UNCHANGED Contract!exchangeVars
<1> USE DEF InboundTypes
<1>1. IdleLoop.pc = "idle" /\ IdleLoop.up = None /\ \A u \in Update : u # None
  BY InboundAssumption DEF IdleLoop, Loop
<1>2. IsInjective(inbox)
  BY DEF OneHolder
<1>3. ASSUME NEW u \in Update, Webhook(u)
      PROVE  Contract!ExchangeNext \/ UNCHANGED Contract!exchangeVars
  <2>1. lost' = lost /\ worker' = worker
    BY <1>3 DEF Webhook
  <2>2. CASE u \in seen
    <3>1. seen' = seen /\ inbox' = inbox
      BY <1>3, <2>2 DEF Webhook, EnqueueUnique
    <3>2. Stays({})
      BY <2>1, <3>1, StageStays DEF Queued, Waits, Carried
    <3> QED
      BY <3>2, Stutters
  <2>3. CASE u \notin seen
    <3>1. seen' = seen \cup {u} /\ inbox' = Append(inbox, u)
      BY <1>3, <2>3 DEF Webhook, EnqueueUnique
    <3>2. u \notin Range(inbox)
      BY <2>3 DEF OneHolder
    <3>3. Range(inbox') = Range(inbox) \cup {u}
      BY <1>2, <3>1, <3>2, InboxChanges
    <3>4. Stage(u) = "new" /\ Stage(u)' = "queued"
      BY <2>3, <3>3 DEF Sorted, Queued
    <3>5. Stays({u})
      BY <2>1, <3>1, <3>3, StageStays DEF Queued, Waits, Carried
    <3> QED
      BY <3>4, <3>5, Moves DEF Contract!ExchangeNext
  <2> QED
    BY <2>2, <2>3
<1>4. ASSUME NEW w \in Worker, Pop(w)
      PROVE  UNCHANGED Contract!exchangeVars
  <2>1. PICK h \in Update : h = Head(inbox) /\ h \in Range(inbox) /\ Range(Tail(inbox)) = Range(inbox) \ {h}
    BY <1>2, <1>4, InboxChanges DEF Pop
  <2>2. /\ inbox' = Tail(inbox) /\ lost' = lost /\ seen' = seen /\ worker[w].pc = "idle"
        /\ worker'[w] = Loop("waiting", h) /\ \A x \in Worker \ {w} : worker'[x] = worker[x]
    BY <1>4, <2>1 DEF Pop
  <2>3. worker'[w].pc = "waiting" /\ worker'[w].up = h /\ worker[w].up = None
    BY <2>2 DEF Loop, OneHolder, Holding
  <2>4. \A u \in Update : Queued(u)' <=> Queued(u)
    <3>1. Queued(h)' /\ Queued(h)
      BY <2>1, <2>3 DEF Queued, Waits
    <3>2. ASSUME NEW u \in Update, u # h PROVE Queued(u)' <=> Queued(u)
      <4>1. Waits(u)' <=> Waits(u)
        BY <2>2, <2>3, <3>2 DEF Waits
      <4>2. u \in Range(inbox') <=> u \in Range(inbox)
        BY <2>1, <2>2, <3>2
      <4> QED
        BY <4>1, <4>2 DEF Queued
    <3> QED
      BY <3>1, <3>2
  <2>5. \A u \in Update : Queued(u) \/ (Carried(u)' <=> Carried(u))
    <3>1. Queued(h)
      BY <2>1 DEF Queued
    <3>2. ASSUME NEW u \in Update, u # h PROVE Carried(u)' <=> Carried(u)
      BY <1>1, <2>2, <2>3, <3>2 DEF Carried
    <3> QED
      BY <3>1, <3>2
  <2>6. Stays({})
    BY <2>2, <2>4, <2>5, StageStays
  <2> QED
    BY <2>6, Stutters
<1>5. ASSUME NEW w \in Worker, AcquireLock(w)
      PROVE  Contract!ExchangeNext
  <2>0. worker[w].up \in Update
    BY <1>5 DEF AcquireLock, WorkersHeld
  <2> PICK u \in Update : u = worker[w].up
    BY <2>0
  <2>1. /\ UNCHANGED <<inbox, lost, seen>> /\ worker[w].pc = "waiting"
        /\ worker'[w].pc = "handling" /\ worker'[w].up = u
        /\ \A x \in Worker \ {w} : worker'[x] = worker[x]
    BY <1>5 DEF AcquireLock
  <2>2. u \notin Range(inbox) /\ \A x \in Worker \ {w} : Holding(x) => worker[x].up # u
    BY <2>1 DEF OneHolder, Holding
  <2>3. Queued(u) /\ ~Queued(u)' /\ Carried(u)'
    BY <2>1, <2>2 DEF Queued, Waits, Carried, Holding
  <2>4. Stage(u) = "queued" /\ Stage(u)' = "handled"
    BY <2>3 DEF Sorted
  <2>5. \A x \in Update \ {u} : Waits(x)' <=> Waits(x)
    BY <2>1 DEF Waits
  <2>6. \A x \in Update \ {u} : Carried(x)' <=> Carried(x)
    BY <2>1 DEF Carried
  <2>7. Stays({u})
    BY <2>1, <2>5, <2>6, StageStays DEF Queued
  <2> QED
    BY <2>4, <2>7, Moves DEF Contract!ExchangeNext
\* A worker leaves its update.
<1>6. ASSUME NEW w \in Worker, Holding(w), worker' = [worker EXCEPT ![w] = IdleLoop]
      PROVE  \E u \in Update :
               /\ u = worker[w].up /\ u \notin Range(inbox) /\ Carried(u)
               /\ ~Carried(u)' /\ ~Waits(u)'
               /\ \A x \in Update \ {u} : (Waits(x)' <=> Waits(x)) /\ (Carried(x)' <=> Carried(x))
  <2>1. worker[w].up \in Update
    BY <1>6 DEF WorkersHeld, Holding
  <2> PICK u \in Update : u = worker[w].up
    BY <2>1
  <2>2. u \notin Range(inbox) /\ \A x \in Worker \ {w} : worker[x].up # u
    BY <1>1, <1>6 DEF OneHolder, Holding
  <2>3. worker'[w] = IdleLoop /\ \A x \in Worker \ {w} : worker'[x] = worker[x]
    BY <1>6
  <2>4. ~Carried(u)' /\ ~Waits(u)'
    BY <1>1, <2>2, <2>3 DEF Carried, Waits
  <2>5. \A x \in Update \ {u} : Waits(x)' <=> Waits(x)
    BY <1>1, <2>3 DEF Waits
  <2>6. \A x \in Update \ {u} : Carried(x)' <=> Carried(x)
    BY <1>1, <2>3 DEF Carried
  <2>7. Carried(u)
    BY DEF Carried
  <2> QED
    BY <2>2, <2>4, <2>5, <2>6, <2>7
<1>7. ASSUME NEW w \in Worker, worker[w].pc = "waiting", worker' = [worker EXCEPT ![w] = IdleLoop],
             inbox' = Append(inbox, worker[w].up), UNCHANGED <<seen, lost>>
      PROVE  UNCHANGED Contract!exchangeVars
  <2>1. PICK u \in Update :
           /\ u = worker[w].up /\ u \notin Range(inbox)
           /\ \A x \in Update \ {u} : (Waits(x)' <=> Waits(x)) /\ (Carried(x)' <=> Carried(x))
    BY <1>6, <1>7 DEF Holding
  <2>2. Range(inbox') = Range(inbox) \cup {u}
    BY <1>2, <1>7, <2>1, InboxChanges
  <2>3. Queued(u) /\ Queued(u)'
    BY <1>7, <2>1, <2>2 DEF Queued, Waits
  <2>4. \A x \in Update \ {u} : Queued(x)' <=> Queued(x)
    BY <2>1, <2>2 DEF Queued
  <2>5. Stays({})
    BY <1>7, <2>1, <2>3, <2>4, StageStays
  <2> QED
    BY <2>5, Stutters
<1>8. ASSUME NEW w \in Worker, worker[w].pc = "waiting", worker' = [worker EXCEPT ![w] = IdleLoop],
             lost' = lost \cup {worker[w].up}, UNCHANGED <<seen, inbox>>
      PROVE  Contract!ExchangeNext
  <2>1. PICK u \in Update :
           /\ u = worker[w].up /\ Carried(u)
           /\ \A x \in Update \ {u} : (Waits(x)' <=> Waits(x)) /\ (Carried(x)' <=> Carried(x))
    BY <1>6, <1>8 DEF Holding
  <2>2. lost' = lost \cup {u} /\ {u} \in SUBSET Update
    BY <1>8, <2>1
  <2>3. Stays({u})
    BY <1>8, <2>1, <2>2, StageStays DEF Queued
  <2>4. Contract!Lose
    BY <2>1, <2>2, <2>3, Loses
  <2> QED
    BY <2>4 DEF Contract!ExchangeNext
<1>9. ASSUME NEW w \in Worker, Release(w)
      PROVE  Contract!ExchangeNext
  <2>1. worker[w].pc = "returning" /\ worker' = [worker EXCEPT ![w] = IdleLoop] /\ UNCHANGED <<seen, inbox, lost>>
    BY <1>9 DEF Release
  <2>2. PICK u \in Update :
           /\ u = worker[w].up /\ u \notin Range(inbox) /\ Carried(u)
           /\ ~Carried(u)' /\ ~Waits(u)'
           /\ \A x \in Update \ {u} : (Waits(x)' <=> Waits(x)) /\ (Carried(x)' <=> Carried(x))
    BY <1>6, <2>1 DEF Holding
  <2>3. ~Waits(u) /\ u \in seen \ lost
    BY <2>1, <2>2 DEF OneHolder, Holding, Waits
  <2>4. Stage(u) = "handled" /\ Stage(u)' = "done"
    BY <2>1, <2>2, <2>3 DEF Sorted, Queued
  <2>5. Stays({u})
    BY <2>1, <2>2, StageStays DEF Queued
  <2> QED
    BY <2>4, <2>5, Moves DEF Contract!ExchangeNext
<1>10. ASSUME CrashWorkers
       PROVE  Contract!ExchangeNext
  <2> DEFINE L == {worker[w].up : w \in {x \in Worker : Holding(x)}}
  <2>1. UNCHANGED <<inbox, seen>> /\ lost' = lost \cup L /\ \A w \in Worker : worker'[w] = IdleLoop
    BY <1>10 DEF CrashWorkers, Holding
  <2>2. L \in SUBSET Update /\ \A u \in L : Carried(u)
    BY DEF WorkersHeld, Holding, Carried
  <2>3. \A u \in Update : Carried(u) => u \in L
    BY <1>1 DEF OneHolder, Holding, Carried
  <2> HIDE DEF L
  <2>4. \A u \in Update : ~Carried(u)' /\ ~Waits(u)' /\ (Waits(u) => Carried(u))
    BY <1>1, <2>1 DEF Carried, Waits
  <2>5. Stays(L)
    BY <2>1, <2>3, <2>4, StageStays DEF Queued
  <2>6. Contract!Lose
    BY <2>1, <2>2, <2>5, Loses
  <2> QED
    BY <2>6 DEF Contract!ExchangeNext
<1>11. ASSUME NEW w \in Worker, GiveUp(w) \/ LockFails(w)
       PROVE  Contract!ExchangeNext \/ UNCHANGED Contract!exchangeVars
  <2>1. /\ worker[w].pc = "waiting" /\ worker' = [worker EXCEPT ![w] = IdleLoop] /\ seen' = seen
        /\ \/ inbox' = Append(inbox, worker[w].up) /\ lost' = lost
           \/ lost' = lost \cup {worker[w].up} /\ inbox' = inbox
    BY <1>11 DEF GiveUp, LockFails
  <2> QED
    BY <1>7, <1>8, <2>1
<1> HIDE DEF InboundTypes
<1> QED
  BY <1>3, <1>4, <1>5, <1>9, <1>10, <1>11

\* Of the consumers' steps the contract sees the one in which Telegram carries a job out.
LEMMA ConsumerImplements ==
    ASSUME TypeOK, Held, OnePlace, RepliesLate, Sorted, Sorted', Stays({}),
           NEW s \in Shard, ConsumerStep(s)
    PROVE  Contract!ExchangeNext \/ UNCHANGED Contract!exchangeVars
<1>1. CASE Accept(s)
  <2> DEFINE j == shard[s].job
  <2>1. shard[s].pc = "send" /\ j \in Job /\ accepted \in [Job -> Nat]
    BY <1>1 DEF Accept, Held, TypeOK
  <2>2. caller[j] # "none" /\ accepted[j] = 0
    BY <2>1 DEF OnePlace
  <2>3. accepted' = [accepted EXCEPT ![j] = accepted[j] + 1]
    BY <1>1 DEF Accept
  <2> HIDE DEF j
  <2>4. accepted' = [accepted EXCEPT ![j] = 1]
    BY <2>2, <2>3
  <2>5. Contract!Deliver(j)
    BY <2>1, <2>2, <2>4, Delivers
  <2> QED
    BY <2>1, <2>5 DEF Contract!ExchangeNext
<1>2. CASE ~Accept(s)
  <2>1. accepted' = accepted
    BY <1>2 DEF ConsumerStep, Take, Acquire, Refuse, Flood, PauseEnds, Respond
  <2> QED
    BY <2>1, Stutters
<1> QED
  BY <1>1, <1>2

LEMMA ExchangeStep ==
    ASSUME TypeOK, Held, OnePlace, IndStage, TypeOK', IndStage', [Next]_vars
    PROVE  [Contract!ExchangeNext]_(Contract!exchangeVars)
<1>1. InboundTypes /\ WorkersHeld /\ OneHolder /\ RepliesLate
  BY TypesAre DEF Held, WorkersHeld, IndStage
<1>2. Sorted /\ Sorted'
  <2>1. InboundTypes'
    BY DEF TypeOK, InboundTypes
  <2> QED
    BY <1>1, <2>1, StageIs, StageWillBe DEF IndStage
<1>3. ASSUME UNCHANGED <<seen, inbox, lost>>, \A w \in Worker : worker'[w].up = worker[w].up,
             \A w \in Worker : worker'[w].pc = "waiting" <=> worker[w].pc = "waiting"
      PROVE  Stays({})
  <2>1. \A u \in Update : (Queued(u)' <=> Queued(u)) /\ (Carried(u)' <=> Carried(u))
    BY <1>3 DEF Queued, Waits, Carried
  <2> QED
    BY <1>2, <1>3, <2>1, StageStays
<1>4. ASSUME UNCHANGED <<seen, inbox, lost, worker, accepted>> PROVE UNCHANGED Contract!exchangeVars
  BY <1>3, <1>4, Stutters
<1>5. CASE \E w \in Worker : WorkerStep(w)
  <2>1. PICK w \in Worker : WorkerStep(w)
    BY <1>5
  <2>2. CASE HandlerCalls(w) \/ HandlerReturns(w)
    <3>1. UNCHANGED <<seen, inbox, lost, accepted>>
      BY <2>2 DEF HandlerCalls, HandlerReturns, Call, Enqueue, outboundVars
    <3>2. \A x \in Worker : worker'[x].up = worker[x].up /\ (worker'[x].pc = "waiting" <=> worker[x].pc = "waiting")
      BY <1>1, <2>2 DEF HandlerCalls, HandlerReturns, At, InboundTypes
    <3> QED
      BY <1>3, <3>1, <3>2, Stutters
  <2>3. CASE /\ Pop(w) \/ AcquireLock(w) \/ GiveUp(w) \/ LockFails(w) \/ Release(w)
             /\ UNCHANGED outboundVars
    BY <1>1, <1>2, <2>3, InboundImplements DEF outboundVars
  <2> QED
    BY <2>1, <2>2, <2>3 DEF WorkerStep
<1>6. CASE \E s \in Shard : ConsumerStep(s) /\ UNCHANGED inboundVars
  BY <1>1, <1>2, <1>3, <1>6, ConsumerImplements DEF inboundVars
<1>7. CASE Environment
  <2>1. CASE \E j \in load \cap Notice : PostNotice(j)
    BY <1>4, <2>1 DEF PostNotice, Post, Enqueue, inboundVars
  <2>2. CASE Crash
    BY <1>1, <1>2, <2>2, InboundImplements DEF Crash, CrashConsumers
  <2>3. CASE CallerGivesUp
    BY <1>4, <2>3 DEF CallerGivesUp, TimeOut
  <2>4. CASE \E u \in Update : Webhook(u) /\ UNCHANGED outboundVars
    BY <1>1, <1>2, <2>4, InboundImplements DEF outboundVars
  <2>5. CASE \E v \in User : (ExpireDeadLock(v) \/ ExpireLock(v)) /\ UNCHANGED outboundVars
    BY <1>4, <2>5 DEF ExpireDeadLock, ExpireLock, outboundVars
  <2>6. CASE ((\E s \in Shard : AcquireUncounted(s) \/ AwaitSlot(s)) \/ SlotLeaves \/ CooldownEnds) /\ UNCHANGED inboundVars
    BY <1>4, <2>6 DEF AcquireUncounted, AwaitSlot, SlotLeaves, CooldownEnds, inboundVars
  <2> QED
    BY <1>7, <2>1, <2>2, <2>3, <2>4, <2>5, <2>6 DEF Environment
<1>8. CASE UNCHANGED vars
  BY <1>4, <1>8 DEF vars
<1> QED
  BY <1>5, <1>6, <1>7, <1>8 DEF Next

LEMMA ExchangeStart == Init => IndStage /\ Contract!ExchangeInit
<1> SUFFICES ASSUME Init PROVE IndStage /\ Contract!ExchangeInit
  OBVIOUS
<1>1. /\ seen = {} /\ lost = {} /\ inbox = << >> /\ (\A w \in Worker : worker[w] = IdleLoop)
      /\ caller = [j \in Job |-> "none"] /\ accepted = [j \in Job |-> 0]
  BY DEF Init, InboundInit, OutboundInit
<1>2. Range(<< >>) = {} /\ IsInjective(<< >>) /\ IdleLoop.pc = "idle" /\ IdleLoop.up = None
  BY DEF Range, IsInjective, IdleLoop, Loop
<1>3. OneHolder
  BY <1>1, <1>2 DEF OneHolder, Holding
<1>4. RepliesLate
  BY <1>1, MessagesAssumption DEF RepliesLate
<1>5. [u \in Update |-> Stage(u)] = [u \in Update |-> "new"]
  BY <1>1 DEF Stage
<1> QED
  BY <1>1, <1>3, <1>4, <1>5 DEF IndStage, Contract!ExchangeInit

LEMMA StageIndAlways == Spec => []IndStage
<1>1. Init => IndStage
  BY ExchangeStart
<1>2. TypeOK /\ Held /\ IndStage /\ [Next]_vars => IndStage'
  BY StageIndStep
<1> QED
  BY <1>1, <1>2, TypeCorrect, PTL DEF Spec

\* The webhook, the workers and the consumers keep the contract of Exchange: an update
\* that Telegram repeats is handled once at most, a job that consumers try again goes
\* out once at most and never before the handler that asked for it, and what an
\* accident takes is lost and does not come back.
THEOREM ExchangeKept == Spec => KeepsContract
<1>1. Init => Contract!ExchangeInit
  BY ExchangeStart
<1>2. /\ TypeOK /\ Held /\ OnePlace /\ IndStage /\ TypeOK' /\ IndStage' /\ [Next]_vars
      => [Contract!ExchangeNext]_(Contract!exchangeVars)
  BY ExchangeStep
<1> QED
  BY <1>1, <1>2, TypeCorrect, AnswersAlways, StageIndAlways, PTL
     DEF Spec, KeepsContract, Contract!ExchangeSpec

-----------------------------------------------------------------------------
(* What the contract comes to, for an update and for a message.            *)

LEMMA StartsNew == Contract!ExchangeInit => Contract!AtMostOnce
<1> SUFFICES ASSUME Contract!ExchangeInit, NEW m \in Job PROVE accepted[m] = 0
  BY DEF Contract!AtMostOnce
<1> QED
  BY DEF Contract!ExchangeInit

LEMMA GoneStepStays ==
    ASSUME [Contract!ExchangeNext]_(Contract!exchangeVars)
    PROVE  Contract!GoneStays
<1> DEFINE now == [x \in Update |-> Stage(x)]
           next == [x \in Update |-> Stage(x)']
<1>0. SUFFICES ASSUME NEW u \in Update
               PROVE  /\ now[u] \in {"done", "lost"} => next[u] = now[u]
                      /\ now[u] = "handled" => next[u] \in {"handled", "done", "lost"}
  BY DEF Contract!GoneStays
<1>1. ASSUME NEW x \in Update, NEW from, NEW to, Contract!Move(x, from, to),
             <<from, to>> \in {<<"new", "queued">>, <<"queued", "handled">>, <<"handled", "done">>}
      PROVE  /\ now[u] \in {"done", "lost"} => next[u] = now[u]
             /\ now[u] = "handled" => next[u] \in {"handled", "done", "lost"}
  <2>1. now[x] = from /\ next = [now EXCEPT ![x] = to]
    BY <1>1 DEF Contract!Move
  <2>2. next[u] = IF u = x THEN to ELSE now[u]
    BY <2>1
  <2> HIDE DEF now, next
  <2> QED
    BY <1>1, <2>1, <2>2
<1>2. CASE Contract!Lose
  <2>1. PICK L \in SUBSET {x \in Update : now[x] \in {"queued", "handled"}} :
             next = [x \in Update |-> IF x \in L THEN "lost" ELSE now[x]]
    BY <1>2 DEF Contract!Lose
  <2>2. next[u] = IF u \in L THEN "lost" ELSE now[u]
    BY <2>1
  <2>3. u \in L => now[u] \in {"queued", "handled"}
    OBVIOUS
  <2> HIDE DEF now, next
  <2> QED
    BY <2>2, <2>3
<1>3. CASE (\E m \in Job : Contract!Deliver(m)) \/ UNCHANGED Contract!exchangeVars
  <2>1. next = now
    BY <1>3 DEF Contract!Deliver, Contract!exchangeVars
  <2> HIDE DEF now, next
  <2> QED
    BY <2>1
<1>4. CASE \E x \in Update : \/ Contract!Move(x, "new", "queued")
                             \/ Contract!Move(x, "queued", "handled")
                             \/ Contract!Move(x, "handled", "done")
  BY <1>1, <1>4
<1> QED
  BY <1>2, <1>3, <1>4 DEF Contract!ExchangeNext

LEMMA OnceStep ==
    ASSUME accepted \in [Job -> Nat], Contract!AtMostOnce,
           [Contract!ExchangeNext]_(Contract!exchangeVars)
    PROVE  Contract!AtMostOnce'
<1> DEFINE now == [x \in Update |-> Stage(x)]
           next == [x \in Update |-> Stage(x)']
<1>0. SUFFICES ASSUME NEW m \in Job
               PROVE  /\ accepted'[m] <= 1
                      /\ m \in Update /\ accepted'[m] > 0 => next[m] \in {"handled", "done", "lost"}
  BY DEF Contract!AtMostOnce
<1>1. /\ accepted[m] <= 1
      /\ m \in Update /\ accepted[m] > 0 => now[m] \in {"handled", "done", "lost"}
  BY DEF Contract!AtMostOnce
<1>2. m \in Update /\ now[m] \in {"handled", "done", "lost"} => next[m] \in {"handled", "done", "lost"}
  BY GoneStepStays DEF Contract!GoneStays
<1>3. CASE accepted' = accepted
  <2> HIDE DEF now, next
  <2> QED
    BY <1>1, <1>2, <1>3
<1>4. ASSUME NEW d \in Job, Contract!Deliver(d)
      PROVE  /\ accepted'[m] <= 1
             /\ m \in Update /\ accepted'[m] > 0 => next[m] \in {"handled", "done", "lost"}
  <2>1. accepted' = [accepted EXCEPT ![d] = 1] /\ next = now
    BY <1>4 DEF Contract!Deliver
  <2>2. d \in Update => now[d] \in {"handled", "done", "lost"}
    BY <1>4 DEF Contract!Deliver
  <2> HIDE DEF now, next
  <2>3. accepted'[m] = IF m = d THEN 1 ELSE accepted[m]
    BY <2>1
  <2> QED
    BY <1>1, <2>1, <2>2, <2>3
<1>5. accepted' = accepted \/ \E d \in Job : Contract!Deliver(d)
  BY DEF Contract!ExchangeNext, Contract!Move, Contract!Lose, Contract!exchangeVars
<1> QED
  BY <1>3, <1>4, <1>5

\* A message is sent once at most whatever consumers retry and callers give up on, and
\* nobody gets the reply to an update before a worker has had it in a handler.
THEOREM SentOnce == Spec => []Contract!AtMostOnce
<1>1. Init => Contract!AtMostOnce
  BY ExchangeStart, StartsNew
<1>2. /\ TypeOK /\ Held /\ OnePlace /\ IndStage /\ TypeOK' /\ IndStage' /\ [Next]_vars
      /\ Contract!AtMostOnce
      => Contract!AtMostOnce'
  <2>1. TypeOK => accepted \in [Job -> Nat]
    BY TypesAre DEF OutboundTypes
  <2> QED
    BY <2>1, ExchangeStep, OnceStep
<1> QED
  BY <1>1, <1>2, TypeCorrect, AnswersAlways, StageIndAlways, PTL DEF Spec

\* An update that has been in a handler is never in one again, although Telegram may
\* repeat it and workers put updates back into the inbox.
THEOREM HandlersRunOnce == Spec => Contract!HandledOnce
<1>1. /\ TypeOK /\ Held /\ OnePlace /\ IndStage /\ TypeOK' /\ IndStage' /\ [Next]_vars
      => Contract!GoneStays
  BY ExchangeStep, GoneStepStays
<1> QED
  BY <1>1, TypeCorrect, AnswersAlways, StageIndAlways, PTL DEF Spec, Contract!HandledOnce
=============================================================================
