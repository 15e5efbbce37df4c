------------------------------ MODULE Broadcast -----------------------------
(***************************************************************************)
(* A message of the administrator to all users: rows of cron, inserted by  *)
(* createBroadcast (bot/admin.go) and worked off in batches by processCron *)
(* (jobs/scheduler.go), which every instance of the fleet runs on the same *)
(* rows.  The row is read, the batch sent, and the position written back,  *)
(* without a lock.                                                         *)
(***************************************************************************)
EXTENDS Integers, FiniteSets

CONSTANTS
  Account,      \* the ids of users, numbers from 1 on
  Message,      \* the rows of cron, by id
  Scheduler,    \* the instances
  BatchSize,
  MaxCrashes    \* bound: instances that die in a batch, and queries that break

ASSUME BroadcastAssumption ==
  /\ Account \subseteq Nat \ {0}
  /\ Account # {} => \E n \in Account : \A i \in Account : i <= n
  /\ Message \subseteq Nat
  /\ BatchSize \in Nat \ {0}
  /\ MaxCrashes \in Nat

VARIABLES
  subscriber,    \* the ids that have a row in users
  cron,      \* the rows: status, send_id, max_send_id
  owed,      \* history: whom a message is for, the members when it was made
  reached,   \* history: to whom it was sent
  broken,    \* history: messages of which a query broke before its first row
  batch,     \* what each instance is at: the row, its position, whom it still has to serve
  crashes

cronVars == <<subscriber, cron, owed, reached, broken, batch, crashes>>

NoBatch == [pc |-> "idle", msg |-> 0, from |-> 0, last |-> 0, todo |-> {}]

CronInit ==
  /\ subscriber \in SUBSET Account
  /\ cron = [m \in Message |-> [status |-> "none", send |-> 0, max |-> 0]]
  /\ owed = [m \in Message |-> {}]
  /\ reached = [m \in Message |-> {}]
  /\ broken = {}
  /\ batch = [s \in Scheduler |-> NoBatch]
  /\ crashes = 0

Waiting == {m \in Message : cron[m].status = "row"}
Least(S) == CHOOSE i \in S : \A j \in S : i <= j
Greatest(S) == CHOOSE i \in S : \A j \in S : j <= i

-----------------------------------------------------------------------------
\* createBroadcast: max(id) of users, then the INSERT.
Create(m) ==
  /\ cron[m].status = "none" /\ \A k \in Message : k < m => cron[k].status # "none"
  /\ cron' = [cron EXCEPT ![m] = [status |-> "row", send |-> 0,
                                  max |-> IF subscriber = {} THEN 0 ELSE Greatest(subscriber)]]
  /\ owed' = [owed EXCEPT ![m] = subscriber]
  /\ UNCHANGED <<subscriber, reached, broken, batch, crashes>>

\* processCron: the oldest row is read.
ReadRow(s) ==
  /\ batch[s].pc = "idle" /\ Waiting # {}
  /\ LET m == Least(Waiting) IN
     batch' = [batch EXCEPT ![s] = [pc |-> IF cron[m].send >= cron[m].max THEN "delete" ELSE "select",
                                    msg |-> m, from |-> cron[m].send, last |-> cron[m].send, todo |-> {}]]
  /\ UNCHANGED <<subscriber, cron, owed, reached, broken, crashes>>

\* The wrong batch, that starts one further.
SelectFromNext(s) ==
  LET b == batch[s]
      S == {i \in subscriber : i > b.last + 1 /\ i <= cron[b.msg].max}
  IN
  /\ b.pc = "select"
  /\ batch' = [batch EXCEPT ![s].pc = "send",
                            ![s].todo = {i \in S : Cardinality({j \in S : j < i}) < BatchSize}]
  /\ UNCHANGED <<subscriber, cron, owed, reached, broken, crashes>>

\* The query: the users after the position, which arrive row by row.
SelectBatch(s) ==
  LET b == batch[s]
      S == {i \in subscriber : i > b.last /\ i <= cron[b.msg].max}
  IN
  /\ b.pc = "select"
  /\ batch' = [batch EXCEPT ![s].pc = "send",
                            ![s].todo = {i \in S : Cardinality({j \in S : j < i}) < BatchSize}]
  /\ UNCHANGED <<subscriber, cron, owed, reached, broken, crashes>>

\* rows.Next ends on an error, which nobody asks for: the batch is over, as if
\* these were all the rows.
QueryBreaks(s) ==
  LET b == batch[s] IN
  /\ b.pc = "send" /\ b.todo # {}
  /\ crashes < MaxCrashes
  /\ crashes' = crashes + 1
  /\ batch' = [batch EXCEPT ![s].todo = {}]
  /\ broken' = IF b.last = b.from THEN broken \cup {b.msg} ELSE broken
  /\ UNCHANGED <<subscriber, cron, owed, reached>>

\* One user is sent the message, whether he gets it or has blocked the bot.
SendOne(s) ==
  LET b == batch[s]
      i == Least(b.todo)
  IN
  /\ b.pc = "send" /\ b.todo # {}
  /\ reached' = [reached EXCEPT ![b.msg] = @ \cup {i}]
  /\ batch' = [batch EXCEPT ![s].last = i, ![s].todo = @ \ {i}]
  /\ UNCHANGED <<subscriber, cron, owed, broken, crashes>>

\* The position is written back, also over that of an instance ahead, and not at
\* all when the row is gone.
WriteBack(s) ==
  LET b == batch[s] IN
  /\ b.pc = "send" /\ b.todo = {} /\ b.last # b.from
  /\ cron' = IF cron[b.msg].status = "row" THEN [cron EXCEPT ![b.msg].send = b.last] ELSE cron
  /\ batch' = [batch EXCEPT ![s] = NoBatch]
  /\ UNCHANGED <<subscriber, owed, reached, broken, crashes>>

\* The row goes when its position is the last, and when the batch was empty.
Over(b) == b.pc = "delete" \/ (b.pc = "send" /\ b.todo = {} /\ b.last = b.from)

\* The wrong end: the row of a finished message stays.
KeepRow(s) ==
  /\ Over(batch[s])
  /\ batch' = [batch EXCEPT ![s] = NoBatch]
  /\ UNCHANGED <<subscriber, cron, owed, reached, broken, crashes>>

DeleteRow(s) ==
  /\ Over(batch[s])
  /\ cron' = [cron EXCEPT ![batch[s].msg].status = "gone"]
  /\ batch' = [batch EXCEPT ![s] = NoBatch]
  /\ UNCHANGED <<subscriber, owed, reached, broken, crashes>>

\* An instance dies, or a statement fails: what it sent stays sent, its position
\* is lost.
CrashScheduler(s) ==
  /\ batch[s].pc # "idle"
  /\ crashes < MaxCrashes
  /\ crashes' = crashes + 1
  /\ batch' = [batch EXCEPT ![s] = NoBatch]
  /\ UNCHANGED <<subscriber, cron, owed, reached, broken>>

\* A user signs up, with the next id; a synthetic one is deleted after two days.
SignUp(i) ==
  /\ i \notin subscriber /\ \A j \in subscriber : j < i
  /\ \A m \in Message : i \notin owed[m]
  /\ subscriber' = subscriber \cup {i}
  /\ UNCHANGED <<cron, owed, reached, broken, batch, crashes>>

DeleteFake(i) ==
  /\ i \in subscriber
  /\ subscriber' = subscriber \ {i}
  /\ UNCHANGED <<cron, owed, reached, broken, batch, crashes>>

CronStep(s) == ReadRow(s) \/ SelectBatch(s) \/ SendOne(s) \/ WriteBack(s) \/ DeleteRow(s)

CronNext ==
  \/ \E m \in Message : Create(m)
  \/ \E s \in Scheduler : CronStep(s) \/ QueryBreaks(s) \/ CrashScheduler(s)
  \/ \E i \in Account : SignUp(i) \/ DeleteFake(i)

CronSpec == CronInit /\ [][CronNext]_cronVars

\* Every instance runs its jobs again and again.
CronFairness == \A s \in Scheduler : WF_cronVars(CronStep(s))

-----------------------------------------------------------------------------
\* The types of the state.
CronTypeOK ==
  /\ subscriber \subseteq Account
  /\ cron \in [Message -> [status : {"none", "row", "gone"}, send : Nat, max : Nat]]
  /\ owed \in [Message -> SUBSET Account]
  /\ reached \in [Message -> SUBSET Account]
  /\ broken \subseteq Message
  /\ batch \in [Scheduler -> [pc : {"idle", "select", "send", "delete"}, msg : Message \cup {0},
                              from : Nat, last : Nat, todo : SUBSET Account]]
  /\ crashes \in 0..MaxCrashes

\* When a broadcast is over, everyone it was for and who is still there was sent
\* it: instances that overlap, overwrite each other's position, die or lose the
\* rest of a batch may send it twice, but skip nobody.  Only a query that breaks
\* before its first row, which processCron takes for the end (it asks rows.Err
\* after the DELETE, if at all), ends the broadcast for those still to come.
BroadcastReachesAll ==
  \A m \in Message : cron[m].status = "gone" /\ m \notin broken
                        => owed[m] \cap subscriber \subseteq reached[m]

\* Every broadcast comes to its end, although a slow instance sets it back.
BroadcastEnds == \A m \in Message : (cron[m].status = "row") ~> (cron[m].status = "gone")
=============================================================================
