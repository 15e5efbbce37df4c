------------------------------ MODULE Inbound -------------------------------
(***************************************************************************)
(* How an update of Telegram reaches its handler (cmd/miogram/main.go and  *)
(* the inbound part of queue/redis.go).  Telegram repeats an update until  *)
(* the webhook answers OK; the webhook enters it once in the inbound list  *)
(* of the bot; a worker pops it, takes the lock of the user in Redis, runs *)
(* the handler and gives the lock back.  The lock has a time to live, the  *)
(* wait for it a limit.  A worker of another bot, which shares the locks,  *)
(* is one more worker here.  An update that names no user is run without a *)
(* lock and ignored by Process: it is left out.                            *)
(***************************************************************************)
EXTENDS Naturals, Sequences, Functions

CONSTANTS
  Update,     \* updates of Telegram; every one has an update_id
  User,       \* users, who own the locks
  From,       \* From[u]: the user of update u (updateUserID)
  Worker,     \* worker goroutines
  MaxFaults,  \* bound: accidents, see Fault
  Dead,       \* the token of a process that has died
  None

ASSUME InboundAssumption ==
  /\ From \in [Update -> User]
  /\ None \notin User \cup Worker \cup Update \cup {Dead}
  /\ Dead \notin Worker
  /\ MaxFaults \in Nat

VARIABLES
  telegram,  \* what Telegram knows of an update: "waiting" for OK or "confirmed"
  seen,      \* the keys miogram:update:<bot>:<id>
  inbox,     \* the list inbound:<bot>
  worker,    \* the loop of a worker: where it is, the update it holds
  lock,      \* miogram:userlock:<user>: the worker whose token it is
  overdue,   \* workers whose lock has run out while they hold it
  lost,      \* updates taken from the list that no handler will finish
  faults     \* how many faults have happened

inboundVars == <<telegram, seen, inbox, worker, lock, overdue, lost, faults>>

\* waiting: in AcquireLock; handling, calling, returning: in and after Process
Inside   == {"handling", "calling", "returning"}
Loop(pc, u) == [pc |-> pc, up |-> u]
IdleLoop == Loop("idle", None)

InboundInit ==
  /\ telegram = [u \in Update |-> "waiting"]
  /\ seen = {}
  /\ inbox = << >>
  /\ worker = [w \in Worker |-> IdleLoop]
  /\ lock = [v \in User |-> None]
  /\ overdue = {}
  /\ lost = {}
  /\ faults = 0

\* What goes wrong: a process dies, a Redis command fails, an OK is lost, a lock
\* or an answer comes too late.
Fault == faults < MaxFaults /\ faults' = faults + 1

\* EnqueueInboundUnique: the key and the push are one script.
EnqueueUnique(u) ==
  IF u \in seen THEN UNCHANGED <<seen, inbox>>
  ELSE seen' = seen \cup {u} /\ inbox' = Append(inbox, u)

\* webhookHandler: Telegram delivers an update, once more if the OK was lost or
\* the script reported an error after it had run.
Webhook(u) ==
  /\ telegram[u] = "waiting"
  /\ EnqueueUnique(u)
  /\ \/ telegram' = [telegram EXCEPT ![u] = "confirmed"] /\ UNCHANGED faults
     \/ Fault /\ UNCHANGED telegram
  /\ UNCHANGED <<worker, lock, overdue, lost>>

\* DequeueInbound.
Pop(w) ==
  /\ worker[w].pc = "idle"
  /\ inbox # << >>
  /\ inbox' = Tail(inbox)
  /\ worker' = [worker EXCEPT ![w] = Loop("waiting", Head(inbox))]
  /\ UNCHANGED <<telegram, seen, lock, overdue, lost, faults>>

\* AcquireLock succeeds: SET NX with a token of the worker's.
AcquireLock(w) ==
  LET v == From[worker[w].up] IN
  /\ worker[w].pc = "waiting"
  /\ lock[v] = None
  /\ lock' = [lock EXCEPT ![v] = w]
  /\ worker' = [worker EXCEPT ![w].pc = "handling"]
  /\ UNCHANGED <<telegram, seen, inbox, overdue, lost, faults>>

\* AcquireLock gives up after PerUserLockWait: back to the end of the list.
GiveUp(w) ==
  /\ worker[w].pc = "waiting"
  /\ lock[From[worker[w].up]] # None
  /\ inbox' = Append(inbox, worker[w].up)
  /\ worker' = [worker EXCEPT ![w] = IdleLoop]
  /\ UNCHANGED <<telegram, seen, lock, overdue, lost, faults>>

\* Redis fails: SET NX reports an error, and the push that puts the update
\* back, whose error is ignored, succeeds or not.
LockFails(w) ==
  /\ worker[w].pc = "waiting"
  /\ Fault
  /\ worker' = [worker EXCEPT ![w] = IdleLoop]
  /\ \/ inbox' = Append(inbox, worker[w].up) /\ UNCHANGED lost
     \/ lost' = lost \cup {worker[w].up} /\ UNCHANGED inbox
  /\ UNCHANGED <<telegram, seen, lock, overdue>>

\* The wrong lock, set without a time to live.
KeepDeadLock(v) == lock[v] = Dead /\ UNCHANGED inboundVars

\* The lock of a process that has died runs out (PerUserLockTTL).
ExpireDeadLock(v) ==
  /\ lock[v] = Dead
  /\ lock' = [lock EXCEPT ![v] = None]
  /\ UNCHANGED <<telegram, seen, inbox, worker, overdue, lost, faults>>

\* The lock runs out under a handler that still runs.
ExpireLock(v) ==
  /\ lock[v] \in Worker
  /\ Fault
  /\ lock' = [lock EXCEPT ![v] = None]
  /\ overdue' = overdue \cup {lock[v]}
  /\ UNCHANGED <<telegram, seen, inbox, worker, lost>>

\* The wrong release: DEL without comparing the token.
DropLock(w) == lock' = [lock EXCEPT ![From[worker[w].up]] = None]

\* releaseScript: only the holder's token deletes the key.
DropOwnLock(w) == lock' = [lock EXCEPT ![From[worker[w].up]] = IF @ = w THEN None ELSE @]

\* Process has returned: release, and round the loop.
Release(w) ==
  /\ worker[w].pc = "returning"
  /\ DropOwnLock(w)
  /\ worker' = [worker EXCEPT ![w] = IdleLoop]
  /\ overdue' = overdue \ {w}
  /\ UNCHANGED <<telegram, seen, inbox, lost, faults>>

\* The process dies: what its workers hold is gone, and their locks stay.
CrashWorkers ==
  /\ Fault
  /\ lost' = lost \cup {worker[w].up : w \in {x \in Worker : worker[x].pc # "idle"}}
  /\ worker' = [w \in Worker |-> IdleLoop]
  /\ lock' = [v \in User |-> IF lock[v] = None THEN None ELSE Dead]
  /\ overdue' = {}
  /\ UNCHANGED <<telegram, seen, inbox>>

Handlers(v) == {w \in Worker : worker[w].pc \in Inside /\ From[worker[w].up] = v}
=============================================================================
