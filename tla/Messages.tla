------------------------------ MODULE Messages ------------------------------
(***************************************************************************)
(* Inbound and Outbound together: the handler of an update makes a call    *)
(* and waits for it while it holds the lock of the user, and the process   *)
(* that dies takes workers and consumers with it.  A handler is reduced to *)
(* its one reply (a job that bears the update's name).  Notices are what   *)
(* other parts of the fleet post without waiting.                          *)
(***************************************************************************)
EXTENDS Inbound, Outbound

CONSTANT Notice   \* jobs of EnqueueOutbound

ASSUME MessagesAssumption ==
  /\ Job = Update \cup Notice
  /\ Update \cap Notice = {}

\* What is asked of the system in a behaviour: the updates that users cause and
\* the notices that are posted.  It never changes, and is a variable so that
\* instances with different loads can be checked at once.
VARIABLE load

vars == <<load, telegram, seen, inbox, worker, lock, overdue, lost, faults,
          outbox, shard, caller, accepted, pushed, budget, slots, cooling>>

Init == load \in SUBSET Job /\ InboundInit /\ OutboundInit

At(w, pc) == worker' = [worker EXCEPT ![w].pc = pc]

\* Process reaches its call.
HandlerCalls(w) ==
  /\ worker[w].pc = "handling"
  /\ Call(worker[w].up)
  /\ At(w, "calling")
  /\ UNCHANGED <<telegram, seen, inbox, lock, overdue, lost, faults>>

\* Call returns, with an answer or without.
HandlerReturns(w) ==
  /\ worker[w].pc = "calling"
  /\ caller[worker[w].up] # "waiting"
  /\ At(w, "returning")
  /\ UNCHANGED <<telegram, seen, inbox, lock, overdue, lost, faults, outboundVars>>

WorkerStep(w) ==
  \/ /\ Pop(w) \/ AcquireLock(w) \/ GiveUp(w) \/ LockFails(w) \/ Release(w)
     /\ UNCHANGED outboundVars
  \/ HandlerCalls(w) \/ HandlerReturns(w)

PostNotice(j) == Post(j) /\ UNCHANGED inboundVars

CallerGivesUp ==
  /\ \E j \in Job : TimeOut(j)
  /\ Fault
  /\ UNCHANGED <<telegram, seen, inbox, worker, lock, overdue, lost>>

Crash == CrashWorkers /\ CrashConsumers

Environment ==
  \/ /\ \/ \E u \in load \cap Update : Webhook(u)
        \/ \E v \in User : ExpireDeadLock(v) \/ ExpireLock(v)
     /\ UNCHANGED outboundVars
  \/ \E j \in load \cap Notice : PostNotice(j)
  \/ Crash
  \/ CallerGivesUp
  \/ /\ \/ \E s \in Shard : AcquireUncounted(s) \/ AwaitSlot(s)
        \/ SlotLeaves
        \/ CooldownEnds
     /\ UNCHANGED inboundVars

Next ==
  /\ \/ \E w \in Worker : WorkerStep(w)
     \/ \E s \in Shard : ConsumerStep(s) /\ UNCHANGED inboundVars
     \/ Environment
  /\ UNCHANGED load

Spec == Init /\ [][Next]_vars

(***************************************************************************)
(* Fairness: goroutines of a live process go on, sends and pauses end,     *)
(* seconds pass, and a lock nobody renews runs out.                        *)
(***************************************************************************)
Fairness ==
  /\ \A w \in Worker : WF_vars(WorkerStep(w) /\ UNCHANGED load)
  /\ \A s \in Shard : WF_vars(ConsumerStep(s) /\ UNCHANGED inboundVars /\ UNCHANGED load)
  /\ \A v \in User : WF_vars(ExpireDeadLock(v) /\ UNCHANGED outboundVars /\ UNCHANGED load)
  /\ WF_vars(SlotLeaves /\ UNCHANGED inboundVars /\ UNCHANGED load)

FairSpec == Spec /\ Fairness

-----------------------------------------------------------------------------
(***************************************************************************)
(* Properties.                                                             *)
(***************************************************************************)
\* The types of the state.
TypeOK ==
  /\ load \subseteq Job
  /\ telegram \in [Update -> {"waiting", "confirmed"}]
  /\ seen \subseteq Update /\ lost \subseteq Update
  /\ inbox \in Seq(Update)
  /\ worker \in [Worker -> [pc : {"idle", "waiting"} \cup Inside, up : Update \cup {None}]]
  /\ lock \in [User -> Worker \cup {Dead, None}]
  /\ overdue \subseteq Worker
  /\ faults \in 0..MaxFaults
  /\ outbox \in [Shard -> Seq(Job)]
  /\ shard \in [Shard -> [pc : {"idle", "acquire", "send", "pause", "respond"},
                          job : Job \cup {NoJob}, tries : 0..MaxTries - 1,
                          result : {"none", "ok", "error"}]]
  /\ caller \in [Job -> {"none", "waiting", "posted", "ok", "error", "timeout", "gone"}]
  /\ accepted \in [Job -> Nat]
  /\ pushed \in Seq(Job)
  /\ budget \in Nat /\ budget >= Clipped(Floor) /\ slots \in Nat /\ cooling \in BOOLEAN

\* A handler keeps the lock of its user until it runs out: no other worker takes
\* it or deletes it, neither one that gave up nor one that outlived its own lock
\* (releaseScript).  So handlers of one user overlap only past an expiry.
LockProtects == \A v \in User : \A w \in Handlers(v) \ overdue : lock[v] = w

\* Who is told Ok had the message delivered exactly once: an answer to an
\* earlier attempt, a refusal or a flood is never passed on as success.
OkMeansDelivered == \A j \in Job : caller[j] = "ok" => accepted[j] = 1

\* Messages to one chat reach Telegram in the order of their calls: when one
\* has been carried out, no earlier one of the shard is still to come, whatever
\* floods and crashes came between.  Answers to buttons overtake the others.
ChatOrder ==
  \A p, q \in DOMAIN pushed :
    LET i == pushed[p]
        j == pushed[q]
    IN  /\ p < q
        /\ ShardOf[i] = ShardOf[j]
        /\ {i, j} \cap Urgent = {}
        /\ accepted[j] > 0
        => ~Underway(i)

Stage(u) ==
  IF u \in lost THEN "lost"
  ELSE IF u \notin seen THEN "new"
  ELSE IF u \in Range(inbox) \/ \E w \in Worker : worker[w] = Loop("waiting", u) THEN "queued"
  ELSE IF \E w \in Worker : worker[w].up = u THEN "handled"
  ELSE "done"

Contract == INSTANCE Exchange WITH Request <- Update, Message <- Job,
                                   stage <- [u \in Update |-> Stage(u)], out <- accepted

\* The exchange keeps its contract: updates are handled at most once although
\* Telegram repeats them and workers put them back, messages go out at most
\* once although consumers try again, and no reply precedes its handler.
KeepsContract == Contract!ExchangeSpec

\* An update that the webhook has confirmed is handled in the end, unless an
\* accident took it: Telegram will not send it again.  Since the load is finite,
\* this says that again and again no confirmed update is left over.
ConfirmedAreHandled ==
  []<>(\A u \in Update : telegram[u] = "confirmed" => Stage(u) \in {"done", "lost"})

\* No message stays on its way for ever: floods, a full window, a caller that
\* gave up or a crash end with every job sent, refused or gone.
CallsEnd == []<>(\A j \in Job : ~Underway(j))
=============================================================================
