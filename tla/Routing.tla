------------------------------ MODULE Routing -------------------------------
(***************************************************************************)
(* Which bot of the fleet serves a user (bot/service.go, with the map of   *)
(* queue/redis.go).  The assignment has two halves: a hash in Redis with a *)
(* reverse index, changed by one script, and users.assigned_bot in         *)
(* PostgreSQL, written after it.  Every instance moves users: it bounces   *)
(* them to the main bot, registers them when they follow an invitation to  *)
(* a helper, and resolves, for every message it sends to whomever, the bot *)
(* to send it through, which may move the receiver.  A read or write of a  *)
(* store is one step.  Modes change as they like (Fleet has their rules);  *)
(* whether a helper's heartbeat is alive and whether a receiver is         *)
(* chatting is left open.                                                  *)
(***************************************************************************)
EXTENDS Ring

CONSTANTS
  User,
  Main,       \* the main bot
  Process,    \* handlers that run at the same time
  Key,        \* Key[u]: the point of user u on the ring
  MaxFaults   \* bound: statements that fail, handlers that die, a Redis that
              \* forgets or evicts, changes of the configuration

Bot == Helper \cup {Main}

ASSUME RoutingAssumption ==
  /\ Main \notin Helper /\ NoBot # Main
  /\ User # {}
  /\ Key \in [User -> 0..Top - 1]
  /\ MaxFaults \in Nat

VARIABLES
  route,     \* user_bot_routing: the bot of a user
  reverse,   \* user_bot_reverse: the users of a bot
  assigned,  \* users.assigned_bot; NoBot where it is empty
  been,      \* history: the helpers a user has been routed to
  torn,      \* history: users of whom Redis evicted one half of the assignment
  mode,      \* the mode each instance believes in
  ring,      \* cfg.Helpers
  at,        \* the bot a user writes to
  link,      \* users whose next message there is /start classroom_<id>
  proc,      \* handlers between two steps
  faults

vars == <<route, reverse, assigned, been, torn, mode, ring, at, link, proc, faults>>

stores == <<route, reverse, assigned, been, torn>>
people == <<at, link>>

\* A handler: its next statement, the user it is about, the instance it runs on
\* and, from the first write, the bot it moves the user to, and why.
Doing(pc, u, b, why) == [pc |-> pc, user |-> u, bot |-> b, why |-> why]
Resting == Doing("idle", CHOOSE u \in User : TRUE, Main, "none")

Why == {"none", "home", "classroom", "register", "fallback"}

Init ==
  /\ route = [u \in User |-> NoBot]
  /\ reverse = [b \in Bot |-> {}]
  /\ assigned = [u \in User |-> NoBot]
  /\ been = [u \in User |-> {}]
  /\ torn = {}
  /\ mode = [b \in Bot |-> "OFFPEAK"]
  /\ ring = Helper
  /\ at = [u \in User |-> Main]
  /\ link = {}
  /\ proc = [p \in Process |-> Resting]
  /\ faults = 0

Fault == faults < MaxFaults /\ faults' = faults + 1
Continue(p, pc) == proc' = [proc EXCEPT ![p].pc = pc]
Start(p, pc, u, b, why) == proc' = [proc EXCEPT ![p] = Doing(pc, u, b, why)]
Finish(p) == proc' = [proc EXCEPT ![p] = Resting]
Idle(p) == proc[p].pc = "idle"

-----------------------------------------------------------------------------
\* Process on a helper in off-peak: bounceToMain, whose message shows the way.
StartBounce(p, u) ==
  /\ Idle(p)
  /\ at[u] \in Helper /\ mode[at[u]] = "OFFPEAK"
  /\ Start(p, "redis", u, Main, "home")
  /\ at' = [at EXCEPT ![u] = Main]
  /\ link' = link \ {u}
  /\ UNCHANGED <<stores, mode, ring, faults>>

\* The wrong invitation, with a link that is not for this user.
InviteOther(p, u) ==
  /\ Idle(p)
  /\ at[u] = Main /\ mode[Main] = "PEAK" /\ ring # {}
  /\ Start(p, "lookup", u, Main, "none")
  /\ UNCHANGED <<stores, mode, ring, people, faults>>

\* The wrong invitation, made although there is no helper to name.
InviteNobody(p, u) ==
  /\ Idle(p)
  /\ at[u] = Main /\ mode[Main] = "PEAK"
  /\ Start(p, "lookup", u, Main, "none")
  /\ at' = [at EXCEPT ![u] = Assign(ring, Key[u])]
  /\ link' = link \cup {u}
  /\ UNCHANGED <<stores, mode, ring, faults>>

\* Process on the main bot in peak: sendMigrationToHelper, whose link the user
\* follows; the message itself is resolved like any other.
Invite(p, u) ==
  /\ Idle(p)
  /\ at[u] = Main /\ mode[Main] = "PEAK" /\ ring # {}
  /\ Start(p, "lookup", u, Main, "none")
  /\ at' = [at EXCEPT ![u] = Assign(ring, Key[u])]
  /\ link' = link \cup {u}
  /\ UNCHANGED <<stores, mode, ring, faults>>

\* handleClassroomChoice: the invitation is followed.
Classroom(p, u) ==
  /\ Idle(p)
  /\ at[u] \in Helper /\ mode[at[u]] = "PEAK" /\ u \in link
  /\ Start(p, "redis", u, at[u], "classroom")
  /\ link' = link \ {u}
  /\ UNCHANGED <<stores, mode, ring, at, faults>>

\* Process gets as far as the handlers, which answer the user.
Serve(p, u) ==
  /\ Idle(p)
  /\ \/ at[u] = Main /\ mode[Main] = "OFFPEAK"
     \/ at[u] \in Helper /\ mode[at[u]] = "PEAK" /\ u \notin link
  /\ Start(p, "lookup", u, at[u], "none")
  /\ UNCHANGED <<stores, mode, ring, people, faults>>

\* send: instance b has a message for a user who did not ask for it.
Notify(p, b, u) ==
  /\ Idle(p)
  /\ Start(p, "lookup", u, b, "none")
  /\ UNCHANGED <<stores, mode, ring, people, faults>>

-----------------------------------------------------------------------------
\* The wrong resolver, that leaves users where they are in off-peak too.
LookupKeepHelper(p) ==
  LET d == proc[p] IN
  /\ d.pc = "lookup"
  /\ IF route[d.user] # NoBot THEN Finish(p) ELSE Continue(p, "durable")
  /\ UNCHANGED <<stores, mode, ring, people, faults>>

\* resolveDelivery: GetUserBot.
Lookup(p) ==
  LET d == proc[p]
      r == route[d.user]
  IN
  /\ d.pc = "lookup"
  /\ \/ /\ r \in Helper /\ mode[d.bot] = "OFFPEAK"
        /\ Start(p, "redis", d.user, Main, "home")
        /\ UNCHANGED faults
     \/ /\ r = Main \/ (r \in Helper /\ mode[d.bot] = "PEAK")
        /\ Finish(p)
        /\ UNCHANGED faults
     \/ /\ r = NoBot
        /\ Continue(p, "durable")
        /\ UNCHANGED faults
     \/ Fault /\ Continue(p, "durable")
  /\ UNCHANGED <<stores, mode, ring, people>>

\* resolveDelivery: AssignedBot, and the instance's own bot where it is empty or
\* the user has no row yet.  If PostgreSQL fails here, the message is given up
\* or, when the user can be read after all, he is registered at this bot.
ReadAssigned(p) ==
  LET d == proc[p]
      Register(b) == Start(p, "redis", d.user, b, "register")
  IN
  /\ d.pc = "durable"
  /\ \/ /\ Register(IF assigned[d.user] # NoBot THEN assigned[d.user] ELSE d.bot)
        /\ UNCHANGED faults
     \/ Fault /\ (Register(d.bot) \/ Finish(p))
  /\ UNCHANGED <<stores, mode, ring, people>>

\* After its writes the resolver goes on to deliverVia and handleClassroomChoice
\* to its welcome; the others are done.
Onward(p) ==
  LET d == proc[p] IN
  CASE d.why = "register"  -> Continue(p, "via")
    [] d.why = "classroom" -> Start(p, "lookup", d.user, d.bot, "none")
    [] OTHER -> Finish(p)

\* The wrong script: the old entry of the index stays.
SetRouteKeepOld(u, b) ==
  IF route[u] = b THEN UNCHANGED <<route, reverse, been>>
  ELSE /\ route' = [route EXCEPT ![u] = b]
       /\ reverse' = [reverse EXCEPT ![b] = @ \cup {u}]
       /\ been' = [been EXCEPT ![u] = @ \cup ({b} \ {Main})]

\* registerUserBotScript: nothing when the map has the bot already; else HSET,
\* SADD to the index of the new bot and SREM from that of the old one, if any.
SetRoute(u, b) ==
  IF route[u] = b THEN UNCHANGED <<route, reverse, been>>
  ELSE /\ route' = [route EXCEPT ![u] = b]
       /\ reverse' = [c \in Bot |-> CASE c = b -> reverse[c] \cup {u}
                                      [] c = route[u] -> reverse[c] \ {u}
                                      [] OTHER -> reverse[c]]
       /\ been' = [been EXCEPT ![u] = @ \cup ({b} \ {Main})]

\* The wrong order of things: PostgreSQL is written although Redis failed.
WriteRedisOrNot(p) ==
  LET d == proc[p] IN
  /\ d.pc = "redis"
  /\ \/ SetRoute(d.user, d.bot) /\ UNCHANGED faults
     \/ Fault /\ UNCHANGED <<route, reverse, been>>
  /\ Continue(p, "pg")
  /\ UNCHANGED <<assigned, torn, mode, ring, people>>

\* RegisterUserBot and MoveUserBot, which tell whether the map changed: only
\* then, or when a user is taken home, does PostgreSQL follow.  An error ends
\* handleClassroomChoice; the others log it.
WriteRedis(p) ==
  LET d == proc[p] IN
  /\ d.pc = "redis"
  /\ \/ /\ SetRoute(d.user, d.bot)
        /\ IF d.why = "home" \/ route[d.user] # d.bot THEN Continue(p, "pg") ELSE Onward(p)
        /\ UNCHANGED faults
     \/ /\ Fault
        /\ CASE d.why = "home"      -> Continue(p, "pg")
             [] d.why = "classroom" -> Finish(p)
             [] OTHER -> Onward(p)
        /\ UNCHANGED <<route, reverse, been>>
  /\ UNCHANGED <<assigned, torn, mode, ring, people>>

\* UpdateAssignedBot; its error is only logged.
WritePostgres(p) ==
  LET d == proc[p] IN
  /\ d.pc = "pg"
  /\ \/ assigned' = [assigned EXCEPT ![d.user] = d.bot] /\ UNCHANGED faults
     \/ Fault /\ UNCHANGED assigned
  /\ Onward(p)
  /\ UNCHANGED <<route, reverse, been, torn, mode, ring, people>>

\* deliverVia: the user of a dead helper goes back to the main bot, unless he is
\* chatting.
DeliverVia(p) ==
  LET d == proc[p] IN
  /\ d.pc = "via"
  /\ \/ Finish(p)
     \/ d.bot \in Helper /\ Start(p, "redis", d.user, Main, "fallback")
  /\ UNCHANGED <<stores, mode, ring, people, faults>>

-----------------------------------------------------------------------------
\* The handler dies, or its process.
Die(p) ==
  /\ ~Idle(p)
  /\ Fault
  /\ Finish(p)
  /\ UNCHANGED <<stores, mode, ring, people>>

\* Redis comes back empty; PostgreSQL has what it has.
Forget ==
  /\ Fault
  /\ route' = [u \in User |-> NoBot]
  /\ reverse' = [b \in Bot |-> {}]
  /\ torn' = {}
  /\ UNCHANGED <<assigned, been, mode, ring, people, proc>>

\* Redis, whose memory is bounded (allkeys-lru), drops one key: a shard of the
\* map, with the users in it ...
Evict(U) ==
  /\ \E u \in U : route[u] # NoBot
  /\ Fault
  /\ route' = [u \in User |-> IF u \in U THEN NoBot ELSE route[u]]
  /\ torn' = torn \cup U
  /\ UNCHANGED <<reverse, assigned, been, mode, ring, people, proc>>

\* ... or the index of one bot.
EvictIndex(b) ==
  /\ reverse[b] # {}
  /\ Fault
  /\ reverse' = [reverse EXCEPT ![b] = {}]
  /\ torn' = torn \cup reverse[b]
  /\ UNCHANGED <<route, assigned, been, mode, ring, people, proc>>

ChangeMode(b) ==
  /\ mode' = [mode EXCEPT ![b] = IF @ = "PEAK" THEN "OFFPEAK" ELSE "PEAK"]
  /\ UNCHANGED <<stores, ring, people, proc, faults>>

\* RefreshRing, with other helpers in the configuration.
Reconfigure(S) ==
  /\ Fault
  /\ ring' = S
  /\ UNCHANGED <<stores, mode, people, proc>>

Step(p) == Lookup(p) \/ ReadAssigned(p) \/ WriteRedis(p) \/ WritePostgres(p) \/ DeliverVia(p)

Receive(p, u) == StartBounce(p, u) \/ Invite(p, u) \/ Classroom(p, u) \/ Serve(p, u)

Environment ==
  \/ \E p \in Process, u \in User, b \in Bot : Notify(p, b, u)
  \/ \E p \in Process : Die(p)
  \/ Forget
  \/ \E U \in SUBSET User : Evict(U)
  \/ \E b \in Bot : EvictIndex(b)
  \/ \E b \in Bot : ChangeMode(b)
  \/ \E S \in SUBSET Helper : Reconfigure(S)

Next ==
  \/ \E p \in Process : Step(p) \/ \E u \in User : Receive(p, u)
  \/ Environment

Spec == Init /\ [][Next]_vars

(***************************************************************************)
(* Fairness: handlers go on; every user keeps writing, and a worker takes  *)
(* his update although there are others.                                   *)
(***************************************************************************)
Fairness ==
  /\ \A p \in Process : WF_vars(Step(p))
  /\ \A u \in User : SF_vars(\E p \in Process : Receive(p, u))

FairSpec == Spec /\ Fairness

-----------------------------------------------------------------------------
\* The types of the state.
TypeOK ==
  /\ route \in [User -> Bot \cup {NoBot}]
  /\ reverse \in [Bot -> SUBSET User]
  /\ assigned \in [User -> Bot \cup {NoBot}]
  /\ been \in [User -> SUBSET Helper]
  /\ torn \subseteq User
  /\ mode \in [Bot -> {"PEAK", "OFFPEAK"}]
  /\ ring \subseteq Helper
  /\ at \in [User -> Bot] /\ link \subseteq User
  /\ proc \in [Process -> [pc : {"idle", "lookup", "durable", "redis", "pg", "via"},
                           user : User, bot : Bot, why : Why]]
  /\ faults \in 0..MaxFaults

\* The reverse index is exactly the inverse of the routing map, whatever
\* instances write at the same time and wherever one dies: the batch migration
\* finds a user under his bot and under no other.  The script repairs nothing: it
\* skips a write that changes no route and takes a user out of the index of his
\* old route alone, so that users whose keys were evicted are out of reach.
ReverseExact == \A u \in User \ torn, b \in Bot : u \in reverse[b] <=> route[u] = b

\* PostgreSQL never gets ahead of Redis: it names a helper only if the user was
\* really routed there, though writes fail and others overtake them.
DurableWasRouted == \A u \in User : assigned[u] \in Helper => assigned[u] \in been[u]

\* When every instance stays in off-peak, every user who keeps writing comes
\* back to the main bot and is never again routed to a helper: invitations
\* followed earlier, stale backfills and a forgetful Redis die out.
OffPeakBringsHome ==
  <>[](\A b \in Bot : mode[b] = "OFFPEAK") => \A u \in User : <>[](route[u] = Main)

\* Once the instances agree on a mode for good, whoever keeps writing is served
\* again and again: he is not sent from the main bot to a helper and back for
\* ever, nor left with a main bot that has no helper to name.
Served ==
  <>[](ring # {} /\ \A b \in Bot : mode[b] = mode[Main])
    => \A u \in User : []<><<\E p \in Process : Serve(p, u)>>_vars
=============================================================================
