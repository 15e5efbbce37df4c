------------------------------ MODULE Accounts ------------------------------
(***************************************************************************)
(* The accounts of users: sign-up and its rewards (bot/auth.go), the coin  *)
(* for a complete profile (bot/service.go), the coins paid for direct      *)
(* messages and for the news that somebody is online (bot/profile.go), and *)
(* the gift of the inactivity job (jobs/scheduler.go).  Every statement is *)
(* a step; handlers of different users overlap, those of one user only     *)
(* when his lock is lost (Inbound), and every instance runs the job.       *)
(* Statements succeed; handlers may die between any two.                   *)
(***************************************************************************)
EXTENDS Integers, FiniteSets

CONSTANTS
  User,
  Nobody,
  Process,     \* handlers that run at the same time
  Instance,    \* instances whose scheduler runs the inactivity job
  Gift,        \* below this balance a user gets this gift (5)
  MaxMoves,    \* bound: coins earned or given beyond the rewards, buttons pressed
  MaxFaults    \* bound: handlers that die, locks that are lost

ASSUME AccountsAssumption ==
  /\ Nobody \notin User
  /\ Gift \in Nat \ {0} /\ MaxMoves \in Nat /\ MaxFaults \in Nat

VARIABLES
  member,     \* users with a row
  referral,   \* users.referral
  ads,        \* users with ads_referral
  rich,       \* users whose profile has name, city and location
  coined,     \* users with is_coin_comprof
  balance,
  away,       \* users whose last_activity is more than three days ago
  watch,      \* onlinenotif rows of notif: [id, by, on]
  serial,     \* the last id of such a row
  letter,     \* a direct_message row of notif
  handler,    \* handlers between two statements
  job,        \* what each instance's job selected
  paid,       \* history: how often a reward was paid for a user
  ledger,     \* history: what the balance should be
  gifted,     \* history: users who got the gift for their present absence
  raced,      \* history: users whose coins moved between a job's read and write
  pending,    \* history: watches whose owner was not yet told
  unpaid,     \* history: direct messages delivered less those charged for
  overlap,    \* users whose lock has been lost while a handler of theirs ran
  moves, faults

rows    == <<member, referral, ads, rich, coined, balance, away>>
notifs  == <<watch, serial, letter>>
history == <<paid, ledger, gifted, raced, pending, unpaid>>
bounds  == <<overlap, moves, faults>>
accVars == <<rows, notifs, handler, job, history, bounds>>

Reward == {"invite", "parent", "ads", "profile", "thanks"}

\* A handler: its next statement, whose update it handles, and another user or
\* users it is about.
Doing(pc, u, who, whom) == [pc |-> pc, user |-> u, who |-> who, whom |-> whom]
Resting == Doing("idle", Nobody, Nobody, {})
NoLetter == [status |-> "none", from |-> Nobody, to |-> Nobody, cost |-> "none"]
NoJob == [user |-> Nobody, old |-> 0]

AccInit ==
  /\ member \in SUBSET User
  /\ referral \in [User -> member \cup {Nobody}]
  /\ \A u \in User \ member : referral[u] = Nobody
  /\ ads = {} /\ rich = {} /\ coined = {} /\ away = {}
  /\ balance \in [User -> 0..Gift]
  /\ watch = {} /\ serial = 0 /\ letter = NoLetter
  /\ handler = [p \in Process |-> Resting]
  /\ job = [s \in Instance |-> NoJob]
  /\ paid = [r \in Reward |-> [u \in User |-> 0]]
  /\ ledger = balance
  /\ gifted = {} /\ raced = {} /\ pending = {} /\ unpaid = 0
  /\ overlap = {} /\ moves = 0 /\ faults = 0

Go(p, pc, u, who, whom) == handler' = [handler EXCEPT ![p] = Doing(pc, u, who, whom)]
Done(p) == handler' = [handler EXCEPT ![p] = Resting]

\* Process p can take an update of user u.
Free(p, u) ==
  /\ handler[p].pc = "idle"
  /\ u \in overlap \/ \A q \in Process : handler[q].user # u

\* UPDATE users SET balance=balance+d, for the members among S.
AddBalance(S, d) ==
  /\ balance' = [u \in User |-> IF u \in S \cap member THEN balance[u] + d ELSE balance[u]]
  /\ ledger' = [u \in User |-> IF u \in S \cap member THEN ledger[u] + d ELSE ledger[u]]
  /\ raced' = raced \cup {u \in S : \E s \in Instance : job[s].user = u}

KeepCoins == UNCHANGED <<balance, ledger, raced>>

\* A reward: one coin, for whatever the administrator has set.
Pay(r, u, to) ==
  /\ AddBalance({to}, 1)
  /\ paid' = [paid EXCEPT ![r][u] = @ + 1]

-----------------------------------------------------------------------------
\* handleAuth: /start, with the link of user v, of the advertisement, or plain.
\* A user without a row is new; a known one has nothing to gain.
StartBot(p, u, create, v) ==
  /\ Free(p, u)
  /\ u \notin member
  /\ create = "createAds" => v = Nobody
  /\ Go(p, create, u, v, {})
  /\ UNCHANGED <<rows, notifs, job, history, bounds>>

\* CreateUser, ON CONFLICT DO NOTHING; then the link is looked at.  The link may
\* be that of a user who does not exist, or his own.
CreateUser(p) ==
  LET h == handler[p] IN
  /\ h.pc \in {"create", "createAds"}
  /\ member' = member \cup {h.user}
  /\ IF h.pc = "createAds" THEN Go(p, "ads", h.user, Nobody, {})
     ELSE IF h.who \in member' THEN Go(p, "referral", h.user, h.who, {}) ELSE Done(p)
  /\ UNCHANGED <<referral, ads, rich, coined, balance, away, notifs, job, history, bounds>>

SetReferral(p) ==
  LET h == handler[p] IN
  /\ h.pc = "referral"
  /\ referral' = [referral EXCEPT ![h.user] = h.who]
  /\ Go(p, "invite", h.user, h.who, {})
  /\ UNCHANGED <<member, ads, rich, coined, balance, away, notifs, job, history, bounds>>

\* The inviter's coins, and then those of whoever had invited him.
PayInviter(p) ==
  LET h == handler[p] IN
  /\ h.pc = "invite"
  /\ Pay("invite", h.user, h.who)
  /\ IF referral[h.who] # Nobody THEN Go(p, "parent", h.user, referral[h.who], {}) ELSE Done(p)
  /\ UNCHANGED <<member, referral, ads, rich, coined, away, notifs, job, gifted, pending, unpaid, bounds>>

PayParent(p) ==
  LET h == handler[p] IN
  /\ h.pc = "parent"
  /\ Pay("parent", h.user, h.who)
  /\ Done(p)
  /\ UNCHANGED <<member, referral, ads, rich, coined, away, notifs, job, gifted, pending, unpaid, bounds>>

\* The bonus of the advertisement: WHERE ads_referral=false.
PayAds(p) ==
  LET h == handler[p] IN
  /\ h.pc = "ads"
  /\ IF h.user \in ads THEN KeepCoins /\ UNCHANGED <<paid, ads>>
     ELSE Pay("ads", h.user, h.user) /\ ads' = ads \cup {h.user}
  /\ Done(p)
  /\ UNCHANGED <<member, referral, rich, coined, away, notifs, job, gifted, pending, unpaid, bounds>>

\* resolveDelivery of any instance creates the row of a user who has none.
CreateForDelivery(u) ==
  /\ u \notin member
  /\ member' = member \cup {u}
  /\ UNCHANGED <<referral, ads, rich, coined, balance, away, notifs, handler, job, history, bounds>>

-----------------------------------------------------------------------------
\* handleProfileEditInput: the last missing part of the profile is filled in, or
\* a part is changed.
EditProfile(p, u) ==
  /\ Free(p, u) /\ u \in member
  /\ rich' = rich \cup {u}
  /\ Go(p, "check", u, Nobody, {})
  /\ UNCHANGED <<member, referral, ads, coined, balance, away, notifs, job, history, bounds>>

\* The wrong check, that does not look at is_coin_comprof.
CheckProfileOnly(p) ==
  LET h == handler[p] IN
  /\ h.pc = "check"
  /\ IF h.user \in rich THEN Go(p, "coin", h.user, Nobody, {}) ELSE Done(p)
  /\ UNCHANGED <<rows, notifs, job, history, bounds>>

\* checkProfileCoin: the row is read, ...
CheckProfileCoin(p) ==
  LET h == handler[p] IN
  /\ h.pc = "check"
  /\ IF h.user \in rich \ coined THEN Go(p, "coin", h.user, referral[h.user], {}) ELSE Done(p)
  /\ UNCHANGED <<rows, notifs, job, history, bounds>>

\* ... coins and flag are written in one statement, and the inviter is thanked.
PayProfile(p) ==
  LET h == handler[p] IN
  /\ h.pc = "coin"
  /\ Pay("profile", h.user, h.user)
  /\ coined' = coined \cup {h.user}
  /\ IF h.who # Nobody THEN Go(p, "thanks", h.user, h.who, {}) ELSE Done(p)
  /\ UNCHANGED <<member, referral, ads, rich, away, notifs, job, gifted, pending, unpaid, bounds>>

PayThanks(p) ==
  LET h == handler[p] IN
  /\ h.pc = "thanks"
  /\ Pay("thanks", h.user, h.who)
  /\ Done(p)
  /\ UNCHANGED <<member, referral, ads, rich, coined, away, notifs, job, gifted, pending, unpaid, bounds>>

-----------------------------------------------------------------------------
\* gibSimpleNotif, onlinenotif: no such row yet, and a coin to pay with.
AskNews(p, u, v) ==
  /\ Free(p, u) /\ {u, v} \subseteq member /\ u # v
  /\ \A w \in watch : ~(w.by = u /\ w.on = v)
  /\ balance[u] >= 1
  /\ Go(p, "watch", u, v, {})
  /\ UNCHANGED <<rows, notifs, job, history, bounds>>

InsertWatch(p) ==
  LET h == handler[p] IN
  /\ h.pc = "watch"
  /\ LET w == [id |-> serial + 1, by |-> h.user, on |-> h.who] IN
     watch' = watch \cup {w} /\ pending' = pending \cup {w}
  /\ serial' = serial + 1
  /\ Go(p, "charge", h.user, Nobody, {})
  /\ UNCHANGED <<rows, letter, job, paid, ledger, gifted, raced, unpaid, bounds>>

Charge(p) ==
  LET h == handler[p] IN
  /\ h.pc = "charge"
  /\ AddBalance({h.user}, -1)
  /\ Done(p)
  /\ UNCHANGED <<member, referral, ads, rich, coined, away, notifs, job, paid, gifted, pending, unpaid, bounds>>

First(W) == CHOOSE w \in W : \A x \in W : w.id <= x.id

\* afterUserOnline: any update of a user makes him active; the rows of those who
\* watch him are read, ...
ComeOnline(p, v) ==
  /\ Free(p, v) /\ v \in member
  /\ away' = away \ {v}
  /\ LET S == {w \in watch : w.on = v} IN
     IF S = {} THEN Done(p) ELSE Go(p, "tell", v, Nobody, S)
  /\ UNCHANGED <<member, referral, ads, rich, coined, balance, notifs, job, history, bounds>>

\* The wrong order: the row is deleted before its owner is told.
TellLate(p) ==
  LET h == handler[p]
      w == First(h.whom)
  IN
  /\ h.pc \in {"tell", "forget"}
  /\ IF h.pc = "tell"
     THEN /\ Go(p, "forget", h.user, Nobody, h.whom)
          /\ watch' = watch \ {w} /\ UNCHANGED pending
     ELSE /\ IF h.whom = {w} THEN Done(p) ELSE Go(p, "tell", h.user, Nobody, h.whom \ {w})
          /\ pending' = pending \ {w} /\ UNCHANGED watch
  /\ UNCHANGED <<rows, serial, letter, job, paid, ledger, gifted, raced, unpaid, bounds>>

\* ... and one after the other is told and then his row deleted.
Tell(p) ==
  LET h == handler[p]
      w == First(h.whom)
  IN
  /\ h.pc \in {"tell", "forget"}
  /\ IF h.pc = "tell"
     THEN /\ Go(p, "forget", h.user, Nobody, h.whom)
          /\ pending' = pending \ {w} /\ UNCHANGED watch
     ELSE /\ IF h.whom = {w} THEN Done(p) ELSE Go(p, "tell", h.user, Nobody, h.whom \ {w})
          /\ watch' = watch \ {w} /\ UNCHANGED pending
  /\ UNCHANGED <<rows, serial, letter, job, paid, ledger, gifted, raced, unpaid, bounds>>

-----------------------------------------------------------------------------
\* gibDirectInput: a preview, at the sender's cost ("none", he has a coin) or at
\* the receiver's ("wc").
WriteLetter(p, u, v, cost) ==
  /\ Free(p, u) /\ {u, v} \subseteq member /\ u # v
  /\ cost = "none" => balance[u] >= 1
  /\ letter.status = "none"
  /\ letter' = [status |-> "doing", from |-> u, to |-> v, cost |-> cost]
  /\ UNCHANGED <<rows, watch, serial, handler, job, history, bounds>>

\* gibDirectSend: the button under the preview, which may be pressed again while
\* the row exists.
PressSend(p) ==
  /\ letter.status \in {"doing", "end"} /\ Free(p, letter.from)
  /\ letter' = [letter EXCEPT !.status = "end"]
  /\ IF letter.cost = "none" THEN Go(p, "stamp", letter.from, letter.to, {})
     ELSE Done(p)
  /\ moves < MaxMoves /\ moves' = moves + 1
  /\ UNCHANGED <<rows, watch, serial, job, history, overlap, faults>>

\* The wrong order: first the letter, then the coin.
StampLater(p) ==
  LET h == handler[p] IN
  /\ h.pc \in {"stamp", "post"}
  /\ IF h.pc = "stamp"
     THEN unpaid' = unpaid + 1 /\ Go(p, "post", h.user, h.who, {}) /\ KeepCoins
     ELSE unpaid' = unpaid - 1 /\ Done(p) /\ AddBalance({h.user}, -1)
  /\ UNCHANGED <<member, referral, ads, rich, coined, away, notifs, job, paid, gifted, pending, bounds>>

\* gibDirectSend and gibDirectGet: whoever pays is charged, whatever is left of
\* his balance, and then the message is delivered.
Stamp(p) ==
  LET h == handler[p] IN
  /\ h.pc \in {"stamp", "post"}
  /\ IF h.pc = "stamp"
     THEN unpaid' = unpaid - 1 /\ Go(p, "post", h.user, h.who, {}) /\ AddBalance({h.user}, -1)
     ELSE unpaid' = unpaid + 1 /\ Done(p) /\ KeepCoins
  /\ UNCHANGED <<member, referral, ads, rich, coined, away, notifs, job, paid, gifted, pending, bounds>>

\* gibDirectGet: the receiver of a message at his cost opens it, if the row still
\* exists and he has a coin.
OpenLetter(p) ==
  /\ letter.status = "end" /\ letter.cost = "wc" /\ Free(p, letter.to)
  /\ balance[letter.to] >= 1
  /\ Go(p, "stamp", letter.to, letter.from, {})
  /\ moves < MaxMoves /\ moves' = moves + 1
  /\ UNCHANGED <<rows, notifs, job, history, overlap, faults>>

\* RunOnce deletes rows of notif that have come to their end.
PurgeLetters ==
  /\ letter.status = "end"
  /\ letter' = [letter EXCEPT !.status = "gone"]
  /\ UNCHANGED <<rows, watch, serial, handler, job, history, bounds>>

-----------------------------------------------------------------------------
\* Three days without an update.
Leave(u) ==
  /\ u \in member \ away
  /\ \A p \in Process : handler[p].user # u
  /\ \A s \in Instance : job[s].user # u
  /\ away' = away \cup {u}
  /\ gifted' = gifted \ {u}
  /\ UNCHANGED <<member, referral, ads, rich, coined, balance, notifs, handler, job,
                 paid, ledger, raced, pending, unpaid, bounds>>

\* inactiveUsers: the balance is read ...
SelectInactive(s, u) ==
  /\ job[s] = NoJob /\ u \in away
  /\ job' = [job EXCEPT ![s] = [user |-> u, old |-> balance[u]]]
  /\ UNCHANGED <<rows, notifs, handler, history, bounds>>

\* The gift of the present absence, in the ledger.
Granted(u, old) == IF old < Gift /\ u \notin gifted THEN Gift ELSE 0

\* The wrong gift: added to whatever the balance is now.
GiveAgain(s) ==
  LET j == job[s] IN
  /\ j # NoJob
  /\ balance' = [balance EXCEPT ![j.user] = IF j.old < Gift THEN @ + Gift ELSE @]
  /\ ledger' = [ledger EXCEPT ![j.user] = @ + Granted(j.user, j.old)]
  /\ gifted' = IF j.old < Gift THEN gifted \cup {j.user} ELSE gifted
  /\ away' = away \ {j.user}
  /\ job' = [job EXCEPT ![s] = NoJob]
  /\ UNCHANGED <<member, referral, ads, rich, coined, notifs, handler, paid, raced, pending, unpaid, bounds>>

\* ... and, when the message to the user has been sent, written back with the gift.
GiveGift(s) ==
  LET j == job[s] IN
  /\ j # NoJob
  /\ balance' = [balance EXCEPT ![j.user] = IF j.old < Gift THEN j.old + Gift ELSE j.old]
  /\ ledger' = [ledger EXCEPT ![j.user] = @ + Granted(j.user, j.old)]
  /\ gifted' = IF j.old < Gift THEN gifted \cup {j.user} ELSE gifted
  /\ away' = away \ {j.user}
  /\ job' = [job EXCEPT ![s] = NoJob]
  /\ UNCHANGED <<member, referral, ads, rich, coined, notifs, handler, paid, raced, pending, unpaid, bounds>>

\* coin_all of the administrator, and coins bought or spent elsewhere.
GiveAll ==
  /\ moves < MaxMoves
  /\ moves' = moves + 1
  /\ AddBalance(User, 1)
  /\ UNCHANGED <<member, referral, ads, rich, coined, away, notifs, handler, job,
                 paid, gifted, pending, unpaid, overlap, faults>>

Earn(u, d) ==
  /\ moves < MaxMoves
  /\ moves' = moves + 1
  /\ AddBalance({u}, d)
  /\ UNCHANGED <<member, referral, ads, rich, coined, away, notifs, handler, job,
                 paid, gifted, pending, unpaid, overlap, faults>>

\* A handler dies.
DieHandler(p) ==
  /\ handler[p].pc # "idle"
  /\ faults < MaxFaults /\ faults' = faults + 1
  /\ Done(p)
  /\ UNCHANGED <<rows, notifs, job, history, overlap, moves>>

\* The lock of a user expires while his handler runs, so that his next update is
\* handled at the same time.
LoseLock(u) ==
  /\ u \notin overlap
  /\ \E p \in Process : handler[p].user = u
  /\ faults < MaxFaults /\ faults' = faults + 1
  /\ overlap' = overlap \cup {u}
  /\ UNCHANGED <<rows, notifs, handler, job, history, moves>>

HandlerStep(p) ==
  \/ CreateUser(p) \/ SetReferral(p) \/ PayInviter(p) \/ PayParent(p) \/ PayAds(p)
  \/ CheckProfileCoin(p) \/ PayProfile(p) \/ PayThanks(p)
  \/ InsertWatch(p) \/ Charge(p) \/ Tell(p) \/ Stamp(p)

\* What people do: they come, fill in a profile, ask for news, write, stay away.
Joining ==
  \/ \E p \in Process, u \in User, v \in User \cup {Nobody}, c \in {"create", "createAds"} :
        StartBot(p, u, c, v)
  \/ \E u \in User : CreateForDelivery(u)
  \/ \E p \in Process, u \in User : EditProfile(p, u)

Watching ==
  \/ \E p \in Process, u, v \in User : AskNews(p, u, v)
  \/ \E p \in Process, v \in User : ComeOnline(p, v)

Writing ==
  \/ \E p \in Process, u, v \in User, c \in {"none", "wc"} : WriteLetter(p, u, v, c)
  \/ \E p \in Process : PressSend(p) \/ OpenLetter(p)
  \/ PurgeLetters

StayingAway ==
  \/ \E u \in User : Leave(u)
  \/ \E s \in Instance : GiveGift(s) \/ \E u \in User : SelectInactive(s, u)
  \/ GiveAll
  \/ \E u \in member, d \in {1, -1} : Earn(u, d)

Accidents ==
  \/ \E p \in Process : DieHandler(p)
  \/ \E u \in User : LoseLock(u)

AccNext ==
  \/ \E p \in Process : HandlerStep(p)
  \/ Joining \/ Watching \/ Writing \/ StayingAway \/ Accidents

AccSpec == AccInit /\ [][AccNext]_accVars

\* Handlers go on, and everybody writes to the bot again and again.
AccFairness ==
  /\ \A p \in Process : WF_accVars(HandlerStep(p))
  /\ \A v \in User : SF_accVars(\E p \in Process : ComeOnline(p, v))

-----------------------------------------------------------------------------
Watch == [id : Nat, by : User, on : User]

\* The types of the state.
AccTypeOK ==
  /\ member \subseteq User /\ ads \subseteq User /\ rich \subseteq User
  /\ coined \subseteq User /\ away \subseteq User
  /\ referral \in [User -> User \cup {Nobody}]
  /\ balance \in [User -> Int] /\ ledger \in [User -> Int]
  /\ serial \in Nat
  /\ watch \subseteq Watch /\ pending \subseteq Watch
  /\ letter \in [status : {"none", "doing", "end", "gone"}, from : User \cup {Nobody},
                 to : User \cup {Nobody}, cost : {"none", "wc"}]
  /\ handler \in [Process -> [pc : {"idle", "create", "createAds", "referral", "invite", "parent", "ads",
                                    "check", "coin", "thanks", "watch", "charge", "tell", "forget",
                                    "stamp", "post"},
                              user : User \cup {Nobody}, who : User \cup {Nobody},
                              whom : SUBSET Watch]]
  /\ job \in [Instance -> [user : User \cup {Nobody}, old : Int]]
  /\ paid \in [Reward -> [User -> Nat]]
  /\ gifted \subseteq User /\ raced \subseteq User /\ overlap \subseteq User
  /\ unpaid \in Int
  /\ moves \in 0..MaxMoves /\ faults \in 0..MaxFaults

\* The bonus of the advertisement is paid at most once, even when the user's lock
\* is lost and two handlers pay it: the statement itself looks for the flag.
AdsOnce == \A u \in User : paid["ads"][u] <= 1

\* Every reward for a user - to his inviter, to the inviter's inviter, to himself
\* for his profile and to the inviter for that - is paid at most once, whoever
\* else creates his row and wherever a handler dies, as long as his lock holds;
\* the bonus of the advertisement even when it does not.
RewardsOnce ==
  /\ AdsOnce
  /\ \A r \in Reward, u \in User \ overlap : paid[r][u] <= 1

\* A balance is what was earned, given and spent, with one gift per absence even
\* if the jobs of several instances find the same user - except where coins moved
\* between a job's read and its write, which undoes the movement.
CoinsAccounted == \A u \in User \ raced : balance[u] = ledger[u]

\* No direct message is delivered that has not been paid for, however often the
\* button is pressed and wherever a handler dies.
NoFreeLetter == unpaid <= 0

\* Once nobody has a coin left to ask with, nobody who asked for the news that
\* somebody is online is left without it.
NewsFollows == <>[](pending = {})
=============================================================================
