--------------------------- MODULE AccountsProofs ---------------------------
(***************************************************************************)
(* Proofs about Accounts, for any number of users, handlers and instances, *)
(* whatever people do at the same time and wherever handlers die.          *)
(***************************************************************************)
EXTENDS Accounts, FiniteSetTheorems, TLAPS

-----------------------------------------------------------------------------
(* Types.                                                                  *)

Pc == {"idle", "create", "createAds", "referral", "invite", "parent", "ads", "check", "coin",
       "thanks", "watch", "charge", "tell", "forget", "stamp", "post"}
Hand == [pc : Pc, user : User \cup {Nobody}, who : User \cup {Nobody}, whom : SUBSET Watch]

\* A busy handler is about a user, and one about to pay or watch somebody names
\* him.
NamedHand(h) ==
  /\ h \in Hand
  /\ h.pc # "idle" => h.user \in User
  /\ h.pc \in {"referral", "invite", "parent", "thanks", "watch"} => h.who \in User

RowTypes ==
  /\ member \subseteq User /\ ads \subseteq User /\ rich \subseteq User
  /\ coined \subseteq User /\ away \subseteq User
  /\ referral \in [User -> User \cup {Nobody}]
  /\ balance \in [User -> Int] /\ ledger \in [User -> Int]
  /\ paid \in [Reward -> [User -> Nat]]
  /\ gifted \subseteq User /\ raced \subseteq User
  /\ unpaid \in Int

\* A letter that can be sent or opened names its two users.
NotifTypes ==
  /\ serial \in Nat
  /\ watch \subseteq Watch /\ pending \subseteq Watch
  /\ letter \in [status : {"none", "doing", "end", "gone"}, from : User \cup {Nobody},
                 to : User \cup {Nobody}, cost : {"none", "wc"}]
  /\ letter.status \in {"doing", "end"} => letter.from \in User /\ letter.to \in User

\* A job that has read a balance is about a user.
JobTypes ==
  /\ job \in [Instance -> [user : User \cup {Nobody}, old : Int]]
  /\ \A s \in Instance : job[s] = NoJob \/ job[s].user \in User

BoundTypes == overlap \subseteq User /\ moves \in 0..MaxMoves /\ faults \in 0..MaxFaults
HandTypes == handler \in [Process -> Hand] /\ \A p \in Process : NamedHand(handler[p])

\* The types, and who the handlers, the letter and the jobs are about: inductive.
IndTypes == RowTypes /\ NotifTypes /\ JobTypes /\ BoundTypes /\ HandTypes

LEMMA TypesAreRight == IndTypes => AccTypeOK
BY DEF IndTypes, AccTypeOK, RowTypes, NotifTypes, JobTypes, BoundTypes, HandTypes, Hand, Pc

\* The conjuncts about handlers survive a step that moves one handler.
LEMMA MovesHand ==
    ASSUME HandTypes, NEW p \in Process, NEW h, NamedHand(h), handler' = [handler EXCEPT ![p] = h]
    PROVE  handler' \in [Process -> Hand] /\ \A q \in Process : NamedHand(handler'[q])
BY DEF NamedHand, HandTypes

LEMMA RestingIsNamed == NamedHand(Resting)
BY DEF NamedHand, Hand, Pc, Resting, Doing

LEMMA DoingIsNamed ==
    ASSUME NEW pc \in Pc, NEW u \in User, NEW v \in User \cup {Nobody}, NEW W \in SUBSET Watch,
           pc \in {"referral", "invite", "parent", "thanks", "watch"} => v \in User
    PROVE  NamedHand(Doing(pc, u, v, W))
BY DEF NamedHand, Hand, Doing

LEMMA TypesInit == AccInit => IndTypes
<1> SUFFICES ASSUME AccInit PROVE IndTypes
  OBVIOUS
<1>1. RowTypes
  <2>1. balance \in [User -> Int] /\ ledger \in [User -> Int]
    BY AccountsAssumption DEF AccInit
  <2>2. paid \in [Reward -> [User -> Nat]]
    BY DEF AccInit
  <2> QED
    BY <2>1, <2>2 DEF AccInit, RowTypes
<1>2. NotifTypes
  BY DEF AccInit, NotifTypes, NoLetter
<1>3. JobTypes
  BY DEF AccInit, JobTypes, NoJob
<1>4. BoundTypes
  BY AccountsAssumption DEF AccInit, BoundTypes
<1>5. HandTypes
  BY RestingIsNamed DEF AccInit, HandTypes, NamedHand
<1> QED
  BY <1>1, <1>2, <1>3, <1>4, <1>5 DEF IndTypes

LEMMA AddTypes ==
    ASSUME RowTypes, NEW S, NEW d \in Int, AddBalance(S, d)
    PROVE  balance' \in [User -> Int] /\ ledger' \in [User -> Int] /\ raced' \subseteq raced \cup S
<1>1. \A u \in User : balance[u] + d \in Int /\ ledger[u] + d \in Int
  BY DEF RowTypes
<1> QED
  BY <1>1 DEF AddBalance, RowTypes

LEMMA PayTypes ==
    ASSUME RowTypes, NEW r \in Reward, NEW u \in User, NEW to \in User, Pay(r, u, to)
    PROVE  /\ balance' \in [User -> Int] /\ ledger' \in [User -> Int] /\ raced' \subseteq User
           /\ paid' \in [Reward -> [User -> Nat]]
<1>1. AddBalance({to}, 1) /\ paid' = [paid EXCEPT ![r][u] = @ + 1]
  BY DEF Pay
<1>2. balance' \in [User -> Int] /\ ledger' \in [User -> Int] /\ raced' \subseteq User
  BY <1>1, AddTypes DEF RowTypes
<1>3. paid' \in [Reward -> [User -> Nat]]
  BY <1>1 DEF RowTypes
<1> QED
  BY <1>2, <1>3

LEMMA GoTypes ==
    ASSUME HandTypes, NEW p \in Process, NEW pc \in Pc, NEW u \in User, NEW v \in User \cup {Nobody},
           NEW W \in SUBSET Watch,
           pc \in {"referral", "invite", "parent", "thanks", "watch"} => v \in User,
           Go(p, pc, u, v, W)
    PROVE  HandTypes'
<1>1. NamedHand(Doing(pc, u, v, W))
  BY DoingIsNamed
<1> QED
  BY <1>1, MovesHand DEF Go, HandTypes, NamedHand

LEMMA DoneTypes ==
    ASSUME HandTypes, NEW p \in Process, Done(p)
    PROVE  HandTypes'
BY RestingIsNamed, MovesHand DEF Done, HandTypes, NamedHand

\* What a busy handler is about.
LEMMA Busy ==
    ASSUME IndTypes, NEW p \in Process, handler[p].pc # "idle"
    PROVE  /\ handler[p].user \in User /\ handler[p].who \in User \cup {Nobody}
           /\ handler[p].whom \subseteq Watch
           /\ handler[p].pc \in {"referral", "invite", "parent", "thanks", "watch"} =>
                 handler[p].who \in User
BY DEF IndTypes, HandTypes, NamedHand, Hand

LEMMA StartBotTypes ==
    ASSUME IndTypes, NEW p \in Process, NEW u \in User, NEW c \in {"create", "createAds"},
           NEW v \in User \cup {Nobody}, StartBot(p, u, c, v)
    PROVE  IndTypes'
<1>1. RowTypes'
  BY DEF IndTypes, RowTypes, StartBot, rows, notifs, history, bounds
<1>2. NotifTypes'
  BY DEF IndTypes, NotifTypes, StartBot, rows, notifs, history, bounds
<1>3. JobTypes'
  BY DEF IndTypes, JobTypes, StartBot, rows, notifs, history, bounds
<1>4. BoundTypes'
  BY AccountsAssumption DEF IndTypes, BoundTypes, StartBot, rows, notifs, history, bounds
<1>5. HandTypes'
  <2>1. c \in Pc /\ c \notin {"referral", "invite", "parent", "thanks", "watch"} /\ {} \subseteq Watch
    BY DEF Pc
  <2>2. HandTypes /\ Go(p, c, u, v, {})
    BY DEF IndTypes, StartBot
  <2> QED
    BY <2>1, <2>2, GoTypes
<1> QED
  BY <1>1, <1>2, <1>3, <1>4, <1>5 DEF IndTypes


LEMMA CreateUserTypes ==
    ASSUME IndTypes, NEW p \in Process, CreateUser(p)
    PROVE  IndTypes'
<1>0. /\ handler[p].user \in User /\ handler[p].who \in User \cup {Nobody}
      /\ handler[p].whom \subseteq Watch
      /\ handler[p].pc \in {"referral", "invite", "parent", "thanks", "watch"} =>
           handler[p].who \in User
  BY Busy DEF CreateUser
<1>1. RowTypes'
  BY <1>0 DEF IndTypes, RowTypes, CreateUser, rows, history
<1>2. NotifTypes'
  BY DEF IndTypes, NotifTypes, CreateUser, rows, notifs, history, bounds
<1>3. JobTypes'
  BY DEF IndTypes, JobTypes, CreateUser, rows, notifs, history, bounds
<1>4. BoundTypes'
  BY AccountsAssumption DEF IndTypes, BoundTypes, CreateUser, rows, notifs, history, bounds
<1>5. HandTypes'
  <2>0. HandTypes /\ {} \subseteq Watch
    BY DEF IndTypes
  <2>1. CASE handler[p].pc = "createAds"
    <3>1. Go(p, "ads", handler[p].user, Nobody, {})
      BY <2>1 DEF CreateUser
    <3>2. "ads" \in Pc
      BY DEF Pc
    <3> QED
      BY <1>0, <2>0, <3>1, <3>2, GoTypes
  <2>2. CASE handler[p].pc # "createAds" /\ handler[p].who \in member'
    BY <1>0, <2>0, <2>2, <1>1, GoTypes DEF Pc, RowTypes, CreateUser
  <2>3. CASE handler[p].pc # "createAds" /\ handler[p].who \notin member'
    BY <1>0, <2>0, <2>3, DoneTypes DEF CreateUser
  <2> QED
    BY <2>1, <2>2, <2>3
<1> QED
  BY <1>1, <1>2, <1>3, <1>4, <1>5 DEF IndTypes


LEMMA SetReferralTypes ==
    ASSUME IndTypes, NEW p \in Process, SetReferral(p)
    PROVE  IndTypes'
<1>0. /\ handler[p].user \in User /\ handler[p].who \in User \cup {Nobody}
      /\ handler[p].whom \subseteq Watch
      /\ handler[p].pc \in {"referral", "invite", "parent", "thanks", "watch"} =>
           handler[p].who \in User
  BY Busy DEF SetReferral
<1>1. RowTypes'
  BY <1>0 DEF IndTypes, RowTypes, SetReferral, rows, history
<1>2. NotifTypes'
  BY DEF IndTypes, NotifTypes, SetReferral, rows, notifs, history, bounds
<1>3. JobTypes'
  BY DEF IndTypes, JobTypes, SetReferral, rows, notifs, history, bounds
<1>4. BoundTypes'
  BY AccountsAssumption DEF IndTypes, BoundTypes, SetReferral, rows, notifs, history, bounds
<1>5. HandTypes'
  BY <1>0, GoTypes, DoneTypes DEF IndTypes, Pc, RowTypes, SetReferral
<1> QED
  BY <1>1, <1>2, <1>3, <1>4, <1>5 DEF IndTypes


LEMMA PayInviterTypes ==
    ASSUME IndTypes, NEW p \in Process, PayInviter(p)
    PROVE  IndTypes'
<1>0. /\ handler[p].user \in User /\ handler[p].who \in User \cup {Nobody}
      /\ handler[p].whom \subseteq Watch
      /\ handler[p].pc \in {"referral", "invite", "parent", "thanks", "watch"} =>
           handler[p].who \in User
  BY Busy DEF PayInviter
<1>1. RowTypes'
  BY <1>0, PayTypes DEF IndTypes, Reward, RowTypes, PayInviter
<1>2. NotifTypes'
  BY DEF IndTypes, NotifTypes, PayInviter, rows, notifs, history, bounds
<1>3. JobTypes'
  BY DEF IndTypes, JobTypes, PayInviter, rows, notifs, history, bounds
<1>4. BoundTypes'
  BY AccountsAssumption DEF IndTypes, BoundTypes, PayInviter, rows, notifs, history, bounds
<1>5. HandTypes'
  BY <1>0, GoTypes, DoneTypes DEF IndTypes, Pc, RowTypes, PayInviter
<1> QED
  BY <1>1, <1>2, <1>3, <1>4, <1>5 DEF IndTypes


LEMMA PayParentTypes ==
    ASSUME IndTypes, NEW p \in Process, PayParent(p)
    PROVE  IndTypes'
<1>0. /\ handler[p].user \in User /\ handler[p].who \in User \cup {Nobody}
      /\ handler[p].whom \subseteq Watch
      /\ handler[p].pc \in {"referral", "invite", "parent", "thanks", "watch"} =>
           handler[p].who \in User
  BY Busy DEF PayParent
<1>1. RowTypes'
  BY <1>0, PayTypes DEF IndTypes, Reward, RowTypes, PayParent
<1>2. NotifTypes'
  BY DEF IndTypes, NotifTypes, PayParent, rows, notifs, history, bounds
<1>3. JobTypes'
  BY DEF IndTypes, JobTypes, PayParent, rows, notifs, history, bounds
<1>4. BoundTypes'
  BY AccountsAssumption DEF IndTypes, BoundTypes, PayParent, rows, notifs, history, bounds
<1>5. HandTypes'
  BY <1>0, GoTypes, DoneTypes DEF IndTypes, Pc, RowTypes, PayParent
<1> QED
  BY <1>1, <1>2, <1>3, <1>4, <1>5 DEF IndTypes


LEMMA PayAdsTypes ==
    ASSUME IndTypes, NEW p \in Process, PayAds(p)
    PROVE  IndTypes'
<1>0. /\ handler[p].user \in User /\ handler[p].who \in User \cup {Nobody}
      /\ handler[p].whom \subseteq Watch
      /\ handler[p].pc \in {"referral", "invite", "parent", "thanks", "watch"} =>
           handler[p].who \in User
  BY Busy DEF PayAds
<1>1. RowTypes'
  BY <1>0, PayTypes DEF IndTypes, Reward, RowTypes, PayAds, KeepCoins
<1>2. NotifTypes'
  BY DEF IndTypes, NotifTypes, PayAds, rows, notifs, history, bounds
<1>3. JobTypes'
  BY DEF IndTypes, JobTypes, PayAds, rows, notifs, history, bounds
<1>4. BoundTypes'
  BY AccountsAssumption DEF IndTypes, BoundTypes, PayAds, rows, notifs, history, bounds
<1>5. HandTypes'
  BY <1>0, GoTypes, DoneTypes DEF IndTypes, Pc, RowTypes, PayAds
<1> QED
  BY <1>1, <1>2, <1>3, <1>4, <1>5 DEF IndTypes


LEMMA CreateForDeliveryTypes ==
    ASSUME IndTypes, NEW u \in User, CreateForDelivery(u)
    PROVE  IndTypes'
<1>1. RowTypes'
  BY DEF IndTypes, RowTypes, CreateForDelivery, rows, notifs, history, bounds
<1>2. NotifTypes'
  BY DEF IndTypes, NotifTypes, CreateForDelivery, rows, notifs, history, bounds
<1>3. JobTypes'
  BY DEF IndTypes, JobTypes, CreateForDelivery, rows, notifs, history, bounds
<1>4. BoundTypes'
  BY AccountsAssumption DEF IndTypes, BoundTypes, CreateForDelivery, rows, notifs, history, bounds
<1>5. HandTypes'
  BY DEF IndTypes, HandTypes, CreateForDelivery, rows, notifs, history, bounds
<1> QED
  BY <1>1, <1>2, <1>3, <1>4, <1>5 DEF IndTypes


LEMMA EditProfileTypes ==
    ASSUME IndTypes, NEW p \in Process, NEW u \in User, EditProfile(p, u)
    PROVE  IndTypes'
<1>1. RowTypes'
  BY DEF IndTypes, RowTypes, EditProfile, rows, notifs, history, bounds
<1>2. NotifTypes'
  BY DEF IndTypes, NotifTypes, EditProfile, rows, notifs, history, bounds
<1>3. JobTypes'
  BY DEF IndTypes, JobTypes, EditProfile, rows, notifs, history, bounds
<1>4. BoundTypes'
  BY AccountsAssumption DEF IndTypes, BoundTypes, EditProfile, rows, notifs, history, bounds
<1>5. HandTypes'
  BY SMTT(20), GoTypes DEF IndTypes, Pc, EditProfile
<1> QED
  BY <1>1, <1>2, <1>3, <1>4, <1>5 DEF IndTypes


LEMMA CheckProfileCoinTypes ==
    ASSUME IndTypes, NEW p \in Process, CheckProfileCoin(p)
    PROVE  IndTypes'
<1>0. /\ handler[p].user \in User /\ handler[p].who \in User \cup {Nobody}
      /\ handler[p].whom \subseteq Watch
      /\ handler[p].pc \in {"referral", "invite", "parent", "thanks", "watch"} =>
           handler[p].who \in User
  BY Busy DEF CheckProfileCoin
<1>1. RowTypes'
  BY DEF IndTypes, RowTypes, CheckProfileCoin, rows, notifs, history, bounds
<1>2. NotifTypes'
  BY DEF IndTypes, NotifTypes, CheckProfileCoin, rows, notifs, history, bounds
<1>3. JobTypes'
  BY DEF IndTypes, JobTypes, CheckProfileCoin, rows, notifs, history, bounds
<1>4. BoundTypes'
  BY AccountsAssumption DEF IndTypes, BoundTypes, CheckProfileCoin, rows, notifs, history, bounds
<1>5. HandTypes'
  <2>0. HandTypes /\ {} \subseteq Watch
    BY DEF IndTypes
  <2>1. CASE handler[p].user \in rich \ coined
    <3>1. Go(p, "coin", handler[p].user, referral[handler[p].user], {})
      BY <2>1 DEF CheckProfileCoin
    <3>2. "coin" \in Pc /\ referral[handler[p].user] \in User \cup {Nobody}
      BY <1>0 DEF Pc, IndTypes, RowTypes
    <3> QED
      BY <1>0, <2>0, <3>1, <3>2, GoTypes
  <2>2. CASE handler[p].user \notin rich \ coined
    BY <1>0, <2>0, <2>2, DoneTypes DEF CheckProfileCoin
  <2> QED
    BY <2>1, <2>2
<1> QED
  BY <1>1, <1>2, <1>3, <1>4, <1>5 DEF IndTypes


LEMMA PayProfileTypes ==
    ASSUME IndTypes, NEW p \in Process, PayProfile(p)
    PROVE  IndTypes'
<1>0. /\ handler[p].user \in User /\ handler[p].who \in User \cup {Nobody}
      /\ handler[p].whom \subseteq Watch
      /\ handler[p].pc \in {"referral", "invite", "parent", "thanks", "watch"} =>
           handler[p].who \in User
  BY Busy DEF PayProfile
<1>1. RowTypes'
  BY <1>0, PayTypes DEF IndTypes, Reward, RowTypes, PayProfile
<1>2. NotifTypes'
  BY DEF IndTypes, NotifTypes, PayProfile, rows, notifs, history, bounds
<1>3. JobTypes'
  BY DEF IndTypes, JobTypes, PayProfile, rows, notifs, history, bounds
<1>4. BoundTypes'
  BY AccountsAssumption DEF IndTypes, BoundTypes, PayProfile, rows, notifs, history, bounds
<1>5. HandTypes'
  BY <1>0, GoTypes, DoneTypes DEF IndTypes, Pc, RowTypes, PayProfile
<1> QED
  BY <1>1, <1>2, <1>3, <1>4, <1>5 DEF IndTypes


LEMMA PayThanksTypes ==
    ASSUME IndTypes, NEW p \in Process, PayThanks(p)
    PROVE  IndTypes'
<1>0. /\ handler[p].user \in User /\ handler[p].who \in User \cup {Nobody}
      /\ handler[p].whom \subseteq Watch
      /\ handler[p].pc \in {"referral", "invite", "parent", "thanks", "watch"} =>
           handler[p].who \in User
  BY Busy DEF PayThanks
<1>1. RowTypes'
  BY <1>0, PayTypes DEF IndTypes, Reward, RowTypes, PayThanks
<1>2. NotifTypes'
  BY DEF IndTypes, NotifTypes, PayThanks, rows, notifs, history, bounds
<1>3. JobTypes'
  BY DEF IndTypes, JobTypes, PayThanks, rows, notifs, history, bounds
<1>4. BoundTypes'
  BY AccountsAssumption DEF IndTypes, BoundTypes, PayThanks, rows, notifs, history, bounds
<1>5. HandTypes'
  BY <1>0, GoTypes, DoneTypes DEF IndTypes, Pc, RowTypes, PayThanks
<1> QED
  BY <1>1, <1>2, <1>3, <1>4, <1>5 DEF IndTypes


LEMMA AskNewsTypes ==
    ASSUME IndTypes, NEW p \in Process, NEW u \in User, NEW v \in User, AskNews(p, u, v)
    PROVE  IndTypes'
<1>1. RowTypes'
  BY DEF IndTypes, RowTypes, AskNews, rows, notifs, history, bounds
<1>2. NotifTypes'
  BY DEF IndTypes, NotifTypes, AskNews, rows, notifs, history, bounds
<1>3. JobTypes'
  BY DEF IndTypes, JobTypes, AskNews, rows, notifs, history, bounds
<1>4. BoundTypes'
  BY AccountsAssumption DEF IndTypes, BoundTypes, AskNews, rows, notifs, history, bounds
<1>5. HandTypes'
  BY GoTypes DEF IndTypes, Pc, AskNews
<1> QED
  BY <1>1, <1>2, <1>3, <1>4, <1>5 DEF IndTypes


LEMMA InsertWatchTypes ==
    ASSUME IndTypes, NEW p \in Process, InsertWatch(p)
    PROVE  IndTypes'
<1>0. /\ handler[p].user \in User /\ handler[p].who \in User \cup {Nobody}
      /\ handler[p].whom \subseteq Watch
      /\ handler[p].pc \in {"referral", "invite", "parent", "thanks", "watch"} =>
           handler[p].who \in User
  BY Busy DEF InsertWatch
<1>1. RowTypes'
  BY DEF IndTypes, RowTypes, InsertWatch, rows, notifs, history, bounds
<1>2. NotifTypes'
  BY <1>0 DEF IndTypes, NotifTypes, InsertWatch, Watch
<1>3. JobTypes'
  BY DEF IndTypes, JobTypes, InsertWatch, rows, notifs, history, bounds
<1>4. BoundTypes'
  BY AccountsAssumption DEF IndTypes, BoundTypes, InsertWatch, rows, notifs, history, bounds
<1>5. HandTypes'
  <2>1. HandTypes /\ {} \subseteq Watch /\ "charge" \in Pc
    BY DEF IndTypes, Pc
  <2>2. Go(p, "charge", handler[p].user, Nobody, {})
    BY DEF InsertWatch
  <2>3. HandTypes /\ handler[p].user \in User /\ {} \in SUBSET Watch /\ Nobody \in User \cup {Nobody}
    BY <1>0, <2>1
  <2> QED
    BY <2>1, <2>2, <2>3, GoTypes
<1> QED
  BY <1>1, <1>2, <1>3, <1>4, <1>5 DEF IndTypes


LEMMA ChargeTypes ==
    ASSUME IndTypes, NEW p \in Process, Charge(p)
    PROVE  IndTypes'
<1>0. /\ handler[p].user \in User /\ handler[p].who \in User \cup {Nobody}
      /\ handler[p].whom \subseteq Watch
      /\ handler[p].pc \in {"referral", "invite", "parent", "thanks", "watch"} =>
           handler[p].who \in User
  BY Busy DEF Charge
<1>1. RowTypes'
  BY <1>0, AddTypes DEF IndTypes, RowTypes, KeepCoins, Charge
<1>2. NotifTypes'
  BY DEF IndTypes, NotifTypes, Charge, rows, notifs, history, bounds
<1>3. JobTypes'
  BY DEF IndTypes, JobTypes, Charge, rows, notifs, history, bounds
<1>4. BoundTypes'
  BY AccountsAssumption DEF IndTypes, BoundTypes, Charge, rows, notifs, history, bounds
<1>5. HandTypes'
  BY <1>0, GoTypes, DoneTypes DEF IndTypes, Pc, RowTypes, Charge
<1> QED
  BY <1>1, <1>2, <1>3, <1>4, <1>5 DEF IndTypes


LEMMA ComeOnlineTypes ==
    ASSUME IndTypes, NEW p \in Process, NEW v \in User, ComeOnline(p, v)
    PROVE  IndTypes'
<1>1. RowTypes'
  BY DEF IndTypes, RowTypes, ComeOnline, rows, notifs, history, bounds
<1>2. NotifTypes'
  BY DEF IndTypes, NotifTypes, ComeOnline, rows, notifs, history, bounds
<1>3. JobTypes'
  BY DEF IndTypes, JobTypes, ComeOnline, rows, notifs, history, bounds
<1>4. BoundTypes'
  BY AccountsAssumption DEF IndTypes, BoundTypes, ComeOnline, rows, notifs, history, bounds
<1>5. HandTypes'
  <2> DEFINE S == {w \in watch : w.on = v}
  <2>1. HandTypes /\ S \subseteq Watch /\ "tell" \in Pc
    BY DEF IndTypes, NotifTypes, Pc
  <2>2. IF S = {} THEN Done(p) ELSE Go(p, "tell", v, Nobody, S)
    BY DEF ComeOnline
  <2> HIDE DEF S
  <2> QED
    BY <2>1, <2>2, GoTypes, DoneTypes
<1> QED
  BY <1>1, <1>2, <1>3, <1>4, <1>5 DEF IndTypes


LEMMA TellTypes ==
    ASSUME IndTypes, NEW p \in Process, Tell(p)
    PROVE  IndTypes'
<1>0. /\ handler[p].user \in User /\ handler[p].who \in User \cup {Nobody}
      /\ handler[p].whom \subseteq Watch
      /\ handler[p].pc \in {"referral", "invite", "parent", "thanks", "watch"} =>
           handler[p].who \in User
  BY Busy DEF Tell
<1>1. RowTypes'
  BY DEF IndTypes, RowTypes, Tell, rows, notifs, history, bounds
<1>2. NotifTypes'
  BY DEF IndTypes, NotifTypes, Tell, rows, notifs, history, bounds
<1>3. JobTypes'
  BY DEF IndTypes, JobTypes, Tell, rows, notifs, history, bounds
<1>4. BoundTypes'
  BY AccountsAssumption DEF IndTypes, BoundTypes, Tell, rows, notifs, history, bounds
<1>5. HandTypes'
  <2> DEFINE W == handler[p].whom
             w == First(W)
  <2>1. HandTypes /\ W \subseteq Watch /\ W \ {w} \subseteq Watch /\ {"tell", "forget"} \subseteq Pc
    BY <1>0 DEF IndTypes, Pc
  <2>2. \/ Go(p, "forget", handler[p].user, Nobody, W)
        \/ Go(p, "tell", handler[p].user, Nobody, W \ {w})
        \/ Done(p)
    BY DEF Tell
  <2> HIDE DEF W, w
  <2> QED
    BY <1>0, <2>1, <2>2, GoTypes, DoneTypes
<1> QED
  BY <1>1, <1>2, <1>3, <1>4, <1>5 DEF IndTypes


LEMMA WriteLetterTypes ==
    ASSUME IndTypes, NEW p \in Process, NEW u \in User, NEW v \in User, NEW c \in {"none", "wc"},
           WriteLetter(p, u, v, c)
    PROVE  IndTypes'
<1>1. RowTypes'
  BY DEF IndTypes, RowTypes, WriteLetter, rows, notifs, history, bounds
<1>2. NotifTypes'
  BY DEF IndTypes, NotifTypes, WriteLetter, rows, notifs, history, bounds
<1>3. JobTypes'
  BY DEF IndTypes, JobTypes, WriteLetter, rows, notifs, history, bounds
<1>4. BoundTypes'
  BY AccountsAssumption DEF IndTypes, BoundTypes, WriteLetter, rows, notifs, history, bounds
<1>5. HandTypes'
  BY DEF IndTypes, HandTypes, WriteLetter, rows, notifs, history, bounds
<1> QED
  BY <1>1, <1>2, <1>3, <1>4, <1>5 DEF IndTypes


LEMMA PressSendTypes ==
    ASSUME IndTypes, NEW p \in Process, PressSend(p)
    PROVE  IndTypes'
<1>1. RowTypes'
  BY DEF IndTypes, RowTypes, PressSend, rows, notifs, history, bounds
<1>2. NotifTypes'
  BY DEF IndTypes, NotifTypes, PressSend, rows, notifs, history, bounds
<1>3. JobTypes'
  BY DEF IndTypes, JobTypes, PressSend, rows, notifs, history, bounds
<1>4. BoundTypes'
  BY AccountsAssumption DEF IndTypes, BoundTypes, PressSend, rows, notifs, history, bounds
<1>5. HandTypes'
  BY GoTypes, DoneTypes DEF IndTypes, Pc, NotifTypes, PressSend
<1> QED
  BY <1>1, <1>2, <1>3, <1>4, <1>5 DEF IndTypes


LEMMA StampTypes ==
    ASSUME IndTypes, NEW p \in Process, Stamp(p)
    PROVE  IndTypes'
<1>0. /\ handler[p].user \in User /\ handler[p].who \in User \cup {Nobody}
      /\ handler[p].whom \subseteq Watch
      /\ handler[p].pc \in {"referral", "invite", "parent", "thanks", "watch"} =>
           handler[p].who \in User
  BY Busy DEF Stamp
<1>1. RowTypes'
  BY <1>0, AddTypes DEF IndTypes, RowTypes, KeepCoins, Stamp
<1>2. NotifTypes'
  BY DEF IndTypes, NotifTypes, Stamp, rows, notifs, history, bounds
<1>3. JobTypes'
  BY DEF IndTypes, JobTypes, Stamp, rows, notifs, history, bounds
<1>4. BoundTypes'
  BY AccountsAssumption DEF IndTypes, BoundTypes, Stamp, rows, notifs, history, bounds
<1>5. HandTypes'
  <2>0. HandTypes /\ {} \subseteq Watch
    BY DEF IndTypes
  <2>1. CASE handler[p].pc = "stamp"
    BY <1>0, <2>0, <2>1, GoTypes DEF Pc, Stamp
  <2>2. CASE handler[p].pc # "stamp"
    BY <1>0, <2>0, <2>2, DoneTypes DEF Stamp
  <2> QED
    BY <2>1, <2>2
<1> QED
  BY <1>1, <1>2, <1>3, <1>4, <1>5 DEF IndTypes


LEMMA OpenLetterTypes ==
    ASSUME IndTypes, NEW p \in Process, OpenLetter(p)
    PROVE  IndTypes'
<1>1. RowTypes'
  BY DEF IndTypes, RowTypes, OpenLetter, rows, notifs, history, bounds
<1>2. NotifTypes'
  BY DEF IndTypes, NotifTypes, OpenLetter, rows, notifs, history, bounds
<1>3. JobTypes'
  BY DEF IndTypes, JobTypes, OpenLetter, rows, notifs, history, bounds
<1>4. BoundTypes'
  BY AccountsAssumption DEF IndTypes, BoundTypes, OpenLetter, rows, notifs, history, bounds
<1>5. HandTypes'
  BY GoTypes DEF IndTypes, Pc, NotifTypes, OpenLetter
<1> QED
  BY <1>1, <1>2, <1>3, <1>4, <1>5 DEF IndTypes


LEMMA PurgeLettersTypes ==
    ASSUME IndTypes, PurgeLetters
    PROVE  IndTypes'
<1>1. RowTypes'
  BY DEF IndTypes, RowTypes, PurgeLetters, rows, notifs, history, bounds
<1>2. NotifTypes'
  BY DEF IndTypes, NotifTypes, PurgeLetters, rows, notifs, history, bounds
<1>3. JobTypes'
  BY DEF IndTypes, JobTypes, PurgeLetters, rows, notifs, history, bounds
<1>4. BoundTypes'
  BY AccountsAssumption DEF IndTypes, BoundTypes, PurgeLetters, rows, notifs, history, bounds
<1>5. HandTypes'
  BY DEF IndTypes, HandTypes, PurgeLetters, rows, notifs, history, bounds
<1> QED
  BY <1>1, <1>2, <1>3, <1>4, <1>5 DEF IndTypes


LEMMA LeaveTypes ==
    ASSUME IndTypes, NEW u \in User, Leave(u)
    PROVE  IndTypes'
<1>1. RowTypes'
  BY DEF IndTypes, RowTypes, Leave, rows, notifs, history, bounds
<1>2. NotifTypes'
  BY DEF IndTypes, NotifTypes, Leave, rows, notifs, history, bounds
<1>3. JobTypes'
  BY DEF IndTypes, JobTypes, Leave, rows, notifs, history, bounds
<1>4. BoundTypes'
  BY AccountsAssumption DEF IndTypes, BoundTypes, Leave, rows, notifs, history, bounds
<1>5. HandTypes'
  BY DEF IndTypes, HandTypes, Leave, rows, notifs, history, bounds
<1> QED
  BY <1>1, <1>2, <1>3, <1>4, <1>5 DEF IndTypes


LEMMA SelectInactiveTypes ==
    ASSUME IndTypes, NEW s \in Instance, NEW u \in User, SelectInactive(s, u)
    PROVE  IndTypes'
<1>1. RowTypes'
  BY DEF IndTypes, RowTypes, SelectInactive, rows, notifs, history, bounds
<1>2. NotifTypes'
  BY DEF IndTypes, NotifTypes, SelectInactive, rows, notifs, history, bounds
<1>3. JobTypes'
  BY DEF IndTypes, RowTypes, JobTypes, SelectInactive
<1>4. BoundTypes'
  BY AccountsAssumption DEF IndTypes, BoundTypes, SelectInactive, rows, notifs, history, bounds
<1>5. HandTypes'
  BY DEF IndTypes, HandTypes, SelectInactive, rows, notifs, history, bounds
<1> QED
  BY <1>1, <1>2, <1>3, <1>4, <1>5 DEF IndTypes


\* What a job that has read a balance is about.
LEMMA Reading ==
    ASSUME IndTypes, NEW s \in Instance, job[s] # NoJob
    PROVE  job[s].user \in User /\ job[s].old \in Int
BY DEF IndTypes, JobTypes

LEMMA GiveGiftTypes ==
    ASSUME IndTypes, NEW s \in Instance, GiveGift(s)
    PROVE  IndTypes'
<1> DEFINE u == job[s].user
           old == job[s].old
<1>0. u \in User /\ old \in Int
  BY Reading DEF GiveGift
<1>1. RowTypes'
  <2>1. balance' \in [User -> Int]
    <3>1. balance' = [balance EXCEPT ![u] = IF old < Gift THEN old + Gift ELSE old]
      BY DEF GiveGift
    <3>2. (IF old < Gift THEN old + Gift ELSE old) \in Int
      BY <1>0, AccountsAssumption
    <3> QED
      BY <1>0, <3>1, <3>2 DEF IndTypes, RowTypes
  <2>2. ledger' \in [User -> Int]
    <3>1. ledger' = [ledger EXCEPT ![u] = ledger[u] + Granted(u, old)]
      BY DEF GiveGift
    <3>2. ledger[u] + Granted(u, old) \in Int
      BY <1>0, AccountsAssumption DEF Granted, IndTypes, RowTypes
    <3> QED
      BY <1>0, <3>1, <3>2 DEF IndTypes, RowTypes
  <2>3. gifted' \subseteq User /\ away' \subseteq User
    BY <1>0 DEF GiveGift, IndTypes, RowTypes
  <2> QED
    BY <2>1, <2>2, <2>3 DEF GiveGift, IndTypes, RowTypes
<1>2. NotifTypes'
  BY DEF IndTypes, NotifTypes, GiveGift, notifs
<1>3. JobTypes'
  <2>1. job' = [job EXCEPT ![s] = NoJob]
    BY DEF GiveGift
  <2>2. NoJob \in [user : User \cup {Nobody}, old : Int]
    BY DEF NoJob
  <2> QED
    BY <2>1, <2>2 DEF IndTypes, JobTypes
<1>4. BoundTypes'
  BY DEF IndTypes, BoundTypes, GiveGift, bounds
<1>5. HandTypes'
  BY DEF IndTypes, HandTypes, GiveGift
<1> QED
  BY <1>1, <1>2, <1>3, <1>4, <1>5 DEF IndTypes

LEMMA GiveAllTypes ==
    ASSUME IndTypes, GiveAll
    PROVE  IndTypes'
<1>1. RowTypes'
  BY AddTypes DEF IndTypes, RowTypes, GiveAll
<1>2. NotifTypes'
  BY DEF IndTypes, NotifTypes, GiveAll, rows, notifs, history, bounds
<1>3. JobTypes'
  BY DEF IndTypes, JobTypes, GiveAll, rows, notifs, history, bounds
<1>4. BoundTypes'
  BY AccountsAssumption DEF IndTypes, BoundTypes, GiveAll, rows, notifs, history, bounds
<1>5. HandTypes'
  BY DEF IndTypes, HandTypes, GiveAll, rows, notifs, history, bounds
<1> QED
  BY <1>1, <1>2, <1>3, <1>4, <1>5 DEF IndTypes


LEMMA EarnTypes ==
    ASSUME IndTypes, NEW u \in User, NEW d \in {1, -1}, Earn(u, d)
    PROVE  IndTypes'
<1>1. RowTypes'
  BY AddTypes DEF IndTypes, RowTypes, Earn
<1>2. NotifTypes'
  BY DEF IndTypes, NotifTypes, Earn, rows, notifs, history, bounds
<1>3. JobTypes'
  BY DEF IndTypes, JobTypes, Earn, rows, notifs, history, bounds
<1>4. BoundTypes'
  BY AccountsAssumption DEF IndTypes, BoundTypes, Earn, rows, notifs, history, bounds
<1>5. HandTypes'
  BY DEF IndTypes, HandTypes, Earn, rows, notifs, history, bounds
<1> QED
  BY <1>1, <1>2, <1>3, <1>4, <1>5 DEF IndTypes


LEMMA DieHandlerTypes ==
    ASSUME IndTypes, NEW p \in Process, DieHandler(p)
    PROVE  IndTypes'
<1>1. RowTypes'
  BY DEF IndTypes, RowTypes, DieHandler, rows, notifs, history, bounds
<1>2. NotifTypes'
  BY DEF IndTypes, NotifTypes, DieHandler, rows, notifs, history, bounds
<1>3. JobTypes'
  BY DEF IndTypes, JobTypes, DieHandler, rows, notifs, history, bounds
<1>4. BoundTypes'
  BY AccountsAssumption DEF IndTypes, BoundTypes, DieHandler, rows, notifs, history, bounds
<1>5. HandTypes'
  BY DoneTypes DEF IndTypes, DieHandler
<1> QED
  BY <1>1, <1>2, <1>3, <1>4, <1>5 DEF IndTypes


LEMMA LoseLockTypes ==
    ASSUME IndTypes, NEW u \in User, LoseLock(u)
    PROVE  IndTypes'
<1>1. RowTypes'
  BY DEF IndTypes, RowTypes, LoseLock, rows, notifs, history, bounds
<1>2. NotifTypes'
  BY DEF IndTypes, NotifTypes, LoseLock, rows, notifs, history, bounds
<1>3. JobTypes'
  BY DEF IndTypes, JobTypes, LoseLock, rows, notifs, history, bounds
<1>4. BoundTypes'
  BY AccountsAssumption DEF IndTypes, BoundTypes, LoseLock, rows, notifs, history, bounds
<1>5. HandTypes'
  BY DEF IndTypes, HandTypes, LoseLock, rows, notifs, history, bounds
<1> QED
  BY <1>1, <1>2, <1>3, <1>4, <1>5 DEF IndTypes


LEMMA TypesStep == IndTypes /\ [AccNext]_accVars => IndTypes'
<1> SUFFICES ASSUME IndTypes, [AccNext]_accVars PROVE IndTypes'
  OBVIOUS
<1>1. CASE \E p \in Process : HandlerStep(p)
  BY <1>1, CreateUserTypes, SetReferralTypes, PayInviterTypes, PayParentTypes, PayAdsTypes,
     CheckProfileCoinTypes, PayProfileTypes, PayThanksTypes, InsertWatchTypes, ChargeTypes, TellTypes, StampTypes
     DEF HandlerStep
<1>2. CASE Joining
  BY <1>2, StartBotTypes, CreateForDeliveryTypes, EditProfileTypes DEF Joining
<1>3. CASE Watching
  BY <1>3, AskNewsTypes, ComeOnlineTypes DEF Watching
<1>4. CASE Writing
  BY <1>4, WriteLetterTypes, PressSendTypes, OpenLetterTypes, PurgeLettersTypes DEF Writing
<1>5. CASE StayingAway
  <2>1. member \subseteq User
    BY DEF IndTypes, RowTypes
  <2> QED
    BY <1>5, <2>1, LeaveTypes, SelectInactiveTypes, GiveGiftTypes, GiveAllTypes, EarnTypes
       DEF StayingAway
<1>6. CASE Accidents
  BY <1>6, DieHandlerTypes, LoseLockTypes DEF Accidents
<1>7. CASE UNCHANGED accVars
  BY <1>7 DEF IndTypes, RowTypes, NotifTypes, JobTypes, BoundTypes, HandTypes, accVars, rows, notifs,
     history, bounds
<1> QED
  BY <1>1, <1>2, <1>3, <1>4, <1>5, <1>6, <1>7 DEF AccNext

LEMMA TypesAlways == AccSpec => []IndTypes
BY TypesInit, TypesStep, PTL DEF AccSpec

\* The state of the accounts keeps its types: no handler, letter or job is ever
\* about anything but users where bot/auth.go, bot/profile.go and the inactivity
\* job of jobs/scheduler.go use it as one.
THEOREM AccTypeCorrect == AccSpec => []AccTypeOK
BY TypesAlways, TypesAreRight, PTL

-----------------------------------------------------------------------------
(* The bonus of the advertisement.                                         *)

\* The flag counts it.
AdsFlag == \A u \in User : paid["ads"][u] = IF u \in ads THEN 1 ELSE 0

\* Every other reward leaves it alone.
LEMMA PayOther ==
    ASSUME IndTypes, NEW r \in Reward \ {"ads"}, NEW u, NEW to, Pay(r, u, to)
    PROVE  paid'["ads"] = paid["ads"]
BY DEF Pay, IndTypes, RowTypes, Reward

LEMMA OnlyPayAds ==
    ASSUME IndTypes, [AccNext]_accVars, \A p \in Process : ~PayAds(p)
    PROVE  paid'["ads"] = paid["ads"] /\ ads' = ads
<1>1. CASE \E p \in Process : HandlerStep(p)
  <2> PICK p \in Process : HandlerStep(p)
    BY <1>1
  <2>1. CASE PayInviter(p) \/ PayParent(p) \/ PayProfile(p) \/ PayThanks(p)
    <3>1. {"invite", "parent", "profile", "thanks"} \subseteq Reward \ {"ads"}
      BY DEF Reward
    <3> QED
      BY <2>1, <3>1, PayOther DEF PayInviter, PayParent, PayProfile, PayThanks
  <2>2. CASE CreateUser(p) \/ SetReferral(p) \/ CheckProfileCoin(p)
    BY <2>2 DEF CreateUser, SetReferral, CheckProfileCoin, rows, history
  <2>3. CASE InsertWatch(p) \/ Charge(p) \/ Tell(p) \/ Stamp(p)
    BY <2>3 DEF InsertWatch, Charge, Tell, Stamp, rows
  <2> QED
    BY <2>1, <2>2, <2>3 DEF HandlerStep
<1>2. CASE Joining
  BY <1>2 DEF Joining, StartBot, CreateForDelivery, EditProfile, rows, history
<1>3. CASE Watching
  BY <1>3 DEF Watching, AskNews, ComeOnline, rows, history
<1>4. CASE Writing
  BY <1>4 DEF Writing, WriteLetter, PressSend, OpenLetter, PurgeLetters, rows, history
<1>5. CASE StayingAway
  BY <1>5 DEF StayingAway, Leave, SelectInactive, GiveGift, GiveAll, Earn, rows, history
<1>6. CASE Accidents
  BY <1>6 DEF Accidents, DieHandler, LoseLock, rows, history
<1>7. CASE UNCHANGED accVars
  BY <1>7 DEF accVars, rows, history
<1> QED
  BY <1>1, <1>2, <1>3, <1>4, <1>5, <1>6, <1>7 DEF AccNext

LEMMA AdsStep == IndTypes /\ AdsFlag /\ [AccNext]_accVars => AdsFlag'
<1> SUFFICES ASSUME IndTypes, AdsFlag, [AccNext]_accVars PROVE AdsFlag'
  OBVIOUS
<1>1. CASE \A p \in Process : ~PayAds(p)
  BY <1>1, OnlyPayAds DEF AdsFlag
<1>2. CASE \E p \in Process : PayAds(p)
  <2> PICK p \in Process : PayAds(p)
    BY <1>2
  <2> DEFINE u == handler[p].user
  <2>1. u \in User
    BY Busy DEF PayAds
  <2>2. CASE u \in ads
    BY <2>2 DEF PayAds, AdsFlag
  <2>3. CASE u \notin ads
    <3>1. paid' = [paid EXCEPT !["ads"][u] = @ + 1] /\ ads' = ads \cup {u}
      BY <2>3 DEF PayAds, Pay
    <3>2. \A v \in User : paid'["ads"][v] = IF v = u THEN paid["ads"][u] + 1 ELSE paid["ads"][v]
      BY <3>1 DEF IndTypes, RowTypes, Reward
    <3>3. paid["ads"][u] = 0
      BY <2>1, <2>3 DEF AdsFlag
    <3> QED
      BY <3>1, <3>2, <3>3 DEF AdsFlag
  <2> QED
    BY <2>2, <2>3
<1> QED
  BY <1>1, <1>2

LEMMA AdsAlways == AccSpec => []AdsFlag
<1>1. AccInit => AdsFlag
  BY DEF AccInit, AdsFlag, Reward
<1> QED
  BY <1>1, AdsStep, TypesAlways, PTL DEF AccSpec

\* The bonus of the advertisement is paid to a user at most once, even when two
\* updates of his are handled at the same time and a third process creates his
\* row between them: bot/auth.go pays it and sets users.ads_referral in one
\* statement that looks for a row without the flag.
THEOREM AdsPaidOnce == AccSpec => []AdsOnce
<1>1. AdsFlag => AdsOnce
  BY DEF AdsFlag, AdsOnce
<1> QED
  BY <1>1, AdsAlways, PTL

-----------------------------------------------------------------------------
(* The other rewards.                                                      *)

\* A user whose lock holds has one handler.
Sole ==
  \A p, q \in Process :
     handler[p].user \in User \ overlap /\ handler[p].user = handler[q].user => p = q

\* What was paid for user u - in paid, with the members and the profile flags as
\* they are: nothing for his sign-up before he has a row, nothing for his profile
\* before its flag is set.
PaidFor(u, pays, members, flags) ==
  /\ \A r \in Reward : pays[r][u] <= 1
  /\ u \notin members => pays["invite"][u] = 0 /\ pays["parent"][u] = 0
  /\ u \notin flags => pays["profile"][u] = 0 /\ pays["thanks"][u] = 0

\* What a handler of u about to do pc can rely on.
Owed(pc, u, pays, members, flags) ==
  /\ pc \in {"create", "createAds", "referral", "invite"} => pays["invite"][u] = 0
  /\ pc \in {"create", "createAds", "referral", "invite", "parent"} => pays["parent"][u] = 0
  /\ pc \in {"referral", "invite", "parent"} => u \in members
  /\ pc = "coin" => u \notin flags
  /\ pc = "thanks" => u \in flags /\ pays["thanks"][u] = 0

IndRewards ==
  /\ Sole
  /\ \A u \in User \ overlap :
        /\ PaidFor(u, paid, member, coined)
        /\ \A p \in Process : handler[p].user = u => Owed(handler[p].pc, u, paid, member, coined)


\* A handler that moves on, comes to rest, or begins for a user who has none or
\* has lost his lock.
LEMMA SoleStep ==
    ASSUME IndTypes, Sole, NEW p \in Process, NEW h, handler' = [handler EXCEPT ![p] = h],
           overlap \subseteq overlap',
           h.user \in {handler[p].user, Nobody} \/ Free(p, h.user)
    PROVE  Sole'
<1> SUFFICES ASSUME NEW q \in Process, NEW r \in Process,
                    handler'[q].user \in User \ overlap', handler'[q].user = handler'[r].user
             PROVE  q = r
  BY DEF Sole
<1> DEFINE u == handler'[q].user
<1>1. u \in User /\ u \notin overlap /\ u # Nobody
  BY AccountsAssumption
<1>2. \A x \in Process : handler'[x] = IF x = p THEN h ELSE handler[x]
  BY DEF IndTypes, HandTypes
<1>3. CASE h.user = handler[p].user
  <2>1. handler[q].user = u /\ handler[r].user = u
    BY <1>2, <1>3
  <2> QED
    BY <1>1, <2>1 DEF Sole
<1>4. CASE h.user = Nobody
  <2>1. q # p /\ r # p
    BY <1>1, <1>2, <1>4
  <2> QED
    BY <1>1, <1>2, <2>1 DEF Sole
<1>5. CASE Free(p, h.user)
  <2>1. CASE h.user = u
    <3>1. \A x \in Process : handler[x].user # u
      BY <1>1, <1>5, <2>1 DEF Free
    <3> QED
      BY <1>2, <3>1
  <2>2. CASE h.user # u
    <3>1. q # p /\ r # p
      BY <1>2, <2>2
    <3> QED
      BY <1>1, <1>2, <3>1 DEF Sole
  <2> QED
    BY <2>1, <2>2
<1> QED
  BY <1>3, <1>4, <1>5

\* What was paid and what handlers rely on, where nothing is paid ...
LEMMA QuietFor ==
    ASSUME paid' = paid, coined' = coined, member \subseteq member', NEW u \in User
    PROVE  /\ PaidFor(u, paid, member, coined) => PaidFor(u, paid', member', coined')
           /\ \A pc : Owed(pc, u, paid, member, coined) => Owed(pc, u, paid', member', coined')
BY DEF PaidFor, Owed

\* ... and no handler moves, ...
LEMMA IdleRewards ==
    ASSUME IndRewards, handler' = handler, paid' = paid, coined' = coined, member \subseteq member',
           overlap \subseteq overlap'
    PROVE  IndRewards'
<1>1. Sole'
  BY DEF IndRewards, Sole
<1> QED
  BY <1>1, QuietFor DEF IndRewards

\* ... or one does.
LEMMA QuietRewards ==
    ASSUME IndTypes, IndRewards, NEW p \in Process, NEW h, handler' = [handler EXCEPT ![p] = h],
           paid' = paid, coined' = coined, member \subseteq member', overlap' = overlap,
           h.user \in {handler[p].user, Nobody} \/ Free(p, h.user),
           h.user \in User \ overlap => Owed(h.pc, h.user, paid', member', coined')
    PROVE  IndRewards'
<1>1. Sole'
  BY SoleStep DEF IndRewards
<1>2. ASSUME NEW u \in User \ overlap'
      PROVE  /\ PaidFor(u, paid', member', coined')
             /\ \A q \in Process :
                  handler'[q].user = u => Owed(handler'[q].pc, u, paid', member', coined')
  <2>1. PaidFor(u, paid', member', coined')
    BY QuietFor DEF IndRewards
  <2>2. \A x \in Process : handler'[x] = IF x = p THEN h ELSE handler[x]
    BY DEF IndTypes, HandTypes
  <2>3. ASSUME NEW q \in Process, handler'[q].user = u
        PROVE  Owed(handler'[q].pc, u, paid', member', coined')
    <3>1. CASE q = p
      BY <2>2, <2>3, <3>1
    <3>2. CASE q # p
      BY <2>2, <2>3, <3>2, QuietFor DEF IndRewards
    <3> QED
      BY <3>1, <3>2
  <2> QED
    BY <2>1, <2>3
<1> QED
  BY <1>1, <1>2 DEF IndRewards

\* A handler pays a reward and moves on.
LEMMA PaysRewards ==
    ASSUME IndTypes, IndRewards, NEW p \in Process, NEW h, handler' = [handler EXCEPT ![p] = h],
           NEW u \in User, u = handler[p].user, NEW r \in Reward,
           paid' = [paid EXCEPT ![r][u] = @ + 1], member' = member, overlap' = overlap,
           coined \subseteq coined', coined' \subseteq coined \cup {u}, h.user \in {u, Nobody},
           u \notin overlap =>
             /\ PaidFor(u, paid', member', coined')
             /\ h.user = u => Owed(h.pc, u, paid', member', coined')
    PROVE  IndRewards'
<1>1. Sole'
  BY SoleStep DEF IndRewards
<1>2. \A x \in Process : handler'[x] = IF x = p THEN h ELSE handler[x]
  BY DEF IndTypes, HandTypes
<1>3. \A v \in User \ {u}, x \in Reward : paid'[x][v] = paid[x][v]
  BY DEF IndTypes, RowTypes
<1>4. \A v \in User \ {u} :
        /\ PaidFor(v, paid, member, coined) => PaidFor(v, paid', member', coined')
        /\ \A pc : Owed(pc, v, paid, member, coined) => Owed(pc, v, paid', member', coined')
  BY <1>3 DEF PaidFor, Owed, Reward
<1>5. ASSUME NEW v \in User \ overlap'
      PROVE  /\ PaidFor(v, paid', member', coined')
             /\ \A q \in Process :
                  handler'[q].user = v => Owed(handler'[q].pc, v, paid', member', coined')
  <2>1. CASE v = u
    <3>1. \A q \in Process \ {p} : handler[q].user # v
      BY <2>1 DEF IndRewards, Sole
    <3>2. u \notin overlap
      BY <2>1
    <3>3. \A q \in Process : handler'[q].user = u => q = p
      BY <1>2, <2>1, <3>1
    <3>4. handler'[p].user = u => handler'[p].pc = h.pc /\ h.user = u
      BY <1>2
    <3> QED
      BY <2>1, <3>2, <3>3, <3>4
  <2>2. CASE v # u
    <3>1. PaidFor(v, paid', member', coined')
      BY <1>4, <2>2 DEF IndRewards
    <3>2. \A q \in Process : handler'[q].user = v => q # p
      BY <1>2, <2>2, AccountsAssumption
    <3>3. \A q \in Process : handler'[q].user = v => Owed(handler[q].pc, v, paid, member, coined)
      BY <1>2, <3>2 DEF IndRewards
    <3> QED
      BY <1>2, <1>4, <2>2, <3>1, <3>2, <3>3
  <2> QED
    BY <2>1, <2>2
<1> QED
  BY <1>1, <1>5 DEF IndRewards


\* The steps that pay nothing.  A handler that is about to pay nothing relies on
\* nothing.
LEMMA OwedNothing ==
    ASSUME NEW pc \in {"idle", "ads", "check", "watch", "charge", "tell", "forget", "stamp", "post"},
           NEW u, NEW pays, NEW members, NEW flags
    PROVE  Owed(pc, u, pays, members, flags)
BY DEF Owed

LEMMA RestRewards ==
    ASSUME IndTypes, IndRewards, NEW p \in Process, Done(p), paid' = paid, coined' = coined,
           member \subseteq member', overlap' = overlap
    PROVE  IndRewards'
<1>1. Resting.user = Nobody /\ Nobody \notin User
  BY AccountsAssumption DEF Resting, Doing
<1> QED
  BY <1>1, QuietRewards DEF Done

LEMMA GoRewards ==
    ASSUME IndTypes, IndRewards, NEW p \in Process, NEW pc, NEW u, NEW v, NEW W, Go(p, pc, u, v, W),
           u = handler[p].user \/ Free(p, u), paid' = paid, coined' = coined,
           member \subseteq member', overlap' = overlap,
           u \in User \ overlap => Owed(pc, u, paid', member', coined')
    PROVE  IndRewards'
<1> DEFINE h == Doing(pc, u, v, W)
<1>1. h.user = u /\ h.pc = pc
  BY DEF Doing
<1>2. handler' = [handler EXCEPT ![p] = h]
  BY DEF Go
<1> HIDE DEF h
<1> QED
  BY <1>1, <1>2, QuietRewards

LEMMA PlainRewards ==
    ASSUME IndTypes, IndRewards, NEW p \in Process, NEW u, NEW v, NEW W,
           NEW pc \in {"ads", "check", "watch", "charge", "tell", "forget", "stamp", "post"},
           Go(p, pc, u, v, W), u = handler[p].user \/ Free(p, u), paid' = paid, coined' = coined,
           member \subseteq member', overlap' = overlap
    PROVE  IndRewards'
BY OwedNothing, GoRewards

LEMMA StartBotRewards ==
    ASSUME IndTypes, IndRewards, NEW p \in Process, NEW u \in User,
           NEW c \in {"create", "createAds"}, NEW v \in User \cup {Nobody}, StartBot(p, u, c, v)
    PROVE  IndRewards'
<1>1. Go(p, c, u, v, {}) /\ Free(p, u) /\ u \notin member
  BY DEF StartBot
<1>2. paid' = paid /\ coined' = coined /\ member' = member /\ overlap' = overlap
  BY DEF StartBot, rows, history, bounds
<1>3. u \notin overlap => Owed(c, u, paid, member, coined)
  BY <1>1 DEF IndRewards, PaidFor, Owed
<1> QED
  BY <1>1, <1>2, <1>3, GoRewards

\* The statements before a reward.
LEMMA BeforeRewards ==
    ASSUME IndTypes, IndRewards, NEW p \in Process,
           CreateUser(p) \/ SetReferral(p) \/ CheckProfileCoin(p)
    PROVE  IndRewards'
<1> DEFINE u == handler[p].user
<1>0. u \in User
  BY Busy DEF CreateUser, SetReferral, CheckProfileCoin
<1>1. u \notin overlap => Owed(handler[p].pc, u, paid, member, coined)
  BY <1>0 DEF IndRewards
<1>2. paid' = paid /\ coined' = coined /\ member \subseteq member' /\ overlap' = overlap
  BY DEF CreateUser, SetReferral, CheckProfileCoin, rows, history, bounds
<1>3. CASE CreateUser(p)
  <2>1. CASE handler[p].pc = "createAds"
    <3>1. Go(p, "ads", u, Nobody, {})
      BY <1>3, <2>1 DEF CreateUser
    <3> QED
      BY <1>2, <3>1, PlainRewards
  <2>2. CASE handler[p].pc # "createAds" /\ handler[p].who \in member'
    <3>1. Go(p, "referral", u, handler[p].who, {})
      BY <1>3, <2>2 DEF CreateUser
    <3>2. u \notin overlap => Owed("referral", u, paid', member', coined')
      BY <1>1, <1>2, <1>3 DEF CreateUser, Owed
    <3> QED
      BY <1>2, <3>1, <3>2, GoRewards
  <2>3. CASE handler[p].pc # "createAds" /\ handler[p].who \notin member'
    BY <1>2, <1>3, <2>3, RestRewards DEF CreateUser
  <2> QED
    BY <2>1, <2>2, <2>3
<1>4. CASE SetReferral(p)
  <2>1. Go(p, "invite", u, handler[p].who, {})
    BY <1>4 DEF SetReferral
  <2>2. u \notin overlap => Owed("invite", u, paid', member', coined')
    BY <1>1, <1>2, <1>4 DEF SetReferral, Owed
  <2> QED
    BY <1>2, <2>1, <2>2, GoRewards
<1>5. CASE CheckProfileCoin(p)
  <2>1. CASE u \in rich \ coined
    <3>1. Go(p, "coin", u, referral[u], {})
      BY <1>5, <2>1 DEF CheckProfileCoin
    <3>2. Owed("coin", u, paid', member', coined')
      BY <1>2, <2>1 DEF Owed
    <3> QED
      BY <1>2, <3>1, <3>2, GoRewards
  <2>2. CASE u \notin rich \ coined
    BY <1>2, <1>5, <2>2, RestRewards DEF CheckProfileCoin
  <2> QED
    BY <2>1, <2>2
<1> QED
  BY <1>3, <1>4, <1>5

\* The statements that pay: a reward that nothing was paid for yet.
LEMMA PayingRewards ==
    ASSUME IndTypes, IndRewards, NEW p \in Process, NEW h, handler' = [handler EXCEPT ![p] = h],
           NEW u \in User, u = handler[p].user, NEW r \in Reward, NEW to, Pay(r, u, to),
           member' = member, overlap' = overlap, coined \subseteq coined',
           coined' \subseteq coined \cup {u}, h.user \in {u, Nobody},
           u \notin overlap =>
             /\ paid[r][u] = 0
             /\ r \in {"invite", "parent"} => u \in member
             /\ r \in {"profile", "thanks"} => u \in coined'
             /\ h.user = u =>
                  h.pc \in {"parent", "thanks"} \ {r} /\ Owed(h.pc, u, paid, member, coined')
    PROVE  IndRewards'
<1>1. paid' = [paid EXCEPT ![r][u] = @ + 1]
  BY DEF Pay
<1>2. \A x \in Reward : paid'[x][u] = IF x = r THEN paid[r][u] + 1 ELSE paid[x][u]
  BY <1>1 DEF IndTypes, RowTypes
<1>3. ASSUME u \notin overlap
      PROVE  /\ PaidFor(u, paid', member', coined')
             /\ h.user = u => Owed(h.pc, u, paid', member', coined')
  <2>1. PaidFor(u, paid, member, coined)
    BY <1>3 DEF IndRewards
  <2>0. \A x \in Reward : paid'[x][u] = IF x = r THEN 1 ELSE paid[x][u]
    BY <1>2, <1>3
  <2>2. PaidFor(u, paid', member', coined')
    <3>1. \A x \in Reward : paid'[x][u] <= 1
      BY <2>0, <2>1 DEF PaidFor
    <3>2. u \notin member' => paid'["invite"][u] = 0 /\ paid'["parent"][u] = 0
      BY <1>3, <2>0, <2>1 DEF PaidFor, Reward
    <3>3. u \notin coined' => paid'["profile"][u] = 0 /\ paid'["thanks"][u] = 0
      BY <1>3, <2>0, <2>1 DEF PaidFor, Reward
    <3> QED
      BY <3>1, <3>2, <3>3 DEF PaidFor
  <2>3. ASSUME h.user = u PROVE Owed(h.pc, u, paid', member', coined')
    <3>1. h.pc \in {"parent", "thanks"} /\ h.pc # r /\ Owed(h.pc, u, paid, member, coined')
      BY <1>3, <2>3
    <3>2. CASE h.pc = "parent"
      BY <2>0, <3>1, <3>2 DEF Owed, Reward
    <3>3. CASE h.pc = "thanks"
      BY <2>0, <3>1, <3>3 DEF Owed, Reward
    <3> QED
      BY <3>1, <3>2, <3>3
  <2> QED
    BY <2>2, <2>3
<1> QED
  BY <1>1, <1>3, PaysRewards

LEMMA PayInviterRewards ==
    ASSUME IndTypes, IndRewards, NEW p \in Process, PayInviter(p)
    PROVE  IndRewards'
<1> DEFINE u == handler[p].user
           v == referral[handler[p].who]
           h == IF v # Nobody THEN Doing("parent", u, v, {}) ELSE Resting
<1>1. u \in User /\ handler[p].pc = "invite" /\ Pay("invite", u, handler[p].who)
  BY Busy DEF PayInviter
<1>2. handler' = [handler EXCEPT ![p] = h]
  BY DEF PayInviter, Go, Done
<1>3. member' = member /\ overlap' = overlap /\ coined' = coined
  BY DEF PayInviter, bounds
<1>4. h.user \in {u, Nobody} /\ (h.user = u => h.pc = "parent")
  BY <1>1, AccountsAssumption DEF Doing, Resting
<1>5. u \notin overlap => Owed("invite", u, paid, member, coined)
  BY <1>1 DEF IndRewards
<1>6. u \notin overlap =>
        /\ paid["invite"][u] = 0 /\ u \in member
        /\ Owed("parent", u, paid, member, coined)
  BY <1>5 DEF Owed
<1>7. "invite" \in Reward
  BY DEF Reward
<1> HIDE DEF h, u
<1> QED
  BY <1>1, <1>2, <1>3, <1>4, <1>6, <1>7, PayingRewards DEF u

LEMMA PayParentRewards ==
    ASSUME IndTypes, IndRewards, NEW p \in Process, PayParent(p)
    PROVE  IndRewards'
<1> DEFINE u == handler[p].user
<1>1. u \in User /\ handler[p].pc = "parent" /\ Pay("parent", u, handler[p].who)
  BY Busy DEF PayParent
<1>2. handler' = [handler EXCEPT ![p] = Resting]
  BY DEF PayParent, Done
<1>3. member' = member /\ overlap' = overlap /\ coined' = coined
  BY DEF PayParent, bounds
<1>4. Resting.user = Nobody /\ u # Nobody
  BY <1>1, AccountsAssumption DEF Doing, Resting
<1>5. u \notin overlap => Owed("parent", u, paid, member, coined)
  BY <1>1 DEF IndRewards
<1>6. u \notin overlap => paid["parent"][u] = 0 /\ u \in member
  BY <1>5 DEF Owed
<1>7. "parent" \in Reward
  BY DEF Reward
<1> HIDE DEF u
<1> QED
  BY <1>1, <1>2, <1>3, <1>4, <1>6, <1>7, PayingRewards DEF u

LEMMA PayThanksRewards ==
    ASSUME IndTypes, IndRewards, NEW p \in Process, PayThanks(p)
    PROVE  IndRewards'
<1> DEFINE u == handler[p].user
<1>1. u \in User /\ handler[p].pc = "thanks" /\ Pay("thanks", u, handler[p].who)
  BY Busy DEF PayThanks
<1>2. handler' = [handler EXCEPT ![p] = Resting]
  BY DEF PayThanks, Done
<1>3. member' = member /\ overlap' = overlap /\ coined' = coined
  BY DEF PayThanks, bounds
<1>4. Resting.user = Nobody /\ u # Nobody
  BY <1>1, AccountsAssumption DEF Doing, Resting
<1>5. u \notin overlap => Owed("thanks", u, paid, member, coined)
  BY <1>1 DEF IndRewards
<1>6. u \notin overlap => paid["thanks"][u] = 0 /\ u \in coined
  BY <1>5 DEF Owed
<1>7. "thanks" \in Reward
  BY DEF Reward
<1> HIDE DEF u
<1> QED
  BY <1>1, <1>2, <1>3, <1>4, <1>6, <1>7, PayingRewards DEF u

LEMMA PayProfileRewards ==
    ASSUME IndTypes, IndRewards, NEW p \in Process, PayProfile(p)
    PROVE  IndRewards'
<1> DEFINE u == handler[p].user
           v == handler[p].who
           h == IF v # Nobody THEN Doing("thanks", u, v, {}) ELSE Resting
<1>1. u \in User /\ handler[p].pc = "coin" /\ Pay("profile", u, u)
  BY Busy DEF PayProfile
<1>2. handler' = [handler EXCEPT ![p] = h]
  BY DEF PayProfile, Go, Done
<1>3. member' = member /\ overlap' = overlap /\ coined' = coined \cup {u}
  BY DEF PayProfile, bounds
<1>4. h.user \in {u, Nobody} /\ (h.user = u => h.pc = "thanks")
  BY <1>1, AccountsAssumption DEF Doing, Resting
<1>5. u \notin overlap =>
        /\ PaidFor(u, paid, member, coined) /\ Owed("coin", u, paid, member, coined)
  BY <1>1 DEF IndRewards
<1>6. u \notin overlap =>
        /\ paid["profile"][u] = 0 /\ Owed("thanks", u, paid, member, coined')
  BY <1>3, <1>5 DEF PaidFor, Owed
<1>7. "profile" \in Reward
  BY DEF Reward
<1> HIDE DEF h, u
<1> QED
  BY ZenonT(20), <1>1, <1>2, <1>3, <1>4, <1>6, <1>7, PayingRewards DEF u

\* The bonus of the advertisement, that its own flag counts.
LEMMA PayAdsRewards ==
    ASSUME IndTypes, AdsFlag, IndRewards, NEW p \in Process, PayAds(p)
    PROVE  IndRewards'
<1> DEFINE u == handler[p].user
<1>1. u \in User /\ handler' = [handler EXCEPT ![p] = Resting]
  BY Busy DEF PayAds, Done
<1>2. member' = member /\ overlap' = overlap /\ coined' = coined
  BY DEF PayAds, bounds
<1>3. Resting.user = Nobody /\ u # Nobody
  BY <1>1, AccountsAssumption DEF Doing, Resting
<1>4. CASE u \in ads
  BY <1>2, <1>4, RestRewards DEF PayAds
<1>5. CASE u \notin ads
  <2>1. paid["ads"][u] = 0 /\ Pay("ads", u, u) /\ "ads" \in Reward
    BY <1>1, <1>5 DEF AdsFlag, PayAds, Reward
  <2> HIDE DEF u
  <2> QED
    BY <1>1, <1>2, <1>3, <2>1, PayingRewards DEF u
<1> QED
  BY <1>4, <1>5

\* Steps that move a handler to a statement of no reward.
LEMMA OtherRewards ==
    ASSUME IndTypes, IndRewards, NEW p \in Process,
           \/ InsertWatch(p) \/ Charge(p) \/ Tell(p) \/ Stamp(p) \/ PressSend(p) \/ OpenLetter(p)
           \/ DieHandler(p)
           \/ \E u \in User : EditProfile(p, u) \/ ComeOnline(p, u)
           \/ \E u, v \in User : AskNews(p, u, v)
    PROVE  IndRewards'
<1>1. paid' = paid /\ coined' = coined /\ member' = member /\ overlap' = overlap
  BY DEF InsertWatch, Charge, Tell, Stamp, PressSend, OpenLetter, DieHandler, EditProfile, ComeOnline,
         AskNews, rows, history, bounds
<1> DEFINE Moves(pc, u, v, W) == Go(p, pc, u, v, W) /\ (u = handler[p].user \/ Free(p, u))
           Plain == {"ads", "check", "watch", "charge", "tell", "forget", "stamp", "post"}
<1>2. Done(p) \/ \E pc \in Plain : \E u, v, W : Moves(pc, u, v, W)
  <2>1. CASE InsertWatch(p) \/ Charge(p)
    BY <2>1 DEF InsertWatch, Charge
  <2>2. CASE Tell(p)
    BY <2>2 DEF Tell
  <2>3. CASE Stamp(p)
    BY <2>3 DEF Stamp
  <2>4. CASE PressSend(p) \/ OpenLetter(p)
    BY <2>4 DEF PressSend, OpenLetter
  <2>5. CASE DieHandler(p)
    BY <2>5 DEF DieHandler
  <2>6. CASE \E u \in User : EditProfile(p, u) \/ \E v \in User : AskNews(p, u, v)
    BY <2>6 DEF EditProfile, AskNews
  <2>7. CASE \E u \in User : ComeOnline(p, u)
    BY <2>7 DEF ComeOnline
  <2> QED
    BY <2>1, <2>2, <2>3, <2>4, <2>5, <2>6, <2>7
<1> QED
  BY <1>1, <1>2, PlainRewards, RestRewards

LEMMA RewardsStep == IndTypes /\ AdsFlag /\ IndRewards /\ [AccNext]_accVars => IndRewards'
<1> SUFFICES ASSUME IndTypes, AdsFlag, IndRewards, [AccNext]_accVars PROVE IndRewards'
  OBVIOUS
<1>1. CASE \E p \in Process : HandlerStep(p)
  BY <1>1, BeforeRewards, PayInviterRewards, PayParentRewards, PayAdsRewards, PayProfileRewards,
     PayThanksRewards, OtherRewards DEF HandlerStep
<1>2. CASE Joining
  <2>1. CASE \E u \in User : CreateForDelivery(u)
    BY <2>1, IdleRewards DEF CreateForDelivery, history, bounds
  <2> QED
    BY <1>2, <2>1, StartBotRewards, OtherRewards DEF Joining
<1>3. CASE Watching
  BY <1>3, OtherRewards DEF Watching
<1>4. CASE Writing
  <2>1. CASE PurgeLetters \/ \E p \in Process, u, v \in User, c \in {"none", "wc"} :
                               WriteLetter(p, u, v, c)
    BY <2>1, IdleRewards DEF PurgeLetters, WriteLetter, rows, history, bounds
  <2> QED
    BY <1>4, <2>1, OtherRewards DEF Writing
<1>5. CASE StayingAway
  BY <1>5, IdleRewards DEF StayingAway, Leave, SelectInactive, GiveGift, GiveAll, Earn, rows, history,
     bounds
<1>6. CASE Accidents
  <2>1. CASE \E u \in User : LoseLock(u)
    BY <2>1, IdleRewards DEF LoseLock, rows, history
  <2> QED
    BY <1>6, <2>1, OtherRewards DEF Accidents
<1>7. CASE UNCHANGED accVars
  BY <1>7, IdleRewards DEF accVars, rows, history, bounds
<1> QED
  BY <1>1, <1>2, <1>3, <1>4, <1>5, <1>6, <1>7 DEF AccNext

LEMMA RewardsInit == AccInit => IndRewards
<1> SUFFICES ASSUME AccInit PROVE IndRewards
  OBVIOUS
<1>1. \A p \in Process : handler[p].user \notin User
  BY AccountsAssumption DEF AccInit, Resting, Doing
<1>2. \A r \in Reward, u \in User : paid[r][u] = 0
  BY DEF AccInit
<1>3. \A u \in User : PaidFor(u, paid, member, coined)
  BY <1>2 DEF PaidFor, Reward
<1> QED
  BY <1>1, <1>3 DEF IndRewards, Sole

\* The rewards for a user - to his inviter, to whoever invited that one, to himself
\* for his profile and to the inviter for it - are each paid at most once while
\* his lock holds: the checks of bot/auth.go (there is no row yet) and of
\* checkProfileCoin (is_coin_comprof) are made some statements before the coins
\* are paid, while other handlers, other instances and deaths come between.
THEOREM RewardsPaidOnce == AccSpec => []RewardsOnce
<1>1. IndRewards /\ AdsOnce => RewardsOnce
  BY DEF IndRewards, PaidFor, RewardsOnce
<1> QED
  BY <1>1, RewardsInit, RewardsStep, AdsAlways, AdsPaidOnce, TypesAlways, PTL DEF AccSpec

-----------------------------------------------------------------------------
(* Balances.                                                               *)

\* Where no coins moved behind a job's back, the balance is that of the ledger,
\* and a job that has read it finds it as it was, or with the gift of another
\* instance's job that had read the same.
IndCoins ==
  /\ CoinsAccounted
  /\ \A u \in away : u \notin gifted
  /\ \A s \in Instance :
       LET j == job[s] IN
       j.user \in User \ raced =>
         /\ balance[j.user] = IF j.user \in gifted THEN j.old + Gift ELSE j.old
         /\ j.user \in gifted => j.old < Gift

\* Nothing is paid, and nobody else goes away.
LEMMA SameCoins ==
    ASSUME IndCoins, balance' = balance, ledger' = ledger, raced' = raced, gifted' = gifted,
           away' \subseteq away, job' = job
    PROVE  IndCoins'
BY DEF IndCoins, CoinsAccounted

\* Coins move, behind the back of a job that has read them or not.
LEMMA MovedCoins ==
    ASSUME IndTypes, IndCoins, NEW S, NEW d \in Int, AddBalance(S, d), gifted' = gifted,
           away' \subseteq away, job' = job
    PROVE  IndCoins'
<1>1. \A u \in User :
        /\ balance'[u] = IF u \in S \cap member THEN balance[u] + d ELSE balance[u]
        /\ ledger'[u] = IF u \in S \cap member THEN ledger[u] + d ELSE ledger[u]
  BY DEF AddBalance
<1>2. raced \subseteq raced' /\ \A s \in Instance : job[s].user \in S => job[s].user \in raced'
  BY DEF AddBalance
<1>3. CoinsAccounted'
  BY <1>1, <1>2 DEF IndCoins, CoinsAccounted
<1>4. ASSUME NEW s \in Instance, job[s].user \in User \ raced'
      PROVE  balance'[job[s].user] = balance[job[s].user]
  BY <1>1, <1>2, <1>4
<1> QED
  BY <1>2, <1>3, <1>4 DEF IndCoins

LEMMA PaidCoins ==
    ASSUME IndTypes, IndCoins, NEW r, NEW u, NEW to, Pay(r, u, to), gifted' = gifted, away' = away,
           job' = job
    PROVE  IndCoins'
BY MovedCoins DEF Pay

LEMMA LeaveCoins ==
    ASSUME IndTypes, IndCoins, NEW u \in User, Leave(u)
    PROVE  IndCoins'
<1>1. /\ balance' = balance /\ ledger' = ledger /\ raced' = raced /\ job' = job
      /\ away' = away \cup {u} /\ gifted' = gifted \ {u} /\ \A s \in Instance : job[s].user # u
  BY DEF Leave
<1> QED
  BY <1>1 DEF IndCoins, CoinsAccounted

LEMMA SelectCoins ==
    ASSUME IndTypes, IndCoins, NEW s \in Instance, NEW u \in User, SelectInactive(s, u)
    PROVE  IndCoins'
<1>1. /\ balance' = balance /\ ledger' = ledger /\ raced' = raced /\ gifted' = gifted
      /\ away' = away /\ u \notin gifted
  BY DEF SelectInactive, rows, history, IndCoins
<1>2. \A t \in Instance : job'[t] = IF t = s THEN [user |-> u, old |-> balance[u]] ELSE job[t]
  BY DEF SelectInactive, IndTypes, JobTypes
<1> QED
  BY <1>1, <1>2 DEF IndCoins, CoinsAccounted

\* The gift: whether this job is the first to give it or another instance's has
\* been, the balance becomes what this one had read and the gift.
LEMMA GiftCoins ==
    ASSUME IndTypes, IndCoins, NEW s \in Instance, GiveGift(s)
    PROVE  IndCoins'
<1> DEFINE u == job[s].user
           old == job[s].old
           new == IF old < Gift THEN old + Gift ELSE old
<1>1. u \in User /\ old \in Int
  BY Reading DEF GiveGift
<1>2. /\ gifted' = IF old < Gift THEN gifted \cup {u} ELSE gifted
      /\ away' = away \ {u} /\ raced' = raced
  BY DEF GiveGift
<1>3. \A v \in User :
        /\ balance'[v] = IF v = u THEN new ELSE balance[v]
        /\ ledger'[v] = IF v = u THEN ledger[u] + Granted(u, old) ELSE ledger[v]
  BY DEF GiveGift, IndTypes, RowTypes
<1>4. \A t \in Instance : job'[t] = IF t = s THEN NoJob ELSE job[t]
  BY DEF GiveGift, IndTypes, JobTypes
<1>5. u \notin raced => /\ balance[u] = IF u \in gifted THEN old + Gift ELSE old
                        /\ u \in gifted => old < Gift
                        /\ balance[u] = ledger[u]
  BY <1>1 DEF IndCoins, CoinsAccounted
<1>6. CoinsAccounted'
  <2>1. ASSUME u \notin raced PROVE ledger[u] + Granted(u, old) = new
    BY <1>1, <1>5, <2>1, AccountsAssumption DEF Granted, IndTypes, RowTypes
  <2> QED
    BY <1>2, <1>3, <2>1 DEF IndCoins, CoinsAccounted
<1>7. \A v \in away' : v \notin gifted'
  BY <1>2 DEF IndCoins
<1>8. ASSUME NEW t \in Instance, job'[t].user \in User \ raced'
      PROVE  /\ balance'[job'[t].user] =
                   IF job'[t].user \in gifted' THEN job'[t].old + Gift ELSE job'[t].old
             /\ job'[t].user \in gifted' => job'[t].old < Gift
  <2> DEFINE v == job[t].user
             was == job[t].old
  <2>1. t # s /\ job'[t] = job[t] /\ v \in User \ raced
    BY <1>2, <1>4, <1>8, AccountsAssumption DEF NoJob
  <2>2. /\ balance[v] = IF v \in gifted THEN was + Gift ELSE was
        /\ v \in gifted => was < Gift
    BY <2>1 DEF IndCoins
  <2>3. CASE v # u
    BY <1>2, <1>3, <2>1, <2>2, <2>3
  <2>4. CASE v = u
    <3>1. was \in Int
      BY <2>1, AccountsAssumption, Reading DEF NoJob
    <3>2. was = old
      BY <1>1, <1>5, <2>1, <2>2, <2>4, <3>1, AccountsAssumption
    <3>3. old < Gift <=> v \in gifted'
      BY <1>2, <1>5, <2>1, <2>4
    <3> QED
      BY <1>3, <2>1, <2>4, <3>2, <3>3
  <2> QED
    BY <2>3, <2>4
<1> QED
  BY <1>6, <1>7, <1>8 DEF IndCoins

LEMMA CoinsStep == IndTypes /\ IndCoins /\ [AccNext]_accVars => IndCoins'
<1> SUFFICES ASSUME IndTypes, IndCoins, [AccNext]_accVars PROVE IndCoins'
  OBVIOUS
<1>1. ASSUME NEW p \in Process, HandlerStep(p) PROVE IndCoins'
  <2>1. CASE CreateUser(p) \/ SetReferral(p) \/ CheckProfileCoin(p)
    BY <2>1, SameCoins DEF CreateUser, SetReferral, CheckProfileCoin, rows, history
  <2>2. CASE InsertWatch(p) \/ Tell(p)
    BY <2>2, SameCoins DEF InsertWatch, Tell, rows
  <2>3. CASE PayInviter(p) \/ PayParent(p) \/ PayProfile(p) \/ PayThanks(p)
    BY <2>3, PaidCoins DEF PayInviter, PayParent, PayProfile, PayThanks
  <2>4. CASE PayAds(p)
    BY <2>4, PaidCoins, SameCoins DEF PayAds, KeepCoins
  <2>5. CASE Charge(p) \/ Stamp(p)
    BY <2>5, MovedCoins, SameCoins DEF Charge, Stamp, KeepCoins
  <2> QED
    BY <1>1, <2>1, <2>2, <2>3, <2>4, <2>5 DEF HandlerStep
<1>2. CASE Joining
  BY <1>2, SameCoins DEF Joining, StartBot, CreateForDelivery, EditProfile, rows, history
<1>3. CASE Watching
  BY <1>3, SameCoins DEF Watching, AskNews, ComeOnline, rows, history
<1>4. CASE Writing
  BY <1>4, SameCoins DEF Writing, WriteLetter, PressSend, OpenLetter, PurgeLetters, rows, history
<1>5. CASE StayingAway
  <2>1. CASE GiveAll
    BY <2>1, MovedCoins DEF GiveAll
  <2>2. ASSUME NEW u \in member, NEW d \in {1, -1}, Earn(u, d) PROVE IndCoins'
    <3>1. d \in Int /\ AddBalance({u}, d) /\ gifted' = gifted /\ away' = away /\ job' = job
      BY <2>2 DEF Earn
    <3> QED
      BY <3>1, MovedCoins
  <2> QED
    BY <1>5, <2>1, <2>2, LeaveCoins, SelectCoins, GiftCoins DEF StayingAway
<1>6. CASE Accidents
  BY <1>6, SameCoins DEF Accidents, DieHandler, LoseLock, rows, history
<1>7. CASE UNCHANGED accVars
  BY <1>7, SameCoins DEF accVars, rows, history
<1> QED
  BY <1>1, <1>2, <1>3, <1>4, <1>5, <1>6, <1>7 DEF AccNext

\* Balances are what was earned, given and spent, with one gift per absence however
\* many instances' inactivity jobs find the same user: inactiveUsers writes back
\* the balance it read with the gift in place, so that a second write changes
\* nothing - and undoes whatever moved in between, which is why users whose coins
\* moved then are left out.
THEOREM CoinsAdd == AccSpec => []CoinsAccounted
<1>1. AccInit => IndCoins
  BY AccountsAssumption DEF AccInit, IndCoins, CoinsAccounted, NoJob
<1>2. IndCoins => CoinsAccounted
  BY DEF IndCoins
<1> QED
  BY <1>1, <1>2, CoinsStep, TypesAlways, PTL DEF AccSpec

-----------------------------------------------------------------------------
(* Direct messages.                                                        *)

\* Handlers that have charged for a message and not yet delivered it.
Posting == {p \in Process : handler[p].pc = "post"}

IndLetters == IsFiniteSet(Posting) /\ unpaid + Cardinality(Posting) <= 0

\* A step that charges and delivers nothing.
LEMMA QuietLetters ==
    ASSUME IndTypes, IndLetters, unpaid' = unpaid, Posting' \subseteq Posting
    PROVE  IndLetters'
<1>1. IsFiniteSet(Posting') /\ Cardinality(Posting') <= Cardinality(Posting)
  BY FS_Subset DEF IndLetters
<1>2. Cardinality(Posting') \in Nat /\ Cardinality(Posting) \in Nat
  BY <1>1, FS_CardinalityType DEF IndLetters
<1> QED
  BY <1>1, <1>2 DEF IndLetters, IndTypes, RowTypes

\* Handlers that rest or move on to another statement do not post.
LEMMA NobodyPosts ==
    ASSUME IndTypes, NEW p \in Process,
           Done(p) \/ \E pc \in Pc \ {"post"} : \E u, v, W : Go(p, pc, u, v, W)
    PROVE  Posting' \subseteq Posting
<1>1. PICK h : handler' = [handler EXCEPT ![p] = h] /\ h.pc # "post"
  <2>1. Resting.pc # "post" /\ \A pc, u, v, W : Doing(pc, u, v, W).pc = pc
    BY DEF Resting, Doing
  <2>2. CASE Done(p)
    BY <2>1, <2>2 DEF Done
  <2>3. ASSUME NEW pc \in Pc \ {"post"}, NEW u, NEW v, NEW W, Go(p, pc, u, v, W)
        PROVE  \E h : handler' = [handler EXCEPT ![p] = h] /\ h.pc # "post"
    <3>1. handler' = [handler EXCEPT ![p] = Doing(pc, u, v, W)] /\ Doing(pc, u, v, W).pc # "post"
      BY <2>1, <2>3 DEF Go
    <3> QED
      BY <3>1
  <2> QED
    BY <2>2, <2>3
<1>2. \A q \in Process : handler'[q] = IF q = p THEN h ELSE handler[q]
  BY <1>1 DEF IndTypes, HandTypes
<1> QED
  BY <1>1, <1>2 DEF Posting

LEMMA HandsPost ==
    ASSUME IndTypes, NEW p \in Process, HandlerStep(p), ~Stamp(p)
    PROVE  Posting' \subseteq Posting
<1> DEFINE Goes == \E pc \in Pc \ {"post"} : \E u, v, W : Go(p, pc, u, v, W)
<1>1. \A pc \in {"ads", "referral", "invite", "parent", "coin", "thanks", "charge", "tell",
                "forget"} : \A u, v, W :
        Go(p, pc, u, v, W) => Goes
  BY DEF Pc
<1> HIDE DEF Goes
<1>2. CASE CreateUser(p) \/ SetReferral(p) \/ PayInviter(p) \/ PayParent(p) \/ PayAds(p)
  BY <1>1, <1>2, NobodyPosts DEF CreateUser, SetReferral, PayInviter, PayParent, PayAds, Goes
<1>3. CASE CheckProfileCoin(p) \/ PayProfile(p) \/ PayThanks(p)
  BY <1>1, <1>3, NobodyPosts DEF CheckProfileCoin, PayProfile, PayThanks, Goes
<1>4. CASE InsertWatch(p) \/ Charge(p) \/ Tell(p)
  BY <1>1, <1>4, NobodyPosts DEF InsertWatch, Charge, Tell, Goes
<1> QED
  BY <1>2, <1>3, <1>4 DEF HandlerStep

\* The coin goes before the letter.
LEMMA StampLetters ==
    ASSUME IndTypes, IndLetters, NEW p \in Process, Stamp(p)
    PROVE  IndLetters'
<1>1. Cardinality(Posting) \in Nat /\ unpaid \in Int
  BY FS_CardinalityType DEF IndLetters, IndTypes, RowTypes
<1>2. CASE handler[p].pc = "stamp"
  <2>1. unpaid' = unpaid - 1 /\ handler' = [handler EXCEPT ![p] =
                                          Doing("post", handler[p].user, handler[p].who, {})]
    BY <1>2 DEF Stamp, Go
  <2>2. Posting' = Posting \cup {p} /\ p \notin Posting
    BY <1>2, <2>1 DEF Posting, Doing, IndTypes, HandTypes
  <2>3. IsFiniteSet(Posting') /\ Cardinality(Posting') = Cardinality(Posting) + 1
    BY <2>2, FS_AddElement DEF IndLetters
  <2> QED
    BY <1>1, <2>1, <2>3 DEF IndLetters
<1>3. CASE handler[p].pc = "post"
  <2>1. unpaid' = unpaid + 1 /\ handler' = [handler EXCEPT ![p] = Resting]
    BY <1>3 DEF Stamp, Done
  <2>2. Posting' = Posting \ {p} /\ p \in Posting
    BY <1>3, <2>1 DEF Posting, Resting, Doing, IndTypes, HandTypes
  <2>3. IsFiniteSet(Posting') /\ Cardinality(Posting') = Cardinality(Posting) - 1
    BY <2>2, FS_RemoveElement DEF IndLetters
  <2> QED
    BY <1>1, <2>1, <2>3 DEF IndLetters
<1> QED
  BY <1>2, <1>3 DEF Stamp

LEMMA LettersStep == IndTypes /\ IndLetters /\ [AccNext]_accVars => IndLetters'
<1> SUFFICES ASSUME IndTypes, IndLetters, [AccNext]_accVars PROVE IndLetters'
  OBVIOUS
<1> DEFINE Goes(p) == \E pc \in Pc \ {"post"} : \E u, v, W : Go(p, pc, u, v, W)
<1>0. \A p, u, v, W : \A pc \in {"create", "createAds", "check", "watch", "tell", "stamp"} :
         Go(p, pc, u, v, W) => Goes(p)
  BY DEF Pc
<1>00. handler' = handler => Posting' = Posting
  BY DEF Posting
<1> HIDE DEF Goes
<1>1. ASSUME NEW p \in Process, HandlerStep(p) PROVE IndLetters'
  <2>1. CASE Stamp(p)
    BY <2>1, StampLetters
  <2>2. CASE ~Stamp(p)
    <3>1. unpaid' = unpaid
      BY <1>1, <2>2 DEF HandlerStep, CreateUser, SetReferral, PayInviter, PayParent, PayAds,
         CheckProfileCoin, PayProfile, PayThanks, InsertWatch, Charge, Tell, history
    <3> QED
      BY <1>1, <2>2, <3>1, HandsPost, QuietLetters
  <2> QED
    BY <2>1, <2>2
<1>2. CASE Joining
  <2>1. unpaid' = unpaid
    BY <1>2 DEF Joining, StartBot, CreateForDelivery, EditProfile, history
  <2>2. Posting' \subseteq Posting
    BY <1>0, <1>00, <1>2, NobodyPosts DEF Joining, StartBot, CreateForDelivery, EditProfile, Goes
  <2> QED
    BY <2>1, <2>2, QuietLetters
<1>3. CASE Watching
  <2>1. unpaid' = unpaid
    BY <1>3 DEF Watching, AskNews, ComeOnline, history
  <2>2. Posting' \subseteq Posting
    BY <1>0, <1>3, NobodyPosts DEF Watching, AskNews, ComeOnline, Goes
  <2> QED
    BY <2>1, <2>2, QuietLetters
<1>4. CASE Writing
  <2>1. unpaid' = unpaid
    BY <1>4 DEF Writing, WriteLetter, PressSend, OpenLetter, PurgeLetters, history
  <2>2. Posting' \subseteq Posting
    BY <1>0, <1>00, <1>4, NobodyPosts DEF Writing, WriteLetter, PressSend, OpenLetter, PurgeLetters, Goes
  <2> QED
    BY <2>1, <2>2, QuietLetters
<1>5. CASE StayingAway
  <2>1. unpaid' = unpaid /\ handler' = handler
    BY <1>5 DEF StayingAway, Leave, SelectInactive, GiveGift, GiveAll, Earn, history
  <2> QED
    BY <1>00, <2>1, QuietLetters
<1>6. CASE Accidents
  <2>1. unpaid' = unpaid
    BY <1>6 DEF Accidents, DieHandler, LoseLock, history
  <2>2. Posting' \subseteq Posting
    BY <1>00, <1>6, NobodyPosts DEF Accidents, DieHandler, LoseLock
  <2> QED
    BY <2>1, <2>2, QuietLetters
<1>7. CASE UNCHANGED accVars
  BY <1>00, <1>7, QuietLetters DEF accVars, history
<1> QED
  BY <1>1, <1>2, <1>3, <1>4, <1>5, <1>6, <1>7 DEF AccNext

LEMMA LettersInit == AccInit => IndLetters
<1> SUFFICES ASSUME AccInit PROVE IndLetters
  OBVIOUS
<1>1. Posting = {} /\ unpaid = 0
  BY DEF AccInit, Posting, Resting, Doing
<1> QED
  BY <1>1, FS_EmptySet DEF IndLetters

\* No direct message is delivered that was not paid for, however often its button
\* is pressed and wherever handlers die: gibDirectSend and gibDirectGet charge
\* before they deliver.
THEOREM LettersPaid == AccSpec => []NoFreeLetter
<1>1. IndTypes /\ IndLetters => NoFreeLetter
  <2> SUFFICES ASSUME IndTypes, IndLetters PROVE unpaid <= 0
    BY DEF NoFreeLetter
  <2>1. Cardinality(Posting) \in Nat /\ unpaid \in Int
    BY FS_CardinalityType DEF IndLetters, IndTypes, RowTypes
  <2> QED
    BY <2>1 DEF IndLetters
<1> QED
  BY <1>1, LettersInit, LettersStep, TypesAlways, PTL DEF AccSpec
=============================================================================
