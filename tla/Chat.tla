-------------------------------- MODULE Chat --------------------------------
(***************************************************************************)
(* The life of an anonymous conversation: the searches and chat requests   *)
(* of table notif, the chats table, the users' step and coins, the workers *)
(* that process updates and the job scheduler every instance runs.         *)
(*                                                                         *)
(* PostgreSQL runs at READ COMMITTED: a transaction is modelled by the     *)
(* statements that lock rows or read what it decides on, then one commit   *)
(* that publishes its writes and frees its rows. A statement outside a     *)
(* transaction is one action, and waits for the rows it writes.            *)
(***************************************************************************)
EXTENDS Integers, FiniteSets, FiniteSetsExt

CONSTANTS User,         \* real users (users.user_id)
          Worker,       \* goroutines of cmd/miogram worker(), over all instances
          Scheduler,    \* one jobs.Scheduler per instance
          NoteId,       \* notif.id, a bounded serial
          ChatId,       \* chats.id, a bounded serial
          SearchCost,   \* coins an anonymous search may cost
          RequestCost,  \* coins a chat request costs its sender
          MinMessages,  \* fewer messages than this refunds the chat
          Deposit,      \* users.balance at the start
          None          \* no process, user, row

Proc == Worker \cup Scheduler

ASSUME ConstantsAssumption ==
    /\ NoteId \subseteq Nat /\ ChatId \subseteq Nat
    /\ SearchCost \subseteq Nat /\ RequestCost \in Nat
    /\ MinMessages \in Nat \ {0} /\ Deposit \in Nat
    /\ Worker \cap Scheduler = {}
    /\ None \notin User \cup Proc \cup NoteId \cup ChatId

VARIABLES
    step,      \* step[u]: users.step, up to the partner it names
    balance,   \* balance[u]: users.balance
    note,      \* note[n]: the row n of notif
    chat,      \* chat[c]: the row c of chats, with the count of its chatmsgs
    userLock,  \* userLock[u]: the process whose transaction holds users row u
    noteLock,  \* noteLock[n]: likewise for notif rows
    chatLock,  \* chatLock[c]: likewise for chats rows
    pc,        \* pc[p]: where process p is
    job,       \* job[p]: the local variables of process p
    rejected   \* history: chat requests whose target has been told "rejected"

rows == <<step, balance, note, chat>>
locks == <<userLock, noteLock, chatLock>>
vars == <<rows, locks, pc, job, rejected>>

-----------------------------------------------------------------------------
(* Types. *)

\* "chatting" is users.step LIKE 'chatting;%'; "start" is any other step.
Step == {"start", "chatting"}
Price == SearchCost \cup {0, RequestCost}

\* age: 0 and 1 are younger and older than the 30 s after which a claim is
\* taken back, 2 is past the end of a search (60 s) or of a request (120 s).
Note == [kind : {"none", "search", "request", "gone"}, user : User \cup {None},
         peer : User \cup {None}, cost : Price,
         status : {"none", "doing", "connecting", "end"}, age : 0..2]

\* two = None when the partner is synthetic; from is the notif row the chat
\* comes from (the id of a synthetic partner carries it: fake:<source>:<notif>).
\* aged: ten seconds have passed, and fake_end_at has come if there is one.
ChatRow == [status : {"none", "chatting", "end"}, one : User \cup {None},
            two : User \cup {None}, spent1 : Price, spent2 : Price,
            refund1 : Price, refund2 : Price, from : NoteId \cup {None},
            msgs : 0..MinMessages, aged : BOOLEAN]

Pc == {"idle", "rewriting", "matching", "inserting", "settling", "connecting", "checked",
       "failed", "ending", "counted", "endFailed", "fakeNote", "fakeChecked", "expiring"}

Job == [user : User \cup {None}, peer : User \cup {None}, cost : Price, peerCost : Price,
        note : NoteId \cup {None}, chat : ChatId \cup {None}, seenStep : Step,
        few : BOOLEAN]

\* The types of the state. A refund is one of the prices, also when both parties paid.
TypeOK ==
    /\ step \in [User -> Step]
    /\ balance \in [User -> Int]
    /\ note \in [NoteId -> Note]
    /\ chat \in [ChatId -> ChatRow]
    /\ userLock \in [User -> Proc \cup {None}]
    /\ noteLock \in [NoteId -> Proc \cup {None}]
    /\ chatLock \in [ChatId -> Proc \cup {None}]
    /\ pc \in [Proc -> Pc]
    /\ job \in [Proc -> Job]
    /\ rejected \in SUBSET NoteId

NoNote == [kind |-> "none", user |-> None, peer |-> None, cost |-> 0,
           status |-> "none", age |-> 0]

\* A deleted row: its id is not used again.
GoneNote == [NoNote EXCEPT !.kind = "gone"]

NoChat == [status |-> "none", one |-> None, two |-> None, spent1 |-> 0, spent2 |-> 0,
           refund1 |-> 0, refund2 |-> 0, from |-> None, msgs |-> 0, aged |-> FALSE]

NoJob == [user |-> None, peer |-> None, cost |-> 0, peerCost |-> 0, note |-> None,
          chat |-> None, seenStep |-> "start", few |-> FALSE]

Init ==
    /\ step = [u \in User |-> "start"]
    /\ balance = [u \in User |-> Deposit]
    /\ note = [n \in NoteId |-> NoNote]
    /\ chat = [c \in ChatId |-> NoChat]
    /\ userLock = [u \in User |-> None]
    /\ noteLock = [n \in NoteId |-> None]
    /\ chatLock = [c \in ChatId |-> None]
    /\ pc = [p \in Proc |-> "idle"]
    /\ job = [p \in Proc |-> NoJob]
    /\ rejected = {}

-----------------------------------------------------------------------------
(* Queries and helpers. *)

Of(c) == {chat[c].one, chat[c].two} \ {None}

\* store.ActiveChat / IsChatting / IsUserChattingTx: the chats of u that are on.
ActiveChats(u) == {c \in ChatId : chat[c].status = "chatting" /\ u \in Of(c)}
IsChatting(u) == ActiveChats(u) # {}

OwnSearches(u) == {n \in NoteId : note[n].kind = "search" /\ note[n].user = u}

\* The rows that are inserted.
NewSearch(u, cost) == [kind |-> "search", user |-> u, peer |-> None, cost |-> cost,
                       status |-> "doing", age |-> 0]
NewRequest(u, v) == [kind |-> "request", user |-> u, peer |-> v, cost |-> RequestCost,
                     status |-> "doing", age |-> 0]
NewChat(u, cost, v, peerCost, n) ==
    [status |-> "chatting", one |-> u, two |-> v, spent1 |-> cost, spent2 |-> peerCost,
     refund1 |-> 0, refund2 |-> 0, from |-> n, msgs |-> 0, aged |-> FALSE]

\* The next value of a serial column.
NextNote(n) == note[n].kind = "none" /\ \A m \in NoteId : m < n => note[m].kind # "none"
NextChat(c) == chat[c].status = "none" /\ \A d \in ChatId : d < c => chat[d].status # "none"

\* An UPDATE or SELECT FOR UPDATE of p on these rows need not wait.
UserFree(p, us) == \A u \in us : userLock[u] \in {None, p}
NoteFree(p, ns) == \A n \in ns : noteLock[n] \in {None, p}

\* The rows of p's transaction, freed by its commit or its rollback.
ReleaseRows(p) ==
    /\ userLock' = [u \in User |-> IF userLock[u] = p THEN None ELSE userLock[u]]
    /\ noteLock' = [n \in NoteId |-> IF noteLock[n] = p THEN None ELSE noteLock[n]]
    /\ chatLock' = [c \in ChatId |-> IF chatLock[c] = p THEN None ELSE chatLock[c]]

EndNotes(S) == [n \in NoteId |-> IF n \in S THEN [note[n] EXCEPT !.status = "end"] ELSE note[n]]

GoTo(p, l) == pc' = [pc EXCEPT ![p] = l]

\* The process is done with its update or with its scan item.
Done(p) == GoTo(p, "idle") /\ job' = [job EXCEPT ![p] = NoJob]

-----------------------------------------------------------------------------
(* Workers: one update of one user. worker() holds the user's Redis lock, but  *)
(* the lock runs out after PER_USER_LOCK_TTL while its worker may still wait   *)
(* for Telegram: two workers can be busy with the same user.                   *)

\* A worker begins a handler for u that will run more statements.
Begin(w, u, l) == GoTo(w, l) /\ job' = [job EXCEPT ![w] = [NoJob EXCEPT !.user = u]]

\* The handlers that come before handleChat (support, card receipts, profile
\* editing, saving a contact, the classroom link) set the step of the user
\* whether or not a chat is on; so does the main menu, after it.
ChangeStep(w, u) ==
    /\ pc[w] = "idle" /\ UserFree(w, {u})
    /\ step' = [step EXCEPT ![u] = "start"]
    /\ UNCHANGED <<balance, note, chat, locks, pc, job, rejected>>

\* handleProfile leaves the completion flow by writing back the step that Process
\* read when it loaded the user.
LoadStep(w, u) ==
    /\ pc[w] = "idle"
    /\ GoTo(w, "rewriting")
    /\ job' = [job EXCEPT ![w] = [NoJob EXCEPT !.user = u, !.seenStep = step[u]]]
    /\ UNCHANGED <<rows, locks, rejected>>

RewriteStep(w) ==
    LET u == job[w].user IN
    /\ pc[w] = "rewriting" /\ UserFree(w, {u})
    /\ step' = [step EXCEPT ![u] = job[w].seenStep]
    /\ Done(w)
    /\ UNCHANGED <<balance, note, chat, locks, rejected>>

\* handleAnon, handleAnonGPS, handleProvinceSearch: handleChat has let the update
\* through, and the balance covers the cost.
StartSearch(w, u, cost) ==
    /\ pc[w] = "idle" /\ ~IsChatting(u) /\ balance[u] >= cost
    /\ job' = [job EXCEPT ![w] = [NoJob EXCEPT !.user = u, !.cost = cost]]
    /\ GoTo(w, "matching")
    /\ UNCHANGED <<rows, locks, rejected>>

\* findAnonMatch: one transaction claims a waiting search of somebody else whose
\* row nobody holds (SKIP LOCKED). Which rows pass the filters on gender, age and
\* place is left open.
ClaimMatch(w) ==
    /\ pc[w] = "matching"
    /\ \E n \in NoteId :
        /\ note[n].kind = "search" /\ note[n].status = "doing"
        /\ note[n].user # job[w].user /\ noteLock[n] = None
        /\ note' = [note EXCEPT ![n].status = "connecting"]
        /\ job' = [job EXCEPT ![w] = [@ EXCEPT !.note = n, !.peer = note[n].user,
                                               !.peerCost = note[n].cost]]
    /\ GoTo(w, "connecting")
    /\ UNCHANGED <<step, balance, chat, locks, rejected>>

\* No search passes the filters, and the user waits already with these filters.
AlreadySearching(w) ==
    /\ pc[w] = "matching"
    /\ \E n \in OwnSearches(job[w].user) : note[n].status = "doing" /\ note[n].cost = job[w].cost
    /\ Done(w)
    /\ UNCHANGED <<rows, locks, rejected>>

\* No search passes the filters: the user's searches are ended ...
EndOwnSearches(w) ==
    LET own == OwnSearches(job[w].user) IN
    /\ pc[w] = "matching" /\ NoteFree(w, own)
    /\ note' = EndNotes(own)
    /\ GoTo(w, "inserting")
    /\ UNCHANGED <<step, balance, chat, locks, job, rejected>>

\* ... and a new one inserted, by a statement of its own. The search by province
\* has one more to run.
InsertSearch(w) ==
    /\ pc[w] = "inserting"
    /\ \E n \in NoteId :
        /\ NextNote(n)
        /\ note' = [note EXCEPT ![n] = NewSearch(job[w].user, job[w].cost)]
    /\ Done(w) \/ Begin(w, job[w].user, "settling")
    /\ UNCHANGED <<step, balance, chat, locks, rejected>>

\* handleProvinceSearch resets the step after it has inserted the search.
SettleStep(w) ==
    LET u == job[w].user IN
    /\ pc[w] = "settling" /\ UserFree(w, {u})
    /\ step' = [step EXCEPT ![u] = "start"]
    /\ Done(w)
    /\ UNCHANGED <<balance, note, chat, locks, rejected>>

\* gibRequestChat. Its checks and its INSERT are separate statements; a chat that
\* begins between them leaves the same rows as one that begins after the INSERT.
RequestChat(w, u, v) ==
    /\ pc[w] = "idle" /\ v # u
    /\ ~IsChatting(v) /\ ~IsChatting(u)
    /\ balance[u] >= RequestCost
    /\ ~\E m \in NoteId : /\ note[m].kind = "request" /\ note[m].user = u /\ note[m].peer = v
                          /\ note[m].status = "doing" /\ note[m].age < 2
    /\ \E n \in NoteId :
        /\ NextNote(n)
        /\ note' = [note EXCEPT ![n] = NewRequest(u, v)]
    /\ UNCHANGED <<step, balance, chat, locks, pc, job, rejected>>

\* A request the buttons of its target may still name: its status is not looked at,
\* only whether the scheduler has deleted the row.
Answerable(w, n) == pc[w] = "idle" /\ note[n].kind = "request"

\* gibAcceptChat within the two minutes: the row is ended, then CreateChat runs.
AcceptRequest(w, n) ==
    /\ Answerable(w, n) /\ note[n].age < 2
    /\ ~IsChatting(note[n].user) /\ ~IsChatting(note[n].peer)
    /\ note' = EndNotes({n})
    /\ job' = [job EXCEPT ![w] = [NoJob EXCEPT !.user = note[n].peer, !.note = n,
                                 !.peer = note[n].user, !.peerCost = note[n].cost]]
    /\ GoTo(w, "connecting")
    /\ UNCHANGED <<step, balance, chat, locks, rejected>>

\* gibRejectChat within the two minutes.
RejectRequest(w, n) ==
    /\ Answerable(w, n) /\ note[n].age < 2
    /\ note' = EndNotes({n})
    /\ rejected' = rejected \cup {n}
    /\ UNCHANGED <<step, balance, chat, locks, pc, job>>

\* Either button after the two minutes.
AnswerTooLate(w, n) ==
    /\ Answerable(w, n) /\ note[n].age = 2
    /\ note' = EndNotes({n})
    /\ UNCHANGED <<step, balance, chat, locks, pc, job, rejected>>

-----------------------------------------------------------------------------
(* CreateChat, a transaction of a worker. *)

\* Mutant: the users are read without FOR UPDATE.
LockUsersWithoutLock(w) ==
    /\ pc[w] = "connecting" /\ UserFree(w, {job[w].user, job[w].peer})
    /\ ~IsChatting(job[w].user) /\ ~IsChatting(job[w].peer)
    /\ GoTo(w, "checked")
    /\ UNCHANGED <<rows, locks, job, rejected>>

\* SELECT ... FOR UPDATE on the two users, then the count of their active chats.
LockUsers(w) ==
    LET both == {job[w].user, job[w].peer} IN
    /\ pc[w] = "connecting" /\ UserFree(w, both)
    /\ \A u \in both : ~IsChatting(u)
    /\ userLock' = [u \in User |-> IF u \in both THEN w ELSE userLock[u]]
    /\ GoTo(w, "checked")
    /\ UNCHANGED <<rows, noteLock, chatLock, job, rejected>>

\* "one of users is already chatting": rolled back.
RefuseBusy(w) ==
    LET both == {job[w].user, job[w].peer} IN
    /\ pc[w] = "connecting" /\ UserFree(w, both)
    /\ \E u \in both : IsChatting(u)
    /\ GoTo(w, "failed")
    /\ UNCHANGED <<rows, locks, job, rejected>>

\* The searches of both end, the row is inserted, both are charged, commit.
CommitChat(w) ==
    LET j == job[w]
        searches == OwnSearches(j.user) \cup OwnSearches(j.peer)
        cost == [u \in {j.user, j.peer} |-> IF u = j.user THEN j.cost ELSE j.peerCost]
    IN
    /\ pc[w] = "checked" /\ NoteFree(w, searches)
    /\ note' = EndNotes(searches)
    /\ \E c \in ChatId :
        /\ NextChat(c)
        /\ chat' = [chat EXCEPT ![c] = NewChat(j.user, j.cost, j.peer, j.peerCost, j.note)]
    /\ balance' = [u \in User |-> IF u \in DOMAIN cost THEN balance[u] - cost[u] ELSE balance[u]]
    /\ step' = [u \in User |-> IF u \in DOMAIN cost THEN "chatting" ELSE step[u]]
    /\ ReleaseRows(w)
    /\ Done(w)
    /\ UNCHANGED rejected

\* connectAnonUsers puts a claimed search back; after gibAcceptChat the row is
\* ended and nothing is restored.
RestoreMatch(w) ==
    LET n == job[w].note IN
    /\ pc[w] = "failed" /\ NoteFree(w, {n})
    /\ note' = [note EXCEPT ![n].status = IF @ = "connecting" THEN "doing" ELSE @]
    /\ Done(w)
    /\ UNCHANGED <<step, balance, chat, locks, rejected>>

-----------------------------------------------------------------------------
(* Inside a chat. *)

\* relayChatMessage reads the active chat, sends, and then inserts the chatmsgs row.
\* A row inserted after the chat has ended is never counted. The count of this model
\* stops at MinMessages, the only number it is compared with (a bound of the model).
RelayMessage(w, u) ==
    /\ pc[w] = "idle"
    /\ \E c \in ActiveChats(u) :
        /\ chat[c].msgs < MinMessages
        /\ chat' = [chat EXCEPT ![c].msgs = @ + 1]
    /\ UNCHANGED <<step, balance, note, locks, pc, job, rejected>>

\* handleEndChat: handleChat has read the active chat, and the button is pressed ten
\* seconds or more after its start.
StartEndChat(w, u) ==
    /\ pc[w] = "idle"
    /\ \E c \in ActiveChats(u) :
        /\ chat[c].aged
        /\ job' = [job EXCEPT ![w] = [NoJob EXCEPT !.user = u, !.chat = c]]
    /\ GoTo(w, "ending")
    /\ UNCHANGED <<rows, locks, rejected>>

-----------------------------------------------------------------------------
(* EndChat, a transaction of a worker or of a scheduler. *)

\* Mutant: the status is not looked at again once the chat is locked.
LockChatUnchecked(p) ==
    LET c == job[p].chat IN
    /\ pc[p] = "ending" /\ chatLock[c] = None
    /\ chatLock' = [chatLock EXCEPT ![c] = p]
    /\ job' = [job EXCEPT ![p].few = chat[c].msgs < MinMessages]
    /\ GoTo(p, "counted")
    /\ UNCHANGED <<rows, userLock, noteLock, rejected>>

\* SELECT ... FOR UPDATE on the chat, still on; then the count of its messages.
LockChat(p) ==
    LET c == job[p].chat IN
    /\ pc[p] = "ending" /\ chatLock[c] = None
    /\ chat[c].status = "chatting"
    /\ chatLock' = [chatLock EXCEPT ![c] = p]
    /\ job' = [job EXCEPT ![p].few = chat[c].msgs < MinMessages]
    /\ GoTo(p, "counted")
    /\ UNCHANGED <<rows, userLock, noteLock, rejected>>

\* Mutant: each party is given what the other one paid.
CommitEndSwapped(p) ==
    LET c == job[p].chat
        r == chat[c]
        back1 == IF job[p].few THEN r.spent2 ELSE 0
        back2 == IF job[p].few THEN r.spent1 ELSE 0
        reset == {u \in Of(c) : step[u] = "chatting"}
    IN
    /\ pc[p] = "counted" /\ UserFree(p, Of(c))
    /\ chat' = [chat EXCEPT ![c] = [@ EXCEPT !.status = "end", !.refund1 = back1, !.refund2 = back2]]
    /\ balance' = [u \in User |-> IF u \notin reset THEN balance[u]
                                  ELSE balance[u] + (IF u = r.one THEN back1 ELSE back2)]
    /\ step' = [u \in User |-> IF u \in reset THEN "start" ELSE step[u]]
    /\ ReleaseRows(p)
    /\ Done(p)
    /\ UNCHANGED <<note, rejected>>

\* Mutant: each party is given what the chat has cost both.
CommitEndBoth(p) ==
    LET c == job[p].chat
        r == chat[c]
        back == IF job[p].few THEN r.spent1 + r.spent2 ELSE 0
        reset == {u \in Of(c) : step[u] = "chatting"}
    IN
    /\ pc[p] = "counted" /\ UserFree(p, Of(c))
    /\ chat' = [chat EXCEPT ![c] = [@ EXCEPT !.status = "end", !.refund1 = back, !.refund2 = back]]
    /\ balance' = [u \in User |-> IF u \in reset THEN balance[u] + back ELSE balance[u]]
    /\ step' = [u \in User |-> IF u \in reset THEN "start" ELSE step[u]]
    /\ ReleaseRows(p)
    /\ Done(p)
    /\ UNCHANGED <<note, rejected>>

\* The chat ends; the refund of a short chat is recorded in the chat, and paid to
\* the users whose step still says they are chatting.
CommitEnd(p) ==
    LET c == job[p].chat
        r == chat[c]
        back1 == IF job[p].few THEN r.spent1 ELSE 0
        back2 == IF job[p].few THEN r.spent2 ELSE 0
        reset == {u \in Of(c) : step[u] = "chatting"}
    IN
    /\ pc[p] = "counted" /\ UserFree(p, Of(c))
    /\ chat' = [chat EXCEPT ![c] = [@ EXCEPT !.status = "end", !.refund1 = back1, !.refund2 = back2]]
    /\ balance' = [u \in User |-> IF u \notin reset THEN balance[u]
                                  ELSE balance[u] + (IF u = r.one THEN back1 ELSE back2)]
    /\ step' = [u \in User |-> IF u \in reset THEN "start" ELSE step[u]]
    /\ ReleaseRows(p)
    /\ Done(p)
    /\ UNCHANGED <<note, rejected>>

\* "chat is already ended". The scheduler logs it; handleEndChat goes on.
RefuseEnded(p) ==
    LET c == job[p].chat IN
    /\ pc[p] = "ending" /\ chatLock[c] = None /\ chat[c].status # "chatting"
    /\ IF p \in Worker THEN GoTo(p, "endFailed") /\ UNCHANGED job ELSE Done(p)
    /\ UNCHANGED <<rows, locks, rejected>>

\* handleEndChat after an error of EndChat: the user's own step is reset.
ResetOwnStep(w) ==
    LET u == job[w].user IN
    /\ pc[w] = "endFailed" /\ UserFree(w, {u})
    /\ step' = [step EXCEPT ![u] = IF @ = "chatting" THEN "start" ELSE @]
    /\ Done(w)
    /\ UNCHANGED <<balance, note, chat, locks, rejected>>

-----------------------------------------------------------------------------
(* The scheduler. *)

\* Mutant: the search is read without FOR UPDATE.
LockSearchWithoutLock(s, n) ==
    /\ pc[s] = "idle" /\ noteLock[n] = None
    /\ note[n].kind = "search" /\ note[n].status = "doing" /\ note[n].age = 2
    /\ job' = [job EXCEPT ![s] = [@ EXCEPT !.note = n, !.user = note[n].user, !.cost = note[n].cost]]
    /\ GoTo(s, "fakeNote")
    /\ UNCHANGED <<rows, locks, rejected>>

\* CreateFakeChatFromSearch locks a search that has waited a minute ...
LockSearch(s, n) ==
    /\ pc[s] = "idle" /\ noteLock[n] = None
    /\ note[n].kind = "search" /\ note[n].status = "doing" /\ note[n].age = 2
    /\ noteLock' = [noteLock EXCEPT ![n] = s]
    /\ job' = [job EXCEPT ![s] = [@ EXCEPT !.note = n, !.user = note[n].user, !.cost = note[n].cost]]
    /\ GoTo(s, "fakeNote")
    /\ UNCHANGED <<rows, userLock, chatLock, rejected>>

\* ... then its user, and gives up if the user chats ...
LockSearcher(s) ==
    LET u == job[s].user IN
    /\ pc[s] = "fakeNote" /\ UserFree(s, {u})
    /\ IF IsChatting(u)
       THEN ReleaseRows(s) /\ Done(s)
       ELSE /\ userLock' = [userLock EXCEPT ![u] = s]
            /\ GoTo(s, "fakeChecked")
            /\ UNCHANGED <<noteLock, chatLock, job>>
    /\ UNCHANGED <<rows, rejected>>

\* ... and connects the user to a synthetic partner; commit.
CommitFakeChat(s) ==
    LET j == job[s] IN
    /\ pc[s] = "fakeChecked"
    /\ note' = EndNotes({j.note})
    /\ \E c \in ChatId :
        /\ NextChat(c)
        /\ chat' = [chat EXCEPT ![c] = NewChat(j.user, j.cost, None, 0, j.note)]
    /\ balance' = [balance EXCEPT ![j.user] = @ - j.cost]
    /\ step' = [step EXCEPT ![j.user] = "chatting"]
    /\ ReleaseRows(s)
    /\ Done(s)
    /\ UNCHANGED rejected

\* Mutant: the due chats are found through the step of their user.
StartEndDueByStep(s, c) ==
    /\ pc[s] = "idle"
    /\ chat[c].status = "chatting" /\ chat[c].two = None /\ chat[c].aged
    /\ step[chat[c].one] = "chatting"
    /\ job' = [job EXCEPT ![s].chat = c]
    /\ GoTo(s, "ending")
    /\ UNCHANGED <<rows, locks, rejected>>

\* endDueFakeChats finds a synthetic chat whose fake_end_at has come.
StartEndDue(s, c) ==
    /\ pc[s] = "idle"
    /\ chat[c].status = "chatting" /\ chat[c].two = None /\ chat[c].aged
    /\ job' = [job EXCEPT ![s].chat = c]
    /\ GoTo(s, "ending")
    /\ UNCHANGED <<rows, locks, rejected>>

\* Mutant: claims are taken back only while the search is not yet due to expire.
ResetConnectingYoung(s) ==
    LET stuck == {n \in NoteId : /\ note[n].kind = "search" /\ note[n].status = "connecting"
                                 /\ note[n].age = 1} IN
    /\ pc[s] = "idle" /\ stuck # {} /\ NoteFree(s, stuck)
    /\ note' = [n \in NoteId |-> IF n \in stuck THEN [note[n] EXCEPT !.status = "doing"] ELSE note[n]]
    /\ UNCHANGED <<step, balance, chat, locks, pc, job, rejected>>

\* RunOnce takes back the claims on searches older than 30 s. The age is that of
\* the search, not of the claim.
ResetConnecting(s) ==
    LET stuck == {n \in NoteId : /\ note[n].kind = "search" /\ note[n].status = "connecting"
                                 /\ note[n].age >= 1} IN
    /\ pc[s] = "idle" /\ stuck # {} /\ NoteFree(s, stuck)
    /\ note' = [n \in NoteId |-> IF n \in stuck THEN [note[n] EXCEPT !.status = "doing"] ELSE note[n]]
    /\ UNCHANGED <<step, balance, chat, locks, pc, job, rejected>>

\* expireSearches reads the expired searches, tells each user, and then ends the
\* row whatever has become of it.
StartExpire(s, n) ==
    /\ pc[s] = "idle"
    /\ note[n].kind = "search" /\ note[n].status = "doing" /\ note[n].age = 2
    /\ job' = [job EXCEPT ![s].note = n]
    /\ GoTo(s, "expiring")
    /\ UNCHANGED <<rows, locks, rejected>>

ExpireSearch(s) ==
    LET n == job[s].note IN
    /\ pc[s] = "expiring" /\ NoteFree(s, {n})
    /\ note' = IF note[n].kind = "gone" THEN note ELSE EndNotes({n})
    /\ Done(s)
    /\ UNCHANGED <<step, balance, chat, locks, rejected>>

\* RunOnce deletes the ended rows of notif.
PurgeNotes(s) ==
    LET ended == {n \in NoteId : note[n].status = "end"} IN
    /\ pc[s] = "idle" /\ ended # {}
    /\ note' = [n \in NoteId |-> IF n \in ended THEN GoneNote ELSE note[n]]
    /\ UNCHANGED <<step, balance, chat, locks, pc, job, rejected>>

-----------------------------------------------------------------------------
(* Time and failure. *)

NoteAges(n) ==
    /\ note[n].kind = "request" \/ note[n].status \in {"doing", "connecting"}
    /\ note[n].age < 2
    /\ note' = [note EXCEPT ![n].age = @ + 1]
    /\ UNCHANGED <<step, balance, chat, locks, pc, job, rejected>>

ChatAges(c) ==
    /\ chat[c].status = "chatting" /\ ~chat[c].aged
    /\ chat' = [chat EXCEPT ![c].aged = TRUE]
    /\ UNCHANGED <<step, balance, note, locks, pc, job, rejected>>

\* A statement fails inside a transaction (a deadlock PostgreSQL breaks, a lost
\* connection, no synthetic user enabled): rolled back, and the caller sees it.
Abort(p) ==
    /\ pc[p] \in {"connecting", "checked", "ending", "counted", "fakeNote", "fakeChecked"}
    /\ ReleaseRows(p)
    /\ IF p \in Scheduler THEN Done(p)
       ELSE /\ GoTo(p, IF pc[p] \in {"ending", "counted"} THEN "endFailed" ELSE "failed")
            /\ UNCHANGED job
    /\ UNCHANGED <<rows, rejected>>

\* The process dies and a new one takes its place.
Crash(p) ==
    /\ pc[p] # "idle"
    /\ ReleaseRows(p)
    /\ Done(p)
    /\ UNCHANGED <<rows, rejected>>

-----------------------------------------------------------------------------
Handle(w) ==
    \/ \E u \in User :
        \/ ChangeStep(w, u) \/ LoadStep(w, u) \/ RelayMessage(w, u) \/ StartEndChat(w, u)
        \/ \E cost \in SearchCost : StartSearch(w, u, cost)
        \/ \E v \in User : RequestChat(w, u, v)
    \/ \E n \in NoteId : AcceptRequest(w, n) \/ RejectRequest(w, n) \/ AnswerTooLate(w, n)

\* The rest of a handler once it has begun.
Proceed(w) ==
    \/ RewriteStep(w)
    \/ ClaimMatch(w) \/ AlreadySearching(w) \/ EndOwnSearches(w) \/ InsertSearch(w) \/ SettleStep(w)
    \/ LockUsers(w) \/ RefuseBusy(w) \/ CommitChat(w) \/ RestoreMatch(w)
    \/ ResetOwnStep(w)

EndSteps(p) == LockChat(p) \/ CommitEnd(p) \/ RefuseEnded(p)

FakeSteps(s) ==
    \/ \E n \in NoteId : LockSearch(s, n)
    \/ LockSearcher(s) \/ CommitFakeChat(s)

Sweep(s) ==
    \/ \E n \in NoteId : StartExpire(s, n)
    \/ ExpireSearch(s) \/ ResetConnecting(s) \/ PurgeNotes(s)

Time ==
    \/ \E n \in NoteId : NoteAges(n)
    \/ \E c \in ChatId : ChatAges(c)

Next ==
    \/ \E w \in Worker : Handle(w) \/ Proceed(w)
    \/ \E s \in Scheduler : FakeSteps(s) \/ Sweep(s) \/ (\E c \in ChatId : StartEndDue(s, c))
    \/ \E p \in Proc : EndSteps(p) \/ Abort(p) \/ Crash(p)
    \/ Time

Spec == Init /\ [][Next]_vars

(* Time passes; a handler or a transaction that has begun goes on or fails (a     *)
(* deadlock is broken), and ending a chat does not fail for ever; the scheduler,  *)
(* whose loop comes back to every one of its jobs each second or each             *)
(* JOB_INTERVAL, is not for ever busy whenever a job has work.                    *)
Advance(p) == Proceed(p) \/ EndSteps(p) \/ LockSearcher(p) \/ CommitFakeChat(p) \/ ExpireSearch(p)

Fairness ==
    /\ \A n \in NoteId : WF_vars(NoteAges(n))
    /\ \A c \in ChatId : WF_vars(ChatAges(c))
    /\ \A p \in Proc :
        WF_vars(Advance(p) \/ Abort(p)) /\ SF_vars(LockChat(p)) /\ SF_vars(CommitEnd(p))
    /\ \A s \in Scheduler :
        /\ SF_vars(ResetConnecting(s)) /\ SF_vars(ExpireSearch(s))
        /\ \A n \in NoteId : SF_vars(StartExpire(s, n))
        /\ \A c \in ChatId : SF_vars(StartEndDue(s, c))

FairSpec == Spec /\ Fairness

-----------------------------------------------------------------------------
(* Properties. *)

\* Nobody is in two conversations at once, though two workers, the other user's
\* accept button and every instance's scheduler may connect the same user at the
\* same time (CreateChat and CreateFakeChatFromSearch, under row locks).
OneActiveChat == \A u \in User : \A c, d \in ActiveChats(u) : c = d

\* Why it holds. The rows name real users where a handler takes them from a row, and
\* a process past a statement remembers what the statement found ...
RowsNamed ==
    \A n \in NoteId :
        /\ note[n].kind \in {"search", "request"} => note[n].user \in User
        /\ note[n].kind = "request" => note[n].peer \in User

JobsNamed ==
    \A p \in Proc :
        /\ pc[p] \in {"matching", "inserting", "connecting", "checked", "fakeNote", "fakeChecked"}
            => job[p].user \in User
        /\ pc[p] \in {"connecting", "checked"} => job[p].peer \in User
        /\ pc[p] \in {"connecting", "checked", "fakeNote", "fakeChecked"} => job[p].note \in NoteId
        /\ pc[p] \in {"ending", "counted"} => job[p].chat \in ChatId

WellFormed == RowsNamed /\ JobsNamed

\* ... a transaction about to insert a chat holds the rows of the users it connects,
\* and while it does, nobody else can connect them.
Claims(p, u) == \/ pc[p] = "checked" /\ u \in {job[p].user, job[p].peer}
                \/ pc[p] = "fakeChecked" /\ u = job[p].user

ClaimsHold ==
    \A p \in Proc : \A u \in User : Claims(p, u) => userLock[u] = p /\ ~IsChatting(u)

IndInv == TypeOK /\ WellFormed /\ ClaimsHold /\ OneActiveChat

\* A search falls back to a synthetic partner at most once, however many instances
\* run the scheduler (CreateFakeChatFromSearch "atomically claims" the search).
OneFakePerSearch ==
    LET fakes == {c \in ChatId : chat[c].status # "none" /\ chat[c].two = None}
    IN \A c, d \in fakes : chat[c].from = chat[d].from => c = d

\* A row of chats as the contract sees it.
TalkOf(r) ==
    [phase |-> r.status,
     paid |-> [u \in {r.one, r.two} \ {None} |-> IF u = r.one THEN r.spent1 ELSE r.spent2]]

Contract == INSTANCE ChatContract
    WITH talk <- [c \in ChatId |-> TalkOf(chat[c])], purse <- balance

\* The chats table and the coins implement the contract: a begin charges each party
\* its price, a chat ends once whoever ends it (either user or the schedulers), and
\* the end gives a party nothing or exactly its price.
ImplementsContract == Contract!ContractSpec

\* Nobody is given coins that are not their own: whoever ends a chat, how often and
\* at the same time as whom, a refund is at most what the same user paid for that
\* chat (CreateChat, CreateFakeChatFromSearch, EndChat).
CoinsOnlySpent == Contract!OwnCoins

\* What endChatText tells the users, and chats.refunded_1/2 records: the refund of a
\* short chat has come back to the account.
Spent(u, c) == IF chat[c].one = u THEN chat[c].spent1
               ELSE IF chat[c].two = u THEN chat[c].spent2 ELSE 0
Refunded(u, c) == IF chat[c].one = u THEN chat[c].refund1
                  ELSE IF chat[c].two = u THEN chat[c].refund2 ELSE 0
RefundsArrive ==
    \A u \in User : balance[u] = Deposit
        - MapThenSumSet(LAMBDA c : Spent(u, c), ChatId)
        + MapThenSumSet(LAMBDA c : Refunded(u, c), ChatId)

\* A rejected request connects nobody: no chat comes from it after the rejection.
FromRequest(n) == {c \in ChatId : chat[c].from = n}
RejectionStands ==
    [][\A n \in rejected : FromRequest(n)' = FromRequest(n)]_vars

\* "Wait two minutes at most": no search stays open, not even one whose claim died
\* with the worker that held it.
Open(n) == note[n].kind = "search" /\ note[n].status \in {"doing", "connecting"}
SearchResolved == \A n \in NoteId : Open(n) ~> ~Open(n)

\* A synthetic partner does not hold a user for ever: the scheduler ends the chat,
\* whatever happens to the user's step, and though its transaction may fail.
FakeOn(c) == chat[c].status = "chatting" /\ chat[c].two = None
FakeChatEnds == \A c \in ChatId : FakeOn(c) ~> ~FakeOn(c)

=============================================================================
