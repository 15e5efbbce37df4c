----------------------------- MODULE ChatProofs -----------------------------
(***************************************************************************)
(* Proofs about Chat, for every set of users, workers and schedulers and   *)
(* any number of rows.                                                     *)
(***************************************************************************)
EXTENDS Chat, TLAPS

-----------------------------------------------------------------------------
(* The records of the model. *)

\* The empty rows and the empty local state have their types.
LEMMA EmptyTyped == /\ NoNote \in Note /\ GoneNote \in Note /\ NoChat \in ChatRow /\ NoJob \in Job
                    /\ 0 \in Price /\ RequestCost \in Price /\ SearchCost \subseteq Price
<1>1. 0 \in Price /\ RequestCost \in Price /\ SearchCost \subseteq Price
  BY DEF Price
<1>2. NoNote \in Note /\ GoneNote \in Note
  BY <1>1 DEF NoNote, GoneNote, Note
<1>3. NoChat \in ChatRow
  BY <1>1, ConstantsAssumption DEF NoChat, ChatRow
<1>4. NoJob \in Job
  BY <1>1 DEF NoJob, Job, Step
<1> QED
  BY <1>1, <1>2, <1>3, <1>4

\* Ending a set of notif rows keeps the table and the users its rows name.
LEMMA EndNotesKeeps ==
  ASSUME TypeOK, NEW S
  PROVE  /\ EndNotes(S) \in [NoteId -> Note]
         /\ \A n \in NoteId : /\ EndNotes(S)[n].kind = note[n].kind
                              /\ EndNotes(S)[n].user = note[n].user
                              /\ EndNotes(S)[n].peer = note[n].peer
BY DEF TypeOK, EndNotes, Note

\* Freeing the rows of a process keeps the types of the lock tables.
LEMMA ReleaseTyped ==
  ASSUME TypeOK, NEW p \in Proc, ReleaseRows(p)
  PROVE  /\ userLock' \in [User -> Proc \cup {None}]
         /\ noteLock' \in [NoteId -> Proc \cup {None}]
         /\ chatLock' \in [ChatId -> Proc \cup {None}]
BY DEF TypeOK, ReleaseRows

\* Likewise for ending a handler.
LEMMA DoneTyped ==
  ASSUME TypeOK, NEW p \in Proc, Done(p)
  PROVE  pc' \in [Proc -> Pc] /\ job' \in [Proc -> Job]
BY EmptyTyped DEF TypeOK, Done, GoTo, Pc

-----------------------------------------------------------------------------
(* The initial state. *)

\* The initial state satisfies the inductive invariant.
LEMMA InitIndInv == Init => IndInv
<1>1. SUFFICES ASSUME Init PROVE IndInv
  OBVIOUS
<1>3. TypeOK
  <2>1. step \in [User -> Step] /\ pc \in [Proc -> Pc] /\ rejected \in SUBSET NoteId
    BY <1>1 DEF Init, Step, Pc
  <2>2. balance \in [User -> Int]
    BY <1>1, ConstantsAssumption DEF Init
  <2>3. note \in [NoteId -> Note] /\ chat \in [ChatId -> ChatRow] /\ job \in [Proc -> Job]
    BY <1>1, EmptyTyped DEF Init
  <2>4. /\ userLock \in [User -> Proc \cup {None}]
        /\ noteLock \in [NoteId -> Proc \cup {None}]
        /\ chatLock \in [ChatId -> Proc \cup {None}]
    BY <1>1 DEF Init
  <2> QED
    BY <2>1, <2>2, <2>3, <2>4 DEF TypeOK
<1>4. WellFormed
  BY <1>1 DEF Init, WellFormed, RowsNamed, JobsNamed, NoNote
<1>5. ClaimsHold
  BY <1>1 DEF Init, ClaimsHold, Claims
<1>6. OneActiveChat
  BY <1>1 DEF Init, OneActiveChat, ActiveChats, NoChat
<1> QED
  BY <1>3, <1>4, <1>5, <1>6 DEF IndInv

-----------------------------------------------------------------------------
(* Type correctness. *)

\* Coins are natural numbers.
LEMMA PriceNat == Price \subseteq Nat
BY ConstantsAssumption DEF Price

\* The rows that are inserted, and the changes that are made to rows, keep their types.
LEMMA NewNoteTyped ==
  ASSUME NEW u \in User, NEW v \in User, NEW k \in Price
  PROVE  NewSearch(u, k) \in Note /\ NewRequest(u, v) \in Note
BY EmptyTyped DEF Note, NewSearch, NewRequest

LEMMA NewChatTyped ==
  ASSUME NEW u \in User, NEW v \in User \cup {None}, NEW k \in Price, NEW l \in Price,
         NEW n \in NoteId
  PROVE  NewChat(u, k, v, l, n) \in ChatRow
BY EmptyTyped, ConstantsAssumption DEF ChatRow, NewChat

LEMMA NoteStatusTyped ==
  ASSUME NEW r \in Note, NEW s \in {"none", "doing", "connecting", "end"}
  PROVE  [r EXCEPT !.status = s] \in Note
BY DEF Note

LEMMA ChatEndTyped ==
  ASSUME NEW r \in ChatRow, NEW x \in Price, NEW y \in Price
  PROVE  [r EXCEPT !.status = "end", !.refund1 = x, !.refund2 = y] \in ChatRow
BY DEF ChatRow

LEMMA ChatTimeTyped ==
  ASSUME NEW r \in ChatRow
  PROVE  /\ [r EXCEPT !.aged = TRUE] \in ChatRow
         /\ r.msgs < MinMessages => [r EXCEPT !.msgs = @ + 1] \in ChatRow
<1>1. [r EXCEPT !.aged = TRUE] \in ChatRow
  BY DEF ChatRow
<1>2. ASSUME r.msgs < MinMessages PROVE [r EXCEPT !.msgs = @ + 1] \in ChatRow
  <2>1. r.msgs \in 0..MinMessages
    BY DEF ChatRow
  <2>2. r.msgs + 1 \in 0..MinMessages
    BY <1>2, <2>1, ConstantsAssumption
  <2> QED
    BY <2>2 DEF ChatRow
<1> QED
  BY <1>1, <1>2

\* A worker's step of a search keeps the types.
LEMMA TypeSearch ==
  ASSUME TypeOK, WellFormed, NEW w \in Worker,
         \/ ClaimMatch(w) \/ AlreadySearching(w) \/ EndOwnSearches(w) \/ InsertSearch(w)
         \/ SettleStep(w)
  PROVE  TypeOK'
<1>0. w \in Proc /\ job[w] \in Job
  BY DEF Proc, TypeOK
<1>1. CASE ClaimMatch(w)
  <2>1. PICK n \in NoteId :
          /\ note' = [note EXCEPT ![n] = [@ EXCEPT !.status = "connecting"]]
          /\ job' = [job EXCEPT ![w] = [@ EXCEPT !.note = n, !.peer = note[n].user,
                                                 !.peerCost = note[n].cost]]
    BY <1>1 DEF ClaimMatch
  <2>2. note[n] \in Note /\ [note[n] EXCEPT !.status = "connecting"] \in Note
    BY NoteStatusTyped DEF TypeOK
  <2>3. [job[w] EXCEPT !.note = n, !.peer = note[n].user, !.peerCost = note[n].cost] \in Job
    BY <1>0, <2>2 DEF Job, Note
  <2>4. note' \in [NoteId -> Note] /\ job' \in [Proc -> Job]
    BY <1>0, <2>1, <2>2, <2>3 DEF TypeOK
  <2>5. pc' \in [Proc -> Pc]
    BY <1>0, <1>1 DEF ClaimMatch, TypeOK, GoTo, Pc
  <2> QED
    BY <1>1, <2>4, <2>5 DEF ClaimMatch, TypeOK, locks
<1>2. CASE AlreadySearching(w)
  BY <1>0, <1>2, DoneTyped DEF AlreadySearching, TypeOK, rows, locks
<1>3. CASE EndOwnSearches(w)
  BY <1>0, <1>3, EndNotesKeeps DEF EndOwnSearches, TypeOK, GoTo, Pc, locks
<1>4. CASE InsertSearch(w)
  <2>1. note' \in [NoteId -> Note]
    <3>1. job[w].user \in User /\ job[w].cost \in Price
      BY <1>0, <1>4 DEF InsertSearch, WellFormed, JobsNamed, Job
    <3>2. NewSearch(job[w].user, job[w].cost) \in Note
      BY <3>1, NewNoteTyped
    <3> QED
      BY <1>4, <3>2 DEF InsertSearch, TypeOK
  <2>2. pc' \in [Proc -> Pc] /\ job' \in [Proc -> Job]
    <3>1. [NoJob EXCEPT !.user = job[w].user] \in Job
      BY <1>0, EmptyTyped DEF Job
    <3>2. CASE Done(w)
      BY <1>0, <3>2, DoneTyped
    <3>3. CASE Begin(w, job[w].user, "settling")
      BY <1>0, <3>1, <3>3 DEF Begin, GoTo, TypeOK, Pc
    <3> QED
      BY <1>4, <3>2, <3>3 DEF InsertSearch
  <2> QED
    BY <1>4, <2>1, <2>2 DEF InsertSearch, TypeOK, locks
<1>5. CASE SettleStep(w)
  BY <1>0, <1>5, DoneTyped DEF SettleStep, TypeOK, Step, locks
<1> QED
  BY <1>1, <1>2, <1>3, <1>4, <1>5

\* So does a step of CreateChat or of what follows its failure.
LEMMA TypeConnect ==
  ASSUME TypeOK, WellFormed, NEW w \in Worker,
         LockUsers(w) \/ RefuseBusy(w) \/ CommitChat(w) \/ RestoreMatch(w)
  PROVE  TypeOK'
<1>0. w \in Proc /\ job[w] \in Job
  BY DEF Proc, TypeOK
<1>1. CASE LockUsers(w)
  BY <1>0, <1>1 DEF LockUsers, TypeOK, rows, GoTo, Pc
<1>2. CASE RefuseBusy(w)
  BY <1>0, <1>2 DEF RefuseBusy, TypeOK, rows, locks, GoTo, Pc
<1>3. CASE CommitChat(w)
  <2> DEFINE j == job[w]
  <2>1. /\ j.user \in User /\ j.peer \in User /\ j.note \in NoteId
        /\ j.cost \in Price /\ j.peerCost \in Price
    BY <1>0, <1>3 DEF CommitChat, WellFormed, JobsNamed, Job
  <2>2. chat' \in [ChatId -> ChatRow]
    <3>1. NewChat(j.user, j.cost, j.peer, j.peerCost, j.note) \in ChatRow
      BY <2>1, NewChatTyped
    <3> QED
      BY <1>3, <3>1 DEF CommitChat, TypeOK
  <2>3. balance' \in [User -> Int]
    <3>0. j.cost \in Int /\ j.peerCost \in Int /\ balance \in [User -> Int]
      <4>1. j.cost \in Nat /\ j.peerCost \in Nat
        BY <2>1, PriceNat
      <4>2. balance \in [User -> Int]
        BY DEF TypeOK
      <4> QED
        BY <4>1, <4>2
    <3>1. \A u \in User : balance[u] \in Int /\ balance[u] - j.cost \in Int
                          /\ balance[u] - j.peerCost \in Int
      BY <3>0
    <3>2. \A u \in User : balance'[u] \in {balance[u], balance[u] - j.cost, balance[u] - j.peerCost}
      BY <1>3 DEF CommitChat
    <3>3. \A u \in User : balance'[u] \in Int
      BY <3>1, <3>2
    <3> QED
      BY <1>3, <3>3 DEF CommitChat
  <2>4. note' \in [NoteId -> Note]
    BY <1>3, EndNotesKeeps DEF CommitChat
  <2>5. step' \in [User -> Step]
    BY <1>3 DEF CommitChat, TypeOK, Step
  <2> QED
    BY <1>0, <1>3, <2>2, <2>3, <2>4, <2>5, ReleaseTyped, DoneTyped DEF CommitChat, TypeOK
<1>4. CASE RestoreMatch(w)
  <2> DEFINE n == job[w].note
             s == IF note[n].status = "connecting" THEN "doing" ELSE note[n].status
  <2>1. CASE n \in NoteId
    <3>1. note[n] \in Note /\ s \in {"none", "doing", "connecting", "end"}
      BY <2>1 DEF TypeOK, Note
    <3>2. [note[n] EXCEPT !.status = s] \in Note
      BY <3>1, NoteStatusTyped
    <3>3. note' = [note EXCEPT ![n] = [note[n] EXCEPT !.status = s]]
      BY <1>4 DEF RestoreMatch
    <3> QED
      BY <1>0, <1>4, <3>2, <3>3, DoneTyped DEF RestoreMatch, TypeOK, locks
  <2>2. CASE n \notin NoteId
    <3>1. note' = note
      BY <1>4, <2>2 DEF RestoreMatch, TypeOK
    <3> QED
      BY <1>0, <1>4, <3>1, DoneTyped DEF RestoreMatch, TypeOK, locks
  <2> QED
    BY <2>1, <2>2
<1> QED
  BY <1>1, <1>2, <1>3, <1>4

\* So does the first statement of a handler, and a handler of a single statement.
LEMMA TypeHandle ==
  ASSUME TypeOK, WellFormed, NEW w \in Worker, Handle(w) \/ RewriteStep(w)
  PROVE  TypeOK'
<1>0. w \in Proc /\ job[w] \in Job
  BY DEF Proc, TypeOK
<1>1. ASSUME NEW u \in User, ChangeStep(w, u) PROVE TypeOK'
  BY <1>1 DEF ChangeStep, TypeOK, Step, locks
<1>2. ASSUME NEW u \in User, LoadStep(w, u) PROVE TypeOK'
  <2>1. [NoJob EXCEPT !.user = u, !.seenStep = step[u]] \in Job
    BY EmptyTyped DEF Job, TypeOK
  <2> QED
    BY <1>0, <1>2, <2>1 DEF LoadStep, TypeOK, GoTo, Pc, rows, locks
<1>3. ASSUME NEW u \in User, NEW cost \in SearchCost, StartSearch(w, u, cost) PROVE TypeOK'
  <2>1. [NoJob EXCEPT !.user = u, !.cost = cost] \in Job
    BY EmptyTyped DEF Job
  <2> QED
    BY <1>0, <1>3, <2>1 DEF StartSearch, TypeOK, GoTo, Pc, rows, locks
<1>4. ASSUME NEW u \in User, RelayMessage(w, u) PROVE TypeOK'
  <2>1. PICK c \in ChatId : /\ chat[c].msgs < MinMessages
                            /\ chat' = [chat EXCEPT ![c] = [chat[c] EXCEPT !.msgs = chat[c].msgs + 1]]
    BY <1>4 DEF RelayMessage, ActiveChats
  <2>2. [chat[c] EXCEPT !.msgs = chat[c].msgs + 1] \in ChatRow
    BY <2>1, ChatTimeTyped DEF TypeOK
  <2>3. chat' \in [ChatId -> ChatRow]
    BY <2>1, <2>2 DEF TypeOK
  <2> QED
    BY <1>4, <2>3 DEF RelayMessage, TypeOK, locks
<1>5. ASSUME NEW u \in User, StartEndChat(w, u) PROVE TypeOK'
  <2>1. PICK c \in ChatId : job' = [job EXCEPT ![w] = [NoJob EXCEPT !.user = u, !.chat = c]]
    BY <1>5 DEF StartEndChat, ActiveChats
  <2>2. [NoJob EXCEPT !.user = u, !.chat = c] \in Job
    BY EmptyTyped DEF Job
  <2>3. job' \in [Proc -> Job] /\ pc' \in [Proc -> Pc]
    BY <1>0, <1>5, <2>1, <2>2 DEF StartEndChat, TypeOK, GoTo, Pc
  <2> QED
    BY <1>5, <2>3 DEF StartEndChat, TypeOK, rows, locks
<1>6. ASSUME NEW u \in User, NEW v \in User, RequestChat(w, u, v) PROVE TypeOK'
  <2>1. NewRequest(u, v) \in Note
    BY EmptyTyped, NewNoteTyped
  <2>2. note' \in [NoteId -> Note]
    BY <1>6, <2>1 DEF RequestChat, TypeOK
  <2> QED
    BY <1>6, <2>2 DEF RequestChat, TypeOK, locks
<1>7. ASSUME NEW n \in NoteId, AcceptRequest(w, n) PROVE TypeOK'
  <2>1. note[n] \in Note
    BY DEF TypeOK
  <2>2. [NoJob EXCEPT !.user = note[n].peer, !.note = n, !.peer = note[n].user,
                      !.peerCost = note[n].cost] \in Job
    BY <2>1, EmptyTyped DEF Job, Note
  <2> QED
    BY <1>0, <1>7, <2>2, EndNotesKeeps DEF AcceptRequest, TypeOK, GoTo, Pc, locks
<1>8. ASSUME NEW n \in NoteId, RejectRequest(w, n) \/ AnswerTooLate(w, n) PROVE TypeOK'
  BY <1>8, EndNotesKeeps DEF RejectRequest, AnswerTooLate, TypeOK, locks
<1>9. CASE RewriteStep(w)
  BY <1>0, <1>9, DoneTyped DEF RewriteStep, TypeOK, Job, locks
<1> QED
  BY <1>1, <1>2, <1>3, <1>4, <1>5, <1>6, <1>7, <1>8, <1>9 DEF Handle

\* So does a step of EndChat or of what follows its failure.
LEMMA TypeEnd ==
  ASSUME TypeOK, WellFormed, NEW p \in Proc,
         EndSteps(p) \/ (p \in Worker /\ ResetOwnStep(p))
  PROVE  TypeOK'
<1>0. job[p] \in Job
  BY DEF TypeOK
<1>1. CASE LockChat(p)
  <2> DEFINE b == chat[job[p].chat].msgs < MinMessages
  <2>1. b \in BOOLEAN
    OBVIOUS
  <2>2. job' = [job EXCEPT ![p] = [@ EXCEPT !.few = b]]
    BY <1>1 DEF LockChat
  <2> HIDE DEF b
  <2>3. [job[p] EXCEPT !.few = b] \in Job
    BY <1>0, <2>1 DEF Job
  <2>4. job' \in [Proc -> Job]
    BY <2>2, <2>3 DEF TypeOK
  <2> QED
    BY <1>1, <2>4 DEF LockChat, TypeOK, GoTo, Pc, rows
<1>2. CASE CommitEnd(p)
  <2> DEFINE c == job[p].chat
             r == chat[c]
             back1 == IF job[p].few THEN r.spent1 ELSE 0
             back2 == IF job[p].few THEN r.spent2 ELSE 0
  <2>1. c \in ChatId
    BY <1>2 DEF CommitEnd, WellFormed, JobsNamed
  <2>2. r \in ChatRow
    BY <2>1 DEF TypeOK
  <2>3. back1 \in Price /\ back2 \in Price
    BY <2>2, EmptyTyped DEF ChatRow
  <2>4. [r EXCEPT !.status = "end", !.refund1 = back1, !.refund2 = back2] \in ChatRow
    BY <2>2, <2>3, ChatEndTyped
  <2>5. chat' = [chat EXCEPT ![c] = [r EXCEPT !.status = "end", !.refund1 = back1, !.refund2 = back2]]
    BY <1>2 DEF CommitEnd
  <2>6. chat' \in [ChatId -> ChatRow]
    BY <2>4, <2>5 DEF TypeOK
  <2>7. step' \in [User -> Step]
    BY <1>2 DEF CommitEnd, TypeOK, Step
  <2>8. balance' \in [User -> Int]
    <3>1. back1 \in Nat /\ back2 \in Nat
      BY <2>3, PriceNat
    <3>2. balance \in [User -> Int]
      BY DEF TypeOK
    <3>3. \A u \in User : balance'[u] \in {balance[u], balance[u] + back1, balance[u] + back2}
      BY <1>2 DEF CommitEnd
    <3>4. \A u \in User : balance'[u] \in Int
      BY <3>1, <3>2, <3>3
    <3> QED
      BY <1>2, <3>4 DEF CommitEnd
  <2> QED
    BY <1>2, <2>6, <2>7, <2>8, ReleaseTyped, DoneTyped DEF CommitEnd, TypeOK
<1>3. CASE RefuseEnded(p)
  <2>1. pc' \in [Proc -> Pc] /\ job' \in [Proc -> Job]
    <3>1. CASE p \in Worker
      BY <1>3, <3>1 DEF RefuseEnded, TypeOK, GoTo, Pc
    <3>2. CASE p \notin Worker
      BY <1>3, <3>2, DoneTyped DEF RefuseEnded
    <3> QED
      BY <3>1, <3>2
  <2> QED
    BY <1>3, <2>1 DEF RefuseEnded, TypeOK, rows, locks
<1>4. CASE p \in Worker /\ ResetOwnStep(p)
  BY <1>4, DoneTyped DEF ResetOwnStep, TypeOK, Step, locks
<1> QED
  BY <1>1, <1>2, <1>3, <1>4 DEF EndSteps

\* So does a step of the scheduler.
LEMMA TypeScheduler ==
  ASSUME TypeOK, WellFormed, NEW s \in Scheduler,
         FakeSteps(s) \/ Sweep(s) \/ (\E c \in ChatId : StartEndDue(s, c))
  PROVE  TypeOK'
<1>0. s \in Proc /\ job[s] \in Job
  BY DEF Proc, TypeOK
<1>1. ASSUME NEW n \in NoteId, LockSearch(s, n) PROVE TypeOK'
  <2>1. note[n] \in Note
    BY DEF TypeOK
  <2>2. [job[s] EXCEPT !.note = n, !.user = note[n].user, !.cost = note[n].cost] \in Job
    BY <1>0, <2>1 DEF Job, Note
  <2>3. job' \in [Proc -> Job]
    BY <1>1, <2>2 DEF LockSearch, TypeOK
  <2> QED
    BY <1>0, <1>1, <2>3 DEF LockSearch, TypeOK, GoTo, Pc, rows
<1>2. CASE LockSearcher(s)
  <2> DEFINE u == job[s].user
  <2>1. CASE IsChatting(u)
    BY <1>0, <1>2, <2>1, ReleaseTyped, DoneTyped DEF LockSearcher, TypeOK, rows
  <2>2. CASE ~IsChatting(u)
    BY <1>0, <1>2, <2>2 DEF LockSearcher, TypeOK, GoTo, Pc, rows
  <2> QED
    BY <2>1, <2>2
<1>3. CASE CommitFakeChat(s)
  <2> DEFINE j == job[s]
  <2>1. j.user \in User /\ j.note \in NoteId /\ j.cost \in Price
    BY <1>0, <1>3 DEF CommitFakeChat, WellFormed, JobsNamed, Job
  <2>2. NewChat(j.user, j.cost, None, 0, j.note) \in ChatRow
    BY <2>1, NewChatTyped, EmptyTyped
  <2>3. chat' \in [ChatId -> ChatRow]
    BY <1>3, <2>2 DEF CommitFakeChat, TypeOK
  <2>4. balance' \in [User -> Int]
    <3>1. j.cost \in Nat
      BY <2>1, PriceNat
    <3>2. balance \in [User -> Int]
      BY DEF TypeOK
    <3>3. balance[j.user] - j.cost \in Int
      BY <2>1, <3>1, <3>2
    <3>4. balance' = [balance EXCEPT ![j.user] = balance[j.user] - j.cost]
      BY <1>3 DEF CommitFakeChat
    <3> QED
      BY <3>2, <3>3, <3>4
  <2>5. step' \in [User -> Step] /\ note' \in [NoteId -> Note]
    BY <1>3, EndNotesKeeps DEF CommitFakeChat, TypeOK, Step
  <2> QED
    BY <1>0, <1>3, <2>3, <2>4, <2>5, ReleaseTyped, DoneTyped DEF CommitFakeChat, TypeOK
<1>4. ASSUME NEW n \in NoteId, StartExpire(s, n) PROVE TypeOK'
  <2>1. job' = [job EXCEPT ![s] = [@ EXCEPT !.note = n]]
    BY <1>4 DEF StartExpire
  <2>2. [job[s] EXCEPT !.note = n] \in Job
    BY <1>0 DEF Job
  <2>3. job' \in [Proc -> Job]
    BY <2>1, <2>2 DEF TypeOK
  <2> QED
    BY <1>0, <1>4, <2>3 DEF StartExpire, TypeOK, GoTo, Pc, rows, locks
<1>5. CASE ExpireSearch(s)
  BY <1>0, <1>5, EndNotesKeeps, DoneTyped DEF ExpireSearch, TypeOK, locks
<1>6. CASE ResetConnecting(s)
  <2>1. \A n \in NoteId : [note[n] EXCEPT !.status = "doing"] \in Note
    BY NoteStatusTyped DEF TypeOK
  <2> QED
    BY <1>6, <2>1 DEF ResetConnecting, TypeOK, locks
<1>7. CASE PurgeNotes(s)
  BY <1>7, EmptyTyped DEF PurgeNotes, TypeOK, locks
<1>8. ASSUME NEW c \in ChatId, StartEndDue(s, c) PROVE TypeOK'
  <2>1. job' = [job EXCEPT ![s] = [@ EXCEPT !.chat = c]]
    BY <1>8 DEF StartEndDue
  <2>2. [job[s] EXCEPT !.chat = c] \in Job
    BY <1>0 DEF Job
  <2>3. job' \in [Proc -> Job]
    BY <2>1, <2>2 DEF TypeOK
  <2> QED
    BY <1>0, <1>8, <2>3 DEF StartEndDue, TypeOK, GoTo, Pc, rows, locks
<1> QED
  BY <1>1, <1>2, <1>3, <1>4, <1>5, <1>6, <1>7, <1>8 DEF FakeSteps, Sweep

\* So do the passing of time and the failures.
LEMMA TypeTimeAndFailure ==
  ASSUME TypeOK, Time \/ (\E p \in Proc : Abort(p) \/ Crash(p))
  PROVE  TypeOK'
<1>1. ASSUME NEW n \in NoteId, NoteAges(n) PROVE TypeOK'
  <2>1. note[n] \in Note /\ note[n].age < 2 /\ note[n].age \in 0..2
    BY <1>1 DEF NoteAges, TypeOK, Note
  <2>2. note[n].age + 1 \in 0..2
    BY <2>1
  <2>3. [note[n] EXCEPT !.age = note[n].age + 1] \in Note
    BY <2>1, <2>2 DEF Note
  <2>4. note' = [note EXCEPT ![n] = [note[n] EXCEPT !.age = note[n].age + 1]]
    BY <1>1 DEF NoteAges
  <2>5. note' \in [NoteId -> Note]
    BY <2>3, <2>4 DEF TypeOK
  <2> QED
    BY <1>1, <2>5 DEF NoteAges, TypeOK, locks
<1>2. ASSUME NEW c \in ChatId, ChatAges(c) PROVE TypeOK'
  <2>1. [chat[c] EXCEPT !.aged = TRUE] \in ChatRow
    BY ChatTimeTyped DEF TypeOK
  <2>2. chat' = [chat EXCEPT ![c] = [chat[c] EXCEPT !.aged = TRUE]]
    BY <1>2 DEF ChatAges
  <2>3. chat' \in [ChatId -> ChatRow]
    BY <2>1, <2>2 DEF TypeOK
  <2> QED
    BY <1>2, <2>3 DEF ChatAges, TypeOK, locks
<1>3. ASSUME NEW p \in Proc, Abort(p) PROVE TypeOK'
  <2>1. pc' \in [Proc -> Pc] /\ job' \in [Proc -> Job]
    <3>1. CASE p \in Scheduler
      BY <1>3, <3>1, DoneTyped DEF Abort
    <3>2. CASE p \notin Scheduler
      <4>1. GoTo(p, "endFailed") \/ GoTo(p, "failed")
        BY <1>3, <3>2 DEF Abort
      <4> QED
        BY <1>3, <3>2, <4>1 DEF Abort, TypeOK, GoTo, Pc
    <3> QED
      BY <3>1, <3>2
  <2> QED
    BY <1>3, <2>1, ReleaseTyped DEF Abort, TypeOK, rows
<1>4. ASSUME NEW p \in Proc, Crash(p) PROVE TypeOK'
  BY <1>4, ReleaseTyped, DoneTyped DEF Crash, TypeOK, rows
<1> QED
  BY <1>1, <1>2, <1>3, <1>4 DEF Time

\* Every step keeps the types.
LEMMA TypeStep == TypeOK /\ WellFormed /\ [Next]_vars => TypeOK'
<1>1. SUFFICES ASSUME TypeOK, WellFormed, [Next]_vars PROVE TypeOK'
  OBVIOUS
<1>2. CASE UNCHANGED vars
  BY <1>1, <1>2 DEF TypeOK, vars, rows, locks
<1>3. ASSUME NEW w \in Worker, Handle(w) \/ Proceed(w) PROVE TypeOK'
  <2>1. w \in Proc
    BY DEF Proc
  <2> QED
    BY <1>1, <1>3, <2>1, TypeHandle, TypeSearch, TypeConnect, TypeEnd DEF Proceed
<1>4. ASSUME NEW s \in Scheduler, FakeSteps(s) \/ Sweep(s) \/ (\E c \in ChatId : StartEndDue(s, c))
      PROVE TypeOK'
  BY <1>1, <1>4, TypeScheduler
<1>5. ASSUME NEW p \in Proc, EndSteps(p) \/ Abort(p) \/ Crash(p) PROVE TypeOK'
  BY <1>1, <1>5, TypeEnd, TypeTimeAndFailure
<1>6. CASE Time
  BY <1>1, <1>6, TypeTimeAndFailure
<1> QED
  BY <1>1, <1>2, <1>3, <1>4, <1>5, <1>6 DEF Next

-----------------------------------------------------------------------------
(* Rows and local states name real users: each group of actions keeps it. *)

LEMMA NamedHandle ==
  ASSUME TypeOK, TypeOK', WellFormed, NEW w \in Worker, Handle(w)
  PROVE  WellFormed'
<1>1. ASSUME NEW u \in User, ChangeStep(w, u) PROVE WellFormed'
  BY <1>1 DEF ChangeStep, WellFormed, RowsNamed, TypeOK, JobsNamed, Proc
<1>2. ASSUME NEW u \in User, LoadStep(w, u) PROVE WellFormed'
  BY <1>2 DEF LoadStep, WellFormed, RowsNamed, rows, TypeOK, JobsNamed, GoTo, NoJob, Proc
<1>3. ASSUME NEW u \in User, NEW cost \in SearchCost, StartSearch(w, u, cost) PROVE WellFormed'
  BY <1>3 DEF StartSearch, WellFormed, RowsNamed, rows, TypeOK, JobsNamed, GoTo, NoJob, Proc
<1>4. ASSUME NEW u \in User, NEW v \in User, RequestChat(w, u, v) PROVE WellFormed'
  BY <1>4 DEF RequestChat, WellFormed, RowsNamed, TypeOK, NewRequest, JobsNamed, Proc
<1>5. ASSUME NEW n \in NoteId, AcceptRequest(w, n) PROVE WellFormed'
  BY <1>5, EndNotesKeeps
     DEF AcceptRequest, WellFormed, RowsNamed, TypeOK, JobsNamed, Answerable, GoTo, NoJob, Proc
<1>6. ASSUME NEW n \in NoteId, RejectRequest(w, n) PROVE WellFormed'
  BY <1>6, EndNotesKeeps DEF RejectRequest, WellFormed, RowsNamed, TypeOK, JobsNamed, Proc
<1>7. ASSUME NEW n \in NoteId, AnswerTooLate(w, n) PROVE WellFormed'
  BY <1>7, EndNotesKeeps DEF AnswerTooLate, WellFormed, RowsNamed, TypeOK, JobsNamed, Proc
<1>8. ASSUME NEW u \in User, RelayMessage(w, u) PROVE WellFormed'
  BY <1>8 DEF RelayMessage, WellFormed, RowsNamed, TypeOK, JobsNamed, Proc
<1>9. ASSUME NEW u \in User, StartEndChat(w, u) PROVE WellFormed'
  <2>1. RowsNamed'
    BY <1>9 DEF StartEndChat, WellFormed, RowsNamed, rows
  <2>2. PICK c \in ChatId : job' = [job EXCEPT ![w] = [NoJob EXCEPT !.user = u, !.chat = c]]
    BY <1>9 DEF StartEndChat, ActiveChats
  <2>3. JobsNamed'
    BY <1>9, <2>2 DEF StartEndChat, TypeOK, WellFormed, JobsNamed, GoTo, NoJob, Proc
  <2> QED
    BY <2>1, <2>3 DEF WellFormed
<1> QED
  BY <1>1, <1>2, <1>3, <1>4, <1>5, <1>6, <1>7, <1>8, <1>9 DEF Handle

LEMMA NamedProceed ==
  ASSUME TypeOK, TypeOK', WellFormed, NEW w \in Worker, Proceed(w)
  PROVE  WellFormed'
<1>1. ASSUME RewriteStep(w) PROVE WellFormed'
  BY <1>1 DEF RewriteStep, WellFormed, RowsNamed, TypeOK, JobsNamed, Done, GoTo, NoJob, Proc
<1>2. ASSUME ClaimMatch(w) PROVE WellFormed'
  BY <1>2 DEF ClaimMatch, WellFormed, RowsNamed, TypeOK, JobsNamed, GoTo, Proc
<1>3. ASSUME AlreadySearching(w) PROVE WellFormed'
  BY <1>3
     DEF AlreadySearching, WellFormed, RowsNamed, rows, TypeOK, JobsNamed, Done, GoTo, NoJob,
     Proc
<1>4. ASSUME EndOwnSearches(w) PROVE WellFormed'
  BY <1>4, EndNotesKeeps
     DEF EndOwnSearches, WellFormed, RowsNamed, TypeOK, JobsNamed, GoTo, Proc
<1>5. ASSUME InsertSearch(w) PROVE WellFormed'
  <2>1. PICK n \in NoteId : note' = [note EXCEPT ![n] = NewSearch(job[w].user, job[w].cost)]
    BY <1>5 DEF InsertSearch
  <2>2. RowsNamed'
    BY <1>5, <2>1 DEF InsertSearch, TypeOK, WellFormed, RowsNamed, JobsNamed, NewSearch, Proc
  <2>3. JobsNamed'
    BY <1>5 DEF InsertSearch, TypeOK, WellFormed, JobsNamed, Done, Begin, GoTo, NoJob, Proc
  <2> QED
    BY <2>2, <2>3 DEF WellFormed
<1>6. ASSUME SettleStep(w) PROVE WellFormed'
  BY <1>6 DEF SettleStep, WellFormed, RowsNamed, TypeOK, JobsNamed, Done, GoTo, NoJob, Proc
<1>7. ASSUME LockUsers(w) PROVE WellFormed'
  BY <1>7 DEF LockUsers, WellFormed, RowsNamed, rows, TypeOK, JobsNamed, GoTo, Proc
<1>8. ASSUME RefuseBusy(w) PROVE WellFormed'
  BY <1>8 DEF RefuseBusy, WellFormed, RowsNamed, rows, TypeOK, JobsNamed, GoTo, Proc
<1>9. ASSUME CommitChat(w) PROVE WellFormed'
  BY SMTT(20), <1>9, EndNotesKeeps
     DEF CommitChat, WellFormed, RowsNamed, TypeOK, JobsNamed, Done, GoTo, NoJob, Proc
<1>10. ASSUME RestoreMatch(w) PROVE WellFormed'
  BY <1>10 DEF RestoreMatch, WellFormed, RowsNamed, TypeOK, JobsNamed, Done, GoTo, NoJob, Proc
<1>11. ASSUME ResetOwnStep(w) PROVE WellFormed'
  BY <1>11 DEF ResetOwnStep, WellFormed, RowsNamed, TypeOK, JobsNamed, Done, GoTo, NoJob, Proc
<1> QED
  BY <1>1, <1>2, <1>3, <1>4, <1>5, <1>6, <1>7, <1>8, <1>9, <1>10, <1>11 DEF Proceed

LEMMA NamedEnding ==
  ASSUME TypeOK, TypeOK', WellFormed, NEW p \in Proc, EndSteps(p) \/ Abort(p) \/ Crash(p)
  PROVE  WellFormed'
<1>1. ASSUME LockChat(p) PROVE WellFormed'
  BY <1>1 DEF LockChat, WellFormed, RowsNamed, rows, TypeOK, JobsNamed, GoTo
<1>2. ASSUME CommitEnd(p) PROVE WellFormed'
  BY <1>2 DEF CommitEnd, WellFormed, RowsNamed, TypeOK, JobsNamed, Done, GoTo, NoJob
<1>3. ASSUME RefuseEnded(p) PROVE WellFormed'
  BY <1>3 DEF RefuseEnded, WellFormed, RowsNamed, rows, TypeOK, JobsNamed, Done, GoTo, NoJob
<1>4. ASSUME Abort(p) PROVE WellFormed'
  BY <1>4 DEF Abort, WellFormed, RowsNamed, rows, TypeOK, JobsNamed, Done, GoTo, NoJob
<1>5. ASSUME Crash(p) PROVE WellFormed'
  BY <1>5 DEF Crash, WellFormed, RowsNamed, rows, TypeOK, JobsNamed, Done, GoTo, NoJob
<1> QED
  BY <1>1, <1>2, <1>3, <1>4, <1>5 DEF EndSteps

LEMMA NamedScheduler ==
  ASSUME TypeOK, TypeOK', WellFormed, NEW s \in Scheduler,
         FakeSteps(s) \/ Sweep(s) \/ (\E c \in ChatId : StartEndDue(s, c))
  PROVE  WellFormed'
<1>1. ASSUME NEW n \in NoteId, LockSearch(s, n) PROVE WellFormed'
  BY <1>1 DEF LockSearch, WellFormed, RowsNamed, rows, TypeOK, JobsNamed, GoTo, Proc
<1>2. ASSUME LockSearcher(s) PROVE WellFormed'
  BY <1>2
     DEF LockSearcher, WellFormed, RowsNamed, rows, TypeOK, JobsNamed, Done, GoTo, NoJob, Proc
<1>3. ASSUME CommitFakeChat(s) PROVE WellFormed'
  BY SMTT(20), <1>3, EndNotesKeeps
     DEF CommitFakeChat, WellFormed, RowsNamed, TypeOK, JobsNamed, Done, GoTo, NoJob, Proc
<1>4. ASSUME NEW n \in NoteId, StartExpire(s, n) PROVE WellFormed'
  BY <1>4 DEF StartExpire, WellFormed, RowsNamed, rows, TypeOK, JobsNamed, GoTo, Proc
<1>5. ASSUME ExpireSearch(s) PROVE WellFormed'
  BY <1>5, EndNotesKeeps
     DEF ExpireSearch, WellFormed, RowsNamed, TypeOK, JobsNamed, Done, GoTo, NoJob, Proc
<1>6. ASSUME ResetConnecting(s) PROVE WellFormed'
  BY <1>6 DEF ResetConnecting, WellFormed, RowsNamed, TypeOK, JobsNamed, Proc
<1>7. ASSUME PurgeNotes(s) PROVE WellFormed'
  BY <1>7 DEF PurgeNotes, WellFormed, RowsNamed, TypeOK, GoneNote, NoNote, JobsNamed, Proc
<1>8. ASSUME NEW c \in ChatId, StartEndDue(s, c) PROVE WellFormed'
  BY <1>8 DEF StartEndDue, WellFormed, RowsNamed, rows, TypeOK, JobsNamed, GoTo, Proc
<1> QED
  BY <1>1, <1>2, <1>3, <1>4, <1>5, <1>6, <1>7, <1>8 DEF FakeSteps, Sweep

LEMMA NamedTime ==
  ASSUME TypeOK, TypeOK', WellFormed, Time
  PROVE  WellFormed'
<1>1. ASSUME NEW n \in NoteId, NoteAges(n) PROVE WellFormed'
  BY <1>1 DEF NoteAges, WellFormed, RowsNamed, TypeOK, JobsNamed
<1>2. ASSUME NEW c \in ChatId, ChatAges(c) PROVE WellFormed'
  BY <1>2 DEF ChatAges, WellFormed, RowsNamed, TypeOK, JobsNamed
<1> QED
  BY <1>1, <1>2 DEF Time

-----------------------------------------------------------------------------
(* Claims on users. *)

\* A step that begins no chat, and one after which every claim was there before
\* and the row it locks is still locked.
BeginsNoChat ==
    \A c \in ChatId : chat'[c].status = "chatting" =>
        /\ chat[c].status = "chatting"
        /\ chat'[c].one = chat[c].one /\ chat'[c].two = chat[c].two

KeepsClaims ==
    \A p \in Proc, u \in User :
        Claims(p, u)' => Claims(p, u) /\ (userLock[u] = p => userLock'[u] = p)

\* A step that begins no chat makes nobody busy.
LEMMA NobodyGetsBusy ==
  ASSUME BeginsNoChat
  PROVE  \A u \in User : ActiveChats(u)' \subseteq ActiveChats(u)
BY DEF BeginsNoChat, ActiveChats, Of

LEMMA ClaimsKept ==
  ASSUME ClaimsHold, OneActiveChat, BeginsNoChat, KeepsClaims
  PROVE  ClaimsHold' /\ OneActiveChat'
BY NobodyGetsBusy DEF ClaimsHold, KeepsClaims, IsChatting, OneActiveChat

\* The steps that begin no chat and take no claim.
LEMMA QuietHandle ==
  ASSUME TypeOK, NEW w \in Worker, Handle(w)
  PROVE  BeginsNoChat /\ KeepsClaims
<1>1. ASSUME NEW u \in User, ChangeStep(w, u) PROVE BeginsNoChat /\ KeepsClaims
  BY <1>1 DEF BeginsNoChat, KeepsClaims, ChangeStep, TypeOK, Claims, locks, Proc
<1>2. ASSUME NEW u \in User, LoadStep(w, u) PROVE BeginsNoChat /\ KeepsClaims
  BY <1>2
     DEF BeginsNoChat, KeepsClaims, LoadStep, TypeOK, Claims, rows, locks, GoTo, NoJob, Proc
<1>3. ASSUME NEW u \in User, NEW cost \in SearchCost, StartSearch(w, u, cost) PROVE BeginsNoChat /\ KeepsClaims
  BY <1>3
     DEF BeginsNoChat, KeepsClaims, StartSearch, TypeOK, Claims, rows, locks, GoTo, NoJob, Proc
<1>4. ASSUME NEW u \in User, NEW v \in User, RequestChat(w, u, v) PROVE BeginsNoChat /\ KeepsClaims
  BY <1>4 DEF BeginsNoChat, KeepsClaims, RequestChat, TypeOK, Claims, locks, Proc
<1>5. ASSUME NEW n \in NoteId, AcceptRequest(w, n) PROVE BeginsNoChat /\ KeepsClaims
  BY <1>5 DEF BeginsNoChat, KeepsClaims, AcceptRequest, TypeOK, Claims, locks, GoTo, NoJob, Proc
<1>6. ASSUME NEW n \in NoteId, RejectRequest(w, n) PROVE BeginsNoChat /\ KeepsClaims
  BY <1>6 DEF BeginsNoChat, KeepsClaims, RejectRequest, TypeOK, Claims, locks, Proc
<1>7. ASSUME NEW n \in NoteId, AnswerTooLate(w, n) PROVE BeginsNoChat /\ KeepsClaims
  BY <1>7 DEF BeginsNoChat, KeepsClaims, AnswerTooLate, TypeOK, Claims, locks, Proc
<1>8. ASSUME NEW u \in User, RelayMessage(w, u) PROVE BeginsNoChat /\ KeepsClaims
  BY <1>8 DEF BeginsNoChat, KeepsClaims, RelayMessage, TypeOK, Claims, locks, Proc
<1>9. ASSUME NEW u \in User, StartEndChat(w, u) PROVE BeginsNoChat /\ KeepsClaims
  BY <1>9
     DEF BeginsNoChat, KeepsClaims, StartEndChat, TypeOK, Claims, rows, locks, GoTo, NoJob, Proc
<1> QED
  BY <1>1, <1>2, <1>3, <1>4, <1>5, <1>6, <1>7, <1>8, <1>9 DEF Handle

LEMMA QuietProceed ==
  ASSUME TypeOK, NEW w \in Worker, Proceed(w), ~LockUsers(w), ~CommitChat(w)
  PROVE  BeginsNoChat /\ KeepsClaims
<1>1. ASSUME RewriteStep(w) PROVE BeginsNoChat /\ KeepsClaims
  BY <1>1
     DEF BeginsNoChat, KeepsClaims, RewriteStep, TypeOK, Claims, locks, GoTo, Done, NoJob, Proc
<1>2. ASSUME ClaimMatch(w) PROVE BeginsNoChat /\ KeepsClaims
  BY <1>2 DEF BeginsNoChat, KeepsClaims, ClaimMatch, TypeOK, Claims, locks, GoTo, Proc
<1>3. ASSUME AlreadySearching(w) PROVE BeginsNoChat /\ KeepsClaims
  BY <1>3
     DEF BeginsNoChat, KeepsClaims, AlreadySearching, TypeOK, Claims, rows, locks, GoTo, Done,
     NoJob, Proc
<1>4. ASSUME EndOwnSearches(w) PROVE BeginsNoChat /\ KeepsClaims
  BY <1>4 DEF BeginsNoChat, KeepsClaims, EndOwnSearches, TypeOK, Claims, locks, GoTo, Proc
<1>5. ASSUME InsertSearch(w) PROVE BeginsNoChat /\ KeepsClaims
  BY <1>5
     DEF BeginsNoChat, KeepsClaims, InsertSearch, TypeOK, Claims, locks, GoTo, Done, NoJob,
     Begin, Proc
<1>6. ASSUME SettleStep(w) PROVE BeginsNoChat /\ KeepsClaims
  BY <1>6
     DEF BeginsNoChat, KeepsClaims, SettleStep, TypeOK, Claims, locks, GoTo, Done, NoJob, Proc
<1>7. ASSUME RefuseBusy(w) PROVE BeginsNoChat /\ KeepsClaims
  BY <1>7 DEF BeginsNoChat, KeepsClaims, RefuseBusy, TypeOK, Claims, rows, locks, GoTo, Proc
<1>8. ASSUME RestoreMatch(w) PROVE BeginsNoChat /\ KeepsClaims
  BY <1>8
     DEF BeginsNoChat, KeepsClaims, RestoreMatch, TypeOK, Claims, locks, GoTo, Done, NoJob, Proc
<1>9. ASSUME ResetOwnStep(w) PROVE BeginsNoChat /\ KeepsClaims
  BY <1>9
     DEF BeginsNoChat, KeepsClaims, ResetOwnStep, TypeOK, Claims, locks, GoTo, Done, NoJob, Proc
<1> QED
  BY <1>1, <1>2, <1>3, <1>4, <1>5, <1>6, <1>7, <1>8, <1>9 DEF Proceed

LEMMA QuietEnding ==
  ASSUME TypeOK, NEW p \in Proc, EndSteps(p) \/ Abort(p) \/ Crash(p)
  PROVE  BeginsNoChat /\ KeepsClaims
<1>1. ASSUME LockChat(p) PROVE BeginsNoChat /\ KeepsClaims
  BY <1>1 DEF BeginsNoChat, KeepsClaims, LockChat, TypeOK, Claims, rows, GoTo
<1>2. ASSUME CommitEnd(p) PROVE BeginsNoChat /\ KeepsClaims
  BY <1>2
     DEF BeginsNoChat, KeepsClaims, CommitEnd, TypeOK, Claims, ReleaseRows, GoTo, Done, NoJob
<1>3. ASSUME RefuseEnded(p) PROVE BeginsNoChat /\ KeepsClaims
  BY <1>3
     DEF BeginsNoChat, KeepsClaims, RefuseEnded, TypeOK, Claims, rows, locks, GoTo, Done, NoJob
<1>4. ASSUME Abort(p) PROVE BeginsNoChat /\ KeepsClaims
  BY <1>4
     DEF BeginsNoChat, KeepsClaims, Abort, TypeOK, Claims, rows, ReleaseRows, GoTo, Done, NoJob
<1>5. ASSUME Crash(p) PROVE BeginsNoChat /\ KeepsClaims
  BY <1>5
     DEF BeginsNoChat, KeepsClaims, Crash, TypeOK, Claims, rows, ReleaseRows, GoTo, Done, NoJob
<1> QED
  BY <1>1, <1>2, <1>3, <1>4, <1>5 DEF EndSteps

LEMMA QuietScheduler ==
  ASSUME TypeOK, NEW s \in Scheduler,
         FakeSteps(s) \/ Sweep(s) \/ (\E c \in ChatId : StartEndDue(s, c)),
         ~LockSearcher(s), ~CommitFakeChat(s)
  PROVE  BeginsNoChat /\ KeepsClaims
<1>1. ASSUME NEW n \in NoteId, LockSearch(s, n) PROVE BeginsNoChat /\ KeepsClaims
  BY <1>1 DEF BeginsNoChat, KeepsClaims, LockSearch, TypeOK, Claims, rows, GoTo, Proc
<1>2. ASSUME NEW n \in NoteId, StartExpire(s, n) PROVE BeginsNoChat /\ KeepsClaims
  BY <1>2 DEF BeginsNoChat, KeepsClaims, StartExpire, TypeOK, Claims, rows, locks, GoTo, Proc
<1>3. ASSUME ExpireSearch(s) PROVE BeginsNoChat /\ KeepsClaims
  BY <1>3
     DEF BeginsNoChat, KeepsClaims, ExpireSearch, TypeOK, Claims, locks, GoTo, Done, NoJob, Proc
<1>4. ASSUME ResetConnecting(s) PROVE BeginsNoChat /\ KeepsClaims
  BY <1>4 DEF BeginsNoChat, KeepsClaims, ResetConnecting, TypeOK, Claims, locks, Proc
<1>5. ASSUME PurgeNotes(s) PROVE BeginsNoChat /\ KeepsClaims
  BY <1>5 DEF BeginsNoChat, KeepsClaims, PurgeNotes, TypeOK, Claims, locks, Proc
<1>6. ASSUME NEW c \in ChatId, StartEndDue(s, c) PROVE BeginsNoChat /\ KeepsClaims
  BY <1>6 DEF BeginsNoChat, KeepsClaims, StartEndDue, TypeOK, Claims, rows, locks, GoTo, Proc
<1> QED
  BY <1>1, <1>2, <1>3, <1>4, <1>5, <1>6 DEF FakeSteps, Sweep

LEMMA QuietTime ==
  ASSUME TypeOK, Time
  PROVE  BeginsNoChat /\ KeepsClaims
<1>1. ASSUME NEW n \in NoteId, NoteAges(n) PROVE BeginsNoChat /\ KeepsClaims
  BY <1>1 DEF BeginsNoChat, KeepsClaims, NoteAges, TypeOK, Claims, locks
<1>2. ASSUME NEW c \in ChatId, ChatAges(c) PROVE BeginsNoChat /\ KeepsClaims
  BY <1>2 DEF BeginsNoChat, KeepsClaims, ChatAges, TypeOK, Claims, locks
<1> QED
  BY <1>1, <1>2 DEF Time

\* A transaction that takes the rows of its users finds them free, so nobody else
\* claims them, and it has seen that they do not chat.
LEMMA LockUsersClaims ==
  ASSUME IndInv, NEW w \in Worker, LockUsers(w)
  PROVE  ClaimsHold' /\ OneActiveChat'
<1>0. /\ TypeOK /\ ClaimsHold /\ OneActiveChat
      /\ w \in Proc
  BY DEF IndInv, Proc
<1>1. BeginsNoChat
  BY DEF BeginsNoChat, LockUsers, rows
<1>2. \A u \in User : ~IsChatting(u) => ~IsChatting(u)'
  BY <1>1, NobodyGetsBusy DEF IsChatting
<1>3. ASSUME NEW p \in Proc, NEW u \in User, Claims(p, u)'
      PROVE  userLock'[u] = p /\ ~IsChatting(u)'
  <2>1. CASE p = w
    <3>1. u \in {job[w].user, job[w].peer}
      BY <1>0, <1>3, <2>1 DEF LockUsers, GoTo, Claims, TypeOK
    <3> QED
      BY <1>0, <1>2, <2>1, <3>1 DEF LockUsers, TypeOK
  <2>2. CASE p # w
    <3>1. Claims(p, u)
      BY <1>0, <1>3, <2>2 DEF LockUsers, GoTo, Claims, TypeOK
    <3>2. userLock[u] = p /\ ~IsChatting(u)
      BY <1>0, <3>1 DEF ClaimsHold
    <3>3. u \notin {job[w].user, job[w].peer}
      BY <2>2, <3>2, ConstantsAssumption DEF LockUsers, UserFree
    <3> QED
      BY <1>0, <1>2, <3>2, <3>3 DEF LockUsers, TypeOK
  <2> QED
    BY <2>1, <2>2
<1> QED
  BY <1>0, <1>1, <1>3, NobodyGetsBusy DEF ClaimsHold, OneActiveChat

LEMMA LockSearcherClaims ==
  ASSUME IndInv, NEW s \in Scheduler, LockSearcher(s)
  PROVE  ClaimsHold' /\ OneActiveChat'
<1>0. /\ TypeOK /\ ClaimsHold /\ OneActiveChat
      /\ s \in Proc
  BY DEF IndInv, Proc
<1>1. BeginsNoChat
  BY DEF BeginsNoChat, LockSearcher, rows
<1>2. CASE IsChatting(job[s].user)
  <2>1. KeepsClaims
    BY <1>0, <1>2 DEF KeepsClaims, LockSearcher, ReleaseRows, Done, GoTo, NoJob, Claims, TypeOK
  <2> QED
    BY <1>0, <1>1, <2>1, ClaimsKept
<1>3. CASE ~IsChatting(job[s].user)
  <2>1. \A u \in User : ~IsChatting(u) => ~IsChatting(u)'
    BY <1>1, NobodyGetsBusy DEF IsChatting
  <2>2. ASSUME NEW p \in Proc, NEW u \in User, Claims(p, u)'
        PROVE  userLock'[u] = p /\ ~IsChatting(u)'
    <3>1. CASE p = s
      <4>1. u = job[s].user
        BY <1>0, <1>3, <2>2, <3>1 DEF LockSearcher, GoTo, Claims, TypeOK
      <4> QED
        BY <1>0, <1>3, <2>1, <3>1, <4>1 DEF LockSearcher, TypeOK
    <3>2. CASE p # s
      <4>1. Claims(p, u)
        BY <1>0, <1>3, <2>2, <3>2 DEF LockSearcher, GoTo, Claims, TypeOK
      <4>2. userLock[u] = p /\ ~IsChatting(u)
        BY <1>0, <4>1 DEF ClaimsHold
      <4>3. u # job[s].user
        BY <3>2, <4>2, ConstantsAssumption DEF LockSearcher, UserFree
      <4> QED
        BY <1>0, <1>3, <2>1, <4>2, <4>3 DEF LockSearcher, TypeOK
    <3> QED
      BY <3>1, <3>2
  <2> QED
    BY <1>0, <1>1, <2>2, NobodyGetsBusy DEF ClaimsHold, OneActiveChat
<1> QED
  BY <1>2, <1>3

\* A chat of users that p claims: p's claims go with its transaction, everybody else's
\* are on other users.
LEMMA BeginningKeepsClaims ==
  ASSUME IndInv, NEW p \in Proc, NEW c \in ChatId, NEW r,
         chat[c].status = "none", chat' = [chat EXCEPT ![c] = r],
         \A u \in User : u \in {r.one, r.two} => Claims(p, u),
         ReleaseRows(p), Done(p)
  PROVE  ClaimsHold' /\ OneActiveChat'
<1>0. /\ TypeOK /\ ClaimsHold /\ OneActiveChat
  BY DEF IndInv
<1>1. \A u \in User : u \notin {r.one, r.two} => ActiveChats(u)' \subseteq ActiveChats(u)
  BY <1>0 DEF ActiveChats, Of, TypeOK
<1>2. \A u \in User : u \in {r.one, r.two} => ActiveChats(u)' \subseteq {c}
  <2>1. \A u \in User : u \in {r.one, r.two} => ActiveChats(u) = {}
    BY <1>0 DEF ClaimsHold, IsChatting
  <2> QED
    BY <1>0, <2>1 DEF ActiveChats, Of, TypeOK
<1>3. OneActiveChat'
  BY <1>0, <1>1, <1>2 DEF OneActiveChat
<1>4. ASSUME NEW q \in Proc, NEW u \in User, Claims(q, u)'
      PROVE  userLock'[u] = q /\ ~IsChatting(u)'
  <2>1. q # p
    BY <1>0, <1>4 DEF Claims, Done, GoTo, TypeOK
  <2>2. Claims(q, u)
    BY <1>0, <1>4, <2>1 DEF Claims, Done, GoTo, TypeOK
  <2>3. userLock[u] = q /\ ~IsChatting(u)
    BY <1>0, <2>2 DEF ClaimsHold
  <2>4. u \notin {r.one, r.two}
    BY <1>0, <2>1, <2>3 DEF ClaimsHold
  <2> QED
    BY <1>0, <1>1, <2>1, <2>3, <2>4 DEF ReleaseRows, IsChatting, TypeOK
<1> QED
  BY <1>3, <1>4 DEF ClaimsHold

LEMMA CommitChatClaims ==
  ASSUME IndInv, NEW w \in Worker, CommitChat(w)
  PROVE  ClaimsHold' /\ OneActiveChat'
<1> DEFINE j == job[w]
           r == NewChat(j.user, j.cost, j.peer, j.peerCost, j.note)
<1>1. PICK c \in ChatId : NextChat(c) /\ chat' = [chat EXCEPT ![c] = r]
  BY DEF CommitChat
<1>2. \A u \in User : u \in {r.one, r.two} => Claims(w, u)
  BY DEF CommitChat, NewChat, Claims
<1>3. w \in Proc /\ chat[c].status = "none" /\ ReleaseRows(w) /\ Done(w)
  BY <1>1 DEF CommitChat, NextChat, Proc
<1> HIDE DEF r
<1> QED
  BY <1>1, <1>2, <1>3, BeginningKeepsClaims

LEMMA CommitFakeChatClaims ==
  ASSUME IndInv, NEW s \in Scheduler, CommitFakeChat(s)
  PROVE  ClaimsHold' /\ OneActiveChat'
<1> DEFINE j == job[s]
           r == NewChat(j.user, j.cost, None, 0, j.note)
<1>1. PICK c \in ChatId : NextChat(c) /\ chat' = [chat EXCEPT ![c] = r]
  BY DEF CommitFakeChat
<1>2. \A u \in User : u \in {r.one, r.two} => Claims(s, u)
  BY ConstantsAssumption DEF CommitFakeChat, NewChat, Claims
<1>3. s \in Proc /\ chat[c].status = "none" /\ ReleaseRows(s) /\ Done(s)
  BY <1>1 DEF CommitFakeChat, NextChat, Proc
<1> HIDE DEF r
<1> QED
  BY <1>1, <1>2, <1>3, BeginningKeepsClaims

-----------------------------------------------------------------------------
(* The theorems. *)

LEMMA IndInvStep == IndInv /\ [Next]_vars => IndInv'
<1>1. SUFFICES ASSUME IndInv, [Next]_vars PROVE IndInv'
  OBVIOUS
<1>0. TypeOK /\ WellFormed /\ ClaimsHold /\ OneActiveChat
  BY <1>1 DEF IndInv
<1>2. TypeOK'
  BY <1>0, <1>1, TypeStep
<1>3. WellFormed'
  <2>1. CASE UNCHANGED vars
    BY <1>0, <2>1 DEF WellFormed, RowsNamed, JobsNamed, vars, rows
  <2> QED
    BY <1>0, <1>1, <1>2, <2>1, NamedHandle, NamedProceed, NamedEnding, NamedScheduler, NamedTime
    DEF Next
<1>4. ClaimsHold' /\ OneActiveChat'
  <2>1. CASE UNCHANGED vars
    BY <1>0, <2>1
    DEF ClaimsHold, Claims, OneActiveChat, IsChatting, ActiveChats, Of, vars, rows, locks
  <2>2. ASSUME NEW w \in Worker, Handle(w) \/ Proceed(w) PROVE ClaimsHold' /\ OneActiveChat'
    BY <1>0, <1>1, <2>2, QuietHandle, QuietProceed, ClaimsKept, LockUsersClaims,
    CommitChatClaims
  <2>3. ASSUME NEW s \in Scheduler,
               FakeSteps(s) \/ Sweep(s) \/ (\E c \in ChatId : StartEndDue(s, c))
        PROVE  ClaimsHold' /\ OneActiveChat'
    BY <1>0, <1>1, <2>3, QuietScheduler, ClaimsKept, LockSearcherClaims, CommitFakeChatClaims
  <2>4. ASSUME NEW p \in Proc, EndSteps(p) \/ Abort(p) \/ Crash(p)
        PROVE  ClaimsHold' /\ OneActiveChat'
    BY <1>0, <2>4, QuietEnding, ClaimsKept
  <2>5. CASE Time
    BY <1>0, <2>5, QuietTime, ClaimsKept
  <2> QED
    BY <1>1, <2>1, <2>2, <2>3, <2>4, <2>5 DEF Next
<1> QED
  BY <1>2, <1>3, <1>4 DEF IndInv

LEMMA IndInvAlways == Spec => []IndInv
BY InitIndInv, IndInvStep, PTL DEF Spec

\* The types hold in every reachable state: rows are only ever written with the values
\* their columns can take, whatever the interleaving of handlers and schedulers.
THEOREM TypeCorrect == Spec => []TypeOK
<1>1. IndInv => TypeOK
  BY DEF IndInv
<1> QED
  BY <1>1, IndInvAlways, PTL

\* Nobody is ever in two conversations, for any number of users, workers and instances.
THEOREM OneChatEach == Spec => []OneActiveChat
<1>1. IndInv => OneActiveChat
  BY DEF IndInv
<1> QED
  BY <1>1, IndInvAlways, PTL

-----------------------------------------------------------------------------
(* One synthetic partner per search, and one end per chat. *)

\* A chat with a synthetic partner, from a notif row that is no open search and will
\* not be one again; a scheduler between the statements of CreateFakeChatFromSearch,
\* and what it has locked.
Fake(c) == chat[c].status # "none" /\ chat[c].two = None
Closed(n) == note[n].kind # "none" /\ note[n].status \notin {"doing", "connecting"}
FromClosed(c) == chat[c].from \in NoteId /\ Closed(chat[c].from)
Falling(p) == pc[p] \in {"fakeNote", "fakeChecked"}
Holds(p) == /\ job[p].note \in NoteId /\ noteLock[job[p].note] = p
            /\ note[job[p].note].kind = "search" /\ note[job[p].note].status = "doing"

\* A process between the statements of EndChat, and the chat it has locked.
Ending(p) == pc[p] = "counted"
HoldsChat(p) == /\ job[p].chat \in ChatId /\ chatLock[job[p].chat] = p
                /\ chat[job[p].chat].status = "chatting"

\* The search a synthetic chat comes from is closed for good, and one from which a
\* scheduler is about to make such a chat is still open, and locked by it; so is the
\* chat that a process is about to end.
IndFakes ==
    /\ OneFakePerSearch
    /\ \A c \in ChatId : Fake(c) => FromClosed(c)
    /\ \A p \in Proc : (Falling(p) => Holds(p)) /\ (Ending(p) => HoldsChat(p))

\* A step that opens no closed row, connects nobody to a synthetic partner, and
\* leaves alone what others have locked.
StepKeeps ==
    /\ \A n \in NoteId : Closed(n) => Closed(n)'
    /\ \A c \in ChatId : Fake(c)' => Fake(c) /\ chat'[c].from = chat[c].from
    /\ \A p \in Proc : Falling(p)' => Falling(p) /\ (Holds(p) => Holds(p)')
    /\ \A p \in Proc : Ending(p)' => Ending(p) /\ (HoldsChat(p) => HoldsChat(p)')

LEMMA FakesKept == ASSUME IndFakes, StepKeeps PROVE IndFakes'
<1>1. OneFakePerSearch'
  BY DEF IndFakes, StepKeeps, OneFakePerSearch, Fake
<1> QED
  BY <1>1 DEF IndFakes, FromClosed, StepKeeps

LEMMA HandleKeeps ==
  ASSUME TypeOK, NEW w \in Worker, Handle(w)
  PROVE  StepKeeps
<1>1. ASSUME NEW u \in User, ChangeStep(w, u) PROVE StepKeeps
  BY <1>1 DEF StepKeeps, Closed, Fake, Falling, Holds, Ending, HoldsChat, ChangeStep, locks, TypeOK, Proc
<1>2. ASSUME NEW u \in User, LoadStep(w, u) PROVE StepKeeps
  BY <1>2 DEF StepKeeps, Closed, Fake, Falling, Holds, Ending, HoldsChat, LoadStep, rows, locks, GoTo, TypeOK, Proc
<1>3. ASSUME NEW u \in User, NEW cost \in SearchCost, StartSearch(w, u, cost) PROVE StepKeeps
  BY <1>3 DEF StepKeeps, Closed, Fake, Falling, Holds, Ending, HoldsChat, StartSearch, rows, locks, GoTo, TypeOK, Proc
<1>4. ASSUME NEW u \in User, NEW v \in User, RequestChat(w, u, v) PROVE StepKeeps
  BY <1>4 DEF StepKeeps, Closed, Fake, Falling, Holds, Ending, HoldsChat, RequestChat, NextNote, locks, TypeOK, Proc
<1>5. ASSUME NEW n \in NoteId, AcceptRequest(w, n) PROVE StepKeeps
  BY <1>5 DEF StepKeeps, Closed, Fake, Falling, Holds, Ending, HoldsChat, AcceptRequest, Answerable, EndNotes, locks, GoTo, TypeOK, Proc
<1>6. ASSUME NEW n \in NoteId, RejectRequest(w, n) PROVE StepKeeps
  BY <1>6 DEF StepKeeps, Closed, Fake, Falling, Holds, Ending, HoldsChat, RejectRequest, Answerable, EndNotes, locks, TypeOK, Proc
<1>7. ASSUME NEW n \in NoteId, AnswerTooLate(w, n) PROVE StepKeeps
  BY <1>7 DEF StepKeeps, Closed, Fake, Falling, Holds, Ending, HoldsChat, AnswerTooLate, Answerable, EndNotes, locks, TypeOK, Proc
<1>8. ASSUME NEW u \in User, RelayMessage(w, u) PROVE StepKeeps
  BY <1>8 DEF StepKeeps, Closed, Fake, Falling, Holds, Ending, HoldsChat, RelayMessage, locks, TypeOK, Proc
<1>9. ASSUME NEW u \in User, StartEndChat(w, u) PROVE StepKeeps
  BY <1>9 DEF StepKeeps, Closed, Fake, Falling, Holds, Ending, HoldsChat, StartEndChat, rows, locks, GoTo, TypeOK, Proc
<1> QED
  BY <1>1, <1>2, <1>3, <1>4, <1>5, <1>6, <1>7, <1>8, <1>9 DEF Handle

LEMMA ProceedKeeps ==
  ASSUME TypeOK, WellFormed, NEW w \in Worker, Proceed(w)
  PROVE  StepKeeps
<1>1. ASSUME RewriteStep(w) PROVE StepKeeps
  BY <1>1 DEF StepKeeps, Closed, Fake, Falling, Holds, Ending, HoldsChat, RewriteStep, locks, Done, GoTo, TypeOK, Proc
<1>2. ASSUME ClaimMatch(w) PROVE StepKeeps
  BY <1>2, ConstantsAssumption DEF StepKeeps, Closed, Fake, Falling, Holds, Ending, HoldsChat, ClaimMatch, locks, GoTo, TypeOK, Proc
<1>3. ASSUME AlreadySearching(w) PROVE StepKeeps
  BY <1>3 DEF StepKeeps, Closed, Fake, Falling, Holds, Ending, HoldsChat, AlreadySearching, rows, locks, Done, GoTo, TypeOK, Proc
<1>4. ASSUME EndOwnSearches(w) PROVE StepKeeps
  BY <1>4, ConstantsAssumption DEF StepKeeps, Closed, Fake, Falling, Holds, Ending, HoldsChat, EndOwnSearches, EndNotes, NoteFree, locks, GoTo, TypeOK, Proc
<1>5. ASSUME InsertSearch(w) PROVE StepKeeps
  BY <1>5 DEF StepKeeps, Closed, Fake, Falling, Holds, Ending, HoldsChat, InsertSearch, NextNote, locks, Done, Begin, GoTo, TypeOK, Proc
<1>6. ASSUME SettleStep(w) PROVE StepKeeps
  BY <1>6 DEF StepKeeps, Closed, Fake, Falling, Holds, Ending, HoldsChat, SettleStep, locks, Done, GoTo, TypeOK, Proc
<1>7. ASSUME LockUsers(w) PROVE StepKeeps
  BY <1>7 DEF StepKeeps, Closed, Fake, Falling, Holds, Ending, HoldsChat, LockUsers, rows, GoTo, TypeOK, Proc
<1>8. ASSUME RefuseBusy(w) PROVE StepKeeps
  BY <1>8 DEF StepKeeps, Closed, Fake, Falling, Holds, Ending, HoldsChat, RefuseBusy, rows, locks, GoTo, TypeOK, Proc
<1>9. ASSUME CommitChat(w) PROVE StepKeeps
  BY <1>9, ConstantsAssumption DEF StepKeeps, Closed, Fake, Falling, Holds, Ending, HoldsChat, CommitChat, EndNotes, NoteFree, NextChat, NewChat, ReleaseRows, Done, GoTo, WellFormed, JobsNamed, TypeOK, Proc
<1>10. ASSUME RestoreMatch(w) PROVE StepKeeps
  BY <1>10, ConstantsAssumption DEF StepKeeps, Closed, Fake, Falling, Holds, Ending, HoldsChat, RestoreMatch, NoteFree, locks, Done, GoTo, TypeOK, Proc
<1>11. ASSUME ResetOwnStep(w) PROVE StepKeeps
  BY <1>11 DEF StepKeeps, Closed, Fake, Falling, Holds, Ending, HoldsChat, ResetOwnStep, locks, Done, GoTo, TypeOK, Proc
<1> QED
  BY <1>1, <1>2, <1>3, <1>4, <1>5, <1>6, <1>7, <1>8, <1>9, <1>10, <1>11 DEF Proceed

LEMMA EndingKeeps ==
  ASSUME TypeOK, NEW p \in Proc, RefuseEnded(p) \/ Abort(p) \/ Crash(p)
  PROVE  StepKeeps
<1>1. ASSUME RefuseEnded(p) PROVE StepKeeps
  BY <1>1 DEF StepKeeps, Closed, Fake, Falling, Holds, Ending, HoldsChat, RefuseEnded, rows, locks, Done, GoTo, TypeOK, Proc
<1>2. ASSUME Abort(p) PROVE StepKeeps
  BY <1>2 DEF StepKeeps, Closed, Fake, Falling, Holds, Ending, HoldsChat, Abort, rows, ReleaseRows, Done, GoTo, TypeOK, Proc
<1>3. ASSUME Crash(p) PROVE StepKeeps
  BY <1>3 DEF StepKeeps, Closed, Fake, Falling, Holds, Ending, HoldsChat, Crash, rows, ReleaseRows, Done, GoTo, TypeOK, Proc
<1> QED
  BY <1>1, <1>2, <1>3

LEMMA SweepKeeps ==
  ASSUME TypeOK, NEW s \in Scheduler, Sweep(s) \/ (\E c \in ChatId : StartEndDue(s, c)) \/ LockSearcher(s)
  PROVE  StepKeeps
<1>1. ASSUME NEW n \in NoteId, StartExpire(s, n) PROVE StepKeeps
  BY <1>1 DEF StepKeeps, Closed, Fake, Falling, Holds, Ending, HoldsChat, StartExpire, rows, locks, GoTo, TypeOK, Proc
<1>2. ASSUME ExpireSearch(s) PROVE StepKeeps
  BY <1>2, ConstantsAssumption DEF StepKeeps, Closed, Fake, Falling, Holds, Ending, HoldsChat, ExpireSearch, EndNotes, NoteFree, locks, Done, GoTo, TypeOK, Proc
<1>3. ASSUME ResetConnecting(s) PROVE StepKeeps
  BY <1>3 DEF StepKeeps, Closed, Fake, Falling, Holds, Ending, HoldsChat, ResetConnecting, NoteFree, locks, TypeOK, Proc
<1>4. ASSUME PurgeNotes(s) PROVE StepKeeps
  BY <1>4 DEF StepKeeps, Closed, Fake, Falling, Holds, Ending, HoldsChat, PurgeNotes, GoneNote, NoNote, locks, TypeOK, Proc
<1>5. ASSUME NEW c \in ChatId, StartEndDue(s, c) PROVE StepKeeps
  BY <1>5 DEF StepKeeps, Closed, Fake, Falling, Holds, Ending, HoldsChat, StartEndDue, rows, locks, GoTo, TypeOK, Proc
<1>6. ASSUME LockSearcher(s) PROVE StepKeeps
  BY <1>6 DEF StepKeeps, Closed, Fake, Falling, Holds, Ending, HoldsChat, LockSearcher, rows, ReleaseRows, Done, GoTo, TypeOK, Proc
<1> QED
  BY <1>1, <1>2, <1>3, <1>4, <1>5, <1>6 DEF Sweep

LEMMA TimeKeeps ==
  ASSUME TypeOK, Time
  PROVE  StepKeeps
<1>1. ASSUME NEW n \in NoteId, NoteAges(n) PROVE StepKeeps
  BY <1>1 DEF StepKeeps, Closed, Fake, Falling, Holds, Ending, HoldsChat, NoteAges, locks, TypeOK
<1>2. ASSUME NEW c \in ChatId, ChatAges(c) PROVE StepKeeps
  BY <1>2 DEF StepKeeps, Closed, Fake, Falling, Holds, Ending, HoldsChat, ChatAges, locks, TypeOK
<1> QED
  BY <1>1, <1>2 DEF Time

\* A scheduler that locks a search, or a process that locks a chat, finds it open.
LEMMA LockSearchFakes ==
  ASSUME TypeOK, IndFakes, NEW s \in Scheduler, NEW n \in NoteId, LockSearch(s, n)
  PROVE  IndFakes'
<1>1. s \in Proc /\ UNCHANGED <<note, chat, chatLock>>
  BY DEF LockSearch, rows, Proc
<1>2. \A q \in Proc :
        /\ pc'[q] = IF q = s THEN "fakeNote" ELSE pc[q]
        /\ job'[q].chat = job[q].chat
        /\ job'[q].note = IF q = s THEN n ELSE job[q].note
  BY <1>1 DEF LockSearch, GoTo, TypeOK
<1>3. noteLock[n] = None /\ \A m \in NoteId : noteLock'[m] = IF m = n THEN s ELSE noteLock[m]
  BY DEF LockSearch, TypeOK
<1>4. note[n].kind = "search" /\ note[n].status = "doing"
  BY DEF LockSearch
<1>5. OneFakePerSearch'
  BY <1>1 DEF IndFakes, OneFakePerSearch
<1>6. \A c \in ChatId : Fake(c)' => FromClosed(c)'
  BY <1>1 DEF IndFakes, FromClosed, Fake, Closed
<1>7. \A q \in Proc : Falling(q)' => Holds(q)'
  <2> SUFFICES ASSUME NEW q \in Proc, Falling(q)' PROVE Holds(q)'
    OBVIOUS
  <2>1. CASE q = s
    BY <1>1, <1>2, <1>3, <1>4, <2>1 DEF Holds
  <2>2. CASE q # s
    <3>1. Holds(q)
      BY <1>2, <2>2 DEF IndFakes, Falling
    <3>2. job[q].note # n
      BY <1>3, <3>1, ConstantsAssumption DEF Holds
    <3> QED
      BY <1>1, <1>2, <1>3, <2>2, <3>1, <3>2 DEF Holds
  <2> QED
    BY <2>1, <2>2
<1>8. \A q \in Proc : Ending(q)' => HoldsChat(q)'
  BY <1>1, <1>2 DEF IndFakes, Ending, HoldsChat
<1> QED
  BY <1>1, <1>5, <1>6, <1>7, <1>8 DEF IndFakes

LEMMA LockChatFakes ==
  ASSUME TypeOK, WellFormed, IndFakes, NEW p \in Proc, LockChat(p)
  PROVE  IndFakes'
<1> DEFINE c == job[p].chat
<1>1. UNCHANGED <<note, chat, noteLock>>
  BY DEF LockChat, rows
<1>2. \A q \in Proc :
        /\ pc'[q] = IF q = p THEN "counted" ELSE pc[q]
        /\ job'[q].chat = job[q].chat /\ job'[q].note = job[q].note
  BY DEF LockChat, GoTo, TypeOK
<1>3. c \in ChatId /\ chat[c].status = "chatting" /\ chatLock[c] = None
  BY DEF LockChat, WellFormed, JobsNamed
<1>4. \A d \in ChatId : chatLock'[d] = IF d = c THEN p ELSE chatLock[d]
  BY DEF LockChat, TypeOK
<1>5. OneFakePerSearch'
  BY <1>1 DEF IndFakes, OneFakePerSearch
<1>6. \A d \in ChatId : Fake(d)' => FromClosed(d)'
  BY <1>1 DEF IndFakes, FromClosed, Fake, Closed
<1>7. \A q \in Proc : Falling(q)' => Holds(q)'
  BY <1>1, <1>2 DEF IndFakes, Falling, Holds
<1>8. \A q \in Proc : Ending(q)' => HoldsChat(q)'
  <2> SUFFICES ASSUME NEW q \in Proc, Ending(q)' PROVE HoldsChat(q)'
    OBVIOUS
  <2>1. CASE q = p
    BY <1>1, <1>2, <1>3, <1>4, <2>1 DEF HoldsChat
  <2>2. CASE q # p
    <3>1. HoldsChat(q)
      BY <1>2, <2>2 DEF IndFakes, Ending
    <3>2. job[q].chat # c
      BY <1>3, <3>1, ConstantsAssumption DEF HoldsChat
    <3> QED
      BY <1>1, <1>2, <1>4, <3>1, <3>2 DEF HoldsChat
  <2> QED
    BY <2>1, <2>2
<1> QED
  BY <1>1, <1>5, <1>6, <1>7, <1>8 DEF IndFakes

\* Ending a chat: nobody else is about to end it.
LEMMA CommitEndFakes ==
  ASSUME TypeOK, IndFakes, NEW p \in Proc, CommitEnd(p)
  PROVE  IndFakes'
<1> DEFINE c == job[p].chat
<1>1. HoldsChat(p) /\ note' = note
  BY DEF IndFakes, CommitEnd, Ending
<1>2. \A d \in ChatId :
        /\ chat'[d].from = chat[d].from /\ chat'[d].two = chat[d].two
        /\ chat'[d].status = IF d = c THEN "end" ELSE chat[d].status
  BY DEF CommitEnd, TypeOK, ChatRow
<1>3. \A q \in Proc \ {p} : pc'[q] = pc[q] /\ job'[q] = job[q]
  BY DEF CommitEnd, Done, GoTo, TypeOK
<1>4. ~Falling(p)' /\ ~Ending(p)'
  BY DEF CommitEnd, Done, GoTo, TypeOK, Falling, Ending
<1>5. /\ \A n \in NoteId : noteLock[n] # p => noteLock'[n] = noteLock[n]
      /\ \A d \in ChatId : chatLock[d] # p => chatLock'[d] = chatLock[d]
  BY DEF CommitEnd, ReleaseRows
<1>6. \A d \in ChatId : Fake(d)' => Fake(d)
  BY <1>1, <1>2 DEF Fake, HoldsChat
<1>7. OneFakePerSearch'
  BY <1>2, <1>6 DEF IndFakes, OneFakePerSearch, Fake
<1>8. \A d \in ChatId : Fake(d)' => FromClosed(d)'
  BY <1>1, <1>2, <1>6 DEF IndFakes, FromClosed, Closed
<1>9. \A q \in Proc : Falling(q)' => Holds(q)'
  BY <1>1, <1>3, <1>4, <1>5 DEF IndFakes, Falling, Holds
<1>10. \A q \in Proc : Ending(q)' => HoldsChat(q)'
  <2> SUFFICES ASSUME NEW q \in Proc, Ending(q)' PROVE HoldsChat(q)'
    OBVIOUS
  <2>1. q # p /\ HoldsChat(q)
    BY <1>3, <1>4 DEF IndFakes, Ending
  <2>2. job[q].chat # c
    BY <1>1, <2>1 DEF HoldsChat
  <2> QED
    BY <1>2, <1>3, <1>5, <2>1, <2>2 DEF HoldsChat
<1> QED
  BY <1>7, <1>8, <1>9, <1>10 DEF IndFakes

\* The fall-back: the search was open, so no synthetic chat comes from it yet, and
\* now it is closed.
LEMMA CommitFakeChatFakes ==
  ASSUME TypeOK, IndFakes, NEW s \in Scheduler, CommitFakeChat(s)
  PROVE  IndFakes'
<1> DEFINE n == job[s].note
           r == NewChat(job[s].user, job[s].cost, None, 0, n)
<1>0. s \in Proc
  BY DEF Proc
<1>1. Holds(s)
  BY <1>0 DEF IndFakes, CommitFakeChat, Falling
<1>2. PICK c \in ChatId : chat[c].status = "none" /\ chat' = [chat EXCEPT ![c] = r]
  BY DEF CommitFakeChat, NextChat
<1>3. r.from = n /\ r.two = None
  BY DEF NewChat
<1> HIDE DEF r
<1>4. \A d \in ChatId : chat'[d] = IF d = c THEN r ELSE chat[d]
  BY <1>2 DEF TypeOK
<1>5. \A m \in NoteId : /\ note'[m].kind = note[m].kind
                        /\ note'[m].status = IF m = n THEN "end" ELSE note[m].status
  BY DEF CommitFakeChat, EndNotes, TypeOK, Note
<1>6. \A q \in Proc \ {s} : pc'[q] = pc[q] /\ job'[q] = job[q]
  BY DEF CommitFakeChat, Done, GoTo, TypeOK
<1>7. ~Falling(s)' /\ ~Ending(s)'
  BY <1>0 DEF CommitFakeChat, Done, GoTo, TypeOK, Falling, Ending
<1>8. /\ \A m \in NoteId : noteLock[m] # s => noteLock'[m] = noteLock[m]
      /\ \A d \in ChatId : chatLock[d] # s => chatLock'[d] = chatLock[d]
  BY DEF CommitFakeChat, ReleaseRows
<1>9. \A d \in ChatId : Fake(d) => chat[d].from # n
  BY <1>1 DEF IndFakes, FromClosed, Closed, Holds
<1>10. \A d \in ChatId : Fake(d)' => d = c \/ Fake(d)
  BY <1>4 DEF Fake
<1>11. OneFakePerSearch'
  <2> SUFFICES ASSUME NEW d \in ChatId, NEW e \in ChatId, Fake(d)', Fake(e)',
                      chat'[d].from = chat'[e].from
               PROVE  d = e
    BY DEF OneFakePerSearch, Fake
  <2>1. CASE d # c /\ e # c
    BY <1>4, <1>10, <2>1 DEF IndFakes, OneFakePerSearch, Fake
  <2>2. CASE d = c \/ e = c
    BY <1>3, <1>4, <1>9, <1>10, <2>2
  <2> QED
    BY <2>1, <2>2
<1>12. ASSUME NEW d \in ChatId, Fake(d)' PROVE FromClosed(d)'
  <2>1. n \in NoteId /\ note'[n].kind # "none" /\ note'[n].status \notin {"doing", "connecting"}
    BY <1>1, <1>5 DEF Holds
  <2>2. CASE d = c
    BY <1>3, <1>4, <2>1, <2>2 DEF FromClosed, Closed
  <2>3. CASE d # c
    BY <1>4, <1>5, <1>10, <1>12, <2>3 DEF IndFakes, FromClosed, Closed
  <2> QED
    BY <2>2, <2>3
<1>13. ASSUME NEW q \in Proc, Falling(q)' PROVE Holds(q)'
  <2>1. q # s /\ Holds(q)
    BY <1>6, <1>7, <1>13 DEF IndFakes, Falling
  <2>2. job[q].note # n
    BY <1>1, <2>1 DEF Holds
  <2> QED
    BY <1>5, <1>6, <1>8, <2>1, <2>2 DEF Holds
<1>14. ASSUME NEW q \in Proc, Ending(q)' PROVE HoldsChat(q)'
  <2>1. q # s /\ HoldsChat(q)
    BY <1>6, <1>7, <1>14 DEF IndFakes, Ending
  <2>2. job[q].chat # c
    BY <1>2, <2>1 DEF HoldsChat
  <2> QED
    BY <1>4, <1>6, <1>8, <2>1, <2>2 DEF HoldsChat
<1> QED
  BY <1>11, <1>12, <1>13, <1>14 DEF IndFakes

LEMMA FakesInit == Init => IndFakes
BY DEF Init, IndFakes, OneFakePerSearch, Fake, Falling, Ending, NoChat

LEMMA FakesStep == IndInv /\ IndFakes /\ [Next]_vars => IndFakes'
<1> SUFFICES ASSUME IndInv, IndFakes, [Next]_vars PROVE IndFakes'
  OBVIOUS
<1>0. TypeOK /\ WellFormed
  BY DEF IndInv
<1>1. CASE UNCHANGED vars
  <2>1. StepKeeps
    BY <1>1 DEF StepKeeps, Closed, Fake, Falling, Holds, Ending, HoldsChat, vars, rows, locks
  <2> QED
    BY <2>1, FakesKept
<1>2. ASSUME NEW w \in Worker, Handle(w) \/ Proceed(w) PROVE IndFakes'
  BY <1>0, <1>2, HandleKeeps, ProceedKeeps, FakesKept
<1>3. ASSUME NEW s \in Scheduler, FakeSteps(s) \/ Sweep(s) \/ (\E c \in ChatId : StartEndDue(s, c))
      PROVE IndFakes'
  BY <1>0, <1>3, LockSearchFakes, CommitFakeChatFakes, SweepKeeps, FakesKept DEF FakeSteps
<1>4. ASSUME NEW p \in Proc, EndSteps(p) \/ Abort(p) \/ Crash(p) PROVE IndFakes'
  BY <1>0, <1>4, LockChatFakes, CommitEndFakes, EndingKeeps, FakesKept DEF EndSteps
<1>5. CASE Time
  BY <1>0, <1>5, TimeKeeps, FakesKept
<1> QED
  BY <1>1, <1>2, <1>3, <1>4, <1>5 DEF Next

LEMMA FakesAlways == Spec => []IndFakes
BY FakesInit, FakesStep, IndInvAlways, PTL DEF Spec

\* A search falls back to a synthetic partner at most once, for any number of
\* instances whose scheduler finds it expired, and whoever claims, ends, expires or
\* deletes it meanwhile: CreateFakeChatFromSearch locks the row, looks at its status
\* and closes it in one transaction.
THEOREM OneFakeEach == Spec => []OneFakePerSearch
<1>1. IndFakes => OneFakePerSearch
  BY DEF IndFakes
<1> QED
  BY <1>1, FakesAlways, PTL

-----------------------------------------------------------------------------
(* The contract. *)

\* Whoever is busy for the contract is chatting.
LEMMA BusyIsChatting == \A u \in User : u \in Contract!Busy => IsChatting(u)
BY DEF Contract!Busy, Contract!Parties, TalkOf, IsChatting, ActiveChats, Of

\* A row that is inserted begins a conversation of its parties, who were free.
LEMMA BeginImplements ==
  ASSUME TypeOK, NEW c \in ChatId, NEW r, chat[c].status = "none",
         chat' = [chat EXCEPT ![c] = r], r.status = "chatting",
         r.one \in User, r.two \in User \cup {None}, r.spent1 \in Price, r.spent2 \in Price,
         \A u \in {r.one, r.two} \ {None} : ~IsChatting(u),
         balance' = [u \in User |-> IF u \in {r.one, r.two} \ {None}
                                    THEN balance[u] - TalkOf(r).paid[u] ELSE balance[u]]
  PROVE  Contract!Begin(c)
<1> DEFINE v == IF r.two = None THEN r.one ELSE r.two
           paid == [u \in {r.one, v} |-> IF u = r.one THEN r.spent1 ELSE r.spent2]
<1>1. v \in User /\ {r.one, r.two} \ {None} = {r.one, v}
  BY ConstantsAssumption
<1> HIDE DEF v
<1>2. {r.one, v} \cap Contract!Busy = {}
  BY <1>1, BusyIsChatting
<1>3. paid \in [{r.one, v} -> Price]
  OBVIOUS
<1>4. TalkOf(r) = [phase |-> "chatting", paid |-> paid]
  BY <1>1 DEF TalkOf
<1>5. [d \in ChatId |-> TalkOf(chat[d])][c].phase = "none"
  BY DEF TalkOf
<1>6. [d \in ChatId |-> TalkOf(chat'[d])] =
        [[d \in ChatId |-> TalkOf(chat[d])] EXCEPT ![c] = [phase |-> "chatting", paid |-> paid]]
  BY <1>4 DEF TypeOK
<1>7. balance' = [u \in User |-> IF u \in {r.one, v} THEN balance[u] - paid[u] ELSE balance[u]]
  BY <1>1, <1>4
<1> HIDE DEF paid
<1> DEFINE Started(x, y) ==
             /\ {x, y} \cap Contract!Busy = {}
             /\ \E pays \in [{x, y} -> Price] :
                  /\ [d \in ChatId |-> TalkOf(chat'[d])] =
                       [[d \in ChatId |-> TalkOf(chat[d])] EXCEPT
                          ![c] = [phase |-> "chatting", paid |-> pays]]
                  /\ balance' = [u \in User |-> IF u \in {x, y} THEN balance[u] - pays[u] ELSE balance[u]]
<1>8. Started(r.one, v)
  BY <1>2, <1>3, <1>6, <1>7
<1>9. (\E x, y \in User : Started(x, y)) => Contract!Begin(c)
  BY <1>5, Zenon DEF Contract!Begin
<1> HIDE DEF Started
<1> QED
  BY <1>1, <1>8, <1>9

LEMMA CommitChatImplements ==
  ASSUME IndInv, NEW w \in Worker, CommitChat(w)
  PROVE  Contract!ContractNext
<1> DEFINE j == job[w]
           r == NewChat(j.user, j.cost, j.peer, j.peerCost, j.note)
<1>1. TypeOK /\ WellFormed /\ ClaimsHold /\ w \in Proc
  BY DEF IndInv, Proc
<1>2. PICK c \in ChatId : chat[c].status = "none" /\ chat' = [chat EXCEPT ![c] = r]
  BY DEF CommitChat, NextChat
<1>3. j \in Job /\ j.user \in User /\ j.peer \in User /\ pc[w] = "checked"
  BY <1>1 DEF CommitChat, WellFormed, JobsNamed, TypeOK
<1>4. /\ r.status = "chatting" /\ r.one = j.user /\ r.two = j.peer
      /\ r.spent1 = j.cost /\ r.spent2 = j.peerCost
  BY DEF NewChat
<1>5. j.cost \in Price /\ j.peerCost \in Price
  BY <1>3 DEF Job
<1>6. \A u \in {j.user, j.peer} : ~IsChatting(u)
  BY <1>1, <1>3 DEF ClaimsHold, Claims
<1>7. balance' = [u \in User |-> IF u \in {j.user, j.peer} \ {None}
                                 THEN balance[u] - TalkOf(r).paid[u] ELSE balance[u]]
  <2>1. {j.user, j.peer} \ {None} = {j.user, j.peer}
    BY <1>3, ConstantsAssumption
  <2>2. TalkOf(r).paid = [u \in {j.user, j.peer} |-> IF u = j.user THEN j.cost ELSE j.peerCost]
    BY <1>4, <2>1 DEF TalkOf
  <2>3. balance' = [u \in User |->
                      IF u \in {j.user, j.peer}
                      THEN balance[u] - [x \in {j.user, j.peer} |-> IF x = j.user THEN j.cost ELSE j.peerCost][u]
                      ELSE balance[u]]
    BY DEF CommitChat
  <2> QED
    BY <2>1, <2>2, <2>3
<1>8. Contract!Begin(c)
  <2> HIDE DEF r
  <2> QED
    BY <1>1, <1>2, <1>3, <1>4, <1>5, <1>6, <1>7, BeginImplements
<1> QED
  BY <1>8 DEF Contract!ContractNext

LEMMA CommitFakeChatImplements ==
  ASSUME IndInv, NEW s \in Scheduler, CommitFakeChat(s)
  PROVE  Contract!ContractNext
<1> DEFINE j == job[s]
           r == NewChat(j.user, j.cost, None, 0, j.note)
<1>1. TypeOK /\ WellFormed /\ ClaimsHold /\ s \in Proc
  BY DEF IndInv, Proc
<1>2. PICK c \in ChatId : chat[c].status = "none" /\ chat' = [chat EXCEPT ![c] = r]
  BY DEF CommitFakeChat, NextChat
<1>3. j \in Job /\ j.user \in User /\ pc[s] = "fakeChecked" /\ j.user # None
  BY <1>1, ConstantsAssumption DEF CommitFakeChat, WellFormed, JobsNamed, TypeOK
<1>4. /\ r.status = "chatting" /\ r.one = j.user /\ r.two = None
      /\ r.spent1 = j.cost /\ r.spent2 = 0
  BY DEF NewChat
<1>5. j.cost \in Price /\ 0 \in Price
  BY <1>3 DEF Job, Price
<1>6. \A u \in {j.user, None} \ {None} : ~IsChatting(u)
  BY <1>1, <1>3 DEF ClaimsHold, Claims
<1>7. balance' = [u \in User |-> IF u \in {j.user, None} \ {None}
                                 THEN balance[u] - TalkOf(r).paid[u] ELSE balance[u]]
  <2>1. {j.user, None} \ {None} = {j.user}
    BY <1>3
  <2>2. TalkOf(r).paid[j.user] = j.cost
    BY <1>4, <2>1 DEF TalkOf
  <2>3. balance' = [balance EXCEPT ![j.user] = balance[j.user] - j.cost]
    BY DEF CommitFakeChat
  <2>4. balance' = [u \in User |-> IF u = j.user THEN balance[u] - j.cost ELSE balance[u]]
    BY <1>1, <2>3 DEF TypeOK
  <2> QED
    BY <2>1, <2>2, <2>4
<1>8. Contract!Begin(c)
  <2> HIDE DEF r
  <2> QED
    BY <1>1, <1>2, <1>3, <1>4, <1>5, <1>6, <1>7, BeginImplements
<1> QED
  BY <1>8 DEF Contract!ContractNext

\* An end refunds all the parties whose step was reset, or nobody.
LEMMA CommitEndImplements ==
  ASSUME IndInv, IndFakes, NEW p \in Proc, CommitEnd(p)
  PROVE  Contract!ContractNext
<1> DEFINE c == job[p].chat
           r == chat[c]
           reset == {u \in Of(c) : step[u] = "chatting"}
           back == IF job[p].few THEN reset ELSE {}
           Talk == [d \in ChatId |-> TalkOf(chat[d])]
<1>1. TypeOK /\ HoldsChat(p)
  BY DEF IndInv, IndFakes, CommitEnd, Ending
<1>2. c \in ChatId /\ r.status = "chatting" /\ r \in ChatRow
  BY <1>1 DEF HoldsChat, TypeOK
<1>3. Talk[c].phase = "chatting" /\ DOMAIN Talk[c].paid = Of(c)
  BY <1>2 DEF TalkOf, Of
<1>4. [d \in ChatId |-> TalkOf(chat'[d])] = [Talk EXCEPT ![c].phase = "end"]
  <2>1. \A d \in ChatId : chat'[d] = IF d = c THEN chat'[c] ELSE chat[d]
    BY <1>1 DEF CommitEnd, TypeOK
  <2>2. /\ chat'[c].status = "end" /\ chat'[c].one = r.one /\ chat'[c].two = r.two
        /\ chat'[c].spent1 = r.spent1 /\ chat'[c].spent2 = r.spent2
    BY <1>1, <1>2 DEF CommitEnd, TypeOK, ChatRow
  <2> DEFINE paid == [u \in {r.one, r.two} \ {None} |-> IF u = r.one THEN r.spent1 ELSE r.spent2]
  <2>3. TalkOf(r) = [phase |-> r.status, paid |-> paid] /\ TalkOf(chat'[c]) = [phase |-> "end", paid |-> paid]
    BY <2>2 DEF TalkOf
  <2> HIDE DEF paid
  <2>4. [TalkOf(r) EXCEPT !.phase = "end"] = TalkOf(chat'[c])
    BY <2>3
  <2> QED
    BY <1>2, <2>1, <2>4
<1>5. back \in SUBSET Of(c)
  OBVIOUS
<1>6. \A u \in Of(c) : Talk[c].paid[u] = IF u = r.one THEN r.spent1 ELSE r.spent2
  BY <1>2 DEF TalkOf, Of
<1>7. balance' = [u \in User |-> IF u \in back THEN balance[u] + Talk[c].paid[u] ELSE balance[u]]
  <2>1. balance' = [u \in User |->
                      IF u \notin reset THEN balance[u]
                      ELSE balance[u] + (IF u = r.one THEN IF job[p].few THEN r.spent1 ELSE 0
                                         ELSE IF job[p].few THEN r.spent2 ELSE 0)]
    BY DEF CommitEnd
  <2>2. CASE job[p].few
    BY <1>6, <2>1, <2>2
  <2>3. CASE ~job[p].few
    <3>1. \A u \in User : balance[u] + 0 = balance[u]
      BY <1>1 DEF TypeOK
    <3>2. balance' = [u \in User |-> balance[u]]
      BY <2>1, <2>3, <3>1
    <3> QED
      BY <2>3, <3>2
  <2> QED
    BY <2>2, <2>3
<1> DEFINE Returned(B) == balance' = [u \in User |-> IF u \in B THEN balance[u] + Talk[c].paid[u] ELSE balance[u]]
<1>8. Returned(back) /\ back \in SUBSET DOMAIN Talk[c].paid
  BY <1>3, <1>5, <1>7
<1>9. (\E B \in SUBSET DOMAIN Talk[c].paid : Returned(B)) => Contract!Finish(c)
  BY <1>3, <1>4, Zenon DEF Contract!Finish, Contract!Parties
<1> HIDE DEF Returned, back
<1>10. Contract!Finish(c)
  BY <1>8, <1>9, Zenon
<1> QED
  BY <1>2, <1>10 DEF Contract!ContractNext

\* Every other step leaves the contract's state alone: it changes no coins and of a
\* row of chats at most the messages and the age.
Unseen ==
    /\ balance' = balance
    /\ \A c \in ChatId : TalkOf(chat'[c]) = TalkOf(chat[c])

LEMMA UnseenStutters == Unseen => UNCHANGED Contract!contractVars
<1> SUFFICES ASSUME Unseen PROVE UNCHANGED Contract!contractVars
  OBVIOUS
<1>1. balance' = balance
  BY DEF Unseen
<1>2. [c \in ChatId |-> TalkOf(chat'[c])] = [c \in ChatId |-> TalkOf(chat[c])]
  BY DEF Unseen
<1> QED
  BY <1>1, <1>2 DEF Contract!contractVars

LEMMA SameRowsUnseen == balance' = balance /\ chat' = chat => Unseen
BY DEF Unseen

LEMMA HandleUnseen ==
  ASSUME TypeOK, NEW w \in Worker, Handle(w)
  PROVE  Unseen
<1>1. CASE \E u \in User : RelayMessage(w, u)
  <2>1. PICK c \in ChatId : chat' = [chat EXCEPT ![c].msgs = @ + 1]
    BY <1>1 DEF RelayMessage, ActiveChats
  <2>2. \A d \in ChatId : /\ chat'[d].status = chat[d].status
                          /\ chat'[d].one = chat[d].one /\ chat'[d].two = chat[d].two
                          /\ chat'[d].spent1 = chat[d].spent1 /\ chat'[d].spent2 = chat[d].spent2
    BY <2>1 DEF TypeOK, ChatRow
  <2>3. balance' = balance
    BY <1>1 DEF RelayMessage
  <2> QED
    BY <2>2, <2>3 DEF Unseen, TalkOf
<1>2. CASE ~\E u \in User : RelayMessage(w, u)
  <2>1. balance' = balance /\ chat' = chat
    BY <1>2 DEF Handle, ChangeStep, LoadStep, StartEndChat, StartSearch, RequestChat,
                AcceptRequest, RejectRequest, AnswerTooLate, rows
  <2> QED
    BY <2>1, SameRowsUnseen
<1> QED
  BY <1>1, <1>2

LEMMA ProceedImplements ==
  ASSUME IndInv, NEW w \in Worker, Proceed(w)
  PROVE  Contract!ContractNext \/ Unseen
<1>1. CASE CommitChat(w)
  BY <1>1, CommitChatImplements
<1>2. CASE ~CommitChat(w)
  <2>1. balance' = balance /\ chat' = chat
    BY <1>2 DEF Proceed, RewriteStep, ClaimMatch, AlreadySearching, EndOwnSearches, InsertSearch,
                SettleStep, LockUsers, RefuseBusy, RestoreMatch, ResetOwnStep, rows
  <2> QED
    BY <2>1, SameRowsUnseen
<1> QED
  BY <1>1, <1>2

LEMMA SchedulerImplements ==
  ASSUME IndInv, NEW s \in Scheduler,
         FakeSteps(s) \/ Sweep(s) \/ (\E c \in ChatId : StartEndDue(s, c))
  PROVE  Contract!ContractNext \/ Unseen
<1>1. CASE CommitFakeChat(s)
  BY <1>1, CommitFakeChatImplements
<1>2. CASE ~CommitFakeChat(s)
  <2>1. balance' = balance /\ chat' = chat
    BY <1>2 DEF FakeSteps, LockSearch, LockSearcher, Sweep, StartExpire, ExpireSearch,
                ResetConnecting, PurgeNotes, StartEndDue, rows
  <2> QED
    BY <2>1, SameRowsUnseen
<1> QED
  BY <1>1, <1>2

LEMMA EndingImplements ==
  ASSUME IndInv, IndFakes, NEW p \in Proc, EndSteps(p) \/ Abort(p) \/ Crash(p)
  PROVE  Contract!ContractNext \/ Unseen
<1>1. CASE CommitEnd(p)
  BY <1>1, CommitEndImplements
<1>2. CASE ~CommitEnd(p)
  <2>1. balance' = balance /\ chat' = chat
    BY <1>2 DEF EndSteps, LockChat, RefuseEnded, Abort, Crash, rows
  <2> QED
    BY <2>1, SameRowsUnseen
<1> QED
  BY <1>1, <1>2

LEMMA TimeUnseen ==
  ASSUME TypeOK, Time
  PROVE  Unseen
<1>1. CASE \E n \in NoteId : NoteAges(n)
  BY <1>1, SameRowsUnseen DEF NoteAges
<1>2. CASE \E c \in ChatId : ChatAges(c)
  <2>1. PICK c \in ChatId : ChatAges(c)
    BY <1>2
  <2>2. \A d \in ChatId : /\ chat'[d].status = chat[d].status
                          /\ chat'[d].one = chat[d].one /\ chat'[d].two = chat[d].two
                          /\ chat'[d].spent1 = chat[d].spent1 /\ chat'[d].spent2 = chat[d].spent2
    BY <2>1 DEF ChatAges, TypeOK, ChatRow
  <2>3. balance' = balance
    BY <2>1 DEF ChatAges
  <2> QED
    BY <2>2, <2>3 DEF Unseen, TalkOf
<1> QED
  BY <1>1, <1>2 DEF Time

\* The empty table and the deposits are where the contract starts.
LEMMA ContractStart == Init => Contract!ContractInit
<1> SUFFICES ASSUME Init PROVE Contract!ContractInit
  OBVIOUS
<1>1. TalkOf(NoChat) = Contract!NoTalk
  BY DEF TalkOf, NoChat, Contract!NoTalk
<1>2. [c \in ChatId |-> TalkOf(chat[c])] = [c \in ChatId |-> Contract!NoTalk]
  BY <1>1 DEF Init
<1> QED
  BY <1>2 DEF Init, Contract!ContractInit

LEMMA ContractStep ==
  ASSUME IndInv, IndFakes, [Next]_vars
  PROVE  [Contract!ContractNext]_(Contract!contractVars)
<1>1. Contract!ContractNext \/ Unseen
  <2>1. ASSUME NEW w \in Worker, Handle(w) PROVE Unseen
    BY <2>1, HandleUnseen DEF IndInv
  <2>2. ASSUME NEW w \in Worker, Proceed(w) PROVE Contract!ContractNext \/ Unseen
    BY <2>2, ProceedImplements
  <2>3. ASSUME NEW s \in Scheduler,
               FakeSteps(s) \/ Sweep(s) \/ (\E c \in ChatId : StartEndDue(s, c))
        PROVE  Contract!ContractNext \/ Unseen
    BY <2>3, SchedulerImplements
  <2>4. ASSUME NEW p \in Proc, EndSteps(p) \/ Abort(p) \/ Crash(p)
        PROVE  Contract!ContractNext \/ Unseen
    BY <2>4, EndingImplements
  <2>5. CASE Time
    BY <2>5, TimeUnseen DEF IndInv
  <2>6. CASE UNCHANGED vars
    BY <2>6, SameRowsUnseen DEF vars, rows
  <2> QED
    BY <2>1, <2>2, <2>3, <2>4, <2>5, <2>6 DEF Next
<1> QED
  BY <1>1, UnseenStutters

\* The chats table and the coins implement the contract: what every transaction of
\* CreateChat, CreateFakeChatFromSearch and EndChat does to them is a begin or an end
\* of the contract, whatever crashes, fails or runs at the same time, and no other
\* statement touches them.
THEOREM ChatKeepsContract == Spec => ImplementsContract
<1>1. Spec => []IndInv
  BY IndInvAlways
<1>2. Spec => []IndFakes
  BY FakesAlways
<1>3. Init => Contract!ContractInit
  BY ContractStart
<1>4. IndInv /\ IndFakes /\ [Next]_vars => [Contract!ContractNext]_(Contract!contractVars)
  BY ContractStep
<1> QED
  BY <1>1, <1>2, <1>3, <1>4, PTL DEF Spec, ImplementsContract, Contract!ContractSpec

-----------------------------------------------------------------------------
(* What a user may rely on, from the contract alone. *)

\* The parties of a conversation that is on are chatting, with one row at most.
LEMMA OneTalkHolds == OneActiveChat => Contract!OneTalk
BY DEF OneActiveChat, ActiveChats, Of, Contract!OneTalk, Contract!On, Contract!Parties, TalkOf

\* What the contract records is a number for every party.
LEMMA TalkTyped ==
  ASSUME TypeOK, NEW c \in ChatId, NEW u \in Contract!Parties(TalkOf(chat[c]))
  PROVE  TalkOf(chat[c]).paid[u] \in Nat
BY PriceNat DEF Contract!Parties, TalkOf, TypeOK, ChatRow

\* A begin takes the price out of purses that no other conversation counts on ...
LEMMA BeginKeepsCoins ==
  ASSUME TypeOK, Contract!OwnCoins, NEW c \in ChatId, Contract!Begin(c)
  PROVE  Contract!OwnCoins'
<1> DEFINE t == [d \in ChatId |-> TalkOf(chat[d])]
           t2 == [d \in ChatId |-> TalkOf(chat'[d])]
<1>0. PICK a \in User, b \in User :
        /\ {a, b} \cap Contract!Busy = {}
        /\ \E paid \in [{a, b} -> Price] :
             /\ t2 = [t EXCEPT ![c] = [phase |-> "chatting", paid |-> paid]]
             /\ balance' = [x \in User |-> IF x \in {a, b} THEN balance[x] - paid[x] ELSE balance[x]]
  BY DEF Contract!Begin
<1>1. PICK paid \in [{a, b} -> Price] :
        /\ t2 = [t EXCEPT ![c] = [phase |-> "chatting", paid |-> paid]]
        /\ balance' = [x \in User |-> IF x \in {a, b} THEN balance[x] - paid[x] ELSE balance[x]]
  BY <1>0
<1>2. SUFFICES ASSUME NEW u \in User
               PROVE  /\ balance'[u] <= Deposit
                      /\ \A d \in ChatId : t2[d].phase = "chatting" /\ u \in DOMAIN t2[d].paid
                                             => balance'[u] + t2[d].paid[u] <= Deposit
  BY DEF Contract!OwnCoins, Contract!On, Contract!Parties
<1>3. /\ balance[u] \in Int /\ balance[u] <= Deposit /\ Deposit \in Nat
      /\ \A d \in ChatId : t[d].phase = "chatting" /\ u \in DOMAIN t[d].paid
                             => balance[u] + t[d].paid[u] <= Deposit
  BY ConstantsAssumption DEF Contract!OwnCoins, Contract!On, Contract!Parties, TypeOK
<1>4. u \in {a, b} => \A d \in ChatId : ~(t[d].phase = "chatting" /\ u \in DOMAIN t[d].paid)
  <2>1. Contract!Busy = UNION {DOMAIN t[d].paid : d \in {e \in ChatId : t[e].phase = "chatting"}}
    BY DEF Contract!Busy, Contract!Parties
  <2> HIDE DEF t, t2
  <2> QED
    BY <1>0, <2>1
<1>5. \A d \in ChatId : t2[d] = IF d = c THEN [phase |-> "chatting", paid |-> paid] ELSE t[d]
  BY <1>1
<1>6. DOMAIN paid = {a, b} /\ (u \in {a, b} => paid[u] \in Nat)
  BY PriceNat
<1> HIDE DEF t, t2
<1>7. CASE u \in {a, b}
  BY <1>1, <1>3, <1>4, <1>5, <1>6, <1>7
<1>8. CASE u \notin {a, b}
  BY <1>1, <1>3, <1>5, <1>6, <1>8
<1> QED
  BY <1>7, <1>8

\* ... and an end gives back what left the purse for the only one the user is in.
LEMMA FinishKeepsCoins ==
  ASSUME TypeOK, Contract!OneTalk, Contract!OwnCoins, NEW c \in ChatId, Contract!Finish(c)
  PROVE  Contract!OwnCoins'
<1> DEFINE t == [d \in ChatId |-> TalkOf(chat[d])]
           t2 == [d \in ChatId |-> TalkOf(chat'[d])]
<1>1. PICK back \in SUBSET (DOMAIN t[c].paid) :
        balance' = [u \in User |-> IF u \in back THEN balance[u] + t[c].paid[u] ELSE balance[u]]
  BY DEF Contract!Finish, Contract!Parties
<1>2. t[c].phase = "chatting" /\ t2 = [t EXCEPT ![c].phase = "end"]
  BY DEF Contract!Finish
<1>3. SUFFICES ASSUME NEW u \in User
               PROVE  /\ balance'[u] <= Deposit
                      /\ \A d \in ChatId : t2[d].phase = "chatting" /\ u \in DOMAIN t2[d].paid
                                             => balance'[u] + t2[d].paid[u] <= Deposit
  BY DEF Contract!OwnCoins, Contract!On, Contract!Parties
<1>4. /\ balance[u] \in Int /\ balance[u] <= Deposit /\ Deposit \in Nat
      /\ \A d \in ChatId : t[d].phase = "chatting" /\ u \in DOMAIN t[d].paid
                             => balance[u] + t[d].paid[u] <= Deposit
  BY ConstantsAssumption DEF Contract!OwnCoins, Contract!On, Contract!Parties, TypeOK
<1>5. \A d \in ChatId : d # c => t2[d] = t[d]
  BY <1>2
<1>6. t2[c].phase = "end"
  BY <1>2 DEF TalkOf
<1>7. u \in DOMAIN t[c].paid => \A d \in ChatId :
        t[d].phase = "chatting" /\ u \in DOMAIN t[d].paid => d = c
  BY <1>2 DEF Contract!OneTalk, Contract!On, Contract!Parties
<1> HIDE DEF t, t2
<1>8. CASE u \in back
  BY <1>1, <1>2, <1>4, <1>5, <1>6, <1>7, <1>8
<1>9. CASE u \notin back
  BY <1>1, <1>4, <1>5, <1>6, <1>9
<1> QED
  BY <1>8, <1>9

LEMMA CoinsInit == Init => CoinsOnlySpent
<1> SUFFICES ASSUME Init PROVE CoinsOnlySpent
  OBVIOUS
<1>1. \A c \in ChatId : TalkOf(chat[c]).phase = "none"
  BY DEF Init, NoChat, TalkOf
<1> QED
  BY <1>1, ConstantsAssumption DEF Init, CoinsOnlySpent, Contract!OwnCoins, Contract!On

LEMMA CoinsStep ==
  ASSUME IndInv, IndFakes, CoinsOnlySpent, [Next]_vars
  PROVE  CoinsOnlySpent'
<1>1. [Contract!ContractNext]_(Contract!contractVars)
  BY ContractStep
<1>2. CASE \E c \in ChatId : Contract!Begin(c)
  BY <1>2, BeginKeepsCoins DEF IndInv, CoinsOnlySpent
<1>3. CASE \E c \in ChatId : Contract!Finish(c)
  BY <1>3, FinishKeepsCoins, OneTalkHolds DEF IndInv, CoinsOnlySpent
<1>4. CASE UNCHANGED Contract!contractVars
  BY <1>4 DEF Contract!contractVars, CoinsOnlySpent, Contract!OwnCoins, Contract!On,
              Contract!Parties
<1> QED
  BY <1>1, <1>2, <1>3, <1>4 DEF Contract!ContractNext

\* Nobody ever has coins that are not their own: a refund is at most what the same
\* user paid for the same chat, for any number of users, chats, workers and instances.
THEOREM CoinsAreOwn == Spec => []CoinsOnlySpent
<1>1. Spec => []IndInv
  BY IndInvAlways
<1>2. Spec => []IndFakes
  BY FakesAlways
<1>3. IndInv /\ IndFakes /\ CoinsOnlySpent /\ [Next]_vars => CoinsOnlySpent'
  BY CoinsStep
<1> QED
  BY <1>1, <1>2, <1>3, CoinsInit, PTL DEF Spec

\* No step of the contract touches a conversation that has ended.
LEMMA EndStepStands ==
  ASSUME [Contract!ContractNext]_(Contract!contractVars)
  PROVE  Contract!EndedStay
<1> DEFINE t == [d \in ChatId |-> TalkOf(chat[d])]
           t2 == [d \in ChatId |-> TalkOf(chat'[d])]
<1>0. SUFFICES ASSUME NEW c \in ChatId, t[c].phase = "end"
               PROVE  t2[c] = t[c]
  BY DEF Contract!EndedStay
<1>1. ASSUME NEW d \in ChatId, Contract!Begin(d) PROVE t2[c] = t[c]
  <2>1. t[d].phase = "none"
    BY <1>1 DEF Contract!Begin
  <2>2. PICK r : t2 = [t EXCEPT ![d] = r]
    BY <1>1 DEF Contract!Begin
  <2> QED
    BY <1>0, <2>1, <2>2
<1>2. ASSUME NEW d \in ChatId, Contract!Finish(d) PROVE t2[c] = t[c]
  <2>1. t[d].phase = "chatting" /\ t2 = [t EXCEPT ![d].phase = "end"]
    BY <1>2 DEF Contract!Finish
  <2> QED
    BY <1>0, <2>1
<1>3. CASE UNCHANGED Contract!contractVars
  BY <1>3 DEF Contract!contractVars
<1> QED
  BY <1>1, <1>2, <1>3 DEF Contract!ContractNext

\* A chat that has ended is never opened or ended again, whoever tries, and what it
\* cost each party stays in its row.
THEOREM EndedForGood == Spec => Contract!EndStands
<1>1. Spec => []IndInv
  BY IndInvAlways
<1>2. Spec => []IndFakes
  BY FakesAlways
<1>3. IndInv /\ IndFakes /\ [Next]_vars => Contract!EndedStay
  BY ContractStep, EndStepStands
<1> QED
  BY <1>1, <1>2, <1>3, PTL DEF Spec, Contract!EndStands
=============================================================================
