-------------------------- MODULE BroadcastProofs ---------------------------
(***************************************************************************)
(* Proofs about Broadcast, for any number of users, messages, instances    *)
(* and any size of a batch.  The argument follows the position: whatever   *)
(* position is in a row or with an instance, everyone up to it was served. *)
(***************************************************************************)
EXTENDS Broadcast, FiniteSetTheorems, WellFoundedInduction, TLAPS

\* Everyone the message is for, up to position k, was sent it.
ServedTo(m, k) == \A i \in owed[m] \cap subscriber : i <= k => i \in reached[m]

AllServed(m) == owed[m] \cap subscriber \subseteq reached[m]

\* The rows: the position is behind no one unserved, and max is past everyone.
RowsServed ==
  \A m \in Message :
    /\ cron[m].status = "none" => owed[m] = {}
    /\ cron[m].status = "row" => ServedTo(m, cron[m].send)
    /\ \A i \in owed[m] : i <= cron[m].max
    /\ cron[m].status = "gone" /\ m \notin broken => AllServed(m)

\* An instance: likewise, and whoever is next is in the batch, which holds only
\* users past the position and nobody beyond somebody left out.  A batch that is
\* over without a step forward had nobody left, or its query broke.
BatchServed(s) ==
  LET b == batch[s] IN
  /\ b.pc # "idle" => b.msg \in Message /\ cron[b.msg].status # "none" /\ ServedTo(b.msg, b.last)
  /\ b.from <= b.last /\ (b.pc = "select" => b.from = b.last)
  /\ b.pc = "delete" => AllServed(b.msg)
  /\ b.pc = "send" =>
       /\ b.todo = {} /\ b.last = b.from => b.msg \in broken \/ AllServed(b.msg)
       /\ \A t \in b.todo : b.last < t
       /\ \A i \in owed[b.msg] \cap subscriber, t \in b.todo : i > b.last => i \in b.todo \/ t < i
BatchesServed == \A s \in Scheduler : BatchServed(s)

IndInv == CronTypeOK /\ RowsServed /\ BatchesServed

-----------------------------------------------------------------------------
(* Numbers and finite sets.                                                *)

LEMMA AccountIsNat == Account \subseteq Nat \ {0}
  BY BroadcastAssumption

LEMMA AccountBounded == \E n \in Nat : Account \subseteq 1..n
<1>1. CASE Account = {}
  BY <1>1
<1>2. CASE Account # {}
  <2>1. PICK n \in Account : \A i \in Account : i <= n
    BY <1>2, BroadcastAssumption
  <2>2. n \in Nat /\ Account \subseteq 1..n
    BY <2>1, AccountIsNat
  <2> QED
    BY <2>2
<1> QED
  BY <1>1, <1>2

LEMMA LeastIs ==
    ASSUME NEW S \in SUBSET Nat, S # {}
    PROVE  Least(S) \in S /\ \A j \in S : Least(S) <= j
<1>1. PICK x \in S : \A y \in S : ~(<<y, x>> \in OpToRel(<, Nat))
  BY NatLessThanWellFounded, WFMin
<1>2. ASSUME NEW y \in S, y < x PROVE <<y, x>> \in OpToRel(<, Nat)
  <2>1. <<y, x>> \in Nat \X Nat /\ <<y, x>>[1] < <<y, x>>[2]
    BY <1>2
  <2> QED
    BY <2>1, Zenon DEF OpToRel
<1>3. \A y \in S : ~(y < x)
  BY <1>1, <1>2
<1>4. \A y \in S : x <= y
  BY <1>3
<1> QED
  BY <1>4 DEF Least

LEMMA GreatestIs ==
    ASSUME NEW S \in SUBSET Account, S # {}
    PROVE  Greatest(S) \in S /\ \A j \in S : j <= Greatest(S)
<1>1. PICK n \in Nat : Account \subseteq 1..n
  BY AccountBounded
<1> DEFINE T == {n - i : i \in S}
<1>2. T \in SUBSET Nat /\ T # {}
  <2>1. \A i \in S : i \in 1..n
    BY <1>1
  <2>2. \A i \in 1..n : n - i \in Nat
    OBVIOUS
  <2> QED
    BY <2>1, <2>2
<1>3. PICK x \in S : Least(T) = n - x
  BY <1>2, LeastIs
<1>4. \A j \in S : n - x <= n - j
  BY <1>2, <1>3, LeastIs
<1>5. \A j \in S : j <= x
  <2>1. \A j \in 1..n : n - x <= n - j => j <= x
    BY <1>1
  <2> QED
    BY <1>1, <1>4, <2>1
<1> QED
  BY <1>5 DEF Greatest

LEMMA AccountFinite == IsFiniteSet(Account)
<1>1. PICK n \in Nat : Account \subseteq 1..n
  BY AccountBounded
<1>2. IsFiniteSet(1..n)
  BY FS_Interval
<1> QED
  BY <1>1, <1>2, FS_Subset

\* A batch is an initial part of those who are left.
LEMMA BatchIsFirst ==
    ASSUME NEW S \in SUBSET Account, NEW i \in S, NEW t \in S,
           Cardinality({j \in S : j < t}) < BatchSize,
           ~(Cardinality({j \in S : j < i}) < BatchSize)
    PROVE  t < i
<1>1. S \subseteq Nat /\ i \in Nat /\ t \in Nat
  BY AccountIsNat
<1> SUFFICES ASSUME i <= t PROVE FALSE
  BY <1>1
<1> DEFINE I == {j \in S : j < i}
           U == {j \in S : j < t}
<1>2. I \subseteq U
  <2>1. \A j \in Nat : j < i => j < t
    BY <1>1
  <2> QED
    BY <1>1, <2>1
<1>3. IsFiniteSet(U) /\ IsFiniteSet(I)
  BY AccountFinite, FS_Subset
<1>4. Cardinality(I) <= Cardinality(U) /\ Cardinality(I) \in Nat /\ Cardinality(U) \in Nat
  BY <1>2, <1>3, FS_Subset, FS_CardinalityType
<1> QED
  BY <1>4, BroadcastAssumption

-----------------------------------------------------------------------------
(* The steps.                                                              *)

LEMMA IndInit == CronInit => IndInv
  BY BroadcastAssumption DEF CronInit, IndInv, CronTypeOK, RowsServed, BatchesServed, BatchServed, NoBatch, ServedTo, AllServed

\* What is known of an instance stays while it does nothing, the same people or
\* fewer are owed a message, and more are reached.
LEMMA BatchStays ==
    ASSUME NEW r \in Scheduler, BatchServed(r), UNCHANGED <<cron, owed>>, batch'[r] = batch[r],
           subscriber' \subseteq subscriber, broken \subseteq broken',
           \A m \in Message : reached[m] \subseteq reached'[m]
    PROVE  BatchServed(r)'
<1> DEFINE b == batch[r]
<1>0. CASE b.pc = "idle"
  <2>1. b.from <= b.last
    BY DEF BatchServed
  <2> QED
    BY <1>0, <2>1 DEF BatchServed
<1>1. CASE b.pc # "idle"
  <2>1. b.msg \in Message /\ reached[b.msg] \subseteq reached'[b.msg]
    BY <1>1 DEF BatchServed
  <2>2. ServedTo(b.msg, b.last) => ServedTo(batch[r].msg, batch[r].last)'
    BY <2>1 DEF ServedTo
  <2>3. AllServed(b.msg) => AllServed(batch[r].msg)'
    BY <2>1 DEF AllServed
  <2> QED
    BY <1>1, <2>1, <2>2, <2>3 DEF BatchServed
<1> QED
  BY <1>0, <1>1

LEMMA CreateStep == ASSUME IndInv, NEW m \in Message, Create(m) PROVE IndInv'
<1> DEFINE top == IF subscriber = {} THEN 0 ELSE Greatest(subscriber)
<1>0. Account \subseteq Nat \ {0}
  BY AccountIsNat
<1>1. top \in Nat /\ \A i \in subscriber : i <= top
  BY <1>0, GreatestIs DEF IndInv, CronTypeOK
<1>2. /\ cron' = [cron EXCEPT ![m] = [status |-> "row", send |-> 0, max |-> top]]
      /\ owed' = [owed EXCEPT ![m] = subscriber]
      /\ cron[m].status = "none"
      /\ UNCHANGED <<subscriber, reached, broken, batch, crashes>>
  BY DEF Create
<1> HIDE DEF top
<1>3. CronTypeOK'
  BY <1>1, <1>2 DEF IndInv, CronTypeOK
<1>4. RowsServed'
  <2> SUFFICES ASSUME NEW k \in Message
               PROVE  /\ cron'[k].status = "none" => owed'[k] = {}
                      /\ cron'[k].status = "row" => ServedTo(k, cron[k].send)'
                      /\ \A i \in owed'[k] : i <= cron'[k].max
                      /\ cron'[k].status = "gone" /\ k \notin broken' => AllServed(k)'
    BY DEF RowsServed
  <2>1. CASE k = m
    BY <1>0, <1>1, <1>2, <2>1 DEF IndInv, CronTypeOK, ServedTo, AllServed
  <2>2. CASE k # m
    BY <1>2, <2>2 DEF IndInv, CronTypeOK, RowsServed, ServedTo, AllServed
  <2> QED
    BY <2>1, <2>2
<1>5. BatchesServed'
  <2>1. \A s \in Scheduler : batch[s].pc # "idle" => batch[s].msg # m
    BY <1>2 DEF IndInv, BatchesServed, BatchServed
  <2> QED
    BY <1>2, <2>1 DEF IndInv, CronTypeOK, BatchesServed, BatchServed, ServedTo, AllServed
<1> QED
  BY <1>3, <1>4, <1>5 DEF IndInv

LEMMA ReadStep == ASSUME IndInv, NEW s \in Scheduler, ReadRow(s) PROVE IndInv'
<1> DEFINE m == Least(Waiting)
<1>1. m \in Message /\ cron[m].status = "row"
  <2>1. Waiting \in SUBSET Nat /\ Waiting # {}
    BY BroadcastAssumption DEF Waiting, ReadRow
  <2> QED
    BY <2>1, LeastIs DEF Waiting
<1>2. /\ batch' = [batch EXCEPT ![s] = [pc |-> IF cron[m].send >= cron[m].max THEN "delete" ELSE "select",
                                        msg |-> m, from |-> cron[m].send, last |-> cron[m].send, todo |-> {}]]
      /\ UNCHANGED <<subscriber, cron, owed, reached, broken, crashes>>
  BY DEF ReadRow
<1> HIDE DEF m
<1>3. CronTypeOK' /\ RowsServed'
  BY <1>1, <1>2 DEF IndInv, CronTypeOK, RowsServed, ServedTo, AllServed
<1>4. cron[m].send >= cron[m].max => owed[m] \cap subscriber \subseteq reached[m]
  <2> SUFFICES ASSUME cron[m].send >= cron[m].max, NEW i \in owed[m] \cap subscriber
               PROVE  i \in reached[m]
    OBVIOUS
  <2>1. i \in Nat /\ i <= cron[m].max /\ cron[m].max \in Nat /\ cron[m].send \in Nat
    BY <1>1, AccountIsNat DEF IndInv, CronTypeOK, RowsServed
  <2> QED
    BY <1>1, <2>1 DEF IndInv, RowsServed, ServedTo, AllServed
<1>5. ASSUME NEW r \in Scheduler PROVE BatchServed(r)'
  <2>1. CASE r = s
    BY <1>1, <1>2, <1>4, <2>1 DEF IndInv, CronTypeOK, RowsServed, ServedTo, AllServed, BatchServed
  <2>2. CASE r # s
    BY <1>2, <2>2 DEF IndInv, CronTypeOK, BatchesServed, BatchServed, ServedTo, AllServed
  <2> QED
    BY <2>1, <2>2
<1> QED
  BY <1>3, <1>5 DEF IndInv, BatchesServed

LEMMA SelectStep == ASSUME IndInv, NEW s \in Scheduler, SelectBatch(s) PROVE IndInv'
<1> DEFINE b == batch[s]
           S == {i \in subscriber : i > b.last /\ i <= cron[b.msg].max}
           todo == {i \in S : Cardinality({j \in S : j < i}) < BatchSize}
<1>1. /\ b.pc = "select" /\ b.msg \in Message /\ cron[b.msg].status # "none" /\ ServedTo(b.msg, b.last)
      /\ b.last \in Nat
  BY DEF SelectBatch, IndInv, BatchesServed, BatchServed, CronTypeOK
<1>2. /\ batch' = [batch EXCEPT ![s].pc = "send", ![s].todo = todo]
      /\ UNCHANGED <<subscriber, cron, owed, reached, broken, crashes>>
  BY DEF SelectBatch
<1>3. todo \in SUBSET Account /\ S \in SUBSET Account
  BY DEF IndInv, CronTypeOK
<1>4. \A i \in owed[b.msg] \cap subscriber : i \in Nat /\ (i > b.last => i \in S)
  BY <1>1, AccountIsNat DEF IndInv, CronTypeOK, RowsServed
<1>5. todo = {} => AllServed(b.msg)
  <2>1. S # {} => Least(S) \in todo
    <3> SUFFICES ASSUME S # {} PROVE Least(S) \in todo
      OBVIOUS
    <3>1. S \in SUBSET Nat
      BY <1>3, AccountIsNat
    <3> DEFINE n == Least(S)
    <3>2. n \in S /\ \A j \in S : n <= j
      BY <3>1, LeastIs
    <3> HIDE DEF n, S
    <3>3. {j \in S : j < n} = {}
      <4>1. \A i, j \in Nat : n = i /\ i <= j => ~(j < i)
        OBVIOUS
      <4>2. \A j \in S : n \in Nat /\ j \in Nat /\ ~(j < n)
        BY <3>1, <3>2, <4>1
      <4> QED
        BY <4>2
    <3>4. Cardinality({j \in S : j < n}) < BatchSize
      BY <3>3, FS_EmptySet, BroadcastAssumption
    <3>5. n \in todo
      BY <3>2, <3>4
    <3> QED
      BY <3>5 DEF n
  <2>2. ASSUME S = {}, NEW i \in owed[b.msg] \cap subscriber PROVE i \in reached[b.msg]
    <3>1. i \in Nat /\ ~(i > b.last)
      BY <1>4, <2>2
    <3>2. i <= b.last
      BY <1>1, <3>1
    <3> QED
      BY <1>1, <3>2 DEF ServedTo
  <2> QED
    BY <2>1, <2>2 DEF AllServed
<1>6. \A i \in owed[b.msg] \cap subscriber, t \in todo : i > b.last => i \in todo \/ t < i
  <2> SUFFICES ASSUME NEW i \in owed[b.msg] \cap subscriber, NEW t \in todo, i > b.last, i \notin todo
               PROVE  t < i
    OBVIOUS
  <2>1. i \in S /\ t \in S
    BY <1>4
  <2> QED
    BY <1>3, <2>1, BatchIsFirst
<1>7. \A t \in todo : b.last < t
  BY <1>1, <1>3, AccountIsNat
<1> HIDE DEF todo, S
<1>8. CronTypeOK' /\ RowsServed'
  <2> DEFINE T == [pc : {"idle", "select", "send", "delete"}, msg : Message \cup {0},
                   from : Nat, last : Nat, todo : SUBSET Account]
  <2>1. batch \in [Scheduler -> T]
    BY DEF IndInv, CronTypeOK
  <2>2. [batch[s] EXCEPT !.pc = "send", !.todo = todo] \in T
    BY <1>3, <2>1
  <2>3. batch' = [batch EXCEPT ![s] = [batch[s] EXCEPT !.pc = "send", !.todo = todo]]
    BY <1>2, <2>1
  <2> HIDE DEF T
  <2>4. batch' \in [Scheduler -> T]
    BY <2>1, <2>2, <2>3
  <2>5. CronTypeOK'
    BY <1>2, <2>4 DEF IndInv, CronTypeOK, T
  <2> QED
    BY <1>2, <2>5 DEF IndInv, RowsServed, ServedTo, AllServed
<1>9. ASSUME NEW r \in Scheduler PROVE BatchServed(r)'
  <2>1. CASE r = s
    <3>1. /\ batch'[s].pc = "send" /\ batch'[s].todo = todo
          /\ batch'[s].msg = b.msg /\ batch'[s].last = b.last /\ batch'[s].from = b.from
      BY <1>2 DEF IndInv, CronTypeOK
    <3>2. BatchServed(s)
      BY DEF IndInv, BatchesServed
    <3>3. b.from <= b.last
      BY <3>2 DEF BatchServed
    <3> QED
      BY <1>1, <1>2, <1>5, <1>6, <1>7, <2>1, <3>1, <3>3 DEF BatchServed, ServedTo, AllServed
  <2>2. CASE r # s
    <3>1. batch'[r] = batch[r] /\ BatchServed(r)
      BY <1>2, <2>2 DEF IndInv, CronTypeOK, BatchesServed
    <3> QED
      BY <1>2, <3>1, BatchStays
  <2> QED
    BY <2>1, <2>2
<1> QED
  BY <1>8, <1>9 DEF IndInv, BatchesServed

LEMMA SendStep == ASSUME IndInv, NEW s \in Scheduler, SendOne(s) PROVE IndInv'
<1> DEFINE b == batch[s]
           n == Least(b.todo)
<1>1. /\ b.pc = "send" /\ b.todo # {} /\ b.msg \in Message /\ cron[b.msg].status # "none"
      /\ ServedTo(b.msg, b.last) /\ b.last \in Nat /\ b.todo \in SUBSET Account
  BY DEF SendOne, IndInv, BatchesServed, BatchServed, CronTypeOK
<1>2. /\ reached' = [reached EXCEPT ![b.msg] = @ \cup {n}]
      /\ batch' = [batch EXCEPT ![s].last = n, ![s].todo = @ \ {n}]
      /\ UNCHANGED <<subscriber, cron, owed, broken, crashes>>
  BY DEF SendOne
<1>3. n \in b.todo /\ n \in Nat /\ n \in Account /\ \A t \in b.todo : n <= t
  <2>1. b.todo \in SUBSET Nat
    BY <1>1, AccountIsNat
  <2> QED
    BY <1>1, <2>1, LeastIs
<1>4. /\ \A t \in b.todo : b.last < t
      /\ \A i \in owed[b.msg] \cap subscriber, t \in b.todo : i > b.last => i \in b.todo \/ t < i
  BY <1>1 DEF IndInv, BatchesServed, BatchServed
<1> HIDE DEF n
<1>5. \A m \in Message : reached[m] \subseteq reached'[m] /\ reached'[m] \subseteq Account
  BY <1>1, <1>2, <1>3 DEF IndInv, CronTypeOK
<1>6. CronTypeOK' /\ RowsServed'
  <2>1. CronTypeOK'
    BY <1>1, <1>2, <1>3, <1>5 DEF IndInv, CronTypeOK
  <2> QED
    BY <1>2, <1>5, <2>1 DEF IndInv, RowsServed, ServedTo, AllServed
<1>7. ASSUME NEW r \in Scheduler PROVE BatchServed(r)'
  <2>1. CASE r = s
    <3>1. /\ batch'[s].pc = "send" /\ batch'[s].todo = b.todo \ {n}
          /\ batch'[s].msg = b.msg /\ batch'[s].last = n /\ batch'[s].from = b.from
      BY <1>1, <1>2 DEF IndInv, CronTypeOK
    <3>2. ASSUME NEW i \in owed[b.msg] \cap subscriber, i <= n PROVE i \in reached'[b.msg]
      <4>1. i \in Nat
        BY <1>1, AccountIsNat DEF IndInv, CronTypeOK
      <4>2. CASE i <= b.last
        BY <1>1, <1>5, <3>2, <4>2 DEF ServedTo, AllServed
      <4>3. CASE i > b.last
        <5>1. i \in b.todo
          BY <1>3, <1>4, <3>2, <4>1, <4>3
        <5>2. i = n
          BY <1>3, <3>2, <4>1, <5>1
        <5> QED
          BY <1>1, <1>2, <5>2 DEF IndInv, CronTypeOK
      <4> QED
        BY <1>1, <4>1, <4>2, <4>3
    <3>3. ASSUME NEW i \in owed[b.msg] \cap subscriber, NEW t \in b.todo \ {n}, i > n
          PROVE  i \in b.todo \ {n} \/ t < i
      <4>1. i \in Nat /\ t \in Nat
        BY <1>1, AccountIsNat DEF IndInv, CronTypeOK
      <4>2. i > b.last
        BY <1>1, <1>3, <1>4, <3>3, <4>1
      <4> QED
        BY <1>4, <3>3, <4>1, <4>2
    <3>4. ASSUME NEW t \in b.todo \ {n} PROVE n < t
      <4>1. t \in Nat
        BY <1>1, AccountIsNat
      <4> QED
        BY <1>3, <4>1
    <3>5. batch'[r].msg \in Message /\ cron'[batch'[r].msg].status # "none"
      BY <1>1, <1>2, <2>1, <3>1
    <3>6. ServedTo(batch[r].msg, batch[r].last)'
      BY <1>2, <2>1, <3>1, <3>2 DEF ServedTo, AllServed
    <3>7. batch'[r].pc = "send" /\ batch'[r].from <= batch'[r].last /\ batch'[r].last # batch'[r].from
      <4>1. b.from <= b.last /\ b.from \in Nat
        BY DEF IndInv, BatchesServed, BatchServed, CronTypeOK
      <4> QED
        BY <1>1, <1>3, <1>4, <2>1, <3>1, <4>1
    <3>8. \A t \in batch'[r].todo : batch'[r].last < t
      BY <2>1, <3>1, <3>4
    <3>9. \A i \in owed'[batch'[r].msg] \cap subscriber', t \in batch'[r].todo :
            i > batch'[r].last => i \in batch'[r].todo \/ t < i
      BY <1>2, <2>1, <3>1, <3>3
    <3> QED
      BY <3>5, <3>6, <3>7, <3>8, <3>9 DEF BatchServed
  <2>2. CASE r # s
    <3>1. batch'[r] = batch[r] /\ BatchServed(r)
      BY <1>2, <2>2 DEF IndInv, CronTypeOK, BatchesServed
    <3> QED
      BY <1>2, <1>5, <3>1, BatchStays
  <2> QED
    BY <2>1, <2>2
<1> QED
  BY <1>6, <1>7 DEF IndInv, BatchesServed

LEMMA WriteStep == ASSUME IndInv, NEW s \in Scheduler, WriteBack(s) PROVE IndInv'
<1> DEFINE b == batch[s]
<1>1. /\ b.pc = "send" /\ b.todo = {} /\ b.msg \in Message /\ cron[b.msg].status # "none"
      /\ ServedTo(b.msg, b.last) /\ b.last \in Nat
  BY DEF WriteBack, IndInv, BatchesServed, BatchServed, CronTypeOK
<1>2. /\ cron' = IF cron[b.msg].status = "row" THEN [cron EXCEPT ![b.msg].send = b.last] ELSE cron
      /\ batch' = [batch EXCEPT ![s] = NoBatch]
      /\ UNCHANGED <<subscriber, owed, reached, broken, crashes>>
  BY DEF WriteBack
<1>3. \A m \in Message : /\ cron'[m].status = cron[m].status /\ cron'[m].max = cron[m].max
                         /\ cron'[m].send = cron[m].send \/ (m = b.msg /\ cron'[m].send = b.last)
  BY <1>1, <1>2 DEF IndInv, CronTypeOK
<1>4. CronTypeOK'
  BY <1>1, <1>2 DEF IndInv, CronTypeOK, NoBatch
<1>5. RowsServed'
  BY <1>1, <1>2, <1>3 DEF IndInv, RowsServed, ServedTo, AllServed
<1>6. ASSUME NEW r \in Scheduler PROVE BatchServed(r)'
  <2>1. CASE r = s
    BY <1>2, <2>1 DEF IndInv, CronTypeOK, BatchServed, NoBatch
  <2>2. CASE r # s
    <3>1. batch'[r] = batch[r] /\ BatchServed(r)
      BY <1>2, <2>2 DEF IndInv, CronTypeOK, BatchesServed
    <3> QED
      BY <1>2, <1>3, <3>1 DEF BatchServed, ServedTo, AllServed
  <2> QED
    BY <2>1, <2>2
<1> QED
  BY <1>4, <1>5, <1>6 DEF IndInv, BatchesServed

LEMMA DeleteStep == ASSUME IndInv, NEW s \in Scheduler, DeleteRow(s) PROVE IndInv'
<1> DEFINE b == batch[s]
<1>1. /\ b.msg \in Message /\ cron[b.msg].status # "none"
      /\ b.msg \in broken \/ AllServed(b.msg)
  BY DEF DeleteRow, Over, IndInv, BatchesServed, BatchServed
<1>2. /\ cron' = [cron EXCEPT ![b.msg].status = "gone"]
      /\ batch' = [batch EXCEPT ![s] = NoBatch]
      /\ UNCHANGED <<subscriber, owed, reached, broken, crashes>>
  BY DEF DeleteRow
<1>3. \A m \in Message : /\ cron'[m].max = cron[m].max /\ cron'[m].send = cron[m].send
                         /\ cron'[m].status = cron[m].status \/ (m = b.msg /\ cron'[m].status = "gone")
  BY <1>1, <1>2 DEF IndInv, CronTypeOK
<1>4. CronTypeOK'
  BY <1>1, <1>2 DEF IndInv, CronTypeOK, NoBatch
<1>5. RowsServed'
  BY <1>1, <1>2, <1>3 DEF IndInv, RowsServed, ServedTo, AllServed
<1>6. ASSUME NEW r \in Scheduler PROVE BatchServed(r)'
  <2>1. CASE r = s
    BY <1>2, <2>1 DEF IndInv, CronTypeOK, BatchServed, NoBatch
  <2>2. CASE r # s
    <3>1. batch'[r] = batch[r] /\ BatchServed(r)
      BY <1>2, <2>2 DEF IndInv, CronTypeOK, BatchesServed
    <3> QED
      BY <1>2, <1>3, <3>1 DEF BatchServed, ServedTo, AllServed
  <2> QED
    BY <2>1, <2>2
<1> QED
  BY <1>4, <1>5, <1>6 DEF IndInv, BatchesServed

\* The rest of a batch is lost: if nobody was served, the query is known to have
\* broken.
LEMMA BreakStep == ASSUME IndInv, NEW s \in Scheduler, QueryBreaks(s) PROVE IndInv'
<1> DEFINE b == batch[s]
<1>1. /\ b.pc = "send" /\ b.msg \in Message /\ crashes' \in 0..MaxCrashes
      /\ batch' = [batch EXCEPT ![s].todo = {}]
      /\ broken' = IF b.last = b.from THEN broken \cup {b.msg} ELSE broken
      /\ UNCHANGED <<subscriber, cron, owed, reached>>
  BY BroadcastAssumption DEF QueryBreaks, IndInv, CronTypeOK, BatchesServed, BatchServed
<1>2. broken \subseteq broken' /\ broken' \subseteq Message
  BY <1>1 DEF IndInv, CronTypeOK
<1>3. CronTypeOK'
  BY <1>1, <1>2 DEF IndInv, CronTypeOK
<1>4. RowsServed'
  BY <1>1, <1>2 DEF IndInv, RowsServed, ServedTo, AllServed
<1>5. ASSUME NEW r \in Scheduler PROVE BatchServed(r)'
  <2>0. BatchServed(r)
    BY DEF IndInv, BatchesServed
  <2>1. CASE r = s
    <3>1. /\ batch'[s].pc = "send" /\ batch'[s].todo = {}
          /\ batch'[s].msg = b.msg /\ batch'[s].last = b.last /\ batch'[s].from = b.from
      BY <1>1 DEF IndInv, CronTypeOK
    <3> QED
      BY <1>1, <2>0, <2>1, <3>1 DEF BatchServed, ServedTo, AllServed
  <2>2. CASE r # s
    <3>1. batch'[r] = batch[r]
      BY <1>1, <2>2 DEF IndInv, CronTypeOK
    <3> QED
      BY <1>1, <1>2, <2>0, <3>1 DEF BatchServed, ServedTo, AllServed
  <2> QED
    BY <2>1, <2>2
<1> QED
  BY <1>3, <1>4, <1>5 DEF IndInv, BatchesServed

LEMMA CrashStep == ASSUME IndInv, NEW s \in Scheduler, CrashScheduler(s) PROVE IndInv'
<1>1. /\ batch' = [batch EXCEPT ![s] = NoBatch] /\ crashes' \in 0..MaxCrashes
      /\ UNCHANGED <<subscriber, cron, owed, reached, broken>>
  BY BroadcastAssumption DEF CrashScheduler, IndInv, CronTypeOK
<1>2. CronTypeOK' /\ RowsServed'
  BY <1>1 DEF IndInv, CronTypeOK, RowsServed, ServedTo, AllServed, NoBatch
<1>3. ASSUME NEW r \in Scheduler PROVE BatchServed(r)'
  <2>1. CASE r = s
    BY <1>1, <2>1 DEF IndInv, CronTypeOK, BatchServed, NoBatch
  <2>2. CASE r # s
    <3>1. batch'[r] = batch[r] /\ BatchServed(r)
      BY <1>1, <2>2 DEF IndInv, CronTypeOK, BatchesServed
    <3> QED
      BY <1>1, <3>1 DEF BatchServed, ServedTo, AllServed
  <2> QED
    BY <2>1, <2>2
<1> QED
  BY <1>2, <1>3 DEF IndInv, BatchesServed

\* Users come and go; nobody new is owed an old message.
LEMMA PeopleStep == ASSUME IndInv, NEW i \in Account, SignUp(i) \/ DeleteFake(i) PROVE IndInv'
<1>1. /\ \A m \in Message : owed[m] \cap subscriber' \subseteq owed[m] \cap subscriber
      /\ subscriber' \subseteq Account
      /\ UNCHANGED <<cron, owed, reached, broken, batch, crashes>>
  BY DEF SignUp, DeleteFake, IndInv, CronTypeOK
<1>2. CronTypeOK'
  BY <1>1 DEF IndInv, CronTypeOK
<1>3. RowsServed'
  BY <1>1 DEF IndInv, RowsServed, ServedTo, AllServed
<1>4. ASSUME NEW r \in Scheduler PROVE BatchServed(r)'
  <2>1. BatchServed(r)
    BY DEF IndInv, BatchesServed
  <2> QED
    BY <1>1, <2>1 DEF IndInv, CronTypeOK, BatchServed, ServedTo, AllServed
<1> QED
  BY <1>2, <1>3, <1>4 DEF IndInv, BatchesServed

LEMMA IndStep == IndInv /\ [CronNext]_cronVars => IndInv'
<1> SUFFICES ASSUME IndInv, [CronNext]_cronVars PROVE IndInv'
  OBVIOUS
<1>1. CASE UNCHANGED cronVars
  BY <1>1 DEF cronVars, IndInv, CronTypeOK, RowsServed, BatchesServed, BatchServed, ServedTo, AllServed
<1>2. CASE CronNext
  BY <1>2, CreateStep, ReadStep, SelectStep, SendStep, WriteStep, DeleteStep, BreakStep, CrashStep, PeopleStep
  DEF CronNext, CronStep
<1> QED
  BY <1>1, <1>2

LEMMA Invariant == CronSpec => []IndInv
  BY IndInit, IndStep, PTL DEF CronSpec

\* Type correctness.
THEOREM CronTypeCorrect == CronSpec => []CronTypeOK
<1>1. IndInv => CronTypeOK
  BY DEF IndInv
<1> QED
  BY <1>1, Invariant, PTL

\* A broadcast that is over has reached everyone it was for: overlapping and
\* dying instances of processCron skip nobody, unless a query of it broke before
\* its first row.
THEOREM BroadcastReaches == CronSpec => []BroadcastReachesAll
<1>1. IndInv => BroadcastReachesAll
  BY DEF IndInv, RowsServed, BroadcastReachesAll, AllServed
<1> QED
  BY <1>1, Invariant, PTL
=============================================================================
