---------------------------- MODULE MCCommunity -----------------------------
(***************************************************************************)
(* Accounts, broadcasts and games for TLC.  They share no row that matters *)
(* to each other's properties, so that each behaviour (load) exercises one *)
(* of them.                                                                *)
(***************************************************************************)
EXTENDS Accounts, Broadcast, TicTacToe

CONSTANTS u1, u2, u3, anna, behzad, w1, w2
VARIABLE load

vars == <<accVars, cronVars, gameVars, load>>

MCLine == {{1, 2}, {2, 3}}

Idle == member = {u1, u2} /\ referral = [u \in User |-> Nobody] /\ balance = [u \in User |-> 0]
NoBroadcast == subscriber = {}

MCInit ==
  /\ AccInit /\ CronInit /\ GameInit
  /\ \/ /\ load = "join"
        /\ member = {u1, u2} /\ referral = [u \in User |-> IF u = u2 THEN u1 ELSE Nobody]
        /\ balance = [u \in User |-> 0] /\ NoBroadcast
     \/ /\ load \in {"watch", "write"}
        /\ member = {u1, u2} /\ referral = [u \in User |-> Nobody]
        /\ balance = [u \in User |-> IF u = u1 THEN 2 ELSE 1] /\ NoBroadcast
     \/ /\ load = "away"
        /\ member = {u1, u2} /\ referral = [u \in User |-> Nobody]
        /\ balance[u1] = 1 /\ balance[u3] = 0 /\ NoBroadcast
     \/ /\ load = "broadcast"
        /\ Idle /\ subscriber = {1, 2, 3}
     \/ /\ load = "game"
        /\ Idle /\ NoBroadcast

\* The players are named so that anna opens the first game, and the workers so
\* that the first one that is free takes an update.  The lock runs out under anna,
\* in behaviours with one game.
FirstIsX == game'[1].x # behzad
FirstIsFree == hand[w1].pc = "idle" /\ hand[w2].pc = "idle" => hand'[w2].pc = "idle"
LockOfX == unlocked' \subseteq {anna} /\ (unlocked' # {} => game'[2] = Blank)

AccountNext ==
  \/ \E p \in Process : HandlerStep(p)
  \/ load = "join" /\ Joining
  \/ load = "watch" /\ Watching
  \/ load = "write" /\ Writing
  \/ load = "away" /\ StayingAway
  \/ load # "away" /\ Accidents

MCNext ==
  /\ UNCHANGED load
  /\ \/ load \in {"join", "watch", "write", "away"} /\ AccountNext /\ UNCHANGED <<cronVars, gameVars>>
     \/ load = "broadcast" /\ CronNext /\ UNCHANGED <<accVars, gameVars>>
     \/ load = "game" /\ GameNext /\ FirstIsX /\ FirstIsFree /\ LockOfX /\ UNCHANGED <<accVars, cronVars>>

\* The fairness of the three modules, looked at where it matters.
MCFairness ==
  /\ \A s \in Scheduler : WF_cronVars(load = "broadcast" /\ CronStep(s))
  /\ \A w \in Worker : WF_gameVars(load = "game" /\ GameStep(w))
  /\ WF_gameVars(load = "game" /\ EndOrphans)
  /\ \A p \in Process : WF_accVars(load = "watch" /\ HandlerStep(p))
  /\ \A v \in User : SF_accVars(load = "watch" /\ \E p \in Process : ComeOnline(p, v))

MCSpec == MCInit /\ [][MCNext]_vars /\ MCFairness
=============================================================================
