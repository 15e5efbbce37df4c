---------------------------- MODULE ChatContract ----------------------------
(***************************************************************************)
(* What the anonymous chat promises, with nothing of how it is done: a     *)
(* conversation takes one user (who talks to a synthetic partner) or two,  *)
(* all of them free; it charges each its price; it ends once; and an end   *)
(* gives each party back either nothing or exactly the price it paid.      *)
(***************************************************************************)
EXTENDS Integers

CONSTANTS User,      \* real users
          ChatId,    \* rows the conversations table can come to hold
          Price,     \* what one party can be charged for a conversation
          Deposit    \* the coins every user starts with

VARIABLES talk,   \* talk[c]: the phase of conversation c and what its parties paid
          purse   \* purse[u]: the coins of user u

contractVars == <<talk, purse>>

\* A conversation that has not begun; paid maps each party to its price.
NoTalk == [phase |-> "none", paid |-> [u \in {} |-> 0]]

Parties(t) == DOMAIN t.paid

Busy == UNION {Parties(talk[c]) : c \in {d \in ChatId : talk[d].phase = "chatting"}}

ContractInit ==
    /\ talk = [c \in ChatId |-> NoTalk]
    /\ purse = [u \in User |-> Deposit]

\* The parties are u and v, or u alone (u = v).
Begin(c) ==
    /\ talk[c].phase = "none"
    /\ \E u, v \in User :
        /\ {u, v} \cap Busy = {}
        /\ \E paid \in [{u, v} -> Price] :
            /\ talk' = [talk EXCEPT ![c] = [phase |-> "chatting", paid |-> paid]]
            /\ purse' = [x \in User |-> IF x \in {u, v} THEN purse[x] - paid[x] ELSE purse[x]]

Finish(c) ==
    /\ talk[c].phase = "chatting"
    /\ talk' = [talk EXCEPT ![c].phase = "end"]
    /\ \E back \in SUBSET Parties(talk[c]) :
        purse' = [u \in User |-> IF u \in back THEN purse[u] + talk[c].paid[u] ELSE purse[u]]

ContractNext == \E c \in ChatId : Begin(c) \/ Finish(c)

ContractSpec == ContractInit /\ [][ContractNext]_contractVars

-----------------------------------------------------------------------------
(* What follows for a user. *)

On(c, u) == talk[c].phase = "chatting" /\ u \in Parties(talk[c])

\* A user is in one conversation at a time.
OneTalk == \A u \in User : \A c, d \in ChatId : On(c, u) /\ On(d, u) => c = d

\* No coin comes from nothing: nobody ever has more than the deposit, and the price
\* of the conversation a user is in has really left the purse.
OwnCoins ==
    \A u \in User :
        /\ purse[u] <= Deposit
        /\ \A c \in ChatId : On(c, u) => purse[u] + talk[c].paid[u] <= Deposit

\* The end is the end: a conversation is not opened again, so it is not given back
\* a second time, and what its parties paid stays on record.
EndedStay == \A c \in ChatId : talk[c].phase = "end" => UNCHANGED talk[c]
EndStands == [][EndedStay]_contractVars

=============================================================================
