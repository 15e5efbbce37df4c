------------------------------ MODULE Exchange ------------------------------
(***************************************************************************)
(* What the bot promises of updates and messages, with nothing of how: an  *)
(* update comes in once, is handled at most once, and is either finished   *)
(* or lost for good; a message goes out at most once, and the reply to an  *)
(* update not before the update is being handled.                          *)
(***************************************************************************)
EXTENDS Naturals

CONSTANTS Request,  \* updates; the reply to an update bears its name
          Message   \* messages that go out, replies among them

VARIABLES stage,  \* stage[u]: how far update u has come
          out     \* out[m]: how often message m has reached Telegram

exchangeVars == <<stage, out>>

ExchangeInit ==
  /\ stage = [u \in Request |-> "new"]
  /\ out = [m \in Message |-> 0]

Move(u, from, to) ==
  /\ stage[u] = from
  /\ stage' = [stage EXCEPT ![u] = to]
  /\ UNCHANGED out

\* An accident takes any updates that have come in and are not finished.
Lose ==
  /\ \E L \in SUBSET {u \in Request : stage[u] \in {"queued", "handled"}} :
        stage' = [u \in Request |-> IF u \in L THEN "lost" ELSE stage[u]]
  /\ UNCHANGED out

Deliver(m) ==
  /\ out[m] = 0
  /\ m \in Request => stage[m] \in {"handled", "done", "lost"}
  /\ out' = [out EXCEPT ![m] = 1]
  /\ UNCHANGED stage

ExchangeNext ==
  \/ \E u \in Request : \/ Move(u, "new", "queued")
                        \/ Move(u, "queued", "handled")
                        \/ Move(u, "handled", "done")
  \/ Lose
  \/ \E m \in Message : Deliver(m)

ExchangeSpec == ExchangeInit /\ [][ExchangeNext]_exchangeVars

-----------------------------------------------------------------------------
(* What follows. *)

\* A message reaches Telegram once at most, and a reply only when the update it
\* answers has come to a handler.
AtMostOnce ==
  \A m \in Message :
     /\ out[m] <= 1
     /\ m \in Request /\ out[m] > 0 => stage[m] \in {"handled", "done", "lost"}

\* An update that a handler has had is never handled again: it goes on to its end,
\* or it is lost, and stays there.
GoneStays ==
  \A u \in Request :
     /\ stage[u] \in {"done", "lost"} => stage'[u] = stage[u]
     /\ stage[u] = "handled" => stage'[u] \in {"handled", "done", "lost"}
HandledOnce == [][GoneStays]_exchangeVars
=============================================================================
