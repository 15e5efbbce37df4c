----------------------------- MODULE MCRouting ------------------------------
(* Routing for TLC: users do not interact, so one is enough.               *)
EXTENDS Routing

CONSTANTS h1, h2, u1

MCPoint == [x \in Helper \X VNode |->
              CASE x = <<h1, 1>> -> 1 [] x = <<h1, 2>> -> 4 [] x = <<h2, 1>> -> 2 [] OTHER -> 6]
MCKey == [u \in User |-> 3]
=============================================================================
