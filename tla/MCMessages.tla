---------------------------- MODULE MCMessages ------------------------------
(* Messages for TLC, with four loads: two updates of one user; an         *)
(* update whose reply is urgent beside a notice to the same chat; two      *)
(* notices, to one shard or to two.                                        *)
EXTENDS Messages

CONSTANTS u1, u2, n1, n2, n3, a, s1, s2

MCFrom == [u \in Update |-> a]
MCShardOf == [j \in Job |-> IF j = n3 THEN s2 ELSE s1]

MCLoad == {{u1, u2}, {u2, n1}, {n1, n2}, {n1, n3}}
MCInit == Init /\ load \in MCLoad
MCSpec == MCInit /\ [][Next]_vars /\ Fairness
=============================================================================
