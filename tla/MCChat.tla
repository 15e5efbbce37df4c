------------------------------- MODULE MCChat -------------------------------
(***************************************************************************)
(* Small instances of Chat for TLC.                                        *)
(***************************************************************************)
EXTENDS Chat, TLC


\* Users, workers and schedulers are interchangeable (safety runs only).
MCSymmetry == Permutations(User) \cup Permutations(Worker) \cup Permutations(Scheduler)

=============================================================================
