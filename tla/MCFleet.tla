------------------------------ MODULE MCFleet ------------------------------
(***************************************************************************)
(* Small instances of Fleet for TLC.                                       *)
(***************************************************************************)
EXTENDS Fleet

\* Peak hours that come and go, with the mode reactive and with either mode forced.
MCSettings == {<<"auto", "out">>, <<"peak", "in">>, <<"normal", "out">>}
=============================================================================
