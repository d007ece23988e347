------------------------------ MODULE ReactorMC ------------------------------
(***************************************************************************)
(* Instances of Reactor for TLC.                                           *)
(***************************************************************************)
EXTENDS Reactor

CONSTANTS c1, c2, m1, m2

TwoConns == {c1, c2}
TwoChunks == {m1, m2}
=============================================================================
