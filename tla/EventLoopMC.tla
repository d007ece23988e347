----------------------------- MODULE EventLoopMC -----------------------------
(***************************************************************************)
(* Instances of EventLoop for TLC.                                         *)
(***************************************************************************)
EXTENDS EventLoop

CONSTANTS c1, c2

TwoClients == {c1, c2}

\* The server registers one region for one client, three for the other, or is
\* refused.
OneOrThree == [c \in TwoClients |-> IF c = c1 THEN {1, 6} ELSE {3, 6}]

Rank == [connect |-> 1, reactor |-> 2, loop |-> 3, receiver |-> 4, sender |-> 5]

\* But for the number of their regions, on which no guard depends, the clients
\* are interchangeable: each pair of kinds is checked once.
OrderedInit == Init /\ Rank[kind[c1]] <= Rank[kind[c2]]
OrderedSpec == OrderedInit /\ [][Next]_vars /\ Fairness
=============================================================================
