----------------------------- MODULE ConnTableMC -----------------------------
(***************************************************************************)
(* Instances of ConnTable for TLC.                                         *)
(***************************************************************************)
EXTENDS ConnTable

CONSTANTS c1, c2, c3, r1

ThreeConns == {c1, c2, c3}
OneReader == {r1}

AllSearches == {"fds", "contexts", "count"}
AllQueries == {"ip", "qpn"}

\* Descriptors an application may hold, -1, the one get_connection lets through
\* although there is no such slot, and one it refuses.
SomeFds == -1 .. MaxConnections + 1
=============================================================================
