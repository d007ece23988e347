----------------------------- MODULE FdAllocator -----------------------------
(***************************************************************************)
(* What the connection table of an agent promises: a descriptor belongs to *)
(* at most one connection at a time, an opened connection gets the lowest  *)
(* free one, and only closing the connection gives it back.                *)
(***************************************************************************)
EXTENDS Integers

CONSTANTS Conns, MaxConnections

Fds == 0 .. MaxConnections - 1
NoFd == -1

VARIABLE fd     \* connection -> the descriptor it owns, or NoFd

Owned == {fd[c] : c \in Conns} \ {NoFd}

Init == fd = [c \in Conns |-> NoFd]

Open(c) ==
  /\ fd[c] = NoFd
  /\ \E i \in Fds \ Owned :
       /\ 0 .. i - 1 \subseteq Owned
       /\ fd' = [fd EXCEPT ![c] = i]

Close(c) ==
  /\ fd[c] # NoFd
  /\ fd' = [fd EXCEPT ![c] = NoFd]

Next == \E c \in Conns : Open(c) \/ Close(c)

Spec == Init /\ [][Next]_fd

\* No two connections share a descriptor.
Exclusive ==
  \A c, d \in Conns : fd[c] = fd[d] /\ fd[c] # NoFd => c = d
=============================================================================
