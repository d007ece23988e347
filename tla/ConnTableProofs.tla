-------------------------- MODULE ConnTableProofs ---------------------------
(***************************************************************************)
(* Theorems about ConnTable, for every number of slots, connections and    *)
(* readers: the table never names a connection that does not own the       *)
(* entry, it implements the allocator of descriptors, and its readers find *)
(* what stays open while connections come and go around them.              *)
(***************************************************************************)
EXTENDS ConnTable, BitmapsProofs, FiniteSetTheorems

-----------------------------------------------------------------------------
(***************************************************************************)
(* The inductive invariant.  MapNamesOwner alone is not inductive: that a  *)
(* removal cannot erase the entry of the next owner rests on the mutex,    *)
(* and that a registration finds its entry empty on the bitmap.            *)
(***************************************************************************)
\* The part of TypeOK the owners' steps depend on.
TableTypeOK ==
  /\ conn_bitmap \in [Fds -> {0, 1}]
  /\ conn_fd_map \in [Fds -> Conns \cup {NoConn}]
  /\ mu \in Conns \cup {NoConn}
  /\ pc \in [Conns -> Phase]
  /\ sockfd \in [Conns -> Fds \cup {NoFd}]

\* A context has a descriptor as long as it exists.
HasFd == \A c \in Conns : pc[c] # "unused" => sockfd[c] \in Fds

\* A descriptor has at most one owner.
OneOwner ==
  \A c, d \in Conns :
    pc[c] \in Holding /\ pc[d] \in Holding /\ sockfd[c] = sockfd[d] => c = d

\* The bit of a descriptor is set exactly while it has an owner.
BitMeansOwned ==
  \A i \in Fds :
    conn_bitmap[i] = 1 <=> \E c \in Conns : pc[c] \in Holding /\ sockfd[c] = i

\* An open connection is in the map.
OpenIsMapped ==
  \A c \in Conns : pc[c] = "open" => conn_fd_map[sockfd[c]] = c

\* Exactly the connection between the two writes of free_sockfd holds the
\* mutex, and its descriptor has no owner yet.
ClearingHoldsMutex ==
  \A c \in Conns :
    /\ pc[c] = "clearing" <=> mu = c
    /\ pc[c] = "clearing" => conn_bitmap[sockfd[c]] = 0

IInv ==
  /\ TableTypeOK
  /\ HasFd
  /\ OneOwner
  /\ BitMeansOwned
  /\ OpenIsMapped
  /\ MapNamesOwner
  /\ ClearingHoldsMutex
-----------------------------------------------------------------------------
LEMMA FdsAreNaturals ==
  Fds \subseteq Nat /\ NoFd \notin Fds /\ NoConn \notin Conns
BY TableAssumption DEF Fds, NoFd, NoSlot

LEMMA InitIInv == Init => IInv
<1> SUFFICES ASSUME Init PROVE IInv
  OBVIOUS
<1>1. TableTypeOK
  BY DEF Init, TableTypeOK, Phase
<1> QED
  BY <1>1, FdsAreNaturals
     DEF Init, IInv, HasFd, OneOwner, BitMeansOwned, OpenIsMapped,
         MapNamesOwner, ClearingHoldsMutex, Holding

LEMMA GetSockfdIInv ==
  ASSUME IInv, NEW c \in Conns, GetSockfd(c)
  PROVE  IInv'
<1> DEFINE i == find_first_empty_bit(conn_bitmap)
<1> USE FdsAreNaturals
<1>1. CASE i = NoSlot
  <2>1. UNCHANGED ownerVars
    BY <1>1 DEF GetSockfd
  <2> QED
    BY <2>1 DEF IInv, TableTypeOK, HasFd, OneOwner, BitMeansOwned,
         OpenIsMapped, MapNamesOwner, ClearingHoldsMutex, ownerVars
<1>2. CASE i # NoSlot
  <2>1. i \in Fds /\ conn_bitmap[i] = 0
    BY <1>2, FirstEmptyBit, TableAssumption DEF IInv, TableTypeOK, Fds
  <2>2. /\ pc[c] = "unused" /\ mu = NoConn
        /\ conn_bitmap' = [conn_bitmap EXCEPT ![i] = 1]
        /\ sockfd' = [sockfd EXCEPT ![c] = i]
        /\ pc' = [pc EXCEPT ![c] = "claimed"]
        /\ UNCHANGED <<conn_fd_map, mu>>
    BY <1>2 DEF GetSockfd
  <2> HIDE DEF i
  <2>3. \A d \in Conns : pc[d] \in Holding => sockfd[d] # i
    BY <2>1 DEF IInv, BitMeansOwned
  <2>4. TableTypeOK'
    BY <2>1, <2>2 DEF IInv, TableTypeOK, Phase
  <2>5. HasFd' /\ OpenIsMapped'
    BY <2>1, <2>2 DEF IInv, TableTypeOK, HasFd, OpenIsMapped
  <2>6. OneOwner'
    BY <2>1, <2>2, <2>3 DEF IInv, TableTypeOK, OneOwner, Holding
  <2>7. BitMeansOwned'
    BY <2>1, <2>2, <2>3 DEF IInv, TableTypeOK, BitMeansOwned, Holding
  <2>8. MapNamesOwner'
    BY <2>1, <2>2 DEF IInv, TableTypeOK, MapNamesOwner
  <2>9. ClearingHoldsMutex'
    BY <2>1, <2>2 DEF IInv, TableTypeOK, ClearingHoldsMutex
  <2> QED
    BY <2>4, <2>5, <2>6, <2>7, <2>8, <2>9 DEF IInv
<1> QED
  BY <1>1, <1>2

LEMMA SetBitIInv ==
  ASSUME IInv, NEW c \in Conns, SetBit(c)
  PROVE  IInv'
<1> USE FdsAreNaturals
<1>1. conn_bitmap[sockfd[c]] = 1 /\ sockfd[c] \in Fds
  BY DEF IInv, HasFd, BitMeansOwned, SetBit, Holding
<1>2. conn_bitmap' = conn_bitmap
  BY <1>1 DEF SetBit, IInv, TableTypeOK
<1>3. /\ pc[c] = "claimed" /\ pc' = [pc EXCEPT ![c] = "marked"]
      /\ UNCHANGED <<conn_fd_map, mu, sockfd>>
  BY DEF SetBit
<1>4. TableTypeOK' /\ HasFd' /\ OneOwner' /\ OpenIsMapped'
  BY <1>2, <1>3 DEF IInv, TableTypeOK, HasFd, OneOwner, OpenIsMapped,
                    Holding, Phase
<1>5. BitMeansOwned'
  BY <1>2, <1>3 DEF IInv, TableTypeOK, BitMeansOwned, Holding
<1>6. MapNamesOwner' /\ ClearingHoldsMutex'
  BY <1>2, <1>3 DEF IInv, TableTypeOK, MapNamesOwner, ClearingHoldsMutex
<1> QED
  BY <1>4, <1>5, <1>6 DEF IInv

LEMMA SetMapIInv ==
  ASSUME IInv, NEW c \in Conns, SetMap(c)
  PROVE  IInv'
<1> USE FdsAreNaturals
<1>1. /\ pc[c] = "marked" /\ pc' = [pc EXCEPT ![c] = "open"]
      /\ conn_fd_map' = [conn_fd_map EXCEPT ![sockfd[c]] = c]
      /\ UNCHANGED <<conn_bitmap, mu, sockfd>>
  BY DEF SetMap
<1>2. sockfd[c] \in Fds
  BY <1>1 DEF IInv, HasFd
<1>3. TableTypeOK' /\ HasFd' /\ OneOwner'
  BY <1>1, <1>2 DEF IInv, TableTypeOK, HasFd, OneOwner, Holding, Phase
<1>4. BitMeansOwned'
  BY <1>1 DEF IInv, TableTypeOK, BitMeansOwned, Holding
<1>5. OpenIsMapped'
  BY <1>1, <1>2
     DEF IInv, TableTypeOK, HasFd, OpenIsMapped, OneOwner, Holding
<1>6. MapNamesOwner'
  BY <1>1, <1>2 DEF IInv, TableTypeOK, MapNamesOwner
<1>7. ClearingHoldsMutex'
  BY <1>1 DEF IInv, TableTypeOK, ClearingHoldsMutex
<1> QED
  BY <1>3, <1>4, <1>5, <1>6, <1>7 DEF IInv

LEMMA BuildQpIInv ==
  ASSUME IInv, NEW c \in Conns, BuildQp(c)
  PROVE  IInv'
<1>1. UNCHANGED <<conn_bitmap, conn_fd_map, mu, pc, sockfd>>
  BY DEF BuildQp
<1> QED
  BY <1>1 DEF IInv, TableTypeOK, HasFd, OneOwner, BitMeansOwned, OpenIsMapped,
              MapNamesOwner, ClearingHoldsMutex

LEMMA FreeBitIInv ==
  ASSUME IInv, NEW c \in Conns, FreeBit(c)
  PROVE  IInv'
<1> USE FdsAreNaturals
<1>1. /\ pc[c] = "open" /\ pc' = [pc EXCEPT ![c] = "clearing"]
      /\ mu = NoConn /\ mu' = c
      /\ conn_bitmap' = [conn_bitmap EXCEPT ![sockfd[c]] = 0]
      /\ UNCHANGED <<conn_fd_map, sockfd>>
  BY DEF FreeBit
<1>2. sockfd[c] \in Fds
  BY <1>1 DEF IInv, HasFd
<1>3. \A d \in Conns : pc[d] \in Holding /\ sockfd[d] = sockfd[c] => d = c
  BY <1>1 DEF IInv, OneOwner, Holding
<1>4. TableTypeOK' /\ HasFd' /\ OneOwner' /\ OpenIsMapped'
  BY <1>1, <1>2 DEF IInv, TableTypeOK, HasFd, OneOwner, OpenIsMapped,
                    Holding, Phase
<1>5. BitMeansOwned'
  BY <1>1, <1>2, <1>3 DEF IInv, TableTypeOK, BitMeansOwned, Holding
<1>6. MapNamesOwner'
  BY <1>1 DEF IInv, TableTypeOK, MapNamesOwner
<1>7. ClearingHoldsMutex'
  BY <1>1, <1>2 DEF IInv, TableTypeOK, ClearingHoldsMutex
<1> QED
  BY <1>4, <1>5, <1>6, <1>7 DEF IInv

LEMMA FreeMapIInv ==
  ASSUME IInv, NEW c \in Conns, FreeMap(c)
  PROVE  IInv'
<1> USE FdsAreNaturals
<1>1. /\ pc[c] = "clearing" /\ pc' = [pc EXCEPT ![c] = "closed"]
      /\ mu' = NoConn
      /\ conn_fd_map' = [conn_fd_map EXCEPT ![sockfd[c]] = NoConn]
      /\ UNCHANGED <<conn_bitmap, sockfd>>
  BY DEF FreeMap
<1>2. sockfd[c] \in Fds /\ mu = c /\ conn_bitmap[sockfd[c]] = 0
  BY <1>1 DEF IInv, HasFd, ClearingHoldsMutex
<1>3. \A d \in Conns : pc[d] \in Holding => sockfd[d] # sockfd[c]
  <2>1. ~ (conn_bitmap[sockfd[c]] = 1)
    BY <1>2
  <2>2. ~ \E d \in Conns : pc[d] \in Holding /\ sockfd[d] = sockfd[c]
    BY <1>2, <2>1, Zenon DEF IInv, BitMeansOwned
  <2> QED
    BY <2>2
<1>4. TableTypeOK' /\ HasFd' /\ OneOwner'
  BY <1>1, <1>2 DEF IInv, TableTypeOK, HasFd, OneOwner, Holding, Phase
<1>5. BitMeansOwned'
  BY <1>1 DEF IInv, TableTypeOK, BitMeansOwned, Holding
<1>6. OpenIsMapped'
  <2> SUFFICES ASSUME NEW d \in Conns, pc'[d] = "open"
               PROVE  conn_fd_map'[sockfd[d]] = d
    BY <1>1 DEF OpenIsMapped
  <2>1. pc[d] = "open"
    BY <1>1 DEF IInv, TableTypeOK
  <2>2. sockfd[d] \in Fds /\ sockfd[d] # sockfd[c]
    BY <1>3, <2>1 DEF IInv, HasFd, Holding
  <2>3. conn_fd_map[sockfd[d]] = d
    BY <2>1 DEF IInv, OpenIsMapped
  <2> QED
    BY <1>1, <2>2, <2>3 DEF IInv, TableTypeOK
<1>7. MapNamesOwner'
  BY <1>1, <1>2 DEF IInv, TableTypeOK, MapNamesOwner
<1>8. ClearingHoldsMutex'
  BY <1>1, <1>2 DEF IInv, TableTypeOK, ClearingHoldsMutex
<1> QED
  BY <1>4, <1>5, <1>6, <1>7, <1>8 DEF IInv

LEMMA FreeContextIInv ==
  ASSUME IInv, NEW c \in Conns, FreeContext(c)
  PROVE  IInv'
<1> USE FdsAreNaturals
<1>1. /\ pc[c] = "closed" /\ pc' = [pc EXCEPT ![c] = "unused"]
      /\ sockfd' = [sockfd EXCEPT ![c] = NoFd]
      /\ UNCHANGED <<conn_bitmap, conn_fd_map, mu>>
  BY DEF FreeContext
<1>2. TableTypeOK' /\ HasFd' /\ OneOwner'
  BY <1>1 DEF IInv, TableTypeOK, HasFd, OneOwner, Holding, Phase
<1>3. BitMeansOwned'
  BY <1>1 DEF IInv, TableTypeOK, BitMeansOwned, Holding
<1>4. OpenIsMapped' /\ MapNamesOwner'
  BY <1>1 DEF IInv, TableTypeOK, OpenIsMapped, MapNamesOwner
<1>5. ClearingHoldsMutex'
  BY <1>1 DEF IInv, TableTypeOK, ClearingHoldsMutex
<1> QED
  BY <1>2, <1>3, <1>4, <1>5 DEF IInv

\* Readers change nothing the invariant is about.
LEMMA ReaderIInv ==
  ASSUME IInv, NEW r \in Readers, Reader(r)
  PROVE  UNCHANGED ownerVars
BY DEF Reader, StartLookup, StartSearch, StartQuery, Scan, CheckRange, CheckBit,
       FetchContext, ReadMapAgain, UseContext, Return, Move

LEMMA UnchangedIInv ==
  ASSUME IInv, UNCHANGED ownerVars
  PROVE  IInv'
BY DEF IInv, TableTypeOK, HasFd, OneOwner, BitMeansOwned, OpenIsMapped,
       MapNamesOwner, ClearingHoldsMutex, ownerVars

LEMMA NextIInv == IInv /\ [Next]_vars => IInv'
<1> SUFFICES ASSUME IInv, [Next]_vars PROVE IInv'
  OBVIOUS
<1>1. CASE \E c \in Conns : Owner(c)
  BY <1>1, GetSockfdIInv, SetBitIInv, SetMapIInv, BuildQpIInv, FreeBitIInv,
     FreeMapIInv, FreeContextIInv DEF Owner
<1>2. CASE \E r \in Readers : Reader(r)
  BY <1>2, ReaderIInv, UnchangedIInv
<1>3. CASE UNCHANGED vars
  BY <1>3, UnchangedIInv DEF vars
<1> QED
  BY <1>1, <1>2, <1>3 DEF Next

THEOREM IInvHolds == Spec => []IInv
BY InitIInv, NextIInv, PTL DEF Spec

\* The map never names a connection that does not own the entry, whatever
\* registers, is destroyed and is looked up at the same time.
THEOREM MapNamesOwnerHolds == Spec => []MapNamesOwner
<1>1. IInv => MapNamesOwner
  BY DEF IInv
<1> QED
  BY <1>1, IInvHolds, PTL
-----------------------------------------------------------------------------
(***************************************************************************)
(* The table implements the allocator.                                     *)
(***************************************************************************)
\* The descriptor each connection owns, as the allocator sees it.
fdBar == [c \in Conns |-> IF pc[c] \in Holding THEN sockfd[c] ELSE NoFd]

LEMMA OwnedDescriptors ==
  ASSUME IInv, NEW i \in Fds
  PROVE  i \in Allocator!Owned <=> conn_bitmap[i] = 1
<1>1. i \in Allocator!Owned <=> \E c \in Conns : fdBar[c] = i
  BY FdsAreNaturals DEF Allocator!Owned, Allocator!NoFd, fdBar, NoFd, NoSlot
<1>2. \A c \in Conns : fdBar[c] = i <=> pc[c] \in Holding /\ sockfd[c] = i
  BY FdsAreNaturals DEF fdBar
<1> QED
  BY <1>1, <1>2 DEF IInv, BitMeansOwned

\* get_sockfd gives the connection the lowest descriptor nobody owns.
LEMMA GetSockfdOpens ==
  ASSUME IInv, NEW c \in Conns, GetSockfd(c)
  PROVE  Allocator!Open(c) \/ fdBar' = fdBar
<1> DEFINE i == find_first_empty_bit(conn_bitmap)
<1>1. CASE i = NoSlot
  BY <1>1 DEF GetSockfd, ownerVars, fdBar
<1>2. CASE i # NoSlot
  <2>1. /\ i \in Fds /\ conn_bitmap[i] = 0
        /\ \A j \in 0 .. i - 1 : conn_bitmap[j] = 1
    BY <1>2, FirstEmptyBit, TableAssumption DEF IInv, TableTypeOK, Fds
  <2>2. /\ pc[c] = "unused"
        /\ sockfd' = [sockfd EXCEPT ![c] = i]
        /\ pc' = [pc EXCEPT ![c] = "claimed"]
    BY <1>2 DEF GetSockfd
  <2> HIDE DEF i
  <2>3. i \in Allocator!Fds \ Allocator!Owned
    BY <2>1, OwnedDescriptors DEF Fds, Allocator!Fds
  <2>4. 0 .. i - 1 \subseteq Allocator!Owned
    <3>1. \A j \in 0 .. i - 1 : j \in Fds
      BY <2>1, TableAssumption DEF Fds
    <3> QED
      BY <2>1, <3>1, OwnedDescriptors
  <2>5. fdBar[c] = NoFd
    BY <2>2 DEF fdBar, Holding
  <2>6. fdBar' = [fdBar EXCEPT ![c] = i]
    BY <2>2 DEF fdBar, Holding, IInv, TableTypeOK
  <2> QED
    BY <2>3, <2>4, <2>5, <2>6
       DEF Allocator!Open, Allocator!NoFd, fdBar, NoFd, NoSlot
<1> QED
  BY <1>1, <1>2

\* The first write of free_sockfd gives the descriptor back.
LEMMA FreeBitCloses ==
  ASSUME IInv, NEW c \in Conns, FreeBit(c)
  PROVE  Allocator!Close(c)
<1>1. /\ pc[c] = "open" /\ pc' = [pc EXCEPT ![c] = "clearing"]
      /\ sockfd' = sockfd
  BY DEF FreeBit
<1>2. fdBar[c] # NoFd
  BY <1>1, FdsAreNaturals DEF fdBar, Holding, IInv, HasFd
<1>3. fdBar' = [fdBar EXCEPT ![c] = NoFd]
  BY <1>1 DEF fdBar, Holding, IInv, TableTypeOK
<1> QED
  BY <1>2, <1>3 DEF Allocator!Close, Allocator!NoFd, fdBar, NoFd, NoSlot

LEMMA OtherOwnerStepsStutter ==
  ASSUME IInv, NEW c \in Conns,
         SetBit(c) \/ SetMap(c) \/ BuildQp(c) \/ FreeMap(c) \/ FreeContext(c)
  PROVE  fdBar' = fdBar
BY DEF SetBit, SetMap, BuildQp, FreeMap, FreeContext, fdBar, Holding, IInv, TableTypeOK

\* Every behaviour of the table is one of the allocator: descriptors are
\* exclusive, given out lowest first, and returned only by their owner.
THEOREM TableImplementsAllocator == Spec => AllocatorSpec
<1>1. Init => Allocator!Init
  BY DEF Init, Allocator!Init, Allocator!NoFd, Holding, NoFd, NoSlot
<1>2. IInv /\ [Next]_vars => [Allocator!Next]_fdBar
  <2> SUFFICES ASSUME IInv, [Next]_vars, fdBar' # fdBar
               PROVE  Allocator!Next
    OBVIOUS
  <2>1. CASE \E c \in Conns : Owner(c)
    <3>1. PICK c \in Conns : Owner(c)
      BY <2>1
    <3>2. Allocator!Open(c) \/ Allocator!Close(c)
      BY <3>1, GetSockfdOpens, FreeBitCloses, OtherOwnerStepsStutter DEF Owner
    <3> QED
      BY <3>2 DEF Allocator!Next
  <2>2. CASE \E r \in Readers : Reader(r)
    BY <2>2, ReaderIInv DEF ownerVars, fdBar
  <2>3. CASE UNCHANGED vars
    BY <2>3 DEF vars, ownerVars, fdBar
  <2> QED
    BY <2>1, <2>2, <2>3 DEF Next
<1> QED
  BY <1>1, <1>2, IInvHolds, PTL DEF Spec, AllocatorSpec, Allocator!Spec, fdBar

\* Hence no two connections own the same descriptor.
THEOREM DescriptorsExclusive == Spec => []Allocator!Exclusive
<1>1. IInv => Allocator!Exclusive
  BY FdsAreNaturals
     DEF IInv, OneOwner, Allocator!Exclusive, Allocator!NoFd, NoFd, NoSlot
<1> QED
  BY <1>1, IInvHolds, PTL

-----------------------------------------------------------------------------
(***************************************************************************)
(* What the readers of the connection table find while connections are     *)
(* registered and removed around them, for every number of slots,          *)
(* connections and readers.                                                *)
(*                                                                         *)
(* RInv adds to the owners' invariant where each call is and what it has   *)
(* found so far.  SearchFindsOpen is about the end of a search only; that  *)
(* it holds there rests on every bit the search has passed, so RInv counts *)
(* the connections below the slot it has reached.                          *)
(***************************************************************************)

-----------------------------------------------------------------------------
(***************************************************************************)
(* The inductive invariant of a reader.                                    *)
(***************************************************************************)
\* Nothing is being registered or removed.
Quiet == ~ ChangeUnderWay

\* The connections to be found that a search has passed.
Passed(s) == {c \in s.must : sockfd[c] < s.at}

\* Where a call of each kind can be, and which slots it looks at.
InRange(s) ==
  /\ s.pc = "idle" => s = IdleReader
  /\ s.op \in {"lookup", "ip", "qpn"} => s.pc # "scan"
  /\ s.op \in {"fds", "contexts", "count"} =>
       s.pc \in {"scan", "call", "check", "fetch", "done"} /\ s.at \in 0 .. MaxConnections
  /\ s.op = "count" => s.pc \in {"scan", "done"}
  /\ s.pc \in {"reread", "use"} => s.op \in {"ip", "qpn"}
  /\ s.pc = "call" => s.at \in LookupFds \cup Fds
  /\ s.pc \in {"fetch", "reread", "use"} => s.at \in Fds
  /\ s.pc \in {"call", "check"} /\ s.op \in {"fds", "contexts"} => s.at \in Fds

\* A lookup or a query is about the slot of the connections it has to find.
Points(s) ==
  s.op \in {"lookup", "ip", "qpn"} =>
    /\ s.must \subseteq {c \in Open : sockfd[c] = s.at}
    /\ s.pc \in {"reread", "use", "done"} => s.must \subseteq s.got

\* A search by descriptors has every connection it has passed.
ListsFds(s) ==
  s.op = "fds" =>
    /\ s.must \subseteq Open
    /\ Passed(s) \subseteq s.got
    /\ s.pc = "done" => s.must \subseteq s.got

\* A search by contexts has too, unless the table changed.
ListsContexts(s) ==
  s.op = "contexts" =>
    \/ s.torn
    \/ /\ Quiet /\ s.must = Open
       /\ s.got = {c \in Open : sockfd[c] < s.at}
       /\ s.pc = "done" => s.must = s.got
       /\ s.pc \in {"call", "check", "fetch"} => \E c \in Open : sockfd[c] = s.at

\* A count includes every connection it has passed.
Counts(s) ==
  s.op = "count" =>
    /\ s.must \subseteq Open
    /\ IsFiniteSet(Passed(s))
    /\ s.count >= Cardinality(Passed(s))
    /\ s.torn \/ (Quiet /\ s.must = Open /\ s.count = Cardinality(Passed(s)))
    /\ s.pc = "done" => Passed(s) = s.must

\* A query has the context of the connection it is about, and no other, and the
\* connection can answer it.
Keeps(s) ==
  s.op \in {"ip", "qpn"} =>
    \E c \in Conns :
      /\ s.must = {c} /\ CanAnswer(s.op, c)
      /\ s.pc \in {"call", "check", "fetch"} => s.got = {}
      /\ s.pc \in {"reread", "use"} => s.got = {c}

ReaderInv(s) ==
  InRange(s) /\ Points(s) /\ ListsFds(s) /\ ListsContexts(s) /\ Counts(s)

RInv ==
  /\ IInv
  /\ reader \in [Readers -> ReaderState]
  /\ id \in [Conns -> IdState]
  /\ \A r \in Readers : ReaderInv(reader[r]) /\ (KeepsOpen => Keeps(reader[r]))

-----------------------------------------------------------------------------
\* An open connection has its slot to itself, marked and in the map.
LEMMA OpenFacts ==
  ASSUME IInv, NEW c \in Open
  PROVE  /\ c \in Conns /\ c # NoConn /\ sockfd[c] \in Fds /\ sockfd[c] \in Nat
         /\ conn_bitmap[sockfd[c]] = 1 /\ conn_fd_map[sockfd[c]] = c
         /\ \A d \in Open : sockfd[d] = sockfd[c] => d = c
<1>1. c \in Conns /\ pc[c] = "open" /\ pc[c] \in Holding
  BY DEF Open, Holding
<1>2. sockfd[c] \in Fds /\ conn_fd_map[sockfd[c]] = c
  BY <1>1 DEF IInv, HasFd, OpenIsMapped
<1>3. conn_bitmap[sockfd[c]] = 1
  BY <1>1, <1>2 DEF IInv, BitMeansOwned
<1>4. \A d \in Open : sockfd[d] = sockfd[c] => d = c
  BY <1>1 DEF IInv, OneOwner, Open, Holding
<1> QED
  BY <1>1, <1>2, <1>3, <1>4, FdsAreNaturals

\* In a table at rest a marked slot has an open connection.
LEMMA MarkedIsOpen ==
  ASSUME IInv, Quiet, NEW i \in Fds, conn_bitmap[i] # 0
  PROVE  \E c \in Open : sockfd[c] = i /\ conn_fd_map[i] = c
<1>1. conn_bitmap[i] = 1
  BY DEF IInv, TableTypeOK
<1>2. PICK c \in Conns : pc[c] \in Holding /\ sockfd[c] = i
  BY <1>1 DEF IInv, BitMeansOwned
<1>3. c \in Open
  BY <1>2 DEF Quiet, ChangeUnderWay, Holding, Open
<1> QED
  BY <1>2, <1>3, OpenFacts

\* What one more slot adds to what a search has passed.
LEMMA PassSlot ==
  ASSUME IInv, NEW must \in SUBSET Open, NEW i \in Fds
  PROVE  /\ {c \in must : sockfd[c] < i + 1} =
              {c \in must : sockfd[c] < i} \cup {c \in must : sockfd[c] = i}
         /\ \A c \in must : sockfd[c] = i => {d \in must : sockfd[d] = i} = {c}
<1>1. \A c \in must : sockfd[c] \in Nat /\ \A d \in must : sockfd[d] = sockfd[c] => d = c
  BY OpenFacts
<1>2. i \in Nat
  BY FdsAreNaturals
<1> QED
  BY <1>1, <1>2

\* Past the last slot everything has been passed.
LEMMA PassedAll ==
  ASSUME IInv, NEW must \in SUBSET Open, NEW i \in 0 .. MaxConnections, i \notin Fds
  PROVE  {c \in must : sockfd[c] < i} = must
<1>1. i = MaxConnections /\ MaxConnections \in Nat
  BY TableAssumption DEF Fds
<1>2. \A c \in must : sockfd[c] \in Fds
  BY OpenFacts
<1> QED
  BY <1>1, <1>2, TableAssumption DEF Fds

-----------------------------------------------------------------------------
(***************************************************************************)
(* The owners' steps, as a reader sees them.                               *)
(***************************************************************************)
\* The step leaves the call where it is and may close connections it has to
\* find; unless it notes that the table changes, the table was changing already
\* or the connections that are open stay the same.
Disturbs(r) ==
  LET s == reader[r]
      t == reader'[r]
  IN /\ t \in ReaderState
     /\ t.pc = s.pc /\ t.op = s.op /\ t.at = s.at /\ t.got = s.got /\ t.count = s.count
     /\ t.must \subseteq s.must
     /\ s.must \subseteq Open => /\ t.must \subseteq Open'
                               /\ \A d \in t.must : sockfd'[d] = sockfd[d]
     /\ s.pc = "idle" => t = s
     /\ s.pc # "idle" =>
          \/ t.torn
          \/ t = s /\ ~ Quiet
          \/ t = s /\ Quiet' /\ Open' = Open /\ \A d \in Open : sockfd'[d] = sockfd[d]

\* What an owner's note does to a reader.
LEMMA NotedState ==
  ASSUME NEW x \in ReaderState, NEW gone, NEW b \in BOOLEAN
  PROVE  LET y == [x EXCEPT !.must = x.must \ gone, !.torn = b]
         IN /\ y \in ReaderState
            /\ y.pc = x.pc /\ y.op = x.op /\ y.at = x.at /\ y.got = x.got
            /\ y.count = x.count /\ y.must = x.must \ gone /\ y.torn = b
BY DEF ReaderState

LEMMA OverlappedState ==
  ASSUME reader \in [Readers -> ReaderState], NEW r \in Readers, NEW gone,
         reader' = Overlapped(gone)
  PROVE  /\ reader' \in [Readers -> ReaderState]
         /\ reader'[r].pc = reader[r].pc /\ reader'[r].op = reader[r].op
         /\ reader'[r].at = reader[r].at /\ reader'[r].got = reader[r].got
         /\ reader'[r].count = reader[r].count
         /\ reader'[r].must = reader[r].must \ gone
         /\ reader'[r].torn = (reader[r].pc # "idle")
         /\ reader[r] = IdleReader => reader'[r] = IdleReader
<1> DEFINE s == reader[r]
           t == reader'[r]
           Torn(q) == reader[q].pc # "idle"
           Noted(q) == [reader[q] EXCEPT !.must = reader[q].must \ gone, !.torn = Torn(q)]
<1>1. reader' = [q \in Readers |-> Noted(q)]
  BY DEF Overlapped
<1>2. \A q \in Readers : reader[q] \in ReaderState /\ Torn(q) \in BOOLEAN
  OBVIOUS
<1> HIDE DEF Torn
<1>3. \A q \in Readers : Noted(q) \in ReaderState
  BY <1>2, NotedState
<1>4. /\ Noted(r).pc = s.pc /\ Noted(r).op = s.op /\ Noted(r).at = s.at
      /\ Noted(r).got = s.got /\ Noted(r).count = s.count
      /\ Noted(r).must = s.must \ gone /\ Noted(r).torn = Torn(r)
  <2>1. s \in ReaderState /\ Torn(r) \in BOOLEAN
    BY <1>2
  <2>2. /\ Noted(r).pc = s.pc /\ Noted(r).op = s.op /\ Noted(r).at = s.at
        /\ Noted(r).got = s.got /\ Noted(r).count = s.count
        /\ Noted(r).must = s.must \ gone
    BY <2>1 DEF ReaderState
  <2>3. Noted(r).torn = Torn(r)
    BY <2>1 DEF ReaderState
  <2> QED
    BY <2>2, <2>3
<1> HIDE DEF Noted
<1>5. reader' \in [Readers -> ReaderState] /\ t = Noted(r) /\ t \in ReaderState
  BY <1>1, <1>3
<1>6. Torn(r) = (s.pc # "idle")
  BY DEF Torn
<1>7. /\ t.pc = s.pc /\ t.op = s.op /\ t.at = s.at /\ t.got = s.got
      /\ t.count = s.count /\ t.must = s.must \ gone /\ t.torn = (s.pc # "idle")
  BY <1>4, <1>5, <1>6, Zenon
<1>8. s = IdleReader => t = IdleReader
  <2> SUFFICES ASSUME s = IdleReader PROVE t = IdleReader
    OBVIOUS
  <2>1. /\ t.pc = "idle" /\ t.op = "lookup" /\ t.at = 0 /\ t.got = {}
        /\ t.count = 0 /\ t.must = {}
    BY <1>7 DEF IdleReader
  <2>2. t.torn = FALSE
    <3>1. s.pc = "idle"
      BY DEF IdleReader
    <3> QED
      BY <1>7, <3>1, Zenon
  <2>3. t = [pc |-> t.pc, op |-> t.op, at |-> t.at, got |-> t.got, count |-> t.count,
             must |-> t.must, torn |-> t.torn]
    BY <1>5 DEF ReaderState
  <2> QED
    BY <2>1, <2>2, <2>3, Zenon DEF IdleReader
<1> QED
  BY <1>5, <1>7, <1>8, Zenon

LEMMA OwnerDisturbs ==
  ASSUME RInv, NEW c \in Conns, Owner(c), NEW r \in Readers
  PROVE  /\ reader' \in [Readers -> ReaderState]
         /\ Disturbs(r)
<1> DEFINE s == reader[r]
<1>1. /\ reader \in [Readers -> ReaderState] /\ s \in ReaderState
      /\ s.pc = "idle" => s = IdleReader
      /\ TableTypeOK
  BY DEF RInv, ReaderInv, InRange, IInv
<1>2. CASE GetSockfd(c)
  <2>1. CASE find_first_empty_bit(conn_bitmap) = NoSlot
    <3>1. UNCHANGED <<ownerVars, reader>>
      BY <1>2, <2>1 DEF GetSockfd
    <3> QED
      BY <1>1, <3>1 DEF Disturbs, Quiet, ChangeUnderWay, Open, ownerVars
  <2>2. CASE find_first_empty_bit(conn_bitmap) # NoSlot
    <3>1. /\ reader' = Overlapped({}) /\ pc[c] = "unused"
          /\ pc' = [pc EXCEPT ![c] = "claimed"]
          /\ \A d \in Conns : d # c => sockfd'[d] = sockfd[d]
      BY <1>1, <1>2, <2>2 DEF GetSockfd, TableTypeOK
    <3>2. Open' = Open /\ c \notin Open
      BY <1>1, <3>1 DEF Open, TableTypeOK
    <3>3. /\ reader' \in [Readers -> ReaderState]
          /\ reader'[r].pc = s.pc /\ reader'[r].op = s.op /\ reader'[r].at = s.at
          /\ reader'[r].got = s.got /\ reader'[r].count = s.count
          /\ reader'[r].must = s.must \ {}
          /\ s.pc # "idle" => reader'[r].torn
          /\ s = IdleReader => reader'[r] = s
      BY <1>1, <3>1, OverlappedState
    <3>4. \A d \in Open : sockfd'[d] = sockfd[d]
      BY <3>1, <3>2 DEF Open
    <3> QED
      BY <1>1, <3>2, <3>3, <3>4 DEF Disturbs
  <2> QED
    BY <2>1, <2>2
<1>3. CASE FreeBit(c)
  <2>1. /\ reader' = Overlapped({c}) /\ pc' = [pc EXCEPT ![c] = "clearing"]
        /\ sockfd' = sockfd
    BY <1>3 DEF FreeBit
  <2>2. Open' = Open \ {c}
    BY <1>1, <2>1 DEF Open, TableTypeOK
  <2>3. /\ reader' \in [Readers -> ReaderState]
        /\ reader'[r].pc = s.pc /\ reader'[r].op = s.op /\ reader'[r].at = s.at
        /\ reader'[r].got = s.got /\ reader'[r].count = s.count
        /\ reader'[r].must = s.must \ {c}
        /\ s.pc # "idle" => reader'[r].torn
        /\ s = IdleReader => reader'[r] = s
    BY <1>1, <2>1, OverlappedState
  <2> QED
    BY <1>1, <2>1, <2>2, <2>3 DEF Disturbs
<1>6. CASE BuildQp(c)
  <2>1. UNCHANGED <<reader, pc, sockfd>>
    BY <1>6 DEF BuildQp
  <2> QED
    BY <1>1, <2>1 DEF Disturbs, Quiet, ChangeUnderWay, Open
<1>4. CASE SetBit(c) \/ SetMap(c) \/ FreeMap(c)
  <2>1. reader' = reader /\ sockfd' = sockfd /\ ~ Quiet
    BY <1>4 DEF SetBit, SetMap, FreeMap, Quiet, ChangeUnderWay
  <2>2. Open \subseteq Open'
    BY <1>1, <1>4 DEF SetBit, SetMap, FreeMap, Open, TableTypeOK
  <2> QED
    BY <1>1, <2>1, <2>2 DEF Disturbs
<1>5. CASE FreeContext(c)
  <2>1. /\ reader' = reader /\ pc[c] = "closed" /\ pc' = [pc EXCEPT ![c] = "unused"]
        /\ sockfd' = [sockfd EXCEPT ![c] = NoFd]
    BY <1>5 DEF FreeContext
  <2>2. Open' = Open /\ c \notin Open
    BY <1>1, <2>1 DEF Open, TableTypeOK
  <2>3. \A d \in Open : sockfd'[d] = sockfd[d]
    BY <1>1, <2>1, <2>2 DEF Open, TableTypeOK
  <2>4. Quiet => Quiet'
    BY <1>1, <2>1 DEF Quiet, ChangeUnderWay, TableTypeOK
  <2> QED
    BY <1>1, <2>1, <2>2, <2>3, <2>4 DEF Disturbs
<1> QED
  BY <1>2, <1>3, <1>4, <1>5, <1>6 DEF Owner

\* What a reader knows survives.
LEMMA DisturbedReader ==
  ASSUME RInv, NEW r \in Readers, Disturbs(r)
  PROVE  ReaderInv(reader[r])'
<1> DEFINE s == reader[r]
           t == reader'[r]
<1>1. ReaderInv(reader[r]) /\ s \in ReaderState /\ t \in ReaderState
  BY DEF RInv, Disturbs
<1>2. /\ t.pc = s.pc /\ t.op = s.op /\ t.at = s.at /\ t.got = s.got /\ t.count = s.count
      /\ t.must \subseteq s.must
      /\ s.pc = "idle" => t = s
  BY DEF Disturbs
<1>3. s.must \subseteq Open => /\ t.must \subseteq Open'
                            /\ \A d \in t.must : sockfd'[d] = sockfd[d]
  BY DEF Disturbs
<1>4. s.pc # "idle" =>
        \/ t.torn
        \/ t = s /\ ~ Quiet
        \/ t = s /\ Quiet' /\ Open' = Open /\ \A d \in Open : sockfd'[d] = sockfd[d]
  BY DEF Disturbs
<1>5. s.must \subseteq Open => Passed(reader[r])' = {d \in t.must : sockfd[d] < s.at}
  BY <1>2, <1>3 DEF Passed
<1>6. InRange(reader[r])'
  BY <1>1, <1>2 DEF ReaderInv, InRange
<1>7. Points(reader[r])'
  BY <1>1, <1>2, <1>3 DEF ReaderInv, Points
<1>8. ListsFds(reader[r])'
  BY <1>1, <1>2, <1>3, <1>5 DEF ReaderInv, ListsFds, Passed
<1>9. ListsContexts(reader[r])'
  BY <1>1, <1>2, <1>4 DEF ReaderInv, ListsContexts, InRange, IdleReader
<1>10. Counts(reader[r])'
  <2> SUFFICES ASSUME s.op = "count" PROVE Counts(reader[r])'
    BY <1>2 DEF Counts
  <2>1. /\ s.must \subseteq Open /\ IsFiniteSet(Passed(reader[r]))
        /\ s.count >= Cardinality(Passed(reader[r])) /\ s.count \in Nat
        /\ s.torn \/ (Quiet /\ s.must = Open /\ s.count = Cardinality(Passed(reader[r])))
        /\ s.pc = "done" => Passed(reader[r]) = s.must
    BY <1>1 DEF ReaderInv, Counts, ReaderState
  <2>2. Passed(reader[r])' \subseteq Passed(reader[r])
    BY <1>2, <1>5, <2>1 DEF Passed
  <2>3. /\ IsFiniteSet(Passed(reader[r])') /\ Cardinality(Passed(reader[r])') <= Cardinality(Passed(reader[r]))
        /\ Cardinality(Passed(reader[r])) \in Nat /\ Cardinality(Passed(reader[r])') \in Nat
    BY <2>1, <2>2, FS_Subset, FS_CardinalityType
  <2>4. t.count >= Cardinality(Passed(reader[r])')
    BY <1>2, <2>1, <2>3
  <2>5. t.pc = "done" => Passed(reader[r])' = t.must
    BY <1>2, <1>5, <2>1 DEF Passed
  <2>6. t.torn \/ (Quiet' /\ t.must = Open' /\ t.count = Cardinality(Passed(reader[r])'))
    <3>1. CASE t.torn
      BY <3>1
    <3>2. CASE ~ t.torn
      <4>1. s.pc # "idle"
        BY <1>1 DEF ReaderInv, InRange, IdleReader
      <4>2. t = s /\ ~ s.torn /\ Quiet' /\ Open' = Open
        BY <1>4, <2>1, <3>2, <4>1
      <4>3. Passed(reader[r])' = Passed(reader[r])
        BY <1>5, <2>1, <4>2 DEF Passed
      <4> QED
        BY <2>1, <4>2, <4>3
    <3> QED
      BY <3>1, <3>2
  <2> QED
    BY <1>3, <2>1, <2>3, <2>4, <2>5, <2>6 DEF Counts
<1> QED
  BY <1>6, <1>7, <1>8, <1>9, <1>10 DEF ReaderInv

\* No owner closes a connection a query is about.
LEMMA OwnerKeeps ==
  ASSUME RInv, KeepsOpen, NEW c \in Conns, Owner(c), NEW r \in Readers, Disturbs(r)
  PROVE  Keeps(reader[r])'
<1> DEFINE s == reader[r]
           t == reader'[r]
<1>1. Keeps(reader[r]) /\ s \in ReaderState /\ reader \in [Readers -> ReaderState]
  BY DEF RInv
<1>2. t.pc = s.pc /\ t.op = s.op /\ t.got = s.got
  BY DEF Disturbs
<1>3. s.op \in {"ip", "qpn"} => t.must = s.must
  <2>1. CASE FreeBit(c)
    <3>1. reader' = Overlapped({c}) /\ (s.op \in {"ip", "qpn"} => c \notin s.must)
      BY <2>1 DEF FreeBit, Undisturbed
    <3>2. t.must = s.must \ {c}
      BY <1>1, <3>1, OverlappedState
    <3> QED
      BY <1>1, <3>1, <3>2 DEF ReaderState
  <2>2. CASE GetSockfd(c)
    <3>1. reader' = Overlapped({}) \/ reader' = reader
      BY <2>2 DEF GetSockfd
    <3>2. reader' = Overlapped({}) =>
            t.must = s.must \ {}
      BY <1>1, OverlappedState
    <3> QED
      BY <1>1, <3>1, <3>2 DEF ReaderState
  <2>3. CASE SetBit(c) \/ SetMap(c) \/ BuildQp(c) \/ FreeMap(c) \/ FreeContext(c)
    BY <2>3 DEF SetBit, SetMap, BuildQp, FreeMap, FreeContext
  <2> QED
    BY <2>1, <2>2, <2>3 DEF Owner
<1>4. ASSUME NEW d \in Open
      PROVE  id'[d] = id[d] \/ (id[d] = "peer" /\ id'[d] = "qp")
  <2>1. d \in Conns /\ pc[d] = "open" /\ id \in [Conns -> IdState]
    BY DEF RInv, Open
  <2>2. CASE SetBit(c)
    BY <2>1, <2>2 DEF SetBit
  <2>3. CASE BuildQp(c)
    BY <2>1, <2>3 DEF BuildQp
  <2>4. CASE FreeContext(c)
    BY <2>1, <2>4 DEF FreeContext
  <2>5. CASE GetSockfd(c) \/ SetMap(c) \/ FreeBit(c) \/ FreeMap(c)
    BY <2>5 DEF GetSockfd, SetMap, FreeBit, FreeMap, ownerVars
  <2> QED
    BY <2>2, <2>3, <2>4, <2>5 DEF Owner
<1>5. \A d \in Open : CanAnswer(s.op, d) => CanAnswer(s.op, d)'
  BY <1>2, <1>4 DEF CanAnswer
<1>6. s.op \in {"ip", "qpn"} => s.must \subseteq Open
  BY DEF RInv, ReaderInv, Points
<1> QED
  BY <1>1, <1>2, <1>3, <1>5, <1>6 DEF Keeps
-----------------------------------------------------------------------------
(***************************************************************************)
(* The readers' steps.                                                     *)
(***************************************************************************)
\* A reader's step moves one reader and nothing else.
LEMMA MoveRInv ==
  ASSUME RInv, NEW r \in Readers, NEW state \in ReaderState, Move(r, state),
         ReaderInv(state), KeepsOpen => Keeps(state)
  PROVE  RInv'
<1>1. /\ reader' = [reader EXCEPT ![r] = state]
      /\ UNCHANGED ownerVars
  BY DEF Move
<1>2. UNCHANGED <<conn_bitmap, conn_fd_map, mu, pc, sockfd, id>>
  BY <1>1 DEF ownerVars
<1>3. IInv'
  BY <1>2 DEF RInv, IInv, TableTypeOK, HasFd, OneOwner, BitMeansOwned, OpenIsMapped,
              MapNamesOwner, ClearingHoldsMutex
<1>4. reader' \in [Readers -> ReaderState]
  BY <1>1 DEF RInv
<1>5. \A s : (ReaderInv(s) <=> ReaderInv(s)') /\ (Keeps(s) <=> Keeps(s)')
  BY <1>2 DEF ReaderInv, InRange, Points, ListsFds, ListsContexts, Counts, Keeps, Passed,
              Quiet, ChangeUnderWay, Open, CanAnswer
<1> QED
  BY <1>1, <1>2, <1>3, <1>4, <1>5 DEF RInv

\* A call that begins has passed nothing.
LEMMA StartRInv ==
  ASSUME RInv, NEW r \in Readers, Reader(r), reader[r].pc = "idle"
  PROVE  RInv'
<1>1. CASE \E fd \in LookupFds : StartLookup(r, fd)
  <2>1. PICK fd \in LookupFds : StartLookup(r, fd)
    BY <1>1
  <2> DEFINE t == [IdleReader EXCEPT !.pc = "call", !.at = fd,
                                     !.must = {c \in Open : sockfd[c] = fd},
                                     !.torn = ChangeUnderWay]
  <2>2. Move(r, t)
    BY <2>1 DEF StartLookup
  <2>3. t \in ReaderState
    BY TableAssumption DEF ReaderState, IdleReader, Open, ChangeUnderWay
  <2>4. ReaderInv(t) /\ Keeps(t)
    BY DEF ReaderInv, InRange, Points, ListsFds, ListsContexts, Counts, Keeps, IdleReader
  <2> QED
    BY <2>2, <2>3, <2>4, MoveRInv
<1>2. CASE \E op \in Searches : StartSearch(r, op)
  <2>1. PICK op \in Searches : StartSearch(r, op)
    BY <1>2
  <2> DEFINE t == [IdleReader EXCEPT !.pc = "scan", !.op = op, !.must = Open,
                                     !.torn = ChangeUnderWay]
  <2>2. Move(r, t)
    BY <2>1 DEF StartSearch
  <2>3. /\ op \in {"fds", "contexts", "count"} /\ Open \in SUBSET Conns
        /\ ChangeUnderWay \in BOOLEAN
    BY TableAssumption DEF Open, ChangeUnderWay
  <2>4. /\ t \in ReaderState
        /\ t.pc = "scan" /\ t.op = op /\ t.at = 0 /\ t.got = {} /\ t.count = 0
        /\ t.must = Open /\ t.torn = ChangeUnderWay
    <3>1. /\ IdleReader \in ReaderState
          /\ IdleReader.at = 0 /\ IdleReader.got = {} /\ IdleReader.count = 0
      BY DEF ReaderState, IdleReader
    <3>2. t \in ReaderState
      BY <2>3, <3>1 DEF ReaderState
    <3>3. /\ t.pc = "scan" /\ t.op = op /\ t.at = 0 /\ t.got = {} /\ t.count = 0
          /\ t.must = Open
      BY <3>1 DEF ReaderState
    <3>4. t.torn = ChangeUnderWay
      BY <3>1 DEF ReaderState
    <3> QED
      BY <3>2, <3>3, <3>4
  <2>5. \A c \in Open : ~ (sockfd[c] < 0)
    BY OpenFacts DEF RInv
  <2>6. Passed(t) = {} /\ IsFiniteSet(Passed(t)) /\ Cardinality(Passed(t)) = 0
    BY <2>4, <2>5, FS_EmptySet DEF Passed
  <2>7. t.torn \/ Quiet
    BY <2>4 DEF Quiet
  <2> HIDE DEF t
  <2>8. ListsContexts(t) /\ Counts(t)
    BY <2>4, <2>5, <2>6, <2>7 DEF ListsContexts, Counts
  <2>9. ReaderInv(t) /\ Keeps(t)
    BY <2>3, <2>4, <2>6, <2>8, TableAssumption
       DEF ReaderInv, InRange, Points, ListsFds, Keeps
  <2> QED
    BY <2>2, <2>4, <2>9, MoveRInv DEF t
<1>3. CASE \E op \in Queries, fd \in LookupFds : StartQuery(r, op, fd)
  <2>1. PICK op \in Queries, fd \in LookupFds : StartQuery(r, op, fd)
    BY <1>3
  <2> DEFINE asked == {c \in Open : sockfd[c] = fd}
             t == [IdleReader EXCEPT !.pc = "call", !.op = op, !.at = fd, !.must = asked,
                                     !.torn = ChangeUnderWay]
  <2>2. Move(r, t) /\ (KeepsOpen => \E c \in asked : CanAnswer(op, c))
    BY <2>1 DEF StartQuery
  <2>3. t \in ReaderState
    BY TableAssumption DEF ReaderState, IdleReader, Open, ChangeUnderWay
  <2>4. ReaderInv(t)
    BY TableAssumption
       DEF ReaderInv, InRange, Points, ListsFds, ListsContexts, Counts, IdleReader
  <2>5. KeepsOpen => Keeps(t)
    <3> SUFFICES ASSUME KeepsOpen PROVE Keeps(t)
      OBVIOUS
    <3>1. PICK c \in Open : sockfd[c] = fd /\ CanAnswer(op, c)
      BY <2>2
    <3>2. asked = {c} /\ c \in Conns
      BY <3>1, OpenFacts DEF RInv
    <3> QED
      BY <3>1, <3>2 DEF Keeps, IdleReader
  <2> QED
    BY <2>2, <2>3, <2>4, <2>5, MoveRInv
<1>4. CASE \/ Scan(r) \/ CheckRange(r) \/ CheckBit(r) \/ FetchContext(r)
          \/ ReadMapAgain(r) \/ UseContext(r) \/ Return(r)
  BY <1>4 DEF Scan, CheckRange, CheckBit, FetchContext, ReadMapAgain, UseContext, Return
<1> QED
  BY <1>1, <1>2, <1>3, <1>4 DEF Reader

\* What get_connection's answer makes of a call.
LEMMA AnswerFields ==
  ASSUME NEW s \in ReaderState, NEW c \in Conns \cup {NoConn}
  PROVE  LET t == Answer(s, c)
         IN /\ t \in ReaderState
            /\ t.op = s.op /\ t.must = s.must /\ t.torn = s.torn
            /\ t.got = s.got \cup ({c} \ {NoConn})
            /\ s.op = "fds" \/ (s.op = "contexts" /\ c # NoConn) =>
                 t.pc = "scan" /\ t.at = s.at + 1
            /\ s.op \in {"lookup", "ip", "qpn"} \/ (s.op = "contexts" /\ c = NoConn) =>
                 t.pc \in {"reread", "use", "done"} /\ t.at = s.at
            /\ t.pc \in {"reread", "use"} => s.op \in {"ip", "qpn"} /\ c # NoConn
<1> DEFINE found == [s EXCEPT !.got = s.got \cup ({c} \ {NoConn})]
           t == Answer(s, c)
<1>1. /\ found \in ReaderState
      /\ found.op = s.op /\ found.must = s.must /\ found.torn = s.torn
      /\ found.at = s.at /\ found.got = s.got \cup ({c} \ {NoConn})
  BY DEF ReaderState
<1>2. t = IF s.op = "fds" \/ (s.op = "contexts" /\ c # NoConn)
          THEN [found EXCEPT !.pc = "scan", !.at = found.at + 1]
          ELSE IF s.op = "ip" /\ c # NoConn THEN [found EXCEPT !.pc = "reread"]
          ELSE IF s.op = "qpn" /\ c # NoConn THEN [found EXCEPT !.pc = "use"]
          ELSE [found EXCEPT !.pc = "done"]
  BY DEF Answer
<1> HIDE DEF found, t
<1>3. CASE s.op = "fds" \/ (s.op = "contexts" /\ c # NoConn)
  <2>1. t = [found EXCEPT !.pc = "scan", !.at = found.at + 1]
    BY <1>2, <1>3
  <2>2. t.pc = "scan" /\ t.at = s.at + 1 /\ t \in ReaderState
    <3>1. found.at + 1 \in Int
      BY <1>1 DEF ReaderState
    <3>2. t \in ReaderState
      BY <1>1, <2>1, <3>1 DEF ReaderState
    <3>3. t.pc = "scan"
      BY <1>1, <2>1 DEF ReaderState
    <3>4. t.at = s.at + 1
      BY <1>1, <2>1 DEF ReaderState
    <3> QED
      BY <3>2, <3>3, <3>4
  <2>3. /\ t.op = s.op /\ t.must = s.must /\ t.torn = s.torn
        /\ t.got = s.got \cup ({c} \ {NoConn})
    BY <1>1, <2>1 DEF ReaderState
  <2> QED
    BY <1>3, <2>2, <2>3 DEF t
<1>4. CASE ~ (s.op = "fds" \/ (s.op = "contexts" /\ c # NoConn))
  <2>1. PICK p \in {"reread", "use", "done"} :
          /\ t = [found EXCEPT !.pc = p]
          /\ p \in {"reread", "use"} => s.op \in {"ip", "qpn"} /\ c # NoConn
    BY <1>2, <1>4
  <2>2. t.pc = p /\ t.at = s.at /\ t \in ReaderState
    BY <1>1, <2>1 DEF ReaderState
  <2>3. /\ t.op = s.op /\ t.must = s.must /\ t.torn = s.torn
        /\ t.got = s.got \cup ({c} \ {NoConn})
    BY <1>1, <2>1 DEF ReaderState
  <2> QED
    BY <1>4, <2>1, <2>2, <2>3 DEF t
<1> QED
  BY <1>3, <1>4

\* c is what the table has to say about the slot of a call.
Answers(s, c) ==
  /\ {d \in Open : sockfd[d] = s.at} \subseteq {c}
  /\ s.op = "contexts" => s.torn \/ (c \in Open /\ sockfd[c] = s.at)
  /\ c # NoConn => s.at \in Fds

\* The call goes on with what it knew.
LEMMA AnswerRInv ==
  ASSUME RInv, NEW r \in Readers, NEW c \in Conns \cup {NoConn},
         reader[r].pc \in {"call", "check", "fetch"},
         Answers(reader[r], c),
         Move(r, Answer(reader[r], c))
  PROVE  RInv'
<1> DEFINE s == reader[r]
           t == Answer(s, c)
<1>0. /\ {d \in Open : sockfd[d] = s.at} \subseteq {c}
      /\ s.op = "contexts" => s.torn \/ (c \in Open /\ sockfd[c] = s.at)
      /\ c # NoConn => s.at \in Fds
      /\ s.pc \in {"call", "check", "fetch"}
  BY DEF Answers
<1>1. s \in ReaderState /\ ReaderInv(s) /\ (KeepsOpen => Keeps(s)) /\ IInv
  BY DEF RInv
<1>2. /\ NoConn \notin Conns /\ NoConn \notin Open
      /\ s.op # "count" /\ (s.op \in {"fds", "contexts"} => s.at \in Fds)
  BY <1>1, TableAssumption DEF ReaderInv, InRange, Open
<1>3. CASE s.op = "fds"
  <2>1. /\ t \in ReaderState
        /\ t.pc = "scan" /\ t.op = "fds" /\ t.at = s.at + 1 /\ t.must = s.must
        /\ t.got = s.got \cup ({c} \ {NoConn})
    BY <1>1, <1>3, AnswerFields
  <2>2. s.at \in Fds /\ t.at \in 0 .. MaxConnections
    BY <1>2, <1>3, <2>1, TableAssumption DEF Fds
  <2>3. s.must \subseteq Open /\ Passed(s) \subseteq s.got
    BY <1>1, <1>3 DEF ReaderInv, ListsFds
  <2>4. Passed(t) \subseteq t.got
    <3>1. Passed(t) = Passed(s) \cup {d \in s.must : sockfd[d] = s.at}
      <4>1. IInv /\ s.at \in Fds /\ s.must \in SUBSET Open
        BY <1>1, <2>2, <2>3
      <4>2. {d \in s.must : sockfd[d] < s.at + 1} =
              {d \in s.must : sockfd[d] < s.at} \cup {d \in s.must : sockfd[d] = s.at}
        BY <4>1, PassSlot
      <4> QED
        BY <2>1, <4>2 DEF Passed
    <3>2. {d \in s.must : sockfd[d] = s.at} \subseteq {c} \ {NoConn}
      BY <1>0, <1>2, <2>3
    <3> QED
      BY <2>1, <2>3, <3>1, <3>2
  <2>5. ReaderInv(t) /\ Keeps(t)
    BY <2>1, <2>2, <2>3, <2>4
       DEF ReaderInv, InRange, Points, ListsFds, ListsContexts, Counts, Keeps
  <2> QED
    BY <2>1, <2>5, MoveRInv
<1>4. CASE s.op = "contexts" /\ c # NoConn
  <2>1. /\ t \in ReaderState
        /\ t.pc = "scan" /\ t.op = "contexts" /\ t.at = s.at + 1 /\ t.must = s.must
        /\ t.got = s.got \cup {c} /\ t.torn = s.torn
    BY <1>1, <1>4, AnswerFields
  <2>2. s.at \in Fds /\ t.at \in 0 .. MaxConnections
    BY <1>2, <1>4, <2>1, TableAssumption DEF Fds
  <2>3. ListsContexts(t)
    <3> SUFFICES ASSUME ~ s.torn PROVE ListsContexts(t)
      BY <2>1 DEF ListsContexts
    <3>1. /\ Quiet /\ s.must = Open /\ s.got = {d \in Open : sockfd[d] < s.at}
          /\ c \in Open /\ sockfd[c] = s.at
      BY <1>0, <1>1, <1>4 DEF ReaderInv, ListsContexts
    <3>2. t.got = {d \in Open : sockfd[d] < s.at + 1}
      <4>1. {d \in Open : sockfd[d] < s.at + 1} =
              {d \in Open : sockfd[d] < s.at} \cup {d \in Open : sockfd[d] = s.at}
        <5>1. IInv /\ s.at \in Fds /\ Open \in SUBSET Open
          BY <1>1, <2>2
        <5> QED
          BY <5>1, PassSlot
      <4>2. {d \in Open : sockfd[d] = s.at} = {c}
        BY <1>0, <3>1
      <4> QED
        BY <2>1, <3>1, <4>1, <4>2
    <3> QED
      BY <2>1, <3>1, <3>2 DEF ListsContexts
  <2>4. ReaderInv(t) /\ Keeps(t)
    BY <2>1, <2>2, <2>3 DEF ReaderInv, InRange, Points, ListsFds, Counts, Keeps
  <2> QED
    BY <2>1, <2>4, MoveRInv
<1>5. CASE s.op = "contexts" /\ c = NoConn
  <2>1. /\ t \in ReaderState
        /\ t.pc = "done" /\ t.op = "contexts" /\ t.at = s.at /\ t.torn = s.torn
    BY <1>1, <1>5, <1>2, AnswerFields
  <2>2. s.torn /\ s.at \in 0 .. MaxConnections
    BY <1>0, <1>1, <1>2, <1>5 DEF ReaderInv, InRange
  <2>3. ReaderInv(t) /\ Keeps(t)
    BY <2>1, <2>2
       DEF ReaderInv, InRange, Points, ListsFds, ListsContexts, Counts, Keeps
  <2> QED
    BY <2>1, <2>3, MoveRInv
<1>6. CASE s.op \in {"lookup", "ip", "qpn"}
  <2>1. /\ t \in ReaderState
        /\ t.op = s.op /\ t.at = s.at /\ t.must = s.must
        /\ t.got = s.got \cup ({c} \ {NoConn})
        /\ t.pc \in {"reread", "use", "done"}
        /\ t.pc \in {"reread", "use"} => s.op \in {"ip", "qpn"} /\ c # NoConn
    BY <1>1, <1>6, AnswerFields
  <2>2. s.must \subseteq {d \in Open : sockfd[d] = s.at}
    BY <1>1, <1>6 DEF ReaderInv, Points
  <2>3. s.must \subseteq {c} \ {NoConn}
    BY <1>0, <1>2, <2>2
  <2>4. Points(t)
    BY <2>1, <2>2, <2>3 DEF Points
  <2>5. t.pc \in {"reread", "use"} => s.at \in Fds
    <3> SUFFICES ASSUME t.pc \in {"reread", "use"} PROVE s.at \in Fds
      OBVIOUS
    <3> QED
      BY <1>0, <2>1
  <2>6. KeepsOpen => Keeps(t)
    BY <1>1, <1>6, <2>1, <2>3 DEF Keeps
  <2>7. ReaderInv(t)
    BY <1>6, <2>1, <2>4, <2>5
       DEF ReaderInv, InRange, ListsFds, ListsContexts, Counts
  <2> QED
    BY <2>1, <2>6, <2>7, MoveRInv
<1> QED
  BY <1>1, <1>2, <1>3, <1>4, <1>5, <1>6 DEF ReaderState

\* A search reads the next bit, or is over.
LEMMA ScanRInv ==
  ASSUME RInv, NEW r \in Readers, Scan(r)
  PROVE  RInv'
<1> DEFINE s == reader[r]
<1>1. /\ s \in ReaderState /\ ReaderInv(s) /\ IInv /\ s.pc = "scan"
      /\ s.op \in {"fds", "contexts", "count"} /\ s.at \in 0 .. MaxConnections
  BY DEF RInv, Scan, ReaderInv, InRange, ReaderState
<1>2. CASE s.at \notin Fds /\ Move(r, [s EXCEPT !.pc = "done"])
  <2> DEFINE t == [s EXCEPT !.pc = "done"]
  <2>1. /\ t \in ReaderState
        /\ t.pc = "done" /\ t.op = s.op /\ t.at = s.at /\ t.must = s.must
        /\ t.got = s.got /\ t.torn = s.torn /\ t.count = s.count
    BY <1>1 DEF ReaderState
  <2> HIDE DEF t
  <2>2. s.must \subseteq Open => Passed(s) = s.must
    BY <1>1, <1>2, PassedAll DEF Passed
  <2>3. Passed(t) = Passed(s)
    BY <2>1 DEF Passed
  <2>4. ListsFds(t)
    BY <1>1, <2>1, <2>2, <2>3 DEF ReaderInv, ListsFds
  <2>5. ListsContexts(t)
    BY <1>1, <2>1, <2>2 DEF ReaderInv, ListsContexts, Passed
  <2>6. Counts(t)
    BY <1>1, <2>1, <2>2, <2>3 DEF ReaderInv, Counts
  <2>7. ReaderInv(t) /\ Keeps(t)
    BY <1>1, <2>1, <2>4, <2>5, <2>6 DEF ReaderInv, InRange, Points, Keeps
  <2> QED
    BY <1>2, <2>1, <2>7, MoveRInv DEF t
<1>3. CASE /\ s.at \in Fds /\ s.op = "count"
           /\ Move(r, [s EXCEPT !.at = s.at + 1,
                                !.count = s.count + conn_bitmap[s.at]])
  <2> DEFINE bit == conn_bitmap[s.at]
             here == {d \in s.must : sockfd[d] = s.at}
             t == [s EXCEPT !.at = s.at + 1, !.count = s.count + bit]
  <2>1. bit \in {0, 1} /\ s.at + 1 \in 0 .. MaxConnections
    BY <1>1, <1>3, TableAssumption DEF IInv, TableTypeOK, Fds
  <2>2. s.count \in Nat /\ s.count + bit \in Nat /\ s.at + 1 \in Int
    BY <1>1, <2>1 DEF ReaderState
  <2>3. /\ t \in ReaderState
        /\ t.pc = "scan" /\ t.op = "count" /\ t.at = s.at + 1 /\ t.must = s.must
        /\ t.torn = s.torn /\ t.count = s.count + bit
    BY <1>1, <1>3, <2>2 DEF ReaderState
  <2> HIDE DEF t
  <2>4. /\ s.must \subseteq Open /\ IsFiniteSet(Passed(s))
        /\ s.count >= Cardinality(Passed(s)) /\ Cardinality(Passed(s)) \in Nat
        /\ s.torn \/ (Quiet /\ s.must = Open /\ s.count = Cardinality(Passed(s)))
    BY <1>1, <1>3, FS_CardinalityType DEF ReaderInv, Counts
  <2>5. Passed(t) = Passed(s) \cup here /\ here \cap Passed(s) = {}
    BY <1>1, <1>3, <2>3, <2>4, PassSlot, FdsAreNaturals DEF Passed
  <2>6. /\ IsFiniteSet(Passed(t)) /\ t.count >= Cardinality(Passed(t))
        /\ s.torn \/ t.count = Cardinality(Passed(t))
    <3>1. CASE here = {}
      <4>1. Passed(t) = Passed(s)
        BY <2>5, <3>1
      <4>2. ~ s.torn => bit = 0
        BY <1>1, <1>3, <2>1, <2>4, <3>1, MarkedIsOpen
      <4> QED
        BY <2>1, <2>2, <2>3, <2>4, <4>1, <4>2
    <3>2. CASE here # {}
      <4>1. PICK c \in s.must : sockfd[c] = s.at
        BY <3>2
      <4>2. bit = 1
        BY <1>1, <2>4, <4>1, OpenFacts
      <4>3. here = {c}
        BY <1>1, <1>3, <2>4, <4>1, PassSlot
      <4>4. Passed(t) = Passed(s) \cup {c} /\ c \notin Passed(s)
        BY <2>5, <4>3
      <4>5. /\ IsFiniteSet(Passed(t))
            /\ Cardinality(Passed(t)) = Cardinality(Passed(s)) + 1
        BY <2>4, <4>4, FS_AddElement
      <4> QED
        BY <2>2, <2>3, <2>4, <4>2, <4>5
    <3> QED
      BY <3>1, <3>2
  <2>7. Counts(t)
    BY <2>3, <2>4, <2>6 DEF Counts
  <2>8. ReaderInv(t) /\ Keeps(t)
    BY <2>1, <2>3, <2>7
       DEF ReaderInv, InRange, Points, ListsFds, ListsContexts, Keeps
  <2> QED
    BY <1>3, <2>3, <2>8, MoveRInv DEF t
<1>4. CASE /\ s.at \in Fds /\ s.op # "count" /\ conn_bitmap[s.at] = 0
           /\ Move(r, [s EXCEPT !.at = s.at + 1])
  <2> DEFINE t == [s EXCEPT !.at = s.at + 1]
  <2>1. s.at + 1 \in 0 .. MaxConnections /\ s.at + 1 \in Int
    BY <1>1, <1>4, TableAssumption DEF Fds
  <2>2. /\ t \in ReaderState
        /\ t.pc = "scan" /\ t.op = s.op /\ t.at = s.at + 1 /\ t.must = s.must
        /\ t.got = s.got /\ t.torn = s.torn
    BY <1>1, <2>1 DEF ReaderState
  <2> HIDE DEF t
  <2>3. \A d \in Open : sockfd[d] # s.at
    BY <1>1, <1>4, OpenFacts
  <2>4. \A must \in SUBSET Open :
          {d \in must : sockfd[d] < s.at + 1} = {d \in must : sockfd[d] < s.at}
    BY <1>1, <1>4, <2>3, PassSlot
  <2>5. ListsFds(t)
    BY <1>1, <2>2, <2>4 DEF ReaderInv, ListsFds, Passed
  <2>6. ListsContexts(t)
    BY <1>1, <2>2, <2>4 DEF ReaderInv, ListsContexts
  <2>7. ReaderInv(t) /\ Keeps(t)
    BY <1>1, <1>4, <2>1, <2>2, <2>5, <2>6
       DEF ReaderInv, InRange, Points, Counts, Keeps
  <2> QED
    BY <1>4, <2>2, <2>7, MoveRInv DEF t
<1>5. CASE /\ s.at \in Fds /\ s.op # "count" /\ conn_bitmap[s.at] # 0
           /\ Move(r, [s EXCEPT !.pc = "call"])
  <2> DEFINE t == [s EXCEPT !.pc = "call"]
  <2>1. /\ t \in ReaderState
        /\ t.pc = "call" /\ t.op = s.op /\ t.at = s.at /\ t.must = s.must
        /\ t.got = s.got /\ t.torn = s.torn
    BY <1>1 DEF ReaderState
  <2> HIDE DEF t
  <2>2. Quiet => \E d \in Open : sockfd[d] = s.at
    BY <1>1, <1>5, MarkedIsOpen
  <2>3. ReaderInv(t) /\ Keeps(t)
    BY <1>1, <1>5, <2>1, <2>2
       DEF ReaderInv, InRange, Points, ListsFds, ListsContexts, Counts, Keeps, Passed
  <2> QED
    BY <1>5, <2>1, <2>3, MoveRInv DEF t
<1> QED
  BY <1>2, <1>3, <1>4, <1>5 DEF Scan

\* Nothing a reader knows about has changed.
LEMMA UnchangedRInv ==
  ASSUME RInv, UNCHANGED <<ownerVars, reader>>
  PROVE  RInv'
<1>1. UNCHANGED <<conn_bitmap, conn_fd_map, mu, pc, sockfd, id, reader>>
  BY DEF ownerVars
<1>2. IInv'
  BY UnchangedIInv DEF RInv
<1>3. \A s : (ReaderInv(s) <=> ReaderInv(s)') /\ (Keeps(s) <=> Keeps(s)')
  BY <1>1 DEF ReaderInv, InRange, Points, ListsFds, ListsContexts, Counts, Keeps, Passed,
              Quiet, ChangeUnderWay, Open, CanAnswer
<1> QED
  BY <1>1, <1>2, <1>3 DEF RInv

LEMMA CheckRangeRInv ==
  ASSUME RInv, NEW r \in Readers, CheckRange(r)
  PROVE  RInv'
<1> DEFINE s == reader[r]
<1>1. /\ s \in ReaderState /\ ReaderInv(s) /\ (KeepsOpen => Keeps(s)) /\ IInv
      /\ s.pc = "call" /\ s.at \in LookupFds \cup Fds
      /\ s.op \in {"fds", "contexts"} => s.at \in Fds
  BY DEF RInv, CheckRange, ReaderInv, InRange
<1>2. CASE s.at < 0 /\ Move(r, Answer(s, NoConn))
  <2>1. s.at \notin Fds
    BY <1>2, TableAssumption DEF Fds
  <2>2. \A d \in Open : sockfd[d] # s.at
    BY <1>1, <2>1, OpenFacts
  <2> QED
    BY <1>1, <1>2, <2>1, <2>2, AnswerRInv DEF Answers
<1>3. CASE UNCHANGED <<ownerVars, reader>>
  BY <1>3, UnchangedRInv
<1>4. CASE s.at \in 0 .. MaxConnections /\ Move(r, [s EXCEPT !.pc = "check"])
  <2> DEFINE t == [s EXCEPT !.pc = "check"]
  <2>1. /\ t \in ReaderState
        /\ t.pc = "check" /\ t.op = s.op /\ t.at = s.at /\ t.must = s.must
        /\ t.got = s.got /\ t.torn = s.torn
    BY <1>1 DEF ReaderState
  <2> HIDE DEF t
  <2>3. ReaderInv(t)
    BY <1>1, <2>1
       DEF ReaderInv, InRange, Points, ListsFds, ListsContexts, Counts, Passed
  <2>4. KeepsOpen => Keeps(t)
    BY <1>1, <2>1 DEF Keeps
  <2> QED
    BY <1>4, <2>1, <2>3, <2>4, MoveRInv DEF t
<1> QED
  BY <1>2, <1>3, <1>4 DEF CheckRange

LEMMA CheckBitRInv ==
  ASSUME RInv, NEW r \in Readers, CheckBit(r)
  PROVE  RInv'
<1> DEFINE s == reader[r]
<1>1. /\ s \in ReaderState /\ ReaderInv(s) /\ (KeepsOpen => Keeps(s)) /\ IInv
      /\ s.pc = "check"
  BY DEF RInv, CheckBit, ReaderInv, InRange
<1>2. CASE /\ s.at \in Fds /\ conn_bitmap[s.at] # 0
           /\ Move(r, [s EXCEPT !.pc = "fetch"])
  <2> DEFINE t == [s EXCEPT !.pc = "fetch"]
  <2>1. /\ t \in ReaderState
        /\ t.pc = "fetch" /\ t.op = s.op /\ t.at = s.at /\ t.must = s.must
        /\ t.got = s.got /\ t.torn = s.torn
    BY <1>1 DEF ReaderState
  <2> HIDE DEF t
  <2>2. ReaderInv(t)
    BY <1>1, <1>2, <2>1
       DEF ReaderInv, InRange, Points, ListsFds, ListsContexts, Counts, Passed
  <2>3. KeepsOpen => Keeps(t)
    BY <1>1, <2>1 DEF Keeps
  <2> QED
    BY <1>2, <2>1, <2>2, <2>3, MoveRInv DEF t
<1>3. CASE /\ ~ (s.at \in Fds /\ conn_bitmap[s.at] # 0)
           /\ Move(r, Answer(s, NoConn))
  <2>1. \A d \in Open : sockfd[d] # s.at
    BY <1>1, <1>3, OpenFacts
  <2>2. s.op = "contexts" => s.torn
    BY <1>1, <2>1 DEF ReaderInv, ListsContexts
  <2>3. {d \in Open : sockfd[d] = s.at} \subseteq {NoConn}
    BY <2>1
  <2>4. s.pc \in {"call", "check", "fetch"}
    BY <1>1
  <2>5. Answers(s, NoConn)
    BY <2>2, <2>3 DEF Answers
  <2> QED
    BY <1>3, <2>4, <2>5, AnswerRInv
<1> QED
  BY <1>2, <1>3 DEF CheckBit

LEMMA FetchContextRInv ==
  ASSUME RInv, NEW r \in Readers, FetchContext(r)
  PROVE  RInv'
<1> DEFINE s == reader[r]
           c == conn_fd_map[s.at]
<1>1. /\ s \in ReaderState /\ ReaderInv(s) /\ IInv
      /\ s.pc = "fetch" /\ s.at \in Fds /\ Move(r, Answer(s, c))
  BY DEF RInv, FetchContext, ReaderInv, InRange
<1>2. c \in Conns \cup {NoConn}
  BY <1>1 DEF IInv, TableTypeOK
<1>3. \A d \in Open : sockfd[d] = s.at => d = c
  BY <1>1, OpenFacts
<1>4. s.op = "contexts" => s.torn \/ (c \in Open /\ sockfd[c] = s.at)
  BY <1>1, <1>3 DEF ReaderInv, ListsContexts
<1>5. /\ {d \in Open : sockfd[d] = s.at} \subseteq {c}
      /\ s.pc \in {"call", "check", "fetch"}
  BY <1>1, <1>3
<1> HIDE DEF c
<1>6. Move(r, Answer(s, c)) /\ (c # NoConn => s.at \in Fds)
  BY <1>1 DEF c
<1>7. Answers(s, c)
  BY <1>4, <1>5, <1>6 DEF Answers
<1> QED
  BY <1>2, <1>5, <1>6, <1>7, AnswerRInv

\* The second read of the entry finds the connection the first one found.
LEMMA ReadMapAgainRInv ==
  ASSUME RInv, NEW r \in Readers, ReadMapAgain(r)
  PROVE  RInv'
<1> DEFINE s == reader[r]
           again == {conn_fd_map[s.at]} \ {NoConn}
           t == [s EXCEPT !.pc = "use", !.got = again]
<1>1. /\ s \in ReaderState /\ ReaderInv(s) /\ (KeepsOpen => Keeps(s)) /\ IInv
      /\ s.pc = "reread" /\ s.at \in Fds /\ s.op \in {"ip", "qpn"} /\ Move(r, t)
  BY DEF RInv, ReadMapAgain, ReaderInv, InRange
<1>2. again \subseteq Conns
  BY <1>1 DEF IInv, TableTypeOK
<1>3. \A d \in s.must : d \in again /\ again = {d}
  BY <1>1, OpenFacts DEF ReaderInv, Points
<1>4. s.must \subseteq {c \in Open : sockfd[c] = s.at}
  BY <1>1 DEF ReaderInv, Points
<1>5. /\ t \in ReaderState
      /\ t.pc = "use" /\ t.op = s.op /\ t.at = s.at /\ t.must = s.must /\ t.got = again
  BY <1>1, <1>2 DEF ReaderState
<1> HIDE DEF t, again
<1>6. ReaderInv(t)
  BY <1>1, <1>3, <1>4, <1>5
     DEF ReaderInv, InRange, Points, ListsFds, ListsContexts, Counts
<1>7. KeepsOpen => Keeps(t)
  BY <1>1, <1>3, <1>5 DEF Keeps
<1> QED
  BY <1>1, <1>5, <1>6, <1>7, MoveRInv

LEMMA EndRInv ==
  ASSUME RInv, NEW r \in Readers, UseContext(r) \/ Return(r)
  PROVE  RInv'
<1> DEFINE s == reader[r]
<1>1. s \in ReaderState /\ ReaderInv(s) /\ (KeepsOpen => Keeps(s))
  BY DEF RInv
<1>4. CASE UNCHANGED <<ownerVars, reader>>
  BY <1>4, UnchangedRInv
<1>2. CASE UseContext(r) /\ Move(r, [s EXCEPT !.pc = "done"])
  <2> DEFINE t == [s EXCEPT !.pc = "done"]
  <2>1. s.pc = "use" /\ Move(r, t) /\ s.op \in {"ip", "qpn"}
    BY <1>1, <1>2 DEF UseContext, ReaderInv, InRange
  <2>2. /\ t \in ReaderState
        /\ t.pc = "done" /\ t.op = s.op /\ t.at = s.at /\ t.must = s.must /\ t.got = s.got
    BY <1>1 DEF ReaderState
  <2> HIDE DEF t
  <2>3. ReaderInv(t)
    BY <1>1, <2>1, <2>2
       DEF ReaderInv, InRange, Points, ListsFds, ListsContexts, Counts
  <2>4. KeepsOpen => Keeps(t)
    BY <1>1, <2>2 DEF Keeps
  <2> QED
    BY <2>1, <2>2, <2>3, <2>4, MoveRInv
<1>3. CASE Return(r)
  <2>1. IdleReader \in ReaderState
    BY DEF IdleReader, ReaderState
  <2>2. ReaderInv(IdleReader) /\ Keeps(IdleReader)
    BY DEF IdleReader, ReaderInv, InRange, Points, ListsFds, ListsContexts, Counts, Keeps
  <2> QED
    BY <1>3, <2>1, <2>2, MoveRInv DEF Return
<1> QED
  BY <1>2, <1>3, <1>4 DEF UseContext
-----------------------------------------------------------------------------
(***************************************************************************)
(* The invariant, and what it says.                                        *)
(***************************************************************************)
LEMMA InitRInv == Init => RInv
<1> SUFFICES ASSUME Init PROVE RInv
  OBVIOUS
<1>1. IInv
  BY InitIInv
<1>2. IdleReader \in ReaderState
  BY DEF IdleReader, ReaderState
<1>3. ReaderInv(IdleReader) /\ Keeps(IdleReader)
  BY DEF IdleReader, ReaderInv, InRange, Points, ListsFds, ListsContexts, Counts, Keeps
<1> QED
  BY <1>1, <1>2, <1>3 DEF Init, RInv, IdState

LEMMA OwnerRInv ==
  ASSUME RInv, NEW c \in Conns, Owner(c)
  PROVE  RInv'
<1>1. IInv'
  BY GetSockfdIInv, SetBitIInv, SetMapIInv, BuildQpIInv, FreeBitIInv, FreeMapIInv,
     FreeContextIInv DEF Owner, RInv
<1>5. id' \in [Conns -> IdState]
  BY DEF RInv, Owner, GetSockfd, SetBit, SetMap, BuildQp, FreeBit, FreeMap, FreeContext,
         IdState, ownerVars
<1>2. CASE Readers = {}
  <2>1. reader' = reader \/ reader' = Overlapped({}) \/ reader' = Overlapped({c})
    BY DEF Owner, GetSockfd, SetBit, SetMap, BuildQp, FreeBit, FreeMap, FreeContext
  <2>2. reader' \in [Readers -> ReaderState]
    BY <1>2, <2>1 DEF RInv, Overlapped
  <2> QED
    BY <1>1, <1>2, <1>5, <2>2 DEF RInv
<1>3. \A r \in Readers : Disturbs(r) /\ reader' \in [Readers -> ReaderState]
  BY OwnerDisturbs
<1>4. ASSUME NEW r \in Readers
      PROVE  ReaderInv(reader[r])' /\ (KeepsOpen => Keeps(reader[r])')
  BY <1>3, DisturbedReader, OwnerKeeps
<1> QED
  BY <1>1, <1>2, <1>3, <1>4, <1>5 DEF RInv

LEMMA NextRInv ==
  ASSUME RInv, [Next]_vars
  PROVE  RInv'
<1>1. ASSUME NEW c \in Conns, Owner(c) PROVE RInv'
  BY <1>1, OwnerRInv
<1>2. ASSUME NEW r \in Readers, Reader(r) PROVE RInv'
  <2>1. CASE \/ Scan(r) \/ CheckRange(r) \/ CheckBit(r) \/ FetchContext(r)
            \/ ReadMapAgain(r) \/ UseContext(r) \/ Return(r)
    BY <2>1, ScanRInv, CheckRangeRInv, CheckBitRInv, FetchContextRInv, ReadMapAgainRInv,
       EndRInv
  <2>2. CASE reader[r].pc = "idle"
    BY <1>2, <2>2, StartRInv
  <2>3. \/ Scan(r) \/ CheckRange(r) \/ CheckBit(r) \/ FetchContext(r)
        \/ ReadMapAgain(r) \/ UseContext(r) \/ Return(r)
        \/ reader[r].pc = "idle"
    BY <1>2 DEF Reader, StartLookup, StartSearch, StartQuery
  <2> QED
    BY <2>1, <2>2, <2>3
<1>3. CASE UNCHANGED vars
  BY <1>3, UnchangedRInv DEF vars
<1> QED
  BY <1>1, <1>2, <1>3 DEF Next

\* The invariant of the readers holds, whatever they call and whoever opens and
\* destroys connections meanwhile.
THEOREM RInvHolds == Spec => []RInv
<1>1. RInv /\ [Next]_vars => RInv'
  BY NextRInv
<1> QED
  BY <1>1, InitRInv, PTL DEF Spec

\* The model is type correct.
THEOREM TypeOKHolds == Spec => []TypeOK
<1> DEFINE Flag == exited \in BOOLEAN
<1>1. Init => Flag
  BY DEF Init
<1>2. Flag /\ [Next]_vars => Flag'
  BY DEF Next, vars, Owner, GetSockfd, SetBit, SetMap, BuildQp, FreeBit, FreeMap,
         FreeContext, Reader, StartLookup, StartSearch, StartQuery, Scan, CheckRange, CheckBit,
         FetchContext, ReadMapAgain, UseContext, Return, Move
<1>3. RInv /\ Flag => TypeOK
  BY DEF RInv, IInv, TableTypeOK, TypeOK
<1> HIDE DEF Flag
<1> QED
  BY <1>1, <1>2, <1>3, RInvHolds, PTL DEF Spec

\* A search finds every connection that is open from its start to its end,
\* whatever is registered and destroyed alongside it.
THEOREM SearchFindsOpenHolds == Spec => []SearchFindsOpen
<1> DEFINE Includes(r) == reader[r].must \subseteq reader[r].got
           Exact(r) == reader[r].torn \/ reader[r].must = reader[r].got
           Counted(r) == /\ reader[r].count >= Cardinality(reader[r].must)
                         /\ \/ reader[r].torn
                            \/ reader[r].count = Cardinality(reader[r].must)
<1>1. RInv => SearchFindsOpen
  <2>1. SUFFICES ASSUME RInv, NEW r \in Readers, reader[r].pc = "done"
                 PROVE  CASE reader[r].op \in {"lookup", "fds", "ip", "qpn"} -> Includes(r)
                          [] reader[r].op = "contexts" -> Exact(r)
                          [] reader[r].op = "count" -> Counted(r)
    BY DEF SearchFindsOpen
  <2>2. reader[r] \in ReaderState /\ ReaderInv(reader[r])
    BY <2>1 DEF RInv
  <2>3. reader[r].op \in {"lookup", "fds", "ip", "qpn"} => Includes(r)
    BY <2>1, <2>2 DEF ReaderInv, Points, ListsFds
  <2>4. reader[r].op = "contexts" => Exact(r)
    BY <2>1, <2>2 DEF ReaderInv, ListsContexts
  <2>5. reader[r].op = "count" => Counted(r)
    BY <2>1, <2>2 DEF ReaderInv, Counts
  <2>6. reader[r].op \in {"lookup", "fds", "contexts", "count", "ip", "qpn"}
    BY <2>2 DEF ReaderState
  <2> HIDE DEF Includes, Exact, Counted
  <2> QED
    BY <2>3, <2>4, <2>5, <2>6
<1> QED
  BY <1>1, RInvHolds, PTL

\* A query about a connection that can answer it and stays open reads through
\* that connection's context.
THEOREM UsesOpenContextHolds ==
  ASSUME KeepsOpen
  PROVE  Spec => []UsesOpenContext
<1>1. RInv => UsesOpenContext
  <2> SUFFICES ASSUME RInv, NEW r \in Readers, reader[r].pc = "use"
               PROVE  /\ reader[r].got = reader[r].must
                      /\ \E c \in reader[r].must :
                           c \in Open /\ CanAnswer(reader[r].op, c)
    BY DEF UsesOpenContext
  <2>1. reader[r].op \in {"ip", "qpn"} /\ reader[r].must \subseteq Open
    BY DEF RInv, ReaderInv, InRange, Points
  <2>2. \E c \in Conns : /\ reader[r].must = {c} /\ CanAnswer(reader[r].op, c)
                        /\ reader[r].got = {c}
    BY <2>1 DEF RInv, Keeps
  <2> QED
    BY <2>1, <2>2
<1> QED
  BY <1>1, RInvHolds, PTL
=============================================================================
