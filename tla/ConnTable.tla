------------------------------ MODULE ConnTable ------------------------------
(***************************************************************************)
(* The connection table of an agent: conn_bitmap says which descriptors    *)
(* are taken, conn_fd_map which connection context each one names.  Every  *)
(* connection is opened and destroyed by a thread of its own (an event     *)
(* loop or the application); readers look connections up meanwhile.        *)
(*                                                                         *)
(* The mutex covers get_sockfd and free_sockfd only: the two writes that   *)
(* register a connection, and every read, are made without it.             *)
(***************************************************************************)
EXTENDS Bitmaps, FiniteSets

CONSTANTS
  Conns,           \* connection contexts; one is reused after it is freed
  NoConn,          \* NULL
  Readers,         \* threads that look connections up
  MaxConnections,  \* MAX_CONNECTIONS
  LookupFds,       \* descriptors the application asks get_connection for
  Searches,        \* kinds of search the readers make, see StartSearch
  Queries,         \* of these two: "ip", "qpn", see StartQuery
  KeepsOpen        \* does the application ask only about connections that can
                   \* answer, and keep them open until they have?

ASSUME TableAssumption ==
  /\ MaxConnections \in Nat \ {0}
  /\ NoConn \notin Conns
  /\ LookupFds \subseteq Int
  /\ Searches \subseteq {"fds", "contexts", "count"}
  /\ Queries \subseteq {"ip", "qpn"}
  /\ KeepsOpen \in BOOLEAN

Fds == 0 .. MaxConnections - 1
NoFd == NoSlot

VARIABLES
  conn_bitmap,   \* Fds -> {0, 1}
  conn_fd_map,   \* Fds -> Conns, or NoConn for NULL
  mu,            \* the connection whose free_sockfd holds the mutex
  pc,            \* connection -> where its owner is, see Phase
  sockfd,        \* connection -> ctx->sockfd
  id,            \* connection -> what ctx->id has to read, see IdState
  reader,        \* reader -> the call it is in, see ReaderState
  exited         \* the library called exit()

ownerVars == <<conn_bitmap, conn_fd_map, mu, pc, sockfd, id>>
vars == <<ownerVars, reader, exited>>

\* unused: no context;  claimed: get_sockfd returned;  marked: the bit was
\* written (again);  open: conn_fd_map was written;  clearing: free_sockfd
\* is between its two writes;  closed: it returned.
Phase == {"unused", "claimed", "marked", "open", "clearing", "closed"}

Holding == {"claimed", "marked", "open"}

\* bare: neither a peer nor a queue pair, as a listener's;  peer: the (IPv4)
\* address of one;  qp: a queue pair too.
IdState == {"bare", "peer", "qp"}

\* call: about to run get_connection(at);  check, fetch: about to read the
\* bit, the map entry;  scan: about to read the bit of slot at;  reread: a
\* query is about to read the map entry again;  use: about to read through
\* the context it got.
\* Two ghosts: must are the connections the call has to find, those open
\* ever since it began, and torn says that some registration or removal
\* was under way during the call.
ReaderState ==
  [pc : {"idle", "call", "check", "fetch", "scan", "reread", "use", "done"},
   op : {"lookup", "fds", "contexts", "count", "ip", "qpn"},
   at : Int, got : SUBSET Conns, count : Nat,
   must : SUBSET Conns, torn : BOOLEAN]

TypeOK ==
  /\ conn_bitmap \in [Fds -> {0, 1}]
  /\ conn_fd_map \in [Fds -> Conns \cup {NoConn}]
  /\ mu \in Conns \cup {NoConn}
  /\ pc \in [Conns -> Phase]
  /\ sockfd \in [Conns -> Fds \cup {NoFd}]
  /\ id \in [Conns -> IdState]
  /\ reader \in [Readers -> ReaderState]
  /\ exited \in BOOLEAN

IdleReader ==
  [pc |-> "idle", op |-> "lookup", at |-> 0, got |-> {}, count |-> 0,
   must |-> {}, torn |-> FALSE]

Init ==
  /\ conn_bitmap = [i \in Fds |-> 0]
  /\ conn_fd_map = [i \in Fds |-> NoConn]
  /\ mu = NoConn
  /\ pc = [c \in Conns |-> "unused"]
  /\ sockfd = [c \in Conns |-> NoFd]
  /\ id = [c \in Conns |-> "bare"]
  /\ reader = [r \in Readers |-> IdleReader]
  /\ exited = FALSE
-----------------------------------------------------------------------------
(***************************************************************************)
(* Owners.  add_connection_rc, add_connection_ud, accept_connection and    *)
(* server_listen register a connection in the same three steps.            *)
(***************************************************************************)
\* The readers' ghosts: a change of the table overlaps their calls, and
\* gone is no longer open.
Overlapped(gone) ==
  [r \in Readers |-> [reader[r] EXCEPT !.must = @ \ gone,
                                       !.torn = reader[r].pc # "idle"]]

\* Mutant: the free slot is found but not marked.
GetSockfd_Unmarked(c) ==
  LET i == find_first_empty_bit(conn_bitmap)
  IN /\ ~exited /\ pc[c] = "unused" /\ mu = NoConn
     /\ i # NoSlot
     /\ sockfd' = [sockfd EXCEPT ![c] = i]
     /\ pc' = [pc EXCEPT ![c] = "claimed"]
     /\ reader' = Overlapped({})
     /\ UNCHANGED <<conn_bitmap, conn_fd_map, mu, id, exited>>

\* get_sockfd: one step, because every other write to the bitmap either
\* holds the mutex too or sets a bit that is set already.
GetSockfd(c) ==
  LET i == find_first_empty_bit(conn_bitmap)
  IN /\ ~exited /\ pc[c] = "unused" /\ mu = NoConn
     /\ IF i = NoSlot
        THEN exited' = TRUE /\ UNCHANGED <<ownerVars, reader>>
        ELSE /\ conn_bitmap' = [conn_bitmap EXCEPT ![i] = 1]
             /\ sockfd' = [sockfd EXCEPT ![c] = i]
             /\ pc' = [pc EXCEPT ![c] = "claimed"]
             /\ reader' = Overlapped({})
             /\ UNCHANGED <<conn_fd_map, mu, id, exited>>

\* init_connection, and agent->conn_bitmap[sockfd] = 1.  The id is that of a
\* listener, or one whose peer is known: from rdma_resolve_addr or the request.
SetBit(c) ==
  /\ ~exited /\ pc[c] = "claimed"
  /\ \E x \in {"bare", "peer"} : id' = [id EXCEPT ![c] = x]
  /\ conn_bitmap' = [conn_bitmap EXCEPT ![sockfd[c]] = 1]
  /\ pc' = [pc EXCEPT ![c] = "marked"]
  /\ UNCHANGED <<conn_fd_map, mu, sockfd, reader, exited>>

SetMap(c) ==
  /\ ~exited /\ pc[c] = "marked"
  /\ conn_fd_map' = [conn_fd_map EXCEPT ![sockfd[c]] = c]
  /\ pc' = [pc EXCEPT ![c] = "open"]
  /\ UNCHANGED <<conn_bitmap, mu, sockfd, id, reader, exited>>

\* setup_connection, from the event loop: rdma_create_qp sets id->qp.
BuildQp(c) ==
  /\ ~exited /\ pc[c] = "open" /\ id[c] = "peer"
  /\ id' = [id EXCEPT ![c] = "qp"]
  /\ UNCHANGED <<conn_bitmap, conn_fd_map, mu, pc, sockfd, reader, exited>>

\* The application does not destroy a connection it is asking about.
Undisturbed(c) ==
  KeepsOpen => \A r \in Readers : reader[r].op \in {"ip", "qpn"} => c \notin reader[r].must

\* Mutant: free_sockfd does not take the mutex.
FreeBit_Unlocked(c) ==
  /\ ~exited /\ pc[c] = "open" /\ Undisturbed(c)
  /\ conn_bitmap' = [conn_bitmap EXCEPT ![sockfd[c]] = 0]
  /\ pc' = [pc EXCEPT ![c] = "clearing"]
  /\ reader' = Overlapped({c})
  /\ UNCHANGED <<conn_fd_map, mu, sockfd, id, exited>>

\* free_sockfd takes the mutex, clears the bit, then the map entry.
FreeBit(c) ==
  /\ ~exited /\ pc[c] = "open" /\ mu = NoConn /\ Undisturbed(c)
  /\ mu' = c
  /\ conn_bitmap' = [conn_bitmap EXCEPT ![sockfd[c]] = 0]
  /\ pc' = [pc EXCEPT ![c] = "clearing"]
  /\ reader' = Overlapped({c})
  /\ UNCHANGED <<conn_fd_map, sockfd, id, exited>>

\* Mutant: the map entry is kept.
FreeMap_Kept(c) ==
  /\ ~exited /\ pc[c] = "clearing"
  /\ mu' = NoConn
  /\ pc' = [pc EXCEPT ![c] = "closed"]
  /\ UNCHANGED <<conn_bitmap, conn_fd_map, sockfd, id, reader, exited>>

FreeMap(c) ==
  /\ ~exited /\ pc[c] = "clearing"
  /\ conn_fd_map' = [conn_fd_map EXCEPT ![sockfd[c]] = NoConn]
  /\ mu' = NoConn
  /\ pc' = [pc EXCEPT ![c] = "closed"]
  /\ UNCHANGED <<conn_bitmap, sockfd, id, reader, exited>>

\* The rest of destroy_connection, to free(ctx).
FreeContext(c) ==
  /\ ~exited /\ pc[c] = "closed"
  /\ sockfd' = [sockfd EXCEPT ![c] = NoFd]
  /\ id' = [id EXCEPT ![c] = "bare"]
  /\ pc' = [pc EXCEPT ![c] = "unused"]
  /\ UNCHANGED <<conn_bitmap, conn_fd_map, mu, reader, exited>>
-----------------------------------------------------------------------------
(***************************************************************************)
(* Readers.                                                                *)
(***************************************************************************)
Open == {c \in Conns : pc[c] = "open"}

ChangeUnderWay ==
  \E c \in Conns : pc[c] \in {"claimed", "marked", "clearing"}

Move(r, state) ==
  /\ reader' = [reader EXCEPT ![r] = state]
  /\ UNCHANGED <<ownerVars, exited>>

\* get_connection(agent, fd)
StartLookup(r, fd) ==
  /\ ~exited /\ reader[r].pc = "idle"
  /\ Move(r, [IdleReader EXCEPT !.pc = "call", !.at = fd,
                                !.must = {c \in Open : sockfd[c] = fd},
                                !.torn = ChangeUnderWay])

\* A search reads the bits one by one.  "fds" is the loop over
\* get_next_connection and get_connection, "contexts" the one over
\* find_first_connection and find_next_connection, and "count" is
\* get_connection_count (find_bitmap_weight).
StartSearch(r, op) ==
  /\ ~exited /\ reader[r].pc = "idle"
  /\ Move(r, [IdleReader EXCEPT !.pc = "scan", !.op = op, !.must = Open,
                                !.torn = ChangeUnderWay])

\* One step of find_first_set_bit, find_next_set_bit or find_bitmap_weight.
Scan(r) ==
  LET s == reader[r]
  IN /\ ~exited /\ s.pc = "scan"
     /\ \/ s.at \notin Fds /\ Move(r, [s EXCEPT !.pc = "done"])
        \/ /\ s.at \in Fds /\ s.op = "count"
           /\ Move(r, [s EXCEPT !.at = @ + 1,
                                !.count = @ + conn_bitmap[s.at]])
        \/ /\ s.at \in Fds /\ s.op # "count" /\ conn_bitmap[s.at] = 0
           /\ Move(r, [s EXCEPT !.at = @ + 1])
        \/ /\ s.at \in Fds /\ s.op # "count" /\ conn_bitmap[s.at] # 0
           /\ Move(r, [s EXCEPT !.pc = "call"])

\* get_connection_ip needs the address of a peer, get_connection_qpn a queue pair.
CanAnswer(op, c) == IF op = "ip" THEN id[c] # "bare" ELSE id[c] = "qp"

\* get_connection_ip and get_connection_qpn look the connection up and read
\* through it; get_connection_ip reads the map again for that.
StartQuery(r, op, fd) ==
  LET asked == {c \in Open : sockfd[c] = fd}
  IN /\ ~exited /\ reader[r].pc = "idle"
     /\ KeepsOpen => \E c \in asked : CanAnswer(op, c)
     /\ Move(r, [IdleReader EXCEPT !.pc = "call", !.op = op, !.at = fd, !.must = asked,
                                   !.torn = ChangeUnderWay])

\* get_connection returned c.  NULL ends a search by contexts, and a query.
Answer(s, c) ==
  LET found == [s EXCEPT !.got = @ \cup ({c} \ {NoConn})]
      goOn == s.op = "fds" \/ (s.op = "contexts" /\ c # NoConn)
  IN IF goOn THEN [found EXCEPT !.pc = "scan", !.at = @ + 1]
     ELSE IF s.op = "ip" /\ c # NoConn THEN [found EXCEPT !.pc = "reread"]
     ELSE IF s.op = "qpn" /\ c # NoConn THEN [found EXCEPT !.pc = "use"]
     ELSE [found EXCEPT !.pc = "done"]

\* The range test at the head of get_connection.
CheckRange(r) ==
  LET s == reader[r]
  IN /\ ~exited /\ s.pc = "call"
     /\ \/ s.at < 0 /\ Move(r, Answer(s, NoConn))
        \/ /\ s.at > MaxConnections
           /\ exited' = TRUE /\ UNCHANGED <<ownerVars, reader>>
        \/ /\ s.at \in 0 .. MaxConnections
           /\ Move(r, [s EXCEPT !.pc = "check"])

\* For MAX_CONNECTIONS this reads the int behind conn_bitmap: calloc has padded
\* and cleared it (glibc gives 4008 bytes for 4000), so the answer is NULL.
CheckBit(r) ==
  LET s == reader[r]
  IN /\ ~exited /\ s.pc = "check"
     /\ Move(r, IF s.at \in Fds /\ conn_bitmap[s.at] # 0 THEN [s EXCEPT !.pc = "fetch"]
                ELSE Answer(s, NoConn))

FetchContext(r) ==
  LET s == reader[r]
  IN /\ ~exited /\ s.pc = "fetch"
     /\ Move(r, Answer(s, conn_fd_map[s.at]))

\* agent->conn_fd_map[sockfd]->id->route.addr.dst_storage
ReadMapAgain(r) ==
  LET s == reader[r]
  IN /\ ~exited /\ s.pc = "reread"
     /\ Move(r, [s EXCEPT !.pc = "use", !.got = {conn_fd_map[s.at]} \ {NoConn}])

\* addr_in->sin_addr, ctx->id->qp->qp_num: without an address or a queue pair
\* a null pointer, which ends the process.
UseContext(r) ==
  LET s == reader[r]
  IN /\ ~exited /\ s.pc = "use"
     /\ IF \E c \in s.got : CanAnswer(s.op, c)
        THEN Move(r, [s EXCEPT !.pc = "done"])
        ELSE exited' = TRUE /\ UNCHANGED <<ownerVars, reader>>

Return(r) ==
  /\ ~exited /\ reader[r].pc = "done"
  /\ Move(r, IdleReader)
-----------------------------------------------------------------------------
Owner(c) ==
  GetSockfd(c) \/ SetBit(c) \/ SetMap(c) \/ BuildQp(c) \/ FreeBit(c) \/ FreeMap(c)
    \/ FreeContext(c)

Reader(r) ==
  \/ \E fd \in LookupFds : StartLookup(r, fd)
  \/ \E op \in Searches : StartSearch(r, op)
  \/ \E op \in Queries, fd \in LookupFds : StartQuery(r, op, fd)
  \/ Scan(r) \/ CheckRange(r) \/ CheckBit(r) \/ FetchContext(r)
  \/ ReadMapAgain(r) \/ UseContext(r) \/ Return(r)

Next == (\E c \in Conns : Owner(c)) \/ (\E r \in Readers : Reader(r))

Spec == Init /\ [][Next]_vars
-----------------------------------------------------------------------------
(***************************************************************************)
(* Properties.                                                             *)
(***************************************************************************)
\* The table implements the allocator of descriptors.
Allocator ==
  INSTANCE FdAllocator WITH
    fd <- [c \in Conns |-> IF pc[c] \in Holding THEN sockfd[c] ELSE NoFd]

AllocatorSpec == Allocator!Spec

\* conn_fd_map never names a context that does not own the entry: in
\* particular never a freed one, although connections register themselves
\* outside the mutex and descriptors are reused (agent.c 63-69, 107-111).
MapNamesOwner ==
  \A i \in Fds : conn_fd_map[i] # NoConn =>
    /\ pc[conn_fd_map[i]] \in {"open", "clearing"}
    /\ sockfd[conn_fd_map[i]] = i

\* A search that runs alongside registrations and removals returns every
\* connection that is open from its start to its end; a search by contexts
\* does if nothing is registered or removed meanwhile, because it takes the
\* NULL of a half-registered entry for the end (connection.c 439-493).
SearchFindsOpen ==
  \A r \in Readers :
    LET s == reader[r]
    IN s.pc = "done" =>
         CASE s.op \in {"lookup", "fds", "ip", "qpn"} -> s.must \subseteq s.got
           [] s.op = "contexts" -> s.torn \/ s.must = s.got
           [] s.op = "count" -> /\ s.count >= Cardinality(s.must)
                                /\ s.torn \/ s.count = Cardinality(s.must)

\* A query about a connection that can answer it and stays open reads through
\* its context, not through NULL, another's, or one without what it reads,
\* whatever else is registered and destroyed meanwhile (connection.c 495-514).
UsesOpenContext ==
  \A r \in Readers : reader[r].pc = "use" =>
    /\ reader[r].got = reader[r].must
    /\ \E c \in reader[r].must : c \in Open /\ CanAnswer(reader[r].op, c)
=============================================================================
