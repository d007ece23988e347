--------------------------- MODULE SharedReceive ---------------------------
(***************************************************************************)
(* A server whose connections take their receives from one shared receive  *)
(* queue, as example/srq.c sets it up: every connection posts a receive    *)
(* for a buffer of its own, numbered by its descriptor, and the listener's *)
(* poller looks the number of a completion up in the connection table.     *)
(* The event loop that opens and destroys connections, the poller and the  *)
(* clients are threads of their own; connections' own CQs carry nothing.   *)
(***************************************************************************)
EXTENDS Bitmaps, Sequences

CONSTANTS
  Conns,           \* connections, one per client
  Listener, NoConn,
  MaxConnections,  \* the table's size
  Patient          \* does a client end only when its message and the
                   \* receive its connection posted have been handled?

ASSUME SharedReceiveAssumption ==
  /\ MaxConnections \in Nat \ {0}
  /\ Listener # NoConn /\ {Listener, NoConn} \cap Conns = {}
  /\ Patient \in BOOLEAN

VARIABLES
  conn_bitmap, conn_fd_map,
  sockfd,      \* ctx->sockfd
  registered,  \* connections whose buffer is a registered memory region
  buffer,      \* the sender of the message in a connection's buffer
  srq,         \* the receives posted, oldest first
  srq_cq,      \* the listener's CQ
  events,      \* the event channel
  loop,        \* the event loop: its connection and the steps left
  poller,      \* the listener's poller: place, completion, what it found
  client,      \* what each client is doing
  handled,     \* history: clients whose message a callback has read
  answered,    \* history: connections whose receive a callback has handled
  exited

vars == <<conn_bitmap, conn_fd_map, sockfd, registered, buffer, srq, srq_cq, events,
          loop, poller, client, handled, answered, exited>>

table == <<conn_bitmap, conn_fd_map, sockfd>>
history == <<handled, answered>>

Fds == 0 .. MaxConnections - 1
Receive == [wr_id : Fds, conn : Conns]
Completion == [wr_id : Fds, conn : Conns, sender : Conns]
Contexts == Conns \cup {Listener, NoConn}

\* Mutant: the connection is accepted before its receive is posted.
RequestSteps_AcceptFirst == <<"sockfd", "map", "prepare", "accept", "post">>

\* CONNECT_REQUEST: accept_connection, setup_connection, the pre-connect
\* callback, rdma_accept.
RequestSteps == <<"sockfd", "map", "prepare", "post", "accept">>

\* DISCONNECTED: destroy_connection; free_sockfd is two writes.
DisconnectSteps == <<"bit", "unmap", "qp", "mr">>

Step == {"sockfd", "map", "prepare", "post", "accept", "bit", "unmap", "qp", "mr"}

TypeOK ==
  /\ conn_bitmap \in [Fds -> {0, 1}]
  /\ conn_fd_map \in [Fds -> Contexts]
  /\ sockfd \in [Conns -> Fds \cup {NoSlot}]
  /\ registered \subseteq Conns
  /\ buffer \in [Conns -> Conns \cup {NoConn}]
  /\ srq \in Seq(Receive)
  /\ srq_cq \in Seq(Completion)
  /\ events \in Seq({"request", "disconnected"} \X Conns)
  /\ loop \in [conn : Conns \cup {NoConn}, todo : Seq(Step)]
  /\ poller \in [place : {"poll", "check", "fetch", "use"},
                 wc : Completion \cup {NoConn}, found : Contexts]
  /\ client \in [Conns -> {"new", "connecting", "connected", "sending", "sent", "ended"}]
  /\ handled \subseteq Conns /\ answered \subseteq Conns
  /\ exited \in BOOLEAN

NotPolling == [place |-> "poll", wc |-> NoConn, found |-> NoConn]
NotHandling == [conn |-> NoConn, todo |-> <<>>]

\* server_listen took the lowest descriptor; build_srq and build_cq_channel
\* gave the listener the queue, its CQ and a poller.
Init ==
  /\ conn_bitmap = [i \in Fds |-> IF i = 0 THEN 1 ELSE 0]
  /\ conn_fd_map = [i \in Fds |-> IF i = 0 THEN Listener ELSE NoConn]
  /\ sockfd = [c \in Conns |-> NoSlot]
  /\ registered = {}
  /\ buffer = [c \in Conns |-> NoConn]
  /\ srq = <<>> /\ srq_cq = <<>> /\ events = <<>>
  /\ loop = NotHandling /\ poller = NotPolling
  /\ client = [c \in Conns |-> "new"]
  /\ handled = {} /\ answered = {}
  /\ exited = FALSE
-----------------------------------------------------------------------------
(***************************************************************************)
(* The clients.                                                            *)
(***************************************************************************)
ClientMoves(c, from, to) ==
  /\ ~exited /\ client[c] = from
  /\ client' = [client EXCEPT ![c] = to]

\* start_connect, up to the request that reaches the server.
Connect(c) ==
  /\ ClientMoves(c, "new", "connecting")
  /\ events' = Append(events, <<"request", c>>)
  /\ UNCHANGED <<table, registered, buffer, srq, srq_cq, loop, poller, history, exited>>

\* The connect callback: post_send_sync of one message.
Send(c) ==
  /\ ClientMoves(c, "connected", "sending")
  /\ UNCHANGED <<table, registered, buffer, srq, srq_cq, events, loop, poller, history,
                 exited>>

\* The message takes the oldest receive of the queue, whichever connection
\* posted it; the server's adapter acknowledges it and post_send_sync
\* returns.  With no receive posted the adapters retry; a receive whose
\* memory is gone fails and tells nobody.
Deliver(c) ==
  /\ srq # <<>> /\ Head(srq).conn \in registered
  /\ ClientMoves(c, "sending", "sent")
  /\ srq' = Tail(srq)
  /\ buffer' = [buffer EXCEPT ![Head(srq).conn] = c]
  /\ srq_cq' = Append(srq_cq, [wr_id |-> Head(srq).wr_id, conn |-> Head(srq).conn,
                               sender |-> c])
  /\ UNCHANGED <<table, registered, events, loop, poller, history, exited>>

\* disconnect, 2 ms after the send; the server learns of it.
Disconnect(c) ==
  /\ Patient => c \in handled \cap answered
  /\ ClientMoves(c, "sent", "ended")
  /\ events' = Append(events, <<"disconnected", c>>)
  /\ UNCHANGED <<table, registered, buffer, srq, srq_cq, loop, poller, history, exited>>
-----------------------------------------------------------------------------
(***************************************************************************)
(* The server's event loop.                                                *)
(***************************************************************************)
GetEvent ==
  /\ ~exited /\ loop.todo = <<>> /\ events # <<>>
  /\ events' = Tail(events)
  /\ LET e == Head(events)
     IN loop' = [conn |-> e[2], todo |-> IF e[1] = "request" THEN RequestSteps
                                                             ELSE DisconnectSteps]
  /\ UNCHANGED <<table, registered, buffer, srq, srq_cq, poller, client, history, exited>>

LoopDoes(step) ==
  /\ ~exited /\ loop.todo # <<>> /\ Head(loop.todo) = step
  /\ loop' = [loop EXCEPT !.todo = Tail(@)]
  /\ UNCHANGED <<events, poller, history>>

\* get_sockfd takes the lowest free descriptor, or exits.
GetSockfd ==
  /\ LoopDoes("sockfd")
  /\ LET fd == find_first_empty_bit(conn_bitmap)
     IN IF fd = NoSlot
        THEN exited' = TRUE /\ UNCHANGED <<conn_bitmap, sockfd>>
        ELSE /\ conn_bitmap' = [conn_bitmap EXCEPT ![fd] = 1]
             /\ sockfd' = [sockfd EXCEPT ![loop.conn] = fd]
             /\ UNCHANGED exited
  /\ UNCHANGED <<conn_fd_map, registered, buffer, srq, srq_cq, client>>

SetMap ==
  /\ LoopDoes("map")
  /\ conn_fd_map' = [conn_fd_map EXCEPT ![sockfd[loop.conn]] = loop.conn]
  /\ UNCHANGED <<conn_bitmap, sockfd, registered, buffer, srq, srq_cq, client, exited>>

\* setup_connection, with the queue pair on the shared queue and its CQ;
\* then the callback registers its buffer and clears it.
Prepare ==
  /\ LoopDoes("prepare")
  /\ registered' = registered \cup {loop.conn}
  /\ buffer' = [buffer EXCEPT ![loop.conn] = NoConn]
  /\ UNCHANGED <<table, srq, srq_cq, client, exited>>

\* Mutant: every receive has the number of the first connection.
PostSrqRecv_SameId ==
  /\ LoopDoes("post")
  /\ srq' = Append(srq, [wr_id |-> 1, conn |-> loop.conn])
  /\ UNCHANGED <<table, registered, buffer, srq_cq, client, exited>>

\* post_srq_recv(ctx, 1, &sge, ctx->sockfd).
PostSrqRecv ==
  /\ LoopDoes("post")
  /\ srq' = Append(srq, [wr_id |-> sockfd[loop.conn], conn |-> loop.conn])
  /\ UNCHANGED <<table, registered, buffer, srq_cq, client, exited>>

Accept ==
  /\ LoopDoes("accept")
  /\ client' = [client EXCEPT ![loop.conn] = "connected"]
  /\ UNCHANGED <<table, registered, buffer, srq, srq_cq, exited>>

FreeBit ==
  /\ LoopDoes("bit")
  /\ conn_bitmap' = [conn_bitmap EXCEPT ![sockfd[loop.conn]] = 0]
  /\ UNCHANGED <<conn_fd_map, sockfd, registered, buffer, srq, srq_cq, client, exited>>

FreeMap ==
  /\ LoopDoes("unmap")
  /\ conn_fd_map' = [conn_fd_map EXCEPT ![sockfd[loop.conn]] = NoConn]
  /\ UNCHANGED <<conn_bitmap, sockfd, registered, buffer, srq, srq_cq, client, exited>>

\* What is left of a CQ without the completions of the queue pair of c.
Purged(cq, c) ==
  LET kept[i \in 0 .. Len(cq)] ==
        IF i = 0 THEN <<>>
        ELSE IF cq[i].sender = c THEN kept[i - 1] ELSE Append(kept[i - 1], cq[i])
  IN kept[Len(cq)]

\* rdma_destroy_qp takes the queue pair's completions out of the shared CQ;
\* what the connection posted on the shared queue stays.
DestroyQp ==
  /\ LoopDoes("qp")
  /\ srq_cq' = Purged(srq_cq, loop.conn)
  /\ UNCHANGED <<table, registered, buffer, srq, client, exited>>

\* ibv_dereg_mr, and free of the buffer and the context.
FreeBuffer ==
  /\ LoopDoes("mr")
  /\ registered' = registered \ {loop.conn}
  /\ sockfd' = [sockfd EXCEPT ![loop.conn] = NoSlot]
  /\ UNCHANGED <<conn_bitmap, conn_fd_map, buffer, srq, srq_cq, client, exited>>
-----------------------------------------------------------------------------
(***************************************************************************)
(* The listener's poller.                                                  *)
(***************************************************************************)
PollerAt(place) ==
  /\ ~exited /\ poller.place = place
  /\ UNCHANGED <<table, registered, buffer, srq, events, loop, client, exited>>

\* Mutant: completions are polled in batches, the first of a batch is handled.
PollCq_Batch ==
  /\ srq_cq # <<>>
  /\ PollerAt("poll")
  /\ srq_cq' = <<>>
  /\ poller' = [poller EXCEPT !.place = "check", !.wc = Head(srq_cq)]
  /\ UNCHANGED history

\* poll_cq_once; the completion callback of the listener is called.
PollCq ==
  /\ srq_cq # <<>>
  /\ PollerAt("poll")
  /\ srq_cq' = Tail(srq_cq)
  /\ poller' = [poller EXCEPT !.place = "check", !.wc = Head(srq_cq)]
  /\ UNCHANGED history

\* get_connection(ctx->agent, wc->wr_id) reads the bit, then the map, with
\* no mutex.
CheckBit ==
  /\ PollerAt("check")
  /\ poller' = IF conn_bitmap[poller.wc.wr_id] = 1
               THEN [poller EXCEPT !.place = "fetch"]
               ELSE [poller EXCEPT !.place = "use", !.found = NoConn]
  /\ UNCHANGED <<srq_cq, history>>

FetchMap ==
  /\ PollerAt("fetch")
  /\ poller' = [poller EXCEPT !.place = "use", !.found = conn_fd_map[poller.wc.wr_id]]
  /\ UNCHANGED <<srq_cq, history>>

\* The callback reads server_ctx->local_mr[0]->addr, and the message there.
UseBuffer ==
  /\ poller.found \in registered
  /\ PollerAt("use")
  /\ handled' = handled \cup ({buffer[poller.found]} \ {NoConn})
  /\ answered' = answered \cup {poller.wc.conn}
  /\ poller' = NotPolling
  /\ UNCHANGED srq_cq
-----------------------------------------------------------------------------
LoopSteps ==
  \/ GetEvent
  \/ GetSockfd \/ SetMap \/ Prepare \/ PostSrqRecv \/ Accept
  \/ FreeBit \/ FreeMap \/ DestroyQp \/ FreeBuffer

PollerSteps == PollCq \/ CheckBit \/ FetchMap \/ UseBuffer

ClientSteps(c) == Connect(c) \/ Send(c) \/ Deliver(c) \/ Disconnect(c)

Next == LoopSteps \/ PollerSteps \/ \E c \in Conns : ClientSteps(c)

\* The server's threads run and the network delivers; clients need not
\* connect, send or end.
Fairness ==
  /\ WF_vars(LoopSteps) /\ WF_vars(PollerSteps)
  /\ \A c \in Conns : WF_vars(Deliver(c))

Spec == Init /\ [][Next]_vars
FairSpec == Spec /\ Fairness
-----------------------------------------------------------------------------
(***************************************************************************)
(* Properties.                                                             *)
(***************************************************************************)
\* A client that may send finds a receive posted, and the oldest one has its
\* buffer: as many receives as clients that have not sent, none stale
\* (srq.c 36-44, connection.c 307-312).
ReceiveReady ==
  LET unsent == {c \in Conns : client[c] \in {"connected", "sending"}}
  IN unsent # {} => srq # <<>> /\ Head(srq).conn \in registered

\* The context the callback finds by number is the one whose buffer holds the
\* message, it is alive, and the message is there (srq.c 70-73).
HandlerFindsBuffer ==
  poller.place = "use" =>
    /\ poller.found = poller.wc.conn
    /\ poller.found \in registered
    /\ buffer[poller.found] = poller.wc.sender

\* Every message sent is read by a callback, unless the table was full and
\* the server exited (srq.c 63-74, agent.c 48-61).
EveryMessageHandled ==
  \A c \in Conns : (client[c] = "sending") ~> (c \in handled \/ exited)
=============================================================================
