------------------------------ MODULE EventLoop ------------------------------
(***************************************************************************)
(* Connections from the CM's point of view: a server thread in server_loop *)
(* and clients that connect to it with start_connect or client_loop, or    *)
(* that join a multicast group.  Each thread runs rdma_event_loop on the   *)
(* event channel of its process; the CM of the two sides exchanges         *)
(* messages.  Every client is a process of its own.                        *)
(***************************************************************************)
EXTENDS Naturals, Sequences

CONSTANTS
  Server,         \* the process that listens
  Clients,
  Kinds,          \* what clients do: "connect", "reactor", "loop", "receiver",
                  \* "sender"
  Disconnecting,  \* the kinds whose application calls disconnect
  MaxMr,          \* MAX_MR
  DataRoom,       \* regions that fit the private data
  ServerAsks,     \* numbers of regions the server's application registers, by client
  ClientsAsk,     \* numbers of regions a client's application registers
  ClientsDie      \* may a client's process end at any moment?

ASSUME EventLoopAssumption ==
  /\ Server \notin Clients
  /\ Kinds \subseteq {"connect", "reactor", "loop", "receiver", "sender"}
  /\ Disconnecting \subseteq {"connect", "loop"}
  /\ MaxMr \in Nat /\ DataRoom \in Nat
  /\ ServerAsks \in [Clients -> SUBSET Nat] /\ ClientsAsk \subseteq Nat
  /\ ClientsDie \in BOOLEAN

Threads == Clients \cup {Server}

\* The end of client c's connection that thread t drives.
End == {e \in Threads \X Clients : e[1] \in {Server, e[2]}}

\* Numbers of regions the application may register for end e.
Asked(e) == IF e[1] = Server THEN ServerAsks[e[2]] ELSE ClientsAsk

VARIABLES
  kind,        \* of each client, fixed
  place,       \* where each thread is
  todo,        \* the steps of the handler or call it is in
  event_copy,  \* the event it handles
  events,      \* each process' event channel
  channels,    \* the channels that exist
  ctx,         \* state of each end's context
  built,       \* what each end has created
  num_local, num_remote,  \* regions of each end, and those of its peer it knows
  cm,          \* state of each end's rdma_cm_id
  net          \* messages of the CM under way

vars == <<kind, place, todo, event_copy, events, channels, ctx, built,
          num_local, num_remote, cm, net>>

EventType ==
  {"NONE", "ADDR_RESOLVED", "ADDR_ERROR", "ROUTE_RESOLVED", "ROUTE_ERROR",
   "CONNECT_REQUEST", "ESTABLISHED", "DISCONNECTED", "REJECTED", "UNREACHABLE",
   "MULTICAST_JOIN", "MULTICAST_ERROR"}
Event == [type : EventType, conn : Threads, regions : 0 .. MaxMr]
Message == [type : {"REQ", "REP", "RTU", "REJ", "LOST", "DREQ", "DREP"},
            to : Threads, conn : Clients, regions : 0 .. MaxMr]

Step == {"resolve_route", "prepare", "connect", "init", "accept", "remote_mr",
         "create_ah", "join", "ready", "callback", "hang_up", "leave", "destroy",
         "destroy_channel", "return", "exit"}

TypeOK ==
  /\ kind \in [Clients -> Kinds]
  /\ place \in [Threads -> {"new", "loop", "returned", "watched", "exited"}]
  /\ todo \in [Threads -> Seq(Step)]
  /\ event_copy \in [Threads -> Event]
  /\ events \in [Threads -> Seq(Event)]
  /\ channels \subseteq Threads
  /\ ctx \in [End -> {"none", "TERMINATED", "READY", "freed"}]
  /\ built \in [End -> SUBSET {"qp", "mr", "ah"}]
  /\ num_local \in [End -> 0 .. MaxMr]
  /\ num_remote \in [End -> 0 .. MaxMr]
  /\ cm \in [End -> {"none", "resolving", "routing", "joining", "idle", "connecting",
                     "requested", "accepted", "failed", "connected",
                     "disconnecting", "closed"}]
  /\ net \subseteq Message

\* No event: what a thread has between events, when the end is its own.
NoEvent(t) == [type |-> "NONE", conn |-> t, regions |-> 0]

Live(e) == ctx[e] \in {"TERMINATED", "READY"}

\* The server listens (server_listen, start_listen); clients have not begun.
Init ==
  /\ kind \in [Clients -> Kinds]
  /\ place = [t \in Threads |-> IF t = Server THEN "loop" ELSE "new"]
  /\ todo = [t \in Threads |-> <<>>]
  /\ event_copy = [t \in Threads |-> NoEvent(t)]
  /\ events = [t \in Threads |-> <<>>]
  /\ channels = {Server}
  /\ ctx = [e \in End |-> "none"]
  /\ built = [e \in End |-> {}]
  /\ num_local = [e \in End |-> 0] /\ num_remote = [e \in End |-> 0]
  /\ cm = [e \in End |-> "none"]
  /\ net = {}
-----------------------------------------------------------------------------
(***************************************************************************)
(* The calls: which of its three exits a thread's rdma_event_loop takes,   *)
(* and the steps of each handler.                                          *)
(***************************************************************************)
\* Mutants: start_connect does not stop at the connection; the server's loop
\* stops at a disconnection.
ExitOnConnect_Never(t) == FALSE
ExitOnDisconnect_Always(t) == TRUE

\* start_connect and join_multicast_group; client_loop and server_loop go on.
\* In the reactor every handler returns to run_reactor, which goes on.
ExitOnConnect(t) == t # Server /\ kind[t] # "loop"
\* start_connect and client_loop.
ExitOnDisconnect(t) ==
  t # Server /\ place[t] = "loop" /\ kind[t] \in {"connect", "reactor", "loop"}

OnConnect(t) ==
  <<"ready", "callback">> \o (IF ExitOnConnect(t) THEN <<"return">> ELSE <<>>)

\* Mutant: the request is accepted before the application registers memory.
RequestSteps_AcceptFirst == <<"init", "accept", "prepare">>

RequestSteps == <<"init", "prepare", "accept">>

\* The branches of rdma_event_loop.  An id that has left its time-wait state
\* was destroyed before, so TIMEWAIT_EXIT does not come.
HandlerSteps(t, event) ==
  CASE event.type = "ADDR_RESOLVED" ->
         IF kind[event.conn] \in {"receiver", "sender"}
         THEN <<"prepare", "join">> ELSE <<"resolve_route">>
    [] event.type = "MULTICAST_JOIN" -> <<"create_ah">> \o OnConnect(t)
    [] event.type = "ROUTE_RESOLVED" -> <<"prepare", "connect">>
    [] event.type = "CONNECT_REQUEST" -> RequestSteps
    [] event.type = "ESTABLISHED" -> <<"remote_mr">> \o OnConnect(t)
    [] event.type = "DISCONNECTED" ->
         <<"hang_up", "destroy">>
         \o (IF ExitOnDisconnect(t) THEN <<"return">> ELSE <<>>)
    [] OTHER -> <<"exit">>

\* disconnect, "only used on client side" (agent.h 67).
DisconnectSteps == <<"hang_up", "destroy", "destroy_channel">>
\* leave_multicast_group; the channel stays.
LeaveSteps == <<"leave", "destroy">>

\* add_connection_rc, add_connection_ud, and the call of the loop.
AddConnection(c) ==
  /\ place[c] = "new"
  /\ place' = [place EXCEPT ![c] = "loop"]
  /\ channels' = channels \cup {c}
  /\ ctx' = [ctx EXCEPT ![<<c, c>>] = "TERMINATED"]
  /\ cm' = [cm EXCEPT ![<<c, c>>] = "resolving"]
  /\ UNCHANGED <<kind, todo, event_copy, events, built, num_local, num_remote, net>>

\* The application gives the channel of a connection that start_connect made
\* to its reactor: add_event_fd with event_channel_handler.
WatchChannel(c) ==
  /\ kind[c] = "reactor" /\ place[c] = "returned" /\ todo[c] = <<>>
  /\ place' = [place EXCEPT ![c] = "watched"]
  /\ UNCHANGED <<kind, todo, event_copy, events, channels, ctx, built, num_local,
                 num_remote, cm, net>>

\* rdma_get_cm_event, the copy, and rdma_ack_cm_event; in the reactor, once
\* the channel is readable.
GetEvent(t) ==
  /\ place[t] \in {"loop", "watched"} /\ todo[t] = <<>> /\ t \in channels /\ events[t] # <<>>
  /\ LET event == Head(events[t])
     IN /\ event_copy' = [event_copy EXCEPT ![t] = event]
        /\ todo' = [todo EXCEPT ![t] = HandlerSteps(t, event)]
  /\ events' = [events EXCEPT ![t] = Tail(@)]
  /\ UNCHANGED <<kind, place, channels, ctx, built, num_local, num_remote, cm, net>>

\* After the loop returned, the application ends the connection, once.
EndCall(c) ==
  /\ place[c] = "returned" /\ todo[c] = <<>> /\ Live(<<c, c>>)
  /\ IF kind[c] \in {"receiver", "sender"}
     THEN todo' = [todo EXCEPT ![c] = LeaveSteps]
     ELSE /\ kind[c] \in Disconnecting
          /\ todo' = [todo EXCEPT ![c] = DisconnectSteps]
  /\ UNCHANGED <<kind, place, event_copy, events, channels, ctx, built, num_local,
                 num_remote, cm, net>>
-----------------------------------------------------------------------------
(***************************************************************************)
(* The steps.                                                              *)
(***************************************************************************)
Here(t) == <<t, event_copy[t].conn>>

At(t, step) == todo[t] # <<>> /\ Head(todo[t]) = step

\* What is left to do; with the handler its copy of the event ends.
Proceed(t, rest) ==
  /\ todo' = [todo EXCEPT ![t] = rest]
  /\ event_copy' = IF rest = <<>> THEN [event_copy EXCEPT ![t] = NoEvent(t)]
                                 ELSE event_copy
  /\ UNCHANGED kind

Does(t, step) == At(t, step) /\ Proceed(t, Tail(todo[t]))

\* A message of end e to its peer.
From(e, type, n) ==
  [type |-> type, to |-> IF e[1] = Server THEN e[2] ELSE Server, conn |-> e[2],
   regions |-> n]

\* Mutant: register_mr does not stop at its bound.
Prepare_Unbounded(t) ==
  /\ Does(t, "prepare")
  /\ \E n \in Asked(Here(t)) : num_local' = [num_local EXCEPT ![Here(t)] = n]
  /\ built' = [built EXCEPT ![Here(t)] = {"qp", "mr"}]
  /\ UNCHANGED <<place, events, channels, ctx, num_remote, cm, net>>

\* setup_connection, then on_pre_connect, whose callback calls register_mr.
Prepare(t) ==
  /\ At(t, "prepare")
  /\ \E n \in Asked(Here(t)) :
       IF n > MaxMr
       THEN /\ Proceed(t, <<"exit">>)
            /\ UNCHANGED <<num_local, built>>
       ELSE /\ Proceed(t, Tail(todo[t]))
            /\ num_local' = [num_local EXCEPT ![Here(t)] = n]
            /\ built' = [built EXCEPT ![Here(t)] = {"qp", "mr"}]
  /\ UNCHANGED <<place, events, channels, ctx, num_remote, cm, net>>

\* The requests to the CM that answer with an event.
Request(t) ==
  /\ \/ Does(t, "resolve_route") /\ cm' = [cm EXCEPT ![Here(t)] = "routing"]
     \/ Does(t, "join") /\ cm' = [cm EXCEPT ![Here(t)] = "joining"]
  /\ UNCHANGED <<place, events, channels, ctx, built, num_local, num_remote, net>>

Connect(t) ==
  /\ Does(t, "connect")
  /\ cm' = [cm EXCEPT ![Here(t)] = "connecting"]
  /\ net' = net \cup {From(Here(t), "REQ", 0)}
  /\ UNCHANGED <<place, events, channels, ctx, built, num_local, num_remote>>

AcceptConnection(t) ==
  /\ Does(t, "init")
  /\ ctx' = [ctx EXCEPT ![Here(t)] = "TERMINATED"]
  /\ UNCHANGED <<place, events, channels, built, num_local, num_remote, cm, net>>

\* build_private_data.  Its arrays are smaller than MAX_MR (common.h 25, 205):
\* with more regions it writes past them, and what the client is going to
\* read is undefined.
PrivateData(n) == IF n <= DataRoom THEN {n} ELSE 0 .. MaxMr

\* build_private_data, build_rc_param, rdma_accept.
Accept(t) ==
  /\ At(t, "accept")
  /\ IF cm[Here(t)] = "requested"
     THEN /\ Proceed(t, Tail(todo[t]))
          /\ cm' = [cm EXCEPT ![Here(t)] = "accepted"]
          /\ \E n \in PrivateData(num_local[Here(t)]) :
               net' = net \cup {From(Here(t), "REP", n)}
     ELSE Proceed(t, <<"exit">>) /\ UNCHANGED <<cm, net>>
  /\ UNCHANGED <<place, events, channels, ctx, built, num_local, num_remote>>

\* setup_rc_param, update_remote_mr.  The private data is read in an event
\* that was acknowledged, and so freed; free leaves this part of it alone.
SetupRcParam(t) ==
  /\ Does(t, "remote_mr")
  /\ num_remote' = [num_remote EXCEPT ![Here(t)] = event_copy[t].regions]
  /\ UNCHANGED <<place, events, channels, ctx, built, num_local, cm, net>>

CreateAh(t) ==
  /\ Does(t, "create_ah")
  /\ built' = IF kind[t] = "sender" THEN [built EXCEPT ![Here(t)] = @ \cup {"ah"}]
                                    ELSE built
  /\ UNCHANGED <<place, events, channels, ctx, num_local, num_remote, cm, net>>

OnConnectReady(t) ==
  /\ Does(t, "ready")
  /\ ctx' = [ctx EXCEPT ![Here(t)] = "READY"]
  /\ UNCHANGED <<place, events, channels, built, num_local, num_remote, cm, net>>

\* on_connect_cb; the examples' clients call disconnect in it.
Callback(t) ==
  /\ At(t, "callback")
  /\ \/ Proceed(t, Tail(todo[t]))
     \/ /\ t # Server /\ kind[t] \in Disconnecting
        /\ Proceed(t, DisconnectSteps \o Tail(todo[t]))
  /\ UNCHANGED <<place, events, channels, ctx, built, num_local, num_remote, cm,
                 net>>

\* on_disconnect, then rdma_disconnect, which starts a disconnection or
\* answers the peer's.
HangUp(t) ==
  LET e == Here(t) IN
  /\ Does(t, "hang_up")
  /\ ctx' = [ctx EXCEPT ![e] = "TERMINATED"]
  /\ cm' = IF cm[e] = "connected" THEN [cm EXCEPT ![e] = "disconnecting"] ELSE cm
  /\ net' = CASE cm[e] = "connected" -> net \cup {From(e, "DREQ", 0)}
              [] cm[e] = "closed" -> net \cup {From(e, "DREP", 0)}
              [] OTHER -> net
  /\ UNCHANGED <<place, events, channels, built, num_local, num_remote>>

\* on_disconnect, then rdma_leave_multicast.
LeaveMulticast(t) ==
  /\ Does(t, "leave")
  /\ ctx' = [ctx EXCEPT ![Here(t)] = "TERMINATED"]
  /\ cm' = [cm EXCEPT ![Here(t)] = "closed"]
  /\ UNCHANGED <<place, events, channels, built, num_local, num_remote, net>>

\* What is left of a channel without the events of the id of c.
Without(queue, c) ==
  LET kept[i \in 0 .. Len(queue)] ==
        IF i = 0 THEN <<>>
        ELSE IF queue[i].conn = c THEN kept[i - 1] ELSE Append(kept[i - 1], queue[i])
  IN kept[Len(queue)]

\* destroy_connection; rdma_destroy_id drops the events of the id.
DestroyConnection(t) ==
  LET e == Here(t) IN
  /\ At(t, "destroy")
  /\ IF ctx[e] = "READY"
     THEN /\ Proceed(t, <<"exit">>)
          /\ UNCHANGED <<ctx, built, num_local, num_remote, cm, events>>
     ELSE /\ Proceed(t, Tail(todo[t]))
          /\ ctx' = [ctx EXCEPT ![e] = "freed"]
          /\ built' = [built EXCEPT ![e] = {}]
          /\ num_local' = [num_local EXCEPT ![e] = 0]
          /\ num_remote' = [num_remote EXCEPT ![e] = 0]
          /\ cm' = [cm EXCEPT ![e] = "none"]
          /\ events' = [events EXCEPT ![t] = Without(@, e[2])]
  /\ UNCHANGED <<place, channels, net>>

DestroyEventChannel(t) ==
  /\ Does(t, "destroy_channel")
  /\ channels' = channels \ {t}
  /\ UNCHANGED <<place, events, ctx, built, num_local, num_remote, cm, net>>

LeaveLoop(t) ==
  /\ Does(t, "return")
  /\ place' = [place EXCEPT ![t] = "returned"]
  /\ UNCHANGED <<events, channels, ctx, built, num_local, num_remote, cm, net>>

\* The process of t ends: the kernel tells the peers.
Farewell(e) ==
  CASE cm[e] \in {"connecting", "requested", "accepted"} -> {From(e, "REJ", 0)}
    [] cm[e] = "connected" -> {From(e, "DREQ", 0)}
    [] OTHER -> {}

ProcessEnds(t) ==
  LET Gone(f, value) == [e \in End |-> IF e[1] = t THEN value ELSE f[e]] IN
  /\ place' = [place EXCEPT ![t] = "exited"]
  /\ Proceed(t, <<>>)
  /\ events' = [events EXCEPT ![t] = <<>>]
  /\ channels' = channels \ {t}
  /\ ctx' = Gone(ctx, "freed") /\ built' = Gone(built, {})
  /\ num_local' = Gone(num_local, 0) /\ num_remote' = Gone(num_remote, 0)
  /\ cm' = Gone(cm, "none")
  /\ net' = net \cup UNION {Farewell(e) : e \in {e \in End : e[1] = t}}

Exit(t) == At(t, "exit") /\ ProcessEnds(t)

ClientDies(c) ==
  ClientsDie /\ place[c] \notin {"new", "exited"} /\ ProcessEnds(c)
-----------------------------------------------------------------------------
(***************************************************************************)
(* The CM.  Messages arrive, in any order; requests may fail.              *)
(***************************************************************************)
Enqueue(t, type, c, n) ==
  events' = [events EXCEPT ![t] =
               Append(@, [type |-> type, conn |-> c, regions |-> n])]

CmUnchanged ==
  UNCHANGED <<kind, place, todo, event_copy, channels, ctx, built, num_local,
              num_remote>>

Resolve(c) ==
  /\ cm[<<c, c>>] \in {"resolving", "routing", "joining"}
  /\ \E type \in CASE cm[<<c, c>>] = "resolving" -> {"ADDR_RESOLVED", "ADDR_ERROR"}
                   [] cm[<<c, c>>] = "routing" -> {"ROUTE_RESOLVED", "ROUTE_ERROR"}
                   [] OTHER -> {"MULTICAST_JOIN", "MULTICAST_ERROR"} :
       Enqueue(c, type, c, 0)
  /\ cm' = [cm EXCEPT ![<<c, c>>] = "idle"]
  /\ UNCHANGED net /\ CmUnchanged

\* A request creates an id of the listener's channel, or finds no listener.
ReceiveReq(m) ==
  /\ m.type = "REQ"
  /\ IF place[Server] = "exited"
     THEN /\ net' = (net \ {m}) \cup {From(<<Server, m.conn>>, "REJ", 0)}
          /\ UNCHANGED <<cm, events>>
     ELSE /\ net' = net \ {m}
          /\ cm' = [cm EXCEPT ![<<Server, m.conn>>] = "requested"]
          /\ Enqueue(Server, "CONNECT_REQUEST", m.conn, 0)
  /\ CmUnchanged

\* A reply that finds no one is repeated until the server gives up.
ReceiveRep(m) ==
  LET e == <<m.to, m.conn>> IN
  /\ m.type = "REP"
  /\ IF cm[e] = "connecting"
     THEN /\ net' = (net \ {m}) \cup {From(e, "RTU", 0)}
          /\ cm' = [cm EXCEPT ![e] = "connected"]
          /\ Enqueue(m.to, "ESTABLISHED", m.conn, m.regions)
     ELSE /\ net' = (net \ {m}) \cup {From(e, "LOST", 0)}
          /\ UNCHANGED <<cm, events>>
  /\ CmUnchanged

\* The other messages: the states they apply to, the state they lead to and
\* the event they raise.  An id that was not accepted yet raises none.
ReceiveOther(m) ==
  LET e == <<m.to, m.conn>>
      Raises(states, next, type) ==
        /\ cm[e] \in states
        /\ cm' = [cm EXCEPT ![e] = next]
        /\ Enqueue(m.to, type, m.conn, 0)
  IN
  /\ m.type \notin {"REQ", "REP"}
  /\ net' = net \ {m}
  /\ \/ m.type = "RTU" /\ Raises({"accepted"}, "connected", "ESTABLISHED")
     \/ /\ m.type = "REJ"
        /\ Raises({"connecting", "accepted", "connected"}, "closed", "REJECTED")
     \/ m.type = "LOST" /\ Raises({"accepted"}, "closed", "UNREACHABLE")
     \/ /\ m.type = "DREQ"
        /\ Raises({"accepted", "connected"}, "closed", "DISCONNECTED")
     \/ m.type = "DREP" /\ Raises({"disconnecting"}, "closed", "DISCONNECTED")
     \/ /\ m.type = "REJ" /\ cm[e] = "requested"
        /\ cm' = [cm EXCEPT ![e] = "failed"]
        /\ UNCHANGED events
     \/ /\ cm[e] \in CASE m.type \in {"RTU", "LOST"} ->
                            {"none", "closed", "connected"}
                       [] m.type = "DREP" -> {"none", "closed"}
                       [] OTHER -> {"none", "closed", "disconnecting"}
        /\ UNCHANGED <<cm, events>>
  /\ CmUnchanged

Receive == \E m \in net : ReceiveReq(m) \/ ReceiveRep(m) \/ ReceiveOther(m)

ThreadStep(t) ==
  \/ GetEvent(t)
  \/ Prepare(t) \/ Request(t) \/ Connect(t)
  \/ AcceptConnection(t) \/ Accept(t) \/ SetupRcParam(t) \/ CreateAh(t)
  \/ OnConnectReady(t) \/ Callback(t) \/ HangUp(t) \/ LeaveMulticast(t)
  \/ DestroyConnection(t) \/ DestroyEventChannel(t) \/ LeaveLoop(t) \/ Exit(t)

Next ==
  \/ \E t \in Threads : ThreadStep(t)
  \/ \E c \in Clients :
       \/ AddConnection(c) \/ EndCall(c) \/ WatchChannel(c)
       \/ ClientDies(c) \/ Resolve(c)
  \/ Receive

\* Threads run and the CM delivers; nobody has to connect, disconnect or die.
Fairness ==
  /\ \A t \in Threads : WF_vars(ThreadStep(t))
  /\ WF_vars(Receive \/ \E c \in Clients : Resolve(c))

Spec == Init /\ [][Next]_vars
FairSpec == Spec /\ Fairness
-----------------------------------------------------------------------------
(***************************************************************************)
(* Properties.                                                             *)
(***************************************************************************)
\* No handler or call works on a context that is not there any more, and no
\* thread waits on a channel that was destroyed: the event loop, its
\* callbacks and disconnect end a connection once (connection.c 223-358,
\* agent.c 277-323).
ThreadsUseLive ==
  \A t \in Threads :
    /\ /\ todo[t] # <<>>
       /\ Head(todo[t]) \notin {"init", "destroy_channel", "return", "exit"}
       => Live(Here(t))
    /\ place[t] \in {"loop", "watched"} /\ todo[t] = <<>> => t \in channels

\* A connection that is ready can be used from either side: both ends have
\* their queue pair and memory, and the client knows the regions the server
\* registered; a multicast sender has its address handle (connection.c
\* 266-276, 303-316, 319-322).
ReadyMeansPrepared ==
  \A c \in Clients :
    LET mine == <<c, c>>
        peer == <<Server, c>>
    IN ctx[mine] = "READY" =>
         /\ {"qp", "mr"} \subseteq built[mine]
         /\ kind[c] = "sender" => "ah" \in built[mine]
         /\ Live(peer) => /\ {"qp", "mr"} \subseteq built[peer]
                          /\ num_remote[mine] = num_local[peer]

\* The end of one side is noticed by the other: the server destroys its end
\* of a connection whose client disconnected or died; when the server is gone
\* client_loop returns, and a reactor that watches the channel destroys the
\* client's end (connection.c 327-334, 422, agent.c 277-307).
LossNoticed(c) ==
  /\ ctx[<<c, c>>] = "freed" => ~Live(<<Server, c>>)
  /\ place[Server] = "exited" /\ kind[c] = "loop" => place[c] # "loop"
  /\ place[Server] = "exited" /\ place[c] = "watched" => ~Live(<<c, c>>)

PeerLossNoticed == []<>(\A c \in Clients : LossNoticed(c))
=============================================================================
