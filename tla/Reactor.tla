------------------------------- MODULE Reactor -------------------------------
(***************************************************************************)
(* The reactor of an agent, for connections in reactor mode: one thread in *)
(* epoll_wait (run_reactor) that runs comp_channel_handler for the         *)
(* completion channels that have an event, and the table that owns the     *)
(* event_data objects epoll points to.  Connections enter it in on_connect *)
(* and leave it in destroy_connection, on threads of their own.            *)
(*                                                                         *)
(* The mutex makes store_event and free_event one step each; the thread    *)
(* reads the event_data of its batch without it.                           *)
(***************************************************************************)
EXTENDS Bitmaps, Sequences, FiniteSets, SequencesExt

CONSTANTS
  Conns,       \* connections; one is set up again after it is destroyed
  None,        \* NULL
  EventSize,   \* EVENT_SIZE
  Chunks,      \* the memory malloc may return for an event_data
  MaxPosts,    \* bound: requests a connection posts in its life
  AddMayFail,  \* may EPOLL_CTL_ADD fail?
  Ending       \* when connections and the agent are ended: "any" time; when
               \* the work is "done"; when the thread is "idle" as well

ASSUME ReactorAssumption ==
  /\ EventSize \in Nat /\ MaxPosts \in Nat
  /\ IsFiniteSet(Conns) /\ Cardinality(Conns) <= EventSize
  /\ IsFiniteSet(Chunks) /\ EventSize <= Cardinality(Chunks)
  /\ None \notin Conns \cup Chunks
  /\ AddMayFail \in BOOLEAN
  /\ Ending \in {"any", "done", "idle"}

Slots == 0 .. EventSize - 1

VARIABLES
  event_bitmap,  \* Slots -> {0, 1}
  event_map,     \* Slots -> the event_data it points to, or None
  data,          \* Chunks -> the connection whose event_data it holds, or None
  watched,       \* connections whose channel epoll watches
  pc,            \* connection -> where its owner is, see Phase
  left,          \* connection -> requests it may still post
  posted,        \* connection -> requests not completed
  cqes,          \* connection -> completions not polled
  armed,         \* connection -> ibv_req_notify_cq is in force
  events,        \* connection -> events in its completion channel
  thread,        \* where the reactor thread is, see Step
  batch,         \* what epoll_wait returned and is not handled yet
  stop,
  agent,         \* "live", "stopping" or "gone": destroy_reactor
  exited         \* the library called exit()

tableVars == <<event_bitmap, event_map, data, watched>>
workVars == <<left, posted, cqes, armed, events>>
threadVars == <<thread, batch, stop, agent>>
vars == <<tableVars, pc, workVars, threadVars, exited>>

\* new: no resources;  built: CQ and channel exist;  stored: store_event is
\* done;  open: add_event_fd returned;  flushing, noqp, nocq, unwatched:
\* the steps of destroy_connection that are behind it.
Phase == {"new", "built", "stored", "open", "flushing", "noqp", "nocq",
          "unwatched"}

Step == {"start", "wait", "handle", "get", "ack", "arm", "drain", "test",
         "ended"}

\* Mutant: the CQ is polled before it is armed again.
HandlerSteps_DrainFirst == <<"get", "ack", "drain", "arm">>

\* comp_channel_handler
HandlerSteps == <<"get", "ack", "arm", "drain">>

TypeOK ==
  /\ event_bitmap \in [Slots -> {0, 1}]
  /\ event_map \in [Slots -> Chunks \cup {None}]
  /\ data \in [Chunks -> Conns \cup {None}] /\ watched \subseteq Conns
  /\ pc \in [Conns -> Phase]
  /\ {left[c] : c \in Conns} \cup {posted[c] : c \in Conns}
       \cup {cqes[c] : c \in Conns} \subseteq 0 .. MaxPosts
  /\ armed \in [Conns -> BOOLEAN]
  /\ events \in [Conns -> {0, 1}]
  /\ thread \in Step
  /\ batch \in Seq(Conns)
  /\ stop \in BOOLEAN /\ exited \in BOOLEAN
  /\ agent \in {"live", "stopping", "gone"}

\* stop is garbage until the thread clears it.
Init ==
  /\ event_bitmap = [i \in Slots |-> 0]
  /\ event_map = [i \in Slots |-> None]
  /\ data = [m \in Chunks |-> None] /\ watched = {}
  /\ pc = [c \in Conns |-> "new"]
  /\ left = [c \in Conns |-> MaxPosts]
  /\ posted = [c \in Conns |-> 0] /\ cqes = [c \in Conns |-> 0]
  /\ armed = [c \in Conns |-> FALSE] /\ events = [c \in Conns |-> 0]
  /\ thread = "start" /\ batch = <<>> /\ stop \in BOOLEAN
  /\ agent = "live" /\ exited = FALSE
-----------------------------------------------------------------------------
(***************************************************************************)
(* Owners of connections.                                                  *)
(***************************************************************************)
Owner(c, from, to) ==
  ~exited /\ agent = "live" /\ pc[c] = from /\ pc' = [pc EXCEPT ![c] = to]

\* build_cq_channel asks for the first event at once.
BuildCqChannel(c) ==
  /\ Owner(c, "new", "built")
  /\ armed' = [armed EXCEPT ![c] = TRUE]
  /\ left' = [left EXCEPT ![c] = MaxPosts]
  /\ UNCHANGED <<tableVars, posted, cqes, events, threadVars, exited>>

\* data without the event_data of c.
Freed(c) == [m \in Chunks |-> IF data[m] = c THEN None ELSE data[m]]

\* on_connect: add_event_fd, up to and with store_event.  malloc may return
\* what was freed, whether or not the table still points to it.
StoreEvent(c) ==
  LET index == find_first_empty_bit(event_bitmap)
  IN /\ Owner(c, "built", "stored")
     /\ \E m \in Chunks :
          /\ data[m] = None
          /\ data' = [data EXCEPT ![m] = c]
          /\ event_map' = [event_map EXCEPT ![index] = m]
     /\ event_bitmap' = [event_bitmap EXCEPT ![index] = 1]
     /\ UNCHANGED <<watched, workVars, threadVars, exited>>

EpollAdd(c) ==
  /\ Owner(c, "stored", "open")
  /\ watched' = watched \cup {c}
  /\ UNCHANGED <<event_bitmap, event_map, data, workVars, threadVars, exited>>

\* The event_data is freed and stays in the table; on_connect goes on.
EpollAddFails(c) ==
  /\ AddMayFail /\ Owner(c, "stored", "open")
  /\ data' = Freed(c)
  /\ UNCHANGED <<event_bitmap, event_map, watched, workVars, threadVars, exited>>

\* on_disconnect and rdma_disconnect, which flushes what is posted.
Disconnect(c) ==
  /\ Ending # "any" => posted[c] = 0 /\ cqes[c] = 0
  /\ Ending = "idle" => events[c] = 0 /\ ~Contains(batch, c)
  /\ Owner(c, "open", "flushing")
  /\ UNCHANGED <<tableVars, workVars, threadVars, exited>>

DestroyQp(c) ==
  /\ Owner(c, "flushing", "noqp")
  /\ posted' = [posted EXCEPT ![c] = 0]
  /\ \E n \in {0, cqes[c]} : cqes' = [cqes EXCEPT ![c] = n]
  /\ UNCHANGED <<tableVars, left, armed, events, threadVars, exited>>

\* ibv_destroy_cq drops the events of the channel and waits for an event
\* that was taken from it to be acknowledged.
DestroyCq(c) ==
  /\ Owner(c, "noqp", "nocq")
  /\ ~(thread = "ack" /\ Head(batch) = c)
  /\ cqes' = [cqes EXCEPT ![c] = 0]
  /\ armed' = [armed EXCEPT ![c] = FALSE]
  /\ events' = [events EXCEPT ![c] = 0]
  /\ UNCHANGED <<tableVars, left, posted, threadVars, exited>>

\* Mutant: the channel stays watched.
EpollDel_Forgotten(c) ==
  /\ Owner(c, "nocq", "unwatched")
  /\ UNCHANGED <<tableVars, workVars, threadVars, exited>>

\* del_event_fd: EPOLL_CTL_DEL fails for a channel that is not watched, and
\* then the library exits.
EpollDel(c) ==
  /\ Owner(c, "nocq", "unwatched")
  /\ watched' = watched \ {c}
  /\ exited' = (c \notin watched)
  /\ UNCHANGED <<event_bitmap, event_map, data, workVars, threadVars>>

\* The entries whose event_data has the channel of c.
Entries(c) == {i \in Slots : event_map[i] # None /\ data[event_map[i]] = c}

\* Mutant: the slot is not given back.
FreeEvent_Kept(c) ==
  /\ Owner(c, "unwatched", "new")
  /\ data' = Freed(c)
  /\ UNCHANGED <<event_bitmap, event_map, watched, workVars, threadVars, exited>>

\* free_event, ibv_destroy_comp_channel and the rest of destroy_connection.
\* The first match may be an entry EpollAddFails left behind, if malloc reused
\* its memory for c: then the entry of c itself is left behind.  Memory that
\* is free, or holds something else, is taken not to match.
FreeEvent(c) ==
  LET index == LowestOf(Entries(c))
  IN /\ Owner(c, "unwatched", "new")
     /\ event_bitmap' = [event_bitmap EXCEPT ![index] = 0]
     /\ event_map' = [event_map EXCEPT ![index] = None]
     /\ data' = Freed(c)
     /\ UNCHANGED <<watched, workVars, threadVars, exited>>
-----------------------------------------------------------------------------
(***************************************************************************)
(* Requests: posted by any thread, completed by the adapter, which writes  *)
(* an event to the channel of a CQ that is armed.                          *)
(***************************************************************************)
Post(c) ==
  /\ ~exited /\ pc[c] \in {"built", "stored", "open"} /\ left[c] > 0
  /\ left' = [left EXCEPT ![c] = @ - 1]
  /\ posted' = [posted EXCEPT ![c] = @ + 1]
  /\ UNCHANGED <<tableVars, pc, cqes, armed, events, threadVars, exited>>

HcaCompletes(c) ==
  /\ ~exited /\ posted[c] > 0
  /\ posted' = [posted EXCEPT ![c] = @ - 1]
  /\ cqes' = [cqes EXCEPT ![c] = @ + 1]
  /\ events' = [events EXCEPT ![c] = IF armed[c] THEN @ + 1 ELSE @]
  /\ armed' = [armed EXCEPT ![c] = FALSE]
  /\ UNCHANGED <<tableVars, pc, left, threadVars, exited>>
-----------------------------------------------------------------------------
(***************************************************************************)
(* The reactor thread.                                                     *)
(***************************************************************************)
Thread(from, to) ==
  /\ ~exited /\ thread = from /\ thread' = to
  /\ UNCHANGED <<tableVars, pc, left, posted, agent, exited>>

Running ==
  /\ Thread("start", "wait")
  /\ stop' = FALSE
  /\ UNCHANGED <<batch, cqes, armed, events>>

Ready == {c \in watched : events[c] > 0}

\* epoll_wait returns all that is ready, in any order.
EpollWait ==
  /\ Thread("wait", "handle")
  /\ Ready # {}
  /\ batch' \in SetToSeqs(Ready)
  /\ UNCHANGED <<stop, cqes, armed, events>>

\* event_data_ptr->event_handler(event_data_ptr->data_ptr)
Handle ==
  /\ Thread("handle", HandlerSteps[1])
  /\ UNCHANGED <<stop, batch, cqes, armed, events>>

\* The handler is through with step; after the last one, the next event.
Completed(step) ==
  LET last == step = Last(HandlerSteps)
      at == CHOOSE i \in DOMAIN HandlerSteps : HandlerSteps[i] = step
  IN /\ Thread(step, IF ~last THEN HandlerSteps[at + 1]
                     ELSE IF Len(batch) = 1 THEN "test" ELSE "handle")
     /\ batch' = IF last THEN Tail(batch) ELSE batch
     /\ UNCHANGED stop

\* Mutant: the event is not taken from the channel.
GetCqEvent_Skipped ==
  /\ Completed("get")
  /\ UNCHANGED <<events, cqes, armed>>

\* ibv_get_cq_event blocks while the channel has no event.
GetCqEvent ==
  LET c == Head(batch)
  IN /\ Completed("get")
     /\ events[c] > 0
     /\ events' = [events EXCEPT ![c] = @ - 1]
     /\ UNCHANGED <<cqes, armed>>

AckCqEvent ==
  /\ Completed("ack")
  /\ UNCHANGED <<cqes, armed, events>>

ReqNotify ==
  /\ Completed("arm")
  /\ armed' = [armed EXCEPT ![Head(batch)] = TRUE]
  /\ UNCHANGED <<cqes, events>>

\* poll_cq_once, and the callback.
PollCompletion ==
  LET c == Head(batch)
  IN /\ Thread("drain", "drain")
     /\ cqes[c] > 0
     /\ cqes' = [cqes EXCEPT ![c] = @ - 1]
     /\ UNCHANGED <<stop, batch, armed, events>>

PollEmpty ==
  /\ Completed("drain")
  /\ cqes[Head(batch)] = 0
  /\ UNCHANGED <<cqes, armed, events>>

TestStop ==
  /\ Thread("test", IF stop THEN "ended" ELSE "wait")
  /\ UNCHANGED <<stop, batch, cqes, armed, events>>
-----------------------------------------------------------------------------
(***************************************************************************)
(* destroy_agent: destroy_reactor sets stop, frees the table and closes    *)
(* epoll_fd; then the reactor itself is freed.  Nothing wakes the thread.  *)
(***************************************************************************)
StopReactor ==
  /\ ~exited /\ agent = "live" /\ \A c \in Conns : pc[c] = "new"
  /\ Ending = "idle" => thread = "wait"
  /\ agent' = "stopping" /\ stop' = TRUE
  /\ UNCHANGED <<tableVars, pc, workVars, thread, batch, exited>>

FreeReactor ==
  /\ ~exited /\ agent = "stopping"
  /\ agent' = "gone"
  /\ data' = [m \in Chunks |->
               IF \E i \in Slots : event_bitmap[i] = 1 /\ event_map[i] = m THEN None
                                                                         ELSE data[m]]
  /\ UNCHANGED <<event_bitmap, event_map, watched, pc, workVars, thread, batch,
                 stop, exited>>
-----------------------------------------------------------------------------
OwnerStep(c) ==
  \/ BuildCqChannel(c) \/ StoreEvent(c) \/ EpollAdd(c) \/ EpollAddFails(c)
  \/ Disconnect(c) \/ DestroyQp(c) \/ DestroyCq(c) \/ EpollDel(c) \/ FreeEvent(c)

RunReactor ==
  \/ Running \/ EpollWait \/ Handle \/ GetCqEvent \/ AckCqEvent \/ ReqNotify
  \/ PollCompletion \/ PollEmpty \/ TestStop

Next ==
  \/ \E c \in Conns : OwnerStep(c) \/ Post(c) \/ HcaCompletes(c)
  \/ RunReactor
  \/ StopReactor \/ FreeReactor

Spec == Init /\ [][Next]_vars

\* The thread runs; nobody has to open, end or use a connection.
FairSpec == Spec /\ WF_vars(RunReactor)
-----------------------------------------------------------------------------
(***************************************************************************)
(* Properties.                                                             *)
(***************************************************************************)
HasData(c) == \E m \in Chunks : data[m] = c

\* The connection the thread handles exists: its event_data until the
\* handler is called, its context and CQ until the handler returns
\* (reactor.c 55-56, 82-95; connection.c 425-437, 590-598).
HandledIsLive ==
  /\ thread \in {"handle", "get"} => HasData(Head(batch))
  /\ thread \in {"handle", "get", "ack", "arm", "drain"} =>
       pc[Head(batch)] \in {"open", "flushing", "noqp"}

\* Moreover the thread does not run once the reactor is freed: it sleeps for
\* good, or has ended (reactor.c 28-37, 49-61; agent.c 37-43).
UsesLiveMemory ==
  HandledIsLive /\ (agent = "gone" => thread \in {"wait", "ended"})

\* What epoll_wait returns exists when it returns: connections whose CQ is
\* not destroyed, with the event_data it points to.  No end of a connection
\* leaves its channel, or an event of its CQ, in epoll for the connection
\* that comes next (reactor.c 52-56, 131-137; connection.c 585-598).
BatchBeginsLive ==
  [][thread = "wait" /\ thread' = "handle" =>
       \A c \in ToSet(batch') : HasData(c) /\ pc[c] \in {"open", "flushing", "noqp"}]_vars

\* The registration of a connection failed, and on_connect went on.
AddFailed ==
  \E c \in Conns \ watched : pc[c] \in {"open", "flushing", "noqp", "nocq"}

OnTheirWay ==
  {c \in Conns : pc[c] \in {"stored", "open", "flushing", "noqp", "nocq", "unwatched"}}

\* del_event_fd finds the event_data of every watched channel in the table,
\* and no slot is lost or given back twice, also when registrations fail; as
\* long as none did, the entries are those of the connections on their way
\* (reactor.c 71-95, 97-129).
WatchedAreStored ==
  /\ \A c \in watched : Entries(c) # {}
  /\ \A i \in Slots : event_bitmap[i] = 1 <=> event_map[i] # None
  /\ Cardinality({i \in Slots : event_map[i] # None}) = Cardinality(OnTheirWay)
  /\ exited \/ AddFailed \/ \A c \in OnTheirWay : Cardinality(Entries(c)) = 1

\* No completion is forgotten: whatever order completions, events, arming
\* and polling come in, a completion of an open connection is polled
\* (connection.c 78-79, 433-436).
CompletionsPolled ==
  \A c \in Conns :
    (c \in watched /\ cqes[c] > 0) ~> (exited \/ c \notin watched \/ cqes[c] = 0)
=============================================================================
