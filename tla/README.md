# librdma: a TLA+ verification project

librdma wraps `librdmacm` and `libibverbs`: an application creates an *agent*
(server or client), opens *connections* on it, posts work requests on them and
is told about completions.  The library runs threads of its own and shares plain
memory between them, so most of what can go wrong is a matter of order.  This
directory holds TLA+ models of that behaviour, TLC runs that check it on small
instances, and TLAPS proofs of theorems about it for every instance.

## 1. Inventory

| Component | Source | State | Operations | Talks to |
|---|---|---|---|---|
| Work requests | `verbs_wrap.c`, `verbs_wrap.h`, `connection.c` 360-402, 516-524 | `last_send`, `last_recv`, `last_send_compl`, `last_recv_compl`, `n_posted_ops` | the `post_*_async` and `post_*_sync` verbs, `spin_till_completion`, `poll_cq_once`, `update_completions` | adapter (queues, CQ), poller thread, application callback |
| Counters and bitmaps | `utils.h` 67-131 | none (pure) | `cmp_counters`, `find_first_empty_bit`, ... | work requests, table, reactor |
| Connection table | `agent.c` 48-253, `connection.c` 439-514 | `conn_bitmap`, `conn_fd_map`, `mu` | `get_sockfd`, `free_sockfd`, registration, `get_connection`, searches | every thread of the agent |
| CQ poller and teardown | `connection.c` 56-146, 404-419, 560-633 | `running`, `stopped`, `state`, the verbs objects | `setup_connection`, `poll_cq_loop`, `on_disconnect`, `destroy_connection` | owner thread, poller thread, adapter |
| Reactor | `reactor.c`, `connection.c` 424-437 | `event_bitmap`, `event_map`, `stop`, epoll set | `run_reactor`, `add_event_fd`, `del_event_fd`, `destroy_reactor`, `comp_channel_handler` | owner threads, kernel (epoll, completion channels) |
| CM event loop, agent life cycle | `connection.c` 223-358, `agent.c` 255-357 | CM ids, event channels, `state` | `rdma_event_loop`, `client_loop`, `server_loop`, `start_connect`, `disconnect` | CM of both peers |
| Memory regions, private data | `mr.c`, `connection.c` 165-221 | `local_mr`, `remote_mr` | `register_mr`, `build_private_data`, `update_remote_mr` | CM event loop |
| Shared receive queue | `connection.c` 148-163, `verbs_wrap.c` 160-186, `example/srq.c` | SRQ, shared CQ | `build_srq`, `post_srq_recv` | event loop and poller of the listener, every connection of the server |
| Ping-pong examples | `example/sr_latency.c` | the receives posted in advance | client thread, server's completion callback | work requests and teardown, at both ends |
| Multicast (UD) | `agent.c` 119-189, 255-272 | address handle, `remote_qpn` | join, leave | CM event loop |
| Helpers | `log.c`, `timer.c`, `utils.c`, `message.h`, `uthash.h` | none shared | formatting, clocks, random numbers | - |

What makes it hard, and what has to be right, per component:

* **Work requests.**  Numbers are taken atomically, requests are posted in a
  separate step; completions overwrite a counter that wraps around; a blocking
  verb trusts a comparison by sign.  It must return only when its own request is
  done, it must return, a failure must never pass for success, and neither a
  queue nor the CQ may overflow.
* **Connection table.**  The mutex covers `get_sockfd` and `free_sockfd` only.
  A descriptor must have one owner, the map must never name a freed context,
  readers must find what is open.
* **Poller and teardown.**  A detached thread uses the CQ and the context the
  owner frees; the handshake is two plain ints.  The poller must be gone before
  its objects, and the teardown must end.
* **Reactor.**  One thread handles batches of events of connections other
  threads destroy; arming and polling a CQ race with completions.  No completion
  may be forgotten, nothing freed may be used, the thread must not block.
* **Shared receive queue.**  Receives of all connections lie in one queue and are
  used in posting order, whoever posted them; the callback looks the connection
  up by the number of the receive, without the mutex, while the event loop
  registers and destroys connections.  A message must find a receive whose buffer
  is there, and its callback that buffer.
* **Ping-pong.**  Two machines, four threads and two adapters take turns, and all
  receives are posted before the first message.  A round must not begin before the
  last one ended, no message may wait for a receive, and the last answer must be
  out before its queue pair is destroyed.
* **CM event loop.**  Two peers and up to three threads drive one connection;
  nothing may destroy it twice, and it must be destroyed on both sides.

## 2. Modules

| Module | Models | State and actions in the code |
|---|---|---|
| `Counters` | `cmp_counters`, the arithmetic of `uint32_t` numbers | pure |
| `Bitmaps` | `find_first_empty_bit` and `..._and_set` | pure |
| `WorkRequests` | one connection in polling mode | `last`, `last_compl` per queue; `call` is each caller's place in a verb, `wq`, `used`, `held`, `cq`, `qp` the adapter |
| `FdAllocator` | the abstract promise of the connection table | descriptor per connection; open the lowest free, close |
| `ConnTable` | the connection table | `pc` is each owner's place in registration or `free_sockfd`, `reader` each reader's in `get_connection`, a search, `get_connection_ip` or `get_connection_qpn` |
| `Teardown` | one polling connection, owner against poller | `todo` holds the steps of `destroy_connection` still to do, `live` the objects that exist |
| `Reactor` | the reactor thread against the owners of connections | `pc` is each owner's place in set-up or teardown, `thread` and `batch` the reactor's |
| `EventLoop` | the CM event loops of a server and its clients, a client's channel in the reactor, regions and private data, and the CM between the processes | `todo` holds the steps left of a handler or of `disconnect`; `ctx`, `built`, `cm` are the state of each end; `net` holds the CM's messages |
| `SharedReceive` | a listener with a shared receive queue, its event loop and poller, and the clients of `example/srq.c` | `loop` holds the steps left of the event loop's handler, `poller` its place in the callback; `srq`, `srq_cq`, `buffer` are the queue, its CQ and what the buffers hold |
| `RoundTrips` | the abstract promise of a ping-pong | three counts: asked, answered, got |
| `PingPong` | `example/sr_latency.c` from the connection to the destruction of both ends | per end: `owner`, `todo`, `poller`, the poller's flags, the queues; `wire` holds the messages |
| `WorkRequestsMC`, `ConnTableMC`, `ReactorMC`, `EventLoopMC` | instances for TLC | who calls what |
| `BitmapsProofs`, `WorkRequestsProofs`, `ConnTableProofs`, `ReactorProofs`, `EventLoopProofs`, `TeardownProofs`, `SharedReceiveProofs`, `PingPongProofs` | theorems | see section 4 |

`WorkRequests` uses `Counters`; `ConnTable`, `Reactor` and `SharedReceive` use
`Bitmaps`; `ConnTable` instantiates `FdAllocator` and `PingPong` `RoundTrips` under
a refinement mapping.  `SharedReceive` composes the table, the event loop, the
receives and the poller of one server; `PingPong` composes the work requests and
the teardown of two ends.  An action is
one step another thread can be interleaved with: a call that only touches local
data is folded into its neighbour, two writes to shared memory are two actions
(`SetBit` and `SetMap`, `SetRunning` and `ClearStopped`).  Operators whose name
ends in `_Something` and that a comment calls a mutant are plausible bugs of the
operator next to them, kept to show that the property they are aimed at
notices; no specification uses them.

What the models abstract: addresses, lengths, keys, opcodes and payloads
(nothing depends on them); log output; `n_posted_ops`, which nothing reads; the
resource failures at set-up that simply exit.  `exit()` inside the library is
the variable `exited`, after which nothing happens.  The adapter, the kernel and
the applications are modelled by what the code relies on and marked external.

### Decisions that need a reason

* *post_wr.*  `post_wr_async` leaves the numbers to its caller; the model's
  caller draws them with `next_wr_id`, the only numbers a later spin can mean.
* *Window.*  A comparison by sign is meaningless for numbers half the range
  apart, and a full queue makes the library exit, so an application that is
  correct bounds what it has outstanding.  `Window` is that bound, `Wrap` stands
  for 2^32 and `WindowAssumption` ties them.
* *wait loop.*  `while (... && !ctx->stopped) {}` reads a plain `int`.  `Teardown`
  and `PingPong` have both outcomes of a build: the load repeated
  (`ReadOnce = FALSE`) and the load made once (`TRUE`), which is what gcc makes of
  it at the `-O2` of the Makefile (line 12).  `TdLife` and `PpRounds` take the
  latter: an owner that comes to the loop before its poller has stopped is
  `"stuck"` there for good.  What they claim is therefore what that build keeps:
  the poller stops, and an owner that is not stuck is through.
* *CM.*  `EventLoop` models what `librdmacm` and the kernel promise and the code
  relies on: messages arrive in any order and each once, both sides learn of a
  disconnection, a process that ends rejects what it was connecting and
  disconnects what was connected, a request that cannot be answered is reported.
  Every client is a process of its own, and uses `start_connect`, `client_loop`
  or `join_multicast_group`; only clients call `disconnect`, as `agent.h` 67 says.
* *Private data* has room for `DataRoom` regions and a connection registers up to
  `MaxMr`; with more than it has room for, `build_private_data` writes past the
  array, and what the peer learns is then any value.  Only the server sends any.
  `ServerAsks` and `ClientsAsk` say how many regions the applications ask for: a
  number within the room, or more than the library allows at all, which exits.
  `ElConnect` has a different number for each client, so that a client that knows
  another connection's number is noticed.  The comment at `common.h` 25-27, "keep this
  value at 2 or lower for now", keeps within the room; the value 5 does not.
  It is read after `rdma_ack_cm_event` freed the event.  With glibc the block
  waits in the thread's own cache with this part of it untouched, and the model
  reads it so.
* *Queries.*  `get_connection_ip` looks a connection up and then reads the map
  again.  Nothing in the library keeps the connection in between: with
  `KeepsOpen = TRUE` the application asks only about connections it keeps open,
  and that can answer: `get_connection_ip` needs the IPv4 address of a peer, which
  a listener has not, and `get_connection_qpn` the queue pair that the event loop
  creates later.  A query that finds neither goes through a null pointer and ends
  the process.  Descriptor `MAX_CONNECTIONS` passes the range test; what
  `get_connection` then reads is the padding behind the array, which `calloc` has
  cleared, so it answers NULL.
* *Freed event_data.*  When `EPOLL_CTL_ADD` fails the table keeps a pointer to freed
  memory.  `malloc` may hand that memory out for the next `event_data` (`Chunks` is
  the memory there is), and then `free_event` may find the wrong entry first: the
  model has both.  Memory that is free, or that somebody else uses, is taken not to
  hold the descriptor that is looked for.
* *Shared receives.*  With `Patient = TRUE` a client of `SharedReceive` ends after
  its own message was handled and its own receive used.  `example/srq.c` has a
  pause of 2 ms before `disconnect` and no knowledge of either: the model has no
  time, and `Patient` stands for a pause that is long enough.  What `SrLife` shows
  is what else could go wrong then.  The poller takes a completion,
  reads the bit, reads the map and uses the buffer in four steps.
* *Ping-pong.*  Numbering and posting are one step in `PingPong`: every queue
  there has one poster, and `WorkRequests` has the two steps.  A send may be
  acknowledged long after the answer to it came.
* *get_sockfd* is one step: other writers of the bitmap hold the same mutex or
  set a bit that is set already.

## 3. Runs

| Run | Question | Instance and why it is enough |
|---|---|---|
| `WrQueues` | Do blocking verbs return exactly when their request is done; is nothing refused or dropped? | A thread per queue, all verbs in both flavours, unsignaled requests and chains; `Wrap = 7`, so the numbers wrap around many times, and the window of 2 is the largest a half range of 3 allows |
| `WrEcho` | Is a failed or flushed request ever taken for done? | A thread that posts receives, a callback that answers, failures at any request, the calls the library refuses |
| `CtTable` | Does the table implement the allocator; do readers find what is open; does a query read through the right context? | Three connections for two descriptors, so the table fills, descriptors are reused and `get_sockfd` exits; one reader (readers change nothing) making every kind of search and query, for descriptors in and out of range and for `MAX_CONNECTIONS` itself |
| `TdLife` | Does the poller stop before its objects go; does it stop when it is told to? | The build of the Makefile; up to 3 requests outstanding at any moment of the teardown, callbacks that post and ones that do not |
| `RxLoop` | Is every completion polled; does epoll point to live connections only; is a slot of the table ever lost? | Two connections, so batches of two in both orders, set up again after they are destroyed; up to 3 requests each; `EPOLL_CTL_ADD` may fail, and two pieces of memory are reused in any order |
| `ElConnect` | Is a connection complete when it is ready, driven by one thread, and given up on both sides? | Two clients of every pair of kinds (clients differ only in their number of regions, on which no guard depends, so each pair once), so that the server serves one while the other comes, goes or dies; every resolution may fail, a registration may be refused, the server registers one region for one client and three for the other |
| `SrLife` | Does a message always find a receive, and its callback the buffer it is in? | Four clients for the two descriptors the listener leaves, so descriptors are reused and the table also fills up |
| `PpRounds` | Do the rounds stay in step and end; is a receive always posted; do both pollers stop? | The build of the Makefile; three rounds: a first, a last and one between; the theorems hold for every number |
| `WrSharedQueue` | violation: a blocking verb is released by another thread's completion | two threads, one blocking verb each |
| `WrFailedHang` | violation: a blocking verb whose request fails never returns | one thread |
| `TdLostStop` | violation: the stop of a connection that ends early is overwritten by its poller's start | one request |
| `RxFreed` | violation: a connection is freed under its handler | as `RxLoop`, connections ended when their work is done |

What the passing runs assume, and the violations show to be necessary: at most
one thread posts on a queue of a connection (`WrSharedQueue`); nobody waits for a
request that may fail (`WrFailedHang`); a connection whose callback posts ends
when no more requests will succeed (`DrainFirst`; without it `CallbackUsesLiveQp`
fails in `TdLife`); a client that disconnects by itself uses
`start_connect` (with `"loop"` in `Disconnecting`, `ThreadsUseLive` fails in
`ElConnect`: the loop goes on with a channel that is gone); an application asks
about connections it keeps open and that can answer (`KeepsOpen`); a client of a
shared queue waits long enough
(`Patient`; without it `ReceiveReady` fails in `SrLife`); in reactor mode a connection ends while the reactor
has nothing to do with it (`RxFreed`), and the agent while the reactor sleeps (with
`Ending = "done"` `UsesLiveMemory` fails); `BatchBeginsLive` and `WatchedAreStored`
need neither.  That a poller stops is claimed where it had entered its loop when
the connection ended (`StopIsHonoured`; `TdLostStop` shows the other case).  `RxLoop` also bounds the requests of a
connection's life: a connection whose requests never pause would keep
`poll_cq_once` in its loop and starve the others.

Deadlock is checked in `WrQueues` and switched off elsewhere, where the system
may stop: the library exits (`WrEcho`, `CtTable`, `RxLoop`, `ElConnect`), the
connection is gone (`TdLife`, `ElConnect`, `PpRounds`), no client comes any more
(`SrLife`), or the reactor sleeps for good after `destroy_reactor`.

Fairness.  `WrQueues`: threads inside the library run, the poller runs, and the
adapter executes the send queue; nobody has to make a call and no message has to
arrive, so blocking receives are not claimed to return.  `TdLife`: both threads
run; no connection has to be made or to end by itself.  `RxLoop`: the reactor
thread runs.  `ElConnect`: threads run and the CM delivers; nobody has to
connect, disconnect or die.  `SrLife`: the server's two threads run and messages
are delivered; no client has to connect, send or end.  `PpRounds`: all four
threads run and messages arrive; sends need not be acknowledged.  All of it is weak fairness: a runnable thread is scheduled.

Model-checked properties, by module:

* `WorkRequests`: `SyncReturnsAfterCompletion`, `CompletionsAdvance`,
  `FailuresNeverCountAsDone`, `WithinCapacity`, `SyncSendReturns`
* `ConnTable`: `MapNamesOwner`, `SearchFindsOpen`, `UsesOpenContext`,
  `AllocatorSpec`
* `Teardown`: `PollerOutlived`, `CallbackUsesLiveQp`, `StopIsHonoured`,
  `TeardownCompletes` (violated)
* `Reactor`: `UsesLiveMemory`, `WatchedAreStored`, `BatchBeginsLive`,
  `CompletionsPolled`, `HandledIsLive` (violated)
* `EventLoop`: `ThreadsUseLive`, `ReadyMeansPrepared`, `PeerLossNoticed`
* `SharedReceive`: `ReceiveReady`, `HandlerFindsBuffer`, `EveryMessageHandled`
* `PingPong`: `ReceiverReady`, `AnswersOnLiveQp`, `RoundTripsInStep`, `RoundsEnd`

## 4. Theorems

Proved by TLAPS for every value of the constants that meets the named
assumptions:

* `BitmapsProofs`: `FirstEmptyBit`.  The finder returns the lowest clear bit, or
  -1 exactly if there is none.
* `WorkRequestsProofs`, the counters: `CompareWithinHalfRange`.  For two numbers
  less than half the range apart `cmp_counters` tells which is ahead, across
  wraparound.
* `WorkRequestsProofs`, the types: `TypeCorrect` (`Spec => []TypeOK`).  One lemma
  per action; the step that matters is `Enter`, where the window keeps a chain
  short enough for its numbers to be counters.
* `WorkRequestsProofs`, the completions: `SyncReturnsHolds`,
  `CompletionsAdvanceHolds`, `FailuresHold`, all under `OnePoster`, that each queue has one caller that posts on it
  (`WrSharedQueue` shows that the first fails without it; `WrQueues` and
  `WrEcho` are instances of it).  The properties speak of signs of differences
  modulo `Wrap`; the invariant `OInv` measures every number by its distance from
  the recorded one.  The requests of a queue that are out (executed, on the queue,
  numbered and about to be posted) have consecutive distances up to
  `Uncompleted`, which the window keeps below half the range (`Waiting`);
  completions come in that order (`InOrder`); after a failure only failures follow
  (`FailuresLast`).  Recording a completion lowers every distance by the same
  amount (`UpdateStrict`), executing a request raises the count of executed ones by
  one (`ExecuteStrict`).  After `exit()` a number may have been taken in vain
  (`PostBadRecv`), so only `Safe` is claimed there: nothing unfinished or failed
  looks completed.
* `WorkRequestsProofs`, the capacities: `WithinCapacityHolds`, under `OnePoster` and
  `RoomyQueues`, that each queue holds a window of requests, that the CQ holds the
  two windows, and that nobody uses the two calls that leave requests the window
  does not count (a receive that fails after its number was taken, a request
  nobody learns the end of).  Requests may fail.  `CInv` adds to the
  invariant of the completions that every request whose slot is taken is not
  yet covered by a completion (`SlotsKept`, `Covers`): with their distances all
  different and at most `Uncompleted` there are no more of them than the window
  (`QueueHasRoom`, `CqHasRoom`).  The default depths of the code do not meet
  `RoomyQueues`: the CQ has 100 entries.
* `ConnTableProofs`, the table: `IInvHolds`, `MapNamesOwnerHolds`, `TableImplementsAllocator`,
  `DescriptorsExclusive`.  `MapNamesOwner` is not inductive: the map write of
  `SetMap` is safe only because a held descriptor has its bit set, no two holders
  share one, and nobody else is between the two writes of `free_sockfd` without
  the mutex.  `IInv` says so, is preserved by every action, and makes each step
  of the table a step of `FdAllocator` or a stutter.
* `ConnTableProofs`, the readers: `SearchFindsOpenHolds` and `TypeOKHolds`, whatever
  descriptors are asked for, and `UsesOpenContextHolds` for applications that ask
  about connections that can answer and that they keep open (`KeepsOpen`).
  `SearchFindsOpen` speaks of the end of a search; `RInv` adds what each call knows
  on the way: a search has every connection below the slot it has reached, a count
  is at least their number, both exactly if the table was at rest meanwhile, and a
  query has the context of the one connection it is about.  An owner's step
  disturbs a reader only by closing connections it would have had to find, or
  by noting that the table changed (`OwnerDisturbs`); the rest follows reader
  by reader from the table's own invariant, `IInv`.
* `ReactorProofs`: `WatchedAreStoredHolds` and `BatchBeginsLiveHolds` for every
  application, and `TypeOKHolds` for applications that end a connection when its
  work is done and the agent while the thread sleeps (`EndsIdle`: without it the
  thread arms a CQ that is gone, as in `RxFreed`).  `TInv` is the table: memory in use has an
  owner on its way and one only, a bit is set exactly over an entry, as many
  slots are taken as there are connections on their way, and a watched channel is
  found; `store_event` finds a slot whenever the table has one for every
  connection.  As long as no registration failed every entry points to its own
  memory (`Clean`); after one a slot may be given back through another's entry, and
  the count is what remains.  `Drained` says that a connection whose CQ is gone has
  no event, so that `epoll_wait` returns none of it even while its channel is still
  watched.  For the types, `WInv` adds the thread's side: a batch names distinct
  watched channels of open connections, each with its event until the handler took
  it (`BatchWaits`), and a connection that is not open has no request, completion,
  event or place in the batch (`QuietEnd`).
* `EventLoopProofs`: `TypeOKHolds` for every application; `ThreadsUseLiveHolds`
  under `LoopsStay`, that an application that calls `disconnect` does not go back to
  its event loop (with `"loop"` in `Disconnecting` the run `ElConnect` fails); and
  `ReadyMeansPreparedHolds` under `RegionsFit`, that the regions the server's
  application registers fit the private data (`MAX_MR` is 5, there is room for 3; more than
  `MAX_MR` is refused, so does no harm).  `GInv` says who gets which message and
  event and which steps a thread can have left (`StepsFollow`).  `LInv` adds that
  work, ids and events are about contexts that are there.  `ChannelKept`: a thread
  has its channel until it disconnects for good, and then it returns.  `PInv`
  speaks client by client of both ends and of what lies between them: nothing is
  on the way to READY before it was prepared (`MinePrepared`, `PeerPrepared`); a
  client does one thing after another until it asks (`OneAfterAnother`), nobody
  knows it before (`UnknownBefore`), its request is in one place (`RequestOnce`)
  and has no answer until the server accepted it (`NoAnswerYet`); and an answer
  carries the number of regions that the server has (`AnswersAgree`).
  `ReadyMeansPrepared` alone says nothing of a request or an answer that is still
  under way.  That dropping an id's events keeps the others, in their order, is
  proved by a least counterexample (`WithoutThins`), `Without` being a
  recursive function.
* `SharedReceiveProofs`: `TypeOKHolds` for every client, and `ReceiveReadyHolds`,
  `HandlerFindsBufferHolds` for clients that end when their message and the
  receive their connection posted were handled (`ClientsWait`).  `GInv` says that the
  event loop's handler has a connection and is at one of its steps.  `QInv` relates
  the event loop, the table, the queue, the CQ, the poller and the clients: a
  connection that posted and is not being destroyed is found under its
  descriptor (`TableInv`), its one receive is posted, completed or with the
  callback (`ReceivesOnce`), and there are as many posted as connections whose
  client has not sent (`OnePerUnsent`), so a message finds one.  That
  `rdma_destroy_qp` purges nothing then follows from the definition of the
  purge, by a least counterexample (`PurgedCq`).
* `TeardownProofs`: `TypeCorrect`, `PollerOutlivedHolds`, and, for applications
  that end a connection when its work is done (`DrainFirst`),
  `CallbackUsesLiveQpHolds`.  `PollerOutlived` is not inductive: `IInv` adds that
  whatever `destroy_connection` still has to do (`todo`) waits for `stopped`
  before it gives up a shared object, and that `stopped` is true only of a poller
  that has ended.  That requests and completions together never exceed what was
  outstanding at first (`Budget`) gives the type of `posted`; that a drained
  connection holds only flushed requests (`QuietEnd`) keeps the callback from a
  dead queue pair.  None of it needs a poller that starts in time or a build that repeats the load:
  a lost stop or a hoisted load makes the teardown hang, never the poller dangle.
* `PingPongProofs`: `TypeCorrect`, `ReceiverReadyHolds`, `AnswersOnLiveQpHolds`,
  `StaysInStep` (the refinement of `RoundTrips`) and `NeverApart`, for every number
  of rounds.  The refinement is not inductive: that the client asks again only
  after an answer rests on what lies between the two threads.  `IInv` says that
  the counts along the way of a request and its answer (asked, received, answered,
  received, got) decrease by at most one in all (`Chain`), that wires and posted
  receives agree with them (`Wires`, `Numbered`), that at most one receive is
  completed and not handled, the last one (`Pending`), and that only a client with
  all its answers disconnects, the server only after it (`Owners`).

Only model-checked: `UsesLiveMemory`, which holds by the time at which `RxLoop`
lets connections end, and the liveness properties, which are out of the
prover's reach.  Every other property of the passing runs is stated by a theorem.

## 5. Findings

Each violation run is a disagreement between the code and what a comment,
message or header says of it; `PROJECT.json` quotes the lines.  Found on the way
and not checked by a run of its own: `get_connection(agent, MAX_CONNECTIONS)`
passes the range test and reads behind the array; the wait on `stopped`, a plain
int, is compiled into one load at `-O2`, so an owner that comes before its poller
waits for ever (`"stuck"`; with `ReadOnce = TRUE` `TeardownCompletes` fails too); a
negative result of `ibv_poll_cq` is taken for a completion; `get_connection_qpn`
asks a listener, or a connection that is not set up, through a null pointer; a
client that dies
while it connects makes the server process exit; nobody reads a client's channel
after `start_connect`, so a disconnection by the server goes unnoticed;
`private_data` has room for 3 regions and `MAX_MR` is 5 (with 4 in `ServerAsks`
`ReadyMeansPrepared` fails); with two clients or more the context that
`example/srq.c` 70 finds is the one whose receive was oldest, not the sender's,
contrary to what lines 41-42 suggest; a client of that example that ends before
its own receive was used leaves one without a buffer on the shared queue; a
callback that posts while its connection is destroyed uses a queue pair that is
gone (with `DrainFirst = FALSE` `CallbackUsesLiveQp` fails), which
`example/sr_latency.c` avoids by the order of its rounds (`AnswersOnLiveQp`); `add_connection_ud`
binds an id before it creates it; a blocking verb called from a completion
callback waits for the thread it runs on; the CQ has 100 entries for two queues
of 1024; `post_recv_async` does not count in `n_posted_ops`; a failed
`EPOLL_CTL_ADD` leaves a freed `event_data` in the table, and the teardown of
that connection then exits the process; nothing wakes or joins the reactor
thread when the reactor is freed.

## 6. Not modelled

Helpers without shared state, the vendored `uthash.h`, and the examples other than
`srq.c` and `sr_latency.c`, which make one request after the other from one thread.
The destruction of a listener with a shared receive queue: `server_loop` never gets
there.  A bind address of `add_connection_ud`: it binds an id that it creates
afterwards, a null pointer whatever else happens.  `n_posted_ops`, which nothing
reads.  Calls of two threads on one connection at a time other than posting.  A CQ that
fails: `poll_cq_once` would take the negative result of `ibv_poll_cq` for a
completion.  A peer with an IPv6 address, for which `get_connection_ip` reads
through a null pointer as for a listener.

The plan for the rest:

1. `Agent`: the table composed with the event loop and with readers that keep the
   context they looked up.
