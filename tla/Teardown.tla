------------------------------ MODULE Teardown ------------------------------
(***************************************************************************)
(* The life of one connection in polling mode as its two threads see it:   *)
(* the owner, which sets it up, runs its events and destroys it            *)
(* (setup_connection, rdma_event_loop, disconnect, destroy_connection),    *)
(* and the poller, the detached thread of poll_cq_loop.  They meet in two  *)
(* plain ints of the context, running and stopped.                         *)
(***************************************************************************)
EXTENDS Naturals, Sequences

CONSTANTS
  MaxPosted,      \* bound: work requests outstanding
  Answering,      \* kinds of on_complete_cb: does it post requests?
  DrainFirst,     \* does the owner of a connection whose callback posts end
                  \* it only when no more requests will succeed?
  ReadOnce        \* does the build read stopped once, before the wait loop?
                  \* gcc -O2, the Makefile's choice, does

ASSUME TeardownAssumption ==
  /\ MaxPosted \in Nat \ {0}
  /\ Answering \subseteq BOOLEAN
  /\ {DrainFirst, ReadOnce} \subseteq BOOLEAN

VARIABLES
  answers,   \* the kind of this connection's callback, fixed
  owner,     \* where the owner is, see Stage
  todo,      \* the steps of destroy_connection still to do
  live,      \* the objects that exist
  state,     \* ctx->state
  running, stopped,
  poller,    \* where the poller is
  posted,    \* requests the queue pair has not completed
  cqes,      \* completions not polled
  qp_error,  \* rdma_disconnect has moved the queue pair to error
  crashed    \* a request was posted on a queue pair that is gone

vars == <<answers, owner, todo, live, state, running, stopped, poller, posted, cqes,
          qp_error, crashed>>

Stage == {"new", "polled", "built", "ready", "terminated", "destroying",
          "stuck", "gone"}

Object == {"id", "ctx", "channel", "cq", "pd", "qp", "mr"}

\* Mutants: the owner waits before it tells the poller to stop, or after it
\* destroyed the CQ.
DestroySteps_WaitFirst ==
  <<"wait", "stop", "qp", "cq", "channel", "mr", "pd", "id", "ctx">>
DestroySteps_WaitLate ==
  <<"stop", "qp", "cq", "wait", "channel", "mr", "pd", "id", "ctx">>

\* destroy_connection, after its test of the state.  The address handle of
\* a multicast sender goes with the queue pair.
DestroySteps ==
  <<"stop", "qp", "wait", "cq", "channel", "mr", "pd", "id", "ctx">>

TypeOK ==
  /\ answers \in BOOLEAN
  /\ owner \in Stage
  /\ todo \in Seq({"stop", "wait"} \cup Object)
  /\ live \subseteq Object
  /\ state \in {"TERMINATED", "READY"}
  /\ running \in BOOLEAN /\ stopped \in BOOLEAN
  /\ poller \in {"none", "created", "entered", "poll", "complete", "callback",
                 "posting", "test", "stop", "ended"}
  /\ posted \in 0 .. MaxPosted
  /\ cqes \in Seq({"success", "error"})
  /\ qp_error \in BOOLEAN /\ crashed \in BOOLEAN

\* init_connection: calloc leaves the flags and the state at 0.
Init ==
  /\ answers \in Answering
  /\ owner = "new" /\ todo = <<>> /\ live = {"id", "ctx"}
  /\ state = "TERMINATED" /\ running = FALSE /\ stopped = FALSE
  /\ poller = "none"
  /\ posted = 0 /\ cqes = <<>> /\ qp_error = FALSE /\ crashed = FALSE
-----------------------------------------------------------------------------
(***************************************************************************)
(* The owner.                                                              *)
(***************************************************************************)
OwnerMoves(from, to) ==
  ~crashed /\ owner = from /\ owner' = to /\ UNCHANGED answers

\* build_cq_channel starts the poller before the queue pair exists.
BuildCqChannel ==
  /\ OwnerMoves("new", "polled")
  /\ live' = live \cup {"channel", "cq"}
  /\ poller' = "created"
  /\ UNCHANGED <<todo, state, running, stopped, posted, cqes, qp_error, crashed>>

\* build_qp, and on_pre_connect, where the application registers memory and
\* posts its first receives.
BuildQp ==
  /\ OwnerMoves("polled", "built")
  /\ live' = live \cup {"pd", "qp", "mr"}
  /\ posted' \in 0 .. MaxPosted
  /\ UNCHANGED <<todo, state, running, stopped, poller, cqes, qp_error, crashed>>

\* ESTABLISHED: on_connect.
Connect ==
  /\ OwnerMoves("built", "ready")
  /\ state' = "READY"
  /\ UNCHANGED <<todo, live, running, stopped, poller, posted, cqes, qp_error,
                 crashed>>

\* The poller has set both flags; it is about to read running, or will.
InLoop == poller \notin {"none", "created", "entered"}

\* A connection whose callback posts ends when nothing is in hand, and what is
\* still posted are receives no message will arrive for.
Drained == cqes = <<>> /\ poller \in {"poll", "test"}
PeerSilent ==
  /\ answers /\ DrainFirst /\ ~qp_error
  /\ owner \in {"terminated", "destroying", "stuck", "gone"}

\* on_disconnect, after DISCONNECTED or in a call of disconnect or
\* leave_multicast_group.
OnDisconnect ==
  /\ OwnerMoves("ready", "terminated")
  /\ answers /\ DrainFirst => Drained
  /\ state' = "TERMINATED"
  /\ UNCHANGED <<todo, live, running, stopped, poller, posted, cqes, qp_error,
                 crashed>>

\* rdma_disconnect flushes the queue pair.
RdmaDisconnect ==
  /\ OwnerMoves("terminated", "destroying")
  /\ qp_error' = TRUE
  /\ todo' = DestroySteps
  /\ UNCHANGED <<live, state, running, stopped, poller, posted, cqes, crashed>>

\* A member of a multicast group only leaves the group: its queue pair works
\* until it is destroyed.
LeaveMulticast ==
  /\ OwnerMoves("terminated", "destroying")
  /\ todo' = DestroySteps
  /\ UNCHANGED <<live, state, running, stopped, poller, posted, cqes, qp_error, crashed>>

NextStep(step) ==
  /\ ~crashed /\ owner = "destroying" /\ todo # <<>> /\ Head(todo) = step
  /\ UNCHANGED answers

\* running = 0, after free_sockfd.
StopPoller ==
  /\ NextStep("stop")
  /\ running' = FALSE
  /\ todo' = Tail(todo)
  /\ UNCHANGED <<owner, live, state, stopped, poller, posted, cqes, qp_error,
                 crashed>>

\* rdma_destroy_qp drops what is posted; completions already in the CQ may
\* be dropped with it.
DestroyQp ==
  /\ NextStep("qp")
  /\ live' = live \ {"qp"}
  /\ posted' = 0
  /\ cqes' \in {cqes, <<>>}
  /\ todo' = Tail(todo)
  /\ UNCHANGED <<owner, state, running, stopped, poller, qp_error, crashed>>

\* while (poll_mode == POLLING && !stopped) {}: stopped is not volatile and
\* the body is empty, so an optimising build makes the load once, and the
\* owner that finds it 0 stays there.
AwaitStopped ==
  /\ NextStep("wait")
  /\ IF stopped THEN todo' = Tail(todo) /\ UNCHANGED owner
                ELSE /\ ReadOnce
                     /\ owner' = "stuck"
                     /\ UNCHANGED todo
  /\ UNCHANGED <<live, state, running, stopped, poller, posted, cqes, qp_error,
                 crashed>>

DestroyObject(o) ==
  /\ NextStep(o)
  /\ live' = live \ {o}
  /\ todo' = Tail(todo)
  /\ owner' = IF todo' = <<>> THEN "gone" ELSE "destroying"
  /\ UNCHANGED <<state, running, stopped, poller, posted, cqes, qp_error, crashed>>
-----------------------------------------------------------------------------
(***************************************************************************)
(* The poller.                                                             *)
(***************************************************************************)
PollerMoves(from, to) ==
  /\ ~crashed /\ poller = from /\ poller' = to
  /\ UNCHANGED <<answers, owner, todo, live, state, qp_error>>

\* running = 1, then stopped = 0: the thread sets the flags itself, when it
\* gets to run.
SetRunning ==
  /\ PollerMoves("created", "entered")
  /\ running' = TRUE
  /\ UNCHANGED <<stopped, posted, cqes, crashed>>

ClearStopped ==
  /\ PollerMoves("entered", "poll")
  /\ stopped' = FALSE
  /\ UNCHANGED <<running, posted, cqes, crashed>>

\* poll_cq_once polls until the CQ is empty; errors are logged.
PollEmpty ==
  /\ cqes = <<>>
  /\ PollerMoves("poll", "test")
  /\ UNCHANGED <<running, stopped, posted, cqes, crashed>>

\* Mutant: the status is not tested.
PollCompletion_AnyStatus ==
  /\ cqes # <<>>
  /\ cqes' = Tail(cqes)
  /\ PollerMoves("poll", "complete")
  /\ UNCHANGED <<running, stopped, posted, crashed>>

PollCompletion ==
  /\ cqes # <<>>
  /\ cqes' = Tail(cqes)
  /\ PollerMoves("poll", IF Head(cqes) = "success" THEN "complete" ELSE "poll")
  /\ UNCHANGED <<running, stopped, posted, crashed>>

\* update_completions writes the context, then the callback runs.
UpdateCompletions ==
  /\ PollerMoves("complete", "callback")
  /\ UNCHANGED <<running, stopped, posted, cqes, crashed>>

CallbackReturns ==
  /\ PollerMoves("callback", "poll")
  /\ UNCHANGED <<running, stopped, posted, cqes, crashed>>

CallbackCallsPost ==
  /\ answers
  /\ PollerMoves("callback", "posting")
  /\ UNCHANGED <<running, stopped, posted, cqes, crashed>>

\* Mutant: the callback answers one completion with two requests.
PostFromCallback_Twice ==
  /\ PollerMoves("posting", "poll")
  /\ IF "qp" \in live THEN posted' = posted + 2 /\ UNCHANGED crashed
                      ELSE crashed' = TRUE /\ UNCHANGED posted
  /\ UNCHANGED <<running, stopped, cqes>>

\* ibv_post_send(ctx->id->qp, ...): rdma_destroy_qp leaves id->qp NULL.
PostFromCallback ==
  /\ PollerMoves("posting", "poll")
  /\ IF "qp" \in live THEN posted' = posted + 1 /\ UNCHANGED crashed
                      ELSE crashed' = TRUE /\ UNCHANGED posted
  /\ UNCHANGED <<running, stopped, cqes>>

TestRunning ==
  /\ PollerMoves("test", IF running THEN "poll" ELSE "stop")
  /\ UNCHANGED <<running, stopped, posted, cqes, crashed>>

SetStopped ==
  /\ PollerMoves("stop", "ended")
  /\ stopped' = TRUE
  /\ UNCHANGED <<running, posted, cqes, crashed>>
-----------------------------------------------------------------------------
\* The adapter completes a request, in error once the queue pair is flushed.
HcaCompletes ==
  /\ ~crashed /\ posted > 0 /\ "qp" \in live /\ ~PeerSilent
  /\ posted' = posted - 1
  /\ cqes' = Append(cqes, IF qp_error THEN "error" ELSE "success")
  /\ UNCHANGED <<answers, owner, todo, live, state, running, stopped, poller,
                 qp_error, crashed>>

OwnerSetsUp == BuildCqChannel \/ BuildQp \/ Connect

OwnerEnds ==
  \/ OnDisconnect \/ RdmaDisconnect \/ LeaveMulticast
  \/ StopPoller \/ DestroyQp \/ AwaitStopped
  \/ \E o \in Object \ {"qp"} : DestroyObject(o)

PollerSteps ==
  \/ SetRunning \/ ClearStopped \/ PollEmpty \/ PollCompletion
  \/ UpdateCompletions \/ CallbackReturns \/ CallbackCallsPost
  \/ PostFromCallback \/ TestRunning \/ SetStopped

Next == OwnerSetsUp \/ OwnerEnds \/ PollerSteps \/ HcaCompletes

\* Both threads run; the connection need not be made, nor end by itself.
Fairness ==
  /\ WF_vars(OwnerEnds /\ owner # "ready")
  /\ WF_vars(PollerSteps)

Spec == Init /\ [][Next]_vars
FairSpec == Spec /\ Fairness
-----------------------------------------------------------------------------
(***************************************************************************)
(* Properties.                                                             *)
(***************************************************************************)
\* The poller never runs without its CQ and its context: destroy_connection
\* gives them up only after the poller's last access (connection.c 585-590,
\* 630, 412-417).
PollerOutlived ==
  poller \notin {"none", "ended"} => {"cq", "channel", "ctx"} \subseteq live

\* A callback of the poller posts on a queue pair that exists
\* (connection.c 391, 581-583).
CallbackUsesLiveQp == poller = "posting" => "qp" \in live

\* What a teardown achieves in every build: a poller that was in its loop when
\* the connection ended stops, although completions still come and callbacks
\* post, and the owner is through, unless its build reads stopped once and it
\* was before the poller (connection.c 387-418, 573, 587-589).
StopIsHonoured ==
  (owner = "terminated" /\ InLoop) ~>
    (poller = "ended" /\ (owner = "gone" \/ (ReadOnce /\ owner = "stuck")))

\* A connection that ends is destroyed: the poller is told to stop and stops
\* (common.h 156, connection.c 573, 587-589).
TeardownCompletes == (owner = "terminated") ~> (owner = "gone")
=============================================================================
