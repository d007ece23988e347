------------------------------ MODULE PingPong ------------------------------
(***************************************************************************)
(* The round trips of example/sr_latency.c over one connection, to its     *)
(* end.  The client's thread posts a send and spins until the answer has   *)
(* come; the server's poller answers from its completion callback; after   *)
(* the last round the client disconnects and both ends are destroyed, each *)
(* against its own poller.  Numbering and posting are one step here, for   *)
(* each queue has a single poster (WorkRequests splits them).              *)
(***************************************************************************)
EXTENDS Naturals, Sequences

CONSTANTS
  Rounds,     \* REQUEST_NUM
  ReadOnce    \* does the build read stopped once, before the wait loop?
              \* gcc -O2, the Makefile's choice, does

ASSUME RoundsAssumption == Rounds \in Nat \ {0} /\ ReadOnce \in BOOLEAN

VARIABLES
  owner,           \* the thread of each end that uses the connection
  todo,            \* the steps of destroy_connection it still has to do
  poller,          \* where the poller of each end is
  wc,              \* the completion it is handling
  running, stopped,
  last_send,
  last_compl,      \* per end and queue: last_send_compl, last_recv_compl
  recvs,           \* the receives posted, oldest first
  sends,           \* the sends posted and not completed
  wire,            \* messages on their way to an end
  cq,
  qp

vars == <<owner, todo, poller, wc, running, stopped, last_send, last_compl, recvs,
          sends, wire, cq, qp>>
ownerVars == <<owner, todo>>
pollerVars == <<poller, wc, running, stopped, last_compl>>
hcaVars == <<last_send, recvs, sends, wire, cq, qp>>

End == {"client", "server"}
Peer(e) == IF e = "client" THEN "server" ELSE "client"
Queue == {"send", "recv"}
Completion == [q : Queue, id : 1 .. Rounds, status : {"success", "error"}]
NoCompletion == [q |-> "send", id |-> 1, status |-> "error"]

\* Mutants: the pre-posting loop ends one short, or runs once too often.
Preposted_OneShort == [i \in 1 .. Rounds - 1 |-> i]
Preposted_OneMore == [i \in 1 .. Rounds + 1 |-> i]

\* app_on_pre_connect_cb posts all the receives of the run.
Preposted == [i \in 1 .. Rounds |-> i]

\* Mutant: the owner destroys the connection without telling the poller.
DestroySteps_NoStop == <<"qp", "wait", "free">>

\* destroy_connection, as far as the poller and the queue pair see it.
DestroySteps == <<"stop", "qp", "wait", "free">>

TypeOK ==
  /\ owner \in [End -> {"ready", "spin", "done", "serving", "destroying",
                      "stuck", "gone"}]
  /\ todo \in [End -> Seq({"stop", "qp", "wait", "free"})]
  /\ poller \in [End -> {"created", "entered", "poll", "update", "callback", "test",
                         "stop", "ended"}]
  /\ wc \in [End -> Completion]
  /\ running \in [End -> BOOLEAN] /\ stopped \in [End -> BOOLEAN]
  /\ last_send \in [End -> 0 .. Rounds]
  /\ last_compl \in [End -> [Queue -> 0 .. Rounds]]
  /\ recvs \in [End -> Seq(1 .. Rounds)] /\ sends \in [End -> Seq(1 .. Rounds)]
  /\ wire \in [End -> Seq(1 .. Rounds)]
  /\ cq \in [End -> Seq(Completion)]
  /\ qp \in [End -> {"rts", "error", "none"}]

\* The connection is made: both callbacks have run app_on_pre_connect_cb and
\* both pollers were created.
Init ==
  /\ owner = [e \in End |-> IF e = "client" THEN "ready" ELSE "serving"]
  /\ todo = [e \in End |-> <<>>]
  /\ poller = [e \in End |-> "created"]
  /\ wc = [e \in End |-> NoCompletion]
  /\ running = [e \in End |-> FALSE] /\ stopped = [e \in End |-> FALSE]
  /\ last_send = [e \in End |-> 0]
  /\ last_compl = [e \in End |-> [q \in Queue |-> 0]]
  /\ recvs = [e \in End |-> Preposted]
  /\ sends = [e \in End |-> <<>>] /\ wire = [e \in End |-> <<>>]
  /\ cq = [e \in End |-> <<>>]
  /\ qp = [e \in End |-> "rts"]
-----------------------------------------------------------------------------
\* post_send_async: a number, and a message to the peer.
PostSend(e) ==
  /\ qp[e] # "none"
  /\ last_send' = [last_send EXCEPT ![e] = @ + 1]
  /\ sends' = [sends EXCEPT ![e] = Append(@, last_send'[e])]
  /\ wire' = [wire EXCEPT ![Peer(e)] = Append(@, last_send'[e])]
  /\ UNCHANGED <<recvs, cq, qp>>

(***************************************************************************)
(* The client's thread, in app_on_connect_cb.                              *)
(***************************************************************************)
PostRequest ==
  /\ owner["client"] = "ready"
  /\ PostSend("client")
  /\ owner' = [owner EXCEPT !["client"] = "spin"]
  /\ UNCHANGED <<todo, pollerVars>>

\* Mutant: the client waits for one answer less.
Answered_OneLess == last_send["client"] <= last_compl["client"]["recv"] + 1

\* spin_till_completion(ctx, i + 1, 0) compares its number with
\* last_recv_compl; i + 1 is the number of the send.
Answered == last_send["client"] <= last_compl["client"]["recv"]

AwaitAnswer ==
  /\ owner["client"] = "spin" /\ Answered
  /\ owner' = [owner EXCEPT !["client"] = IF last_send["client"] = Rounds
                                          THEN "done" ELSE "ready"]
  /\ UNCHANGED <<todo, pollerVars, hcaVars>>

\* on_disconnect: rdma_disconnect flushes the queue pair of the end that calls
\* it, and tells the peer.
StartDestroy(e) ==
  /\ owner' = [owner EXCEPT ![e] = "destroying"]
  /\ todo' = [todo EXCEPT ![e] = DestroySteps]
  /\ qp' = [qp EXCEPT ![e] = "error"]
  /\ UNCHANGED <<pollerVars, last_send, recvs, sends, wire, cq>>

\* Mutant: the last answer is not waited for.
Disconnect_Early ==
  /\ owner["client"] \in {"spin", "done"} /\ last_send["client"] = Rounds
  /\ StartDestroy("client")

Disconnect ==
  /\ owner["client"] = "done"
  /\ StartDestroy("client")

\* DISCONNECTED reaches the server's event loop.
HandleDisconnected ==
  /\ qp["client"] # "rts" /\ owner["server"] = "serving"
  /\ StartDestroy("server")
-----------------------------------------------------------------------------
AtStep(e, step) == owner[e] = "destroying" /\ todo[e] # <<>> /\ Head(todo[e]) = step

DestroyStep(e, step) ==
  /\ AtStep(e, step)
  /\ todo' = [todo EXCEPT ![e] = Tail(@)]

StopPoller(e) ==
  /\ DestroyStep(e, "stop")
  /\ running' = [running EXCEPT ![e] = FALSE]
  /\ UNCHANGED <<owner, poller, wc, stopped, last_compl, hcaVars>>

\* Nothing of the queue pair completes any more.
DestroyQp(e) ==
  /\ DestroyStep(e, "qp")
  /\ qp' = [qp EXCEPT ![e] = "none"]
  /\ sends' = [sends EXCEPT ![e] = <<>>]
  /\ wire' = [wire EXCEPT ![e] = <<>>]
  /\ UNCHANGED <<owner, pollerVars, last_send, recvs, cq>>

\* A build that reads stopped once stays in the loop when it finds it 0.
AwaitStopped(e) ==
  /\ \/ stopped[e] /\ DestroyStep(e, "wait") /\ UNCHANGED owner
     \/ /\ ReadOnce /\ ~stopped[e] /\ AtStep(e, "wait")
        /\ owner' = [owner EXCEPT ![e] = "stuck"]
        /\ UNCHANGED todo
  /\ UNCHANGED <<pollerVars, hcaVars>>

FreeConnection(e) ==
  /\ DestroyStep(e, "free")
  /\ owner' = [owner EXCEPT ![e] = "gone"]
  /\ UNCHANGED <<pollerVars, hcaVars>>
-----------------------------------------------------------------------------
(***************************************************************************)
(* The pollers.                                                            *)
(***************************************************************************)
PollerMoves(e, from, to) ==
  /\ poller[e] = from
  /\ poller' = [poller EXCEPT ![e] = to]
  /\ UNCHANGED ownerVars

SetRunning(e) ==
  /\ PollerMoves(e, "created", "entered")
  /\ running' = [running EXCEPT ![e] = TRUE]
  /\ UNCHANGED <<wc, stopped, last_compl, hcaVars>>

ClearStopped(e) ==
  /\ PollerMoves(e, "entered", "poll")
  /\ stopped' = [stopped EXCEPT ![e] = FALSE]
  /\ UNCHANGED <<wc, running, last_compl, hcaVars>>

\* poll_cq_once polls until the CQ is empty and only logs failures.
PollCq(e) ==
  /\ PollerMoves(e, "poll", IF cq[e] = <<>> THEN "test"
                            ELSE IF Head(cq[e]).status = "success" THEN "update"
                            ELSE "poll")
  /\ IF cq[e] = <<>> THEN UNCHANGED <<wc, cq>>
     ELSE /\ wc' = [wc EXCEPT ![e] = Head(cq[e])]
          /\ cq' = [cq EXCEPT ![e] = Tail(@)]
  /\ UNCHANGED <<running, stopped, last_compl, last_send, recvs, sends, wire, qp>>

UpdateCompletions(e) ==
  /\ PollerMoves(e, "update", "callback")
  /\ last_compl' = [last_compl EXCEPT ![e][wc[e].q] = wc[e].id]
  /\ UNCHANGED <<wc, running, stopped, hcaVars>>

\* app_on_complete_cb: the server answers a receive, everything else is
\* ignored.
Answers(e) == e = "server" /\ wc[e].q = "recv"

Callback(e) ==
  /\ PollerMoves(e, "callback", "poll")
  /\ IF Answers(e) THEN PostSend(e) ELSE UNCHANGED hcaVars
  /\ UNCHANGED <<wc, running, stopped, last_compl>>

TestRunning(e) ==
  /\ PollerMoves(e, "test", IF running[e] THEN "poll" ELSE "stop")
  /\ UNCHANGED <<wc, running, stopped, last_compl, hcaVars>>

SetStopped(e) ==
  /\ PollerMoves(e, "stop", "ended")
  /\ stopped' = [stopped EXCEPT ![e] = TRUE]
  /\ UNCHANGED <<wc, running, last_compl, hcaVars>>
-----------------------------------------------------------------------------
(***************************************************************************)
(* The adapters.                                                           *)
(***************************************************************************)
Complete(e, q, id) ==
  cq' = [cq EXCEPT ![e] = Append(@, [q |-> q, id |-> id,
                     status |-> IF qp[e] = "rts" THEN "success" ELSE "error"])]

\* A message takes the oldest receive of the end it reaches.
Receive(e) ==
  /\ wire[e] # <<>> /\ recvs[e] # <<>> /\ qp[e] = "rts"
  /\ wire' = [wire EXCEPT ![e] = Tail(@)]
  /\ recvs' = [recvs EXCEPT ![e] = Tail(@)]
  /\ Complete(e, "recv", Head(recvs[e]))
  /\ UNCHANGED <<ownerVars, pollerVars, last_send, sends, qp>>

\* A send completes when the peer has acknowledged it, maybe long after the
\* answer came, or is flushed.
CompleteSend(e) ==
  /\ sends[e] # <<>>
  /\ qp[e] = "error" \/ Len(sends[e]) > Len(wire[Peer(e)])
  /\ sends' = [sends EXCEPT ![e] = Tail(@)]
  /\ Complete(e, "send", Head(sends[e]))
  /\ UNCHANGED <<ownerVars, pollerVars, last_send, recvs, wire, qp>>
-----------------------------------------------------------------------------
OwnerSteps(e) ==
  \/ e = "client" /\ (PostRequest \/ AwaitAnswer \/ Disconnect)
  \/ e = "server" /\ HandleDisconnected
  \/ StopPoller(e) \/ DestroyQp(e) \/ AwaitStopped(e) \/ FreeConnection(e)

PollerSteps(e) ==
  \/ SetRunning(e) \/ ClearStopped(e) \/ PollCq(e) \/ UpdateCompletions(e)
  \/ Callback(e) \/ TestRunning(e) \/ SetStopped(e)

Next == \E e \in End : OwnerSteps(e) \/ PollerSteps(e) \/ Receive(e) \/ CompleteSend(e)

\* Every thread runs and messages arrive; nothing is said of acknowledgements.
Fairness ==
  \A e \in End : WF_vars(OwnerSteps(e)) /\ WF_vars(PollerSteps(e)) /\ WF_vars(Receive(e))

Spec == Init /\ [][Next]_vars
FairSpec == Spec /\ Fairness
-----------------------------------------------------------------------------
(***************************************************************************)
(* Properties.                                                             *)
(***************************************************************************)
\* The round trips are in step: a request only after the answer before it,
\* one answer for each request (sr_latency.c 74-77, 98-105).
Trips == INSTANCE RoundTrips WITH
  asked <- last_send["client"], answered <- last_send["server"],
  got <- last_compl["client"]["recv"]
RoundTripsInStep == Trips!Spec

\* A message never waits for a receive: enough were posted before the
\* connection was made (sr_latency.c 59-61).
ReceiverReady == \A e \in End : wire[e] # <<>> => recvs[e] # <<>>

\* The callback never answers on a queue pair that is gone: when the client
\* disconnects the server has posted its last answer (sr_latency.c 99-105,
\* connection.c 581-583).
AnswersOnLiveQp ==
  \A e \in End : poller[e] = "callback" /\ Answers(e) => qp[e] = "rts"

\* All rounds are made, both pollers end, and both owners are through their
\* teardown, but for one whose build reads stopped once and was before its
\* poller (sr_latency.c 74-90, connection.c 327-334, 587-589).
Through(e) == owner[e] = "gone" \/ (ReadOnce /\ owner[e] = "stuck")
RoundsEnd ==
  <>(/\ last_compl["client"]["recv"] = Rounds
     /\ \A e \in End : poller[e] = "ended" /\ Through(e))
=============================================================================
