---------------------------- MODULE WorkRequests ----------------------------
(***************************************************************************)
(* The life of a work request on one connection in polling mode: the verbs *)
(* of verbs_wrap.c number it and post it, the adapter executes the queue,  *)
(* the poller thread (poll_cq_loop of connection.c) takes its completion   *)
(* off the CQ, records the number and runs the application's callback, and *)
(* a synchronous caller spins until the recorded number reaches its own.   *)
(*                                                                         *)
(* Callers are application threads and the poller itself, whose callback   *)
(* may post.  The adapter (the Hca actions) is the library's environment.  *)
(***************************************************************************)
EXTENDS Counters, Sequences

CONSTANTS
  Threads,    \* application threads that use the connection
  Poller,     \* the thread of poll_cq_loop
  Calls,      \* caller -> the calls <<verb, sync>> it makes
  Chains,     \* chains given to post_wr: sequences of "is it signaled?"
  SendDepth,  \* MAX_SEND_WR
  RecvDepth,  \* MAX_RECV_WR
  CqDepth,    \* MAX_CQE
  Window,     \* bound: requests an application leaves uncompleted per queue
  CanFail     \* may the adapter complete a request with an error?

Callers == Threads \cup {Poller}
Queue == {"send", "recv"}
Verb == {"send", "rw", "atomic", "noop", "unsignaled_noop", "wr",
         "recv", "bad_recv", "await_send", "await_recv"}
Depth(q) == IF q = "send" THEN SendDepth ELSE RecvDepth

ASSUME CallsAssumption ==
  /\ Poller \notin Threads
  /\ Calls \in [Callers -> SUBSET (Verb \X BOOLEAN)]
  /\ Chains \subseteq Seq(BOOLEAN) \ {<<>>}
ASSUME DepthAssumption ==
  /\ SendDepth \in Nat /\ RecvDepth \in Nat /\ CqDepth \in Nat
  /\ Window \in Nat \ {0}
\* An application never has so many requests out that the oldest one
\* looks newer than the newest.
ASSUME WindowAssumption == Window < HalfRange
ASSUME CanFailAssumption == CanFail \in BOOLEAN

VARIABLES
  last,          \* queue -> last_send / last_recv: the last number given out
  last_compl,    \* queue -> last_send_compl / last_recv_compl
  call,          \* caller -> where it is in its call, see Call
  wc,            \* the completion the poller is handling
  wq,            \* queue -> requests posted and not yet executed
  used,          \* queue -> slots of the queue that are taken
  held,          \* queue -> of these, executed ones no CQE will release alone
  cq,            \* completions not yet polled
  qp,            \* "rts", or "err" once a request failed
  overrun,       \* the CQ overflowed
  exited,        \* the library called exit()
  failed         \* queue -> numbers of the requests that completed in error

callVars == <<last, call>>
hcaVars == <<wq, used, held, cq, qp, overrun, failed>>
vars == <<last, last_compl, wc, exited, callVars, hcaVars>>

WorkRequest == [id : Counter, signaled : BOOLEAN]
Completion == [q : Queue, id : Counter, status : {"success", "error"},
               slots : Nat \ {0}]
\* idle: between calls;  poll, update, callback: the poller's own loop;
\* post: about to post wrs;  spin: in spin_till_completion.
Call ==
  {c \in [pc : {"idle", "poll", "update", "callback", "post", "spin"},
          q : Queue, wrs : Seq(WorkRequest), sync : BOOLEAN] :
     /\ Len(c.wrs) <= Window
     /\ c.pc \in {"post", "spin"} => c.wrs # <<>>}

TypeOK ==
  /\ last \in [Queue -> Counter]
  /\ last_compl \in [Queue -> Counter]
  /\ call \in [Callers -> Call]
  /\ wc \in Completion
  /\ wq \in [Queue -> Seq(WorkRequest)]
  /\ used \in [Queue -> Int]
  /\ held \in [Queue -> Nat]
  /\ cq \in Seq(Completion)
  /\ qp \in {"rts", "err"}
  /\ overrun \in BOOLEAN
  /\ exited \in BOOLEAN
  /\ failed \in [Queue -> SUBSET Counter]

NotInCall(pc) ==
  [pc |-> pc, q |-> "send", wrs |-> <<>>, sync |-> FALSE]
NoCompletion == [q |-> "send", id |-> 0, status |-> "success", slots |-> 1]

Init ==
  /\ last = [q \in Queue |-> 0]
  /\ last_compl = [q \in Queue |-> 0]
  /\ call = [t \in Callers |-> NotInCall(IF t = Poller THEN "poll" ELSE "idle")]
  /\ wc = NoCompletion
  /\ wq = [q \in Queue |-> <<>>]
  /\ used = [q \in Queue |-> 0]
  /\ held = [q \in Queue |-> 0]
  /\ cq = <<>>
  /\ qp = "rts"
  /\ overrun = FALSE
  /\ exited = FALSE
  /\ failed = [q \in Queue |-> {}]
-----------------------------------------------------------------------------
(***************************************************************************)
(* Calls.  Every post_*_async takes its number with an atomic increment    *)
(* and then, in a step of its own, posts; a post_*_sync also spins.  The   *)
(* verbs differ in the opcode and the addresses only, which nothing here   *)
(* depends on.  n_posted_ops is left out: nothing reads it.                *)
(***************************************************************************)
\* A caller between calls: the poller calls from inside on_complete_cb only,
\* and at most once per callback (a bound).
Free(t) == call[t].pc = IF t = Poller THEN "callback" ELSE "idle"

Returned(t) == NotInCall(IF t = Poller THEN "poll" ELSE "idle")

May(t, verb, sync) == ~exited /\ Free(t) /\ <<verb, sync>> \in Calls[t]

Uncompleted(q) == CounterSub(last[q], last_compl[q])

\* Number the requests of a call and enter it.
Enter(t, q, signaled, sync) ==
  LET n == Len(signaled)
  IN /\ Uncompleted(q) + n <= Window
     /\ last' = [last EXCEPT ![q] = CounterAdd(@, n)]
     /\ call' = [call EXCEPT ![t] =
          [pc |-> "post",
           q |-> q,
           wrs |-> [i \in 1 .. n |-> [id |-> CounterAdd(last[q], i),
                                      signaled |-> signaled[i]]],
           sync |-> sync]]
     /\ UNCHANGED <<last_compl, wc, exited, hcaVars>>

PostSend(t, sync) ==
  May(t, "send", sync) /\ Enter(t, "send", <<TRUE>>, sync)

PostReadWrite(t, sync) ==
  May(t, "rw", sync) /\ Enter(t, "send", <<TRUE>>, sync)

PostAtomic(t, sync) ==
  May(t, "atomic", sync) /\ Enter(t, "send", <<TRUE>>, sync)

PostNoop(t, sync) ==
  May(t, "noop", sync) /\ Enter(t, "send", <<TRUE>>, sync)

\* A synchronous no-op that asks for no completion is refused with exit().
PostUnsignaledNoop(t, sync) ==
  /\ May(t, "unsignaled_noop", sync)
  /\ IF sync
     THEN /\ exited' = TRUE
          /\ UNCHANGED <<last_compl, wc, callVars, hcaVars>>
     ELSE Enter(t, "send", <<FALSE>>, sync)

PostRecv(t, sync) ==
  May(t, "recv", sync) /\ Enter(t, "recv", <<TRUE>>, sync)

\* num_sge 0 or above MAX_RECV_SGE: the number is taken, then exit().
PostBadRecv(t, sync) ==
  /\ May(t, "bad_recv", sync)
  /\ last' = [last EXCEPT !["recv"] = CounterAdd(@, 1)]
  /\ exited' = TRUE
  /\ UNCHANGED <<last_compl, call, wc, hcaVars>>

\* post_wr leaves the numbers to its caller; this caller draws them with
\* next_wr_id, the only ones a later spin can mean anything for.
PostWr(t, chain, sync) ==
  May(t, "wr", sync) /\ Enter(t, "send", chain, sync)

\* spin_till_completion called by the application, for a request that was
\* posted and will have a completion.
Await(t, q) ==
  /\ May(t, IF q = "send" THEN "await_send" ELSE "await_recv", TRUE)
  /\ \E i \in 1 .. Len(wq[q]) :
       /\ wq[q][i].signaled
       /\ call' = [call EXCEPT ![t] =
            [pc |-> "spin", q |-> q, wrs |-> <<wq[q][i]>>, sync |-> TRUE]]
  /\ UNCHANGED <<last, last_compl, wc, exited, hcaVars>>

\* ibv_post_send / ibv_post_recv: a full queue refuses the request, and then
\* the library exits.
Post(t) ==
  LET c == call[t]
      n == Len(c.wrs)
  IN /\ ~exited /\ c.pc = "post"
     /\ IF used[c.q] + n > Depth(c.q)
        THEN exited' = TRUE /\ UNCHANGED <<call, wq, used>>
        ELSE /\ wq' = [wq EXCEPT ![c.q] = @ \o c.wrs]
             /\ used' = [used EXCEPT ![c.q] = @ + n]
             /\ call' = [call EXCEPT ![t] =
                           IF c.sync THEN [c EXCEPT !.pc = "spin"]
                                     ELSE Returned(t)]
             /\ UNCHANGED exited
     /\ UNCHANGED <<last, last_compl, wc, held, cq, qp, overrun, failed>>

\* Mutant: wait for a number past the request's own.
Released_Past(t) ==
  LET c == call[t]
  IN cmp_counters(c.wrs[Len(c.wrs)].id, last_compl[c.q]) < 0

\* The condition that ends spin_till_completion.
Released(t) ==
  LET c == call[t]
  IN cmp_counters(c.wrs[Len(c.wrs)].id, last_compl[c.q]) <= 0

SpinReturn(t) ==
  /\ ~exited /\ call[t].pc = "spin"
  /\ Released(t)
  /\ call' = [call EXCEPT ![t] = Returned(t)]
  /\ UNCHANGED <<last, last_compl, wc, exited, hcaVars>>
-----------------------------------------------------------------------------
(***************************************************************************)
(* The poller: poll_cq_once.  Polling a completion also releases the queue *)
(* slots up to its request.  One that is not a success is only logged.     *)
(***************************************************************************)
\* Mutant: the status is not tested.
PollCq_AnyStatus ==
  /\ ~exited /\ call[Poller].pc = "poll" /\ cq # <<>>
  /\ cq' = Tail(cq)
  /\ used' = [used EXCEPT ![Head(cq).q] = @ - Head(cq).slots]
  /\ wc' = Head(cq)
  /\ call' = [call EXCEPT ![Poller].pc = "update"]
  /\ UNCHANGED <<last, last_compl, exited,
                 wq, held, qp, overrun, failed>>

PollCq ==
  /\ ~exited /\ call[Poller].pc = "poll" /\ cq # <<>>
  /\ cq' = Tail(cq)
  /\ used' = [used EXCEPT ![Head(cq).q] = @ - Head(cq).slots]
  /\ IF Head(cq).status = "success"
     THEN /\ wc' = Head(cq)
          /\ call' = [call EXCEPT ![Poller].pc = "update"]
     ELSE UNCHANGED <<wc, call>>
  /\ UNCHANGED <<last, last_compl, exited,
                 wq, held, qp, overrun, failed>>

\* Mutant: one counter for both queues.
UpdateCompletions_OneCounter ==
  /\ ~exited /\ call[Poller].pc = "update"
  /\ last_compl' = [last_compl EXCEPT !["send"] = wc.id]
  /\ call' = [call EXCEPT ![Poller].pc = "callback"]
  /\ wc' = NoCompletion
  /\ UNCHANGED <<last, exited, hcaVars>>

\* Mutant: the case of a receive falls through to the one of a send.
UpdateCompletions_FallThrough ==
  /\ ~exited /\ call[Poller].pc = "update"
  /\ last_compl' = [q \in Queue |-> IF q \in {"send", wc.q} THEN wc.id
                                                           ELSE last_compl[q]]
  /\ call' = [call EXCEPT ![Poller].pc = "callback"]
  /\ wc' = NoCompletion
  /\ UNCHANGED <<last, exited, hcaVars>>

\* The callback that follows sees wc too; it does not depend on it here.
UpdateCompletions ==
  /\ ~exited /\ call[Poller].pc = "update"
  /\ last_compl' = [last_compl EXCEPT ![wc.q] = wc.id]
  /\ call' = [call EXCEPT ![Poller].pc = "callback"]
  /\ wc' = NoCompletion
  /\ UNCHANGED <<last, exited, hcaVars>>

\* on_complete without a post, or with no callback registered.
CallbackReturns ==
  /\ ~exited /\ call[Poller].pc = "callback"
  /\ call' = [call EXCEPT ![Poller] = NotInCall("poll")]
  /\ UNCHANGED <<last, last_compl, wc, exited, hcaVars>>
-----------------------------------------------------------------------------
(***************************************************************************)
(* The adapter executes each queue in order, and writes a completion for a *)
(* request that is signaled or fails.  A failure moves the queue pair to   *)
(* the error state, where every request is flushed with an error.  A       *)
(* completion that finds the CQ full breaks the CQ and the queue pair.     *)
(***************************************************************************)
Execute(q, status) ==
  LET wr == Head(wq[q])
      visible == wr.signaled \/ status = "error"
      lost == visible /\ Len(cq) >= CqDepth
  IN /\ ~exited /\ ~overrun /\ wq[q] # <<>>
     /\ IF status = "success" THEN qp = "rts" ELSE qp = "err" \/ CanFail
     /\ wq' = [wq EXCEPT ![q] = Tail(@)]
     /\ held' = [held EXCEPT ![q] = IF visible THEN 0 ELSE @ + 1]
     /\ cq' = IF visible /\ ~lost
              THEN Append(cq, [q |-> q, id |-> wr.id, status |-> status,
                               slots |-> held[q] + 1])
              ELSE cq
     /\ overrun' = lost
     /\ qp' = IF lost \/ status = "error" THEN "err" ELSE qp
     /\ failed' = IF status = "error"
                  THEN [failed EXCEPT ![q] = @ \cup {wr.id}] ELSE failed
     /\ UNCHANGED <<last_compl, wc, exited, used, callVars>>

\* A receive completes when the peer's message arrives.
HcaSend(status) == Execute("send", status)
HcaRecv(status) == Execute("recv", status)
-----------------------------------------------------------------------------
StartCall(t) ==
  \/ \E sync \in BOOLEAN :
       \/ PostSend(t, sync) \/ PostReadWrite(t, sync) \/ PostAtomic(t, sync)
       \/ PostNoop(t, sync) \/ PostUnsignaledNoop(t, sync)
       \/ PostRecv(t, sync) \/ PostBadRecv(t, sync)
       \/ \E chain \in Chains : PostWr(t, chain, sync)
  \/ \E q \in Queue : Await(t, q)

ContinueCall(t) == Post(t) \/ SpinReturn(t)

PollerLoop == PollCq \/ UpdateCompletions \/ CallbackReturns

Hca == \E status \in {"success", "error"} : HcaSend(status) \/ HcaRecv(status)

Next ==
  \/ \E t \in Callers : StartCall(t) \/ ContinueCall(t)
  \/ PollerLoop
  \/ Hca

\* Threads that are in the library run, the poller runs, and the adapter
\* executes what was posted on the send queue.  Nobody has to make a call,
\* and no message has to arrive.
Fairness ==
  /\ \A t \in Callers : WF_vars(ContinueCall(t))
  /\ WF_vars(PollerLoop)
  /\ WF_vars(\E status \in {"success", "error"} : HcaSend(status))

Spec == Init /\ [][Next]_vars
FairSpec == Spec /\ Fairness
-----------------------------------------------------------------------------
(***************************************************************************)
(* Properties.                                                             *)
(***************************************************************************)
NumbersIn(s) == {s[i].id : i \in 1 .. Len(s)}

\* Requests of queue q the adapter or the poller still has to deal with.
Unfinished(q) ==
  NumbersIn(wq[q])
    \cup {cq[i].id : i \in {j \in 1 .. Len(cq) : cq[j].q = q}}

\* A caller leaves spin_till_completion only when the poller has taken the
\* successful completion of the request it waits for: the counters, which
\* wrap around, never release it while that request is queued, executed but
\* unpolled, or failed (connection.c 374-385).
SyncReturnsAfterCompletion ==
  \A t \in Callers :
    call[t].pc = "spin" /\ Released(t) =>
      LET c == call[t]
      IN c.wrs[Len(c.wrs)].id \notin Unfinished(c.q) \cup failed[c.q]

\* The number of the last completion never moves back, across wraparound
\* (update_completions, connection.c 360-372, simply overwrites it).
CompletionsAdvance ==
  [][\A q \in Queue : cmp_counters(last_compl'[q], last_compl[q]) >= 0]_vars

\* A request that failed is never counted as completed: its number stays
\* ahead of the recorded one for good (connection.c 389-400).
FailuresNeverCountAsDone ==
  \A q \in Queue : \A id \in failed[q] : cmp_counters(id, last_compl[q]) > 0

\* An application that bounds its uncompleted requests by the window neither
\* overflows the CQ nor has a request refused, which would end the process
\* (connection.c 71, verbs_wrap.c 29-33).
WithinCapacity == ~overrun /\ ~exited

\* Every synchronous post on the send queue returns (connection.c 382-384).
SyncSendReturns ==
  \A t \in Callers :
    (call[t].pc = "spin" /\ call[t].q = "send") ~> (call[t].pc # "spin")
=============================================================================
