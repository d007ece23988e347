------------------------- MODULE WorkRequestsProofs -------------------------
(***************************************************************************)
(* Theorems about the counters of src/src/utils.h and about WorkRequests,  *)
(* for every modulus, queue depth, window, set of threads and set of       *)
(* calls.                                                                  *)
(***************************************************************************)
EXTENDS WorkRequests, FiniteSetTheorems, SequenceTheorems, TLAPS

-----------------------------------------------------------------------------
(***************************************************************************)
(* What the wrapping counters of src/src/utils.h guarantee for every       *)
(* modulus: arithmetic stays in range, and comparison by the sign of the   *)
(* difference is right as long as the two counters are less than half the  *)
(* range apart.                                                            *)
(***************************************************************************)
\* Both operations yield counters.
LEMMA CounterArithmetic ==
  ASSUME NEW a \in Counter, NEW b \in Counter, NEW n \in Nat, n < Wrap
  PROVE  /\ CounterAdd(a, n) \in Counter
         /\ CounterSub(a, b) \in Counter
         /\ CounterSub(CounterAdd(a, n), a) = n
BY WrapAssumption DEF Counter, CounterAdd, CounterSub

\* cmp_counters never confuses ahead and behind within half the range: the
\* promise that lets spin_till_completion work across wraparound.
THEOREM CompareWithinHalfRange ==
  ASSUME NEW a \in Counter, NEW n \in Nat, n < HalfRange
  PROVE  /\ cmp_counters(CounterAdd(a, n), a) = IF n = 0 THEN 0 ELSE 1
         /\ cmp_counters(a, CounterAdd(a, n)) = IF n = 0 THEN 0 ELSE -1
<1>1. HalfRange \in Nat /\ 2 * HalfRange <= Wrap - 1
  BY WrapAssumption DEF HalfRange
<1> QED
  BY <1>1, WrapAssumption DEF Counter, CounterAdd, CounterSub, cmp_counters

\* A caller that waits for number w is released exactly when the recorded
\* number is w or at least half the range away from it in the other sense.
LEMMA ReleaseCondition ==
  ASSUME NEW w \in Counter, NEW done \in Counter
  PROVE  cmp_counters(w, done) <= 0
           <=> (CounterSub(w, done) = 0 \/ CounterSub(w, done) >= HalfRange)
<1>1. HalfRange \in Nat /\ 2 * HalfRange <= Wrap - 1
  BY WrapAssumption DEF HalfRange
<1> QED
  BY <1>1, WrapAssumption DEF Counter, CounterSub, cmp_counters

-----------------------------------------------------------------------------
(***************************************************************************)
(* Types.                                                                  *)
(***************************************************************************)
LEMMA HalfRangeBelowWrap == HalfRange \in Nat /\ 2 * HalfRange <= Wrap - 1
BY WrapAssumption DEF HalfRange

LEMMA WindowBelowWrap == Window \in Nat /\ Window >= 1 /\ Window < Wrap
BY WindowAssumption, DepthAssumption, HalfRangeBelowWrap, WrapAssumption

LEMMA SmallCounters == 0 \in Counter /\ 1 \in Nat /\ 1 < Wrap
BY WrapAssumption DEF Counter

\* A caller between calls carries nothing.
LEMMA NotInCallType ==
  ASSUME NEW pc \in {"idle", "poll"}
  PROVE  NotInCall(pc) \in Call
BY WindowBelowWrap, SmallCounters, EmptySeq DEF NotInCall, Call, Queue

LEMMA ReturnedType == \A t : Returned(t) \in Call
BY NotInCallType DEF Returned

LEMMA InitType == Init => TypeOK
<1> SUFFICES ASSUME Init PROVE TypeOK
  OBVIOUS
<1>1. call \in [Callers -> Call]
  BY NotInCallType DEF Init
<1>2. wc \in Completion
  BY SmallCounters DEF Init, NoCompletion, Completion, Queue
<1>3. /\ last \in [Queue -> Counter] /\ last_compl \in [Queue -> Counter]
      /\ used \in [Queue -> Int] /\ held \in [Queue -> Nat]
      /\ failed \in [Queue -> SUBSET Counter]
  BY SmallCounters DEF Init
<1>4. wq \in [Queue -> Seq(WorkRequest)] /\ cq \in Seq(Completion)
  BY EmptySeq DEF Init
<1> QED
  BY <1>1, <1>2, <1>3, <1>4 DEF Init, TypeOK

\* Numbering the requests of a call: the window keeps the call short and
\* the numbers in range.
LEMMA EnterType ==
  ASSUME TypeOK, NEW t \in Callers, NEW q \in Queue,
         NEW signaled \in Seq(BOOLEAN), signaled # <<>>, NEW sync \in BOOLEAN,
         Enter(t, q, signaled, sync)
  PROVE  TypeOK'
<1> DEFINE n == Len(signaled)
           wrs == [i \in 1 .. n |-> [id |-> CounterAdd(last[q], i),
                                     signaled |-> signaled[i]]]
           new == [pc |-> "post", q |-> q, wrs |-> wrs, sync |-> sync]
<1>1. n \in Nat /\ n # 0 /\ last[q] \in Counter /\ last_compl[q] \in Counter
  BY EmptySeq DEF TypeOK
<1>2. Uncompleted(q) \in Counter
  BY <1>1, CounterArithmetic, SmallCounters DEF Uncompleted
<1>3. n <= Window
  BY <1>1, <1>2, WindowBelowWrap DEF Enter, Counter
<1>4. \A i \in 0 .. n : CounterAdd(last[q], i) \in Counter
  <2> TAKE i \in 0 .. n
  <2>1. i \in Nat /\ i < Wrap
    BY <1>1, <1>3, WindowBelowWrap, WrapAssumption
  <2> QED
    BY <1>1, <2>1, CounterArithmetic
<1>5. wrs \in Seq(WorkRequest) /\ Len(wrs) = n /\ wrs # <<>>
  <2>1. \A i \in 1 .. n : [id |-> CounterAdd(last[q], i),
                           signaled |-> signaled[i]] \in WorkRequest
    BY <1>4, ElementOfSeq DEF WorkRequest
  <2> QED
    BY <2>1, <1>1
<1>6. new \in Call
  BY SmallCounters, <1>3, <1>5 DEF Call
<1>7. last' \in [Queue -> Counter]
  BY <1>1, <1>4 DEF Enter, TypeOK
<1>8. call' \in [Callers -> Call]
  BY <1>6 DEF Enter, TypeOK
<1> QED
  BY <1>7, <1>8 DEF Enter, TypeOK, hcaVars

LEMMA PostBadRecvType ==
  ASSUME TypeOK, NEW t \in Callers, NEW sync \in BOOLEAN, PostBadRecv(t, sync)
  PROVE  TypeOK'
<1>1. CounterAdd(last["recv"], 1) \in Counter
  BY CounterArithmetic, SmallCounters DEF TypeOK, Queue
<1>2. last' \in [Queue -> Counter]
  BY <1>1 DEF PostBadRecv, TypeOK
<1> QED
  BY <1>2 DEF PostBadRecv, TypeOK, hcaVars

LEMMA AwaitType ==
  ASSUME TypeOK, NEW t \in Callers, NEW q \in Queue, Await(t, q)
  PROVE  TypeOK'
<1>1. PICK i \in 1 .. Len(wq[q]) :
        call' = [call EXCEPT ![t] =
          [pc |-> "spin", q |-> q, wrs |-> <<wq[q][i]>>, sync |-> TRUE]]
  BY DEF Await
<1>2. wq[q][i] \in WorkRequest
  BY ElementOfSeq DEF TypeOK
<1>3. [pc |-> "spin", q |-> q, wrs |-> <<wq[q][i]>>, sync |-> TRUE] \in Call
  <2>1. /\ <<wq[q][i]>> \in Seq(WorkRequest) /\ Len(<<wq[q][i]>>) = 1
        /\ <<wq[q][i]>> # <<>>
    BY <1>2
  <2> QED
    BY <2>1, SmallCounters, WindowBelowWrap DEF Call
<1>4. call' \in [Callers -> Call]
  BY <1>1, <1>3 DEF TypeOK
<1> QED
  BY <1>4 DEF Await, TypeOK, hcaVars

LEMMA PostType ==
  ASSUME TypeOK, NEW t \in Callers, Post(t)
  PROVE  TypeOK'
<1> DEFINE c == call[t]
           n == Len(c.wrs)
           spinning == [c EXCEPT !.pc = "spin"]
<1>1. /\ c \in Call /\ n \in Nat /\ c.q \in Queue
      /\ c.wrs \in Seq(WorkRequest) /\ c.pc = "post" /\ c.wrs # <<>>
  BY DEF Post, TypeOK, Call
<1>2. CASE used[c.q] + n > Depth(c.q)
  BY <1>2 DEF Post, TypeOK
<1>3. CASE ~(used[c.q] + n > Depth(c.q))
  <2>1. /\ wq' = [wq EXCEPT ![c.q] = @ \o c.wrs]
        /\ used' = [used EXCEPT ![c.q] = @ + n]
        /\ call' = [call EXCEPT ![t] = IF c.sync THEN spinning ELSE Returned(t)]
        /\ UNCHANGED exited
    BY <1>3 DEF Post
  <2>2. wq' \in [Queue -> Seq(WorkRequest)]
    BY <1>1, <2>1, ConcatProperties DEF TypeOK
  <2>3. used' \in [Queue -> Int]
    BY <1>1, <2>1 DEF TypeOK
  <2>4. spinning \in Call
    BY <1>1 DEF Call
  <2>5. call' \in [Callers -> Call]
    BY <2>1, <2>4, ReturnedType DEF TypeOK
  <2> QED
    BY <2>1, <2>2, <2>3, <2>5 DEF Post, TypeOK
<1> QED
  BY <1>2, <1>3

LEMMA SpinReturnType ==
  ASSUME TypeOK, NEW t \in Callers, SpinReturn(t)
  PROVE  TypeOK'
<1>1. call' \in [Callers -> Call]
  BY ReturnedType DEF SpinReturn, TypeOK
<1> QED
  BY <1>1 DEF SpinReturn, TypeOK, hcaVars

LEMMA StartCallType ==
  ASSUME TypeOK, NEW t \in Callers, StartCall(t)
  PROVE  TypeOK'
<1>0. \A b \in BOOLEAN : <<b>> \in Seq(BOOLEAN) /\ <<b>> # <<>>
  OBVIOUS
<1>1. CASE \E sync \in BOOLEAN :
             \/ PostSend(t, sync) \/ PostReadWrite(t, sync)
             \/ PostAtomic(t, sync) \/ PostNoop(t, sync) \/ PostRecv(t, sync)
  <2>1. PICK sync \in BOOLEAN, q \in Queue : Enter(t, q, <<TRUE>>, sync)
    BY <1>1 DEF PostSend, PostReadWrite, PostAtomic, PostNoop, PostRecv, Queue
  <2> QED
    BY <1>0, <2>1, EnterType
<1>2. CASE \E sync \in BOOLEAN : PostUnsignaledNoop(t, sync)
  <2>1. PICK sync \in BOOLEAN : PostUnsignaledNoop(t, sync)
    BY <1>2
  <2>2. CASE sync
    BY <2>1, <2>2 DEF PostUnsignaledNoop, TypeOK, callVars, hcaVars
  <2>3. CASE ~sync
    <3>1. Enter(t, "send", <<FALSE>>, sync)
      BY <2>1, <2>3 DEF PostUnsignaledNoop
    <3> QED
      BY <1>0, <3>1, EnterType DEF Queue
  <2> QED
    BY <2>2, <2>3
<1>3. CASE \E sync \in BOOLEAN : PostBadRecv(t, sync)
  BY <1>3, PostBadRecvType
<1>4. CASE \E sync \in BOOLEAN : \E chain \in Chains : PostWr(t, chain, sync)
  <2>1. PICK sync \in BOOLEAN, chain \in Chains : Enter(t, "send", chain, sync)
    BY <1>4 DEF PostWr
  <2>2. chain \in Seq(BOOLEAN) /\ chain # <<>>
    BY CallsAssumption
  <2> QED
    BY <2>1, <2>2, EnterType DEF Queue
<1>5. CASE \E q \in Queue : Await(t, q)
  BY <1>5, AwaitType
<1> QED
  BY <1>1, <1>2, <1>3, <1>4, <1>5 DEF StartCall

LEMMA PollerLoopType ==
  ASSUME TypeOK, PollerLoop
  PROVE  TypeOK'
<1>1. Poller \in Callers /\ call[Poller] \in Call
  BY DEF Callers, TypeOK
<1>2. CASE PollCq
  <2>1. cq # <<>> /\ cq \in Seq(Completion)
    BY <1>2 DEF PollCq, TypeOK
  <2>2. Head(cq) \in Completion /\ Tail(cq) \in Seq(Completion)
    BY <2>1, HeadTailProperties
  <2>3. used' \in [Queue -> Int]
    <3>1. Head(cq).q \in Queue /\ Head(cq).slots \in Nat
      BY <2>2 DEF Completion
    <3>2. used' = [used EXCEPT ![Head(cq).q] = @ - Head(cq).slots]
      BY <1>2 DEF PollCq
    <3> QED
      BY <3>1, <3>2 DEF TypeOK
  <2>4. [call[Poller] EXCEPT !.pc = "update"] \in Call
    BY <1>1 DEF Call
  <2>5. call' \in [Callers -> Call] /\ wc' \in Completion
    BY <1>1, <1>2, <2>2, <2>4 DEF PollCq, TypeOK
  <2> QED
    BY <1>2, <2>2, <2>3, <2>5 DEF PollCq, TypeOK
<1>3. CASE UpdateCompletions
  <2>1. [call[Poller] EXCEPT !.pc = "callback"] \in Call
    BY <1>1 DEF Call
  <2>2. call' \in [Callers -> Call]
    BY <1>1, <1>3, <2>1 DEF UpdateCompletions, TypeOK
  <2>3. last_compl' \in [Queue -> Counter]
    BY <1>3 DEF UpdateCompletions, TypeOK, Completion
  <2>4. wc' \in Completion
    BY <1>3, SmallCounters
       DEF UpdateCompletions, NoCompletion, Completion, Queue
  <2> QED
    BY <1>3, <2>2, <2>3, <2>4 DEF UpdateCompletions, TypeOK, hcaVars
<1>4. CASE CallbackReturns
  <2>1. call' \in [Callers -> Call]
    BY <1>4, NotInCallType DEF CallbackReturns, TypeOK
  <2> QED
    BY <1>4, <2>1 DEF CallbackReturns, TypeOK, hcaVars
<1> QED
  BY <1>2, <1>3, <1>4 DEF PollerLoop

LEMMA ExecuteType ==
  ASSUME TypeOK, NEW q \in Queue, NEW status \in {"success", "error"},
         Execute(q, status)
  PROVE  TypeOK'
<1> DEFINE wr == Head(wq[q])
           cqe == [q |-> q, id |-> wr.id, status |-> status,
                   slots |-> held[q] + 1]
<1>1. wq[q] \in Seq(WorkRequest) /\ wq[q] # <<>> /\ held[q] \in Nat
  BY DEF Execute, TypeOK
<1>2. wr \in WorkRequest /\ Tail(wq[q]) \in Seq(WorkRequest)
  BY <1>1, HeadTailProperties
<1>3. wr.id \in Counter /\ wr.signaled \in BOOLEAN
  BY <1>2 DEF WorkRequest
<1>4. cqe \in Completion
  BY <1>1, <1>3 DEF Completion
<1>5. wq' \in [Queue -> Seq(WorkRequest)]
  BY <1>2 DEF Execute, TypeOK
<1>6. held' \in [Queue -> Nat]
  BY <1>1 DEF Execute, TypeOK
<1>7. cq' \in Seq(Completion)
  <2>1. cq' = Append(cq, cqe) \/ cq' = cq
    BY DEF Execute
  <2>2. cq \in Seq(Completion)
    BY DEF TypeOK
  <2>3. Append(cq, cqe) \in Seq(Completion)
    BY <1>4, <2>2, AppendProperties
  <2> QED
    BY <2>1, <2>2, <2>3
<1>8. failed' \in [Queue -> SUBSET Counter]
  BY <1>3 DEF Execute, TypeOK
<1>9. overrun' \in BOOLEAN /\ qp' \in {"rts", "err"}
  BY DEF Execute, TypeOK
<1> QED
  BY <1>5, <1>6, <1>7, <1>8, <1>9 DEF Execute, TypeOK, callVars

\* Type correctness: in particular all numbers stay uint32_t, whatever the
\* calls, failures and overflows.
THEOREM TypeCorrect == Spec => []TypeOK
<1>1. Init => TypeOK
  BY InitType
<1>2. TypeOK /\ [Next]_vars => TypeOK'
  <2> SUFFICES ASSUME TypeOK, [Next]_vars PROVE TypeOK'
    OBVIOUS
  <2>1. CASE \E t \in Callers : StartCall(t)
    BY <2>1, StartCallType
  <2>2. CASE \E t \in Callers : ContinueCall(t)
    BY <2>2, PostType, SpinReturnType DEF ContinueCall
  <2>3. CASE PollerLoop
    BY <2>3, PollerLoopType
  <2>4. CASE Hca
    BY <2>4, ExecuteType DEF Hca, HcaSend, HcaRecv, Queue
  <2>5. CASE UNCHANGED vars
    BY <2>5 DEF vars, callVars, hcaVars, TypeOK
  <2> QED
    BY <2>1, <2>2, <2>3, <2>4, <2>5 DEF Next
<1> QED
  BY <1>1, <1>2, PTL DEF Spec

-----------------------------------------------------------------------------
(***************************************************************************)
(* What the numbers of work requests are worth, for every modulus, queue   *)
(* depth, window and set of calls, as long as each queue of the connection *)
(* has one thread that posts on it: the counters release a caller only     *)
(* after its own request, they never move back, and a failure is never     *)
(* counted as done.                                                        *)
(***************************************************************************)
\* The verbs that put requests on a queue.
PostingVerbs(q) ==
  IF q = "send" THEN {"send", "rw", "atomic", "noop", "unsignaled_noop", "wr"}
                ELSE {"recv"}

Posts(t, q) ==
  \E verb \in PostingVerbs(q), sync \in BOOLEAN : <<verb, sync>> \in Calls[t]

\* The assumption of the theorems: a queue has one poster.
OnePoster ==
  \A q \in Queue : \A t, u \in Callers : Posts(t, q) /\ Posts(u, q) => t = u

Poster(q) ==
  IF \E t \in Callers : Posts(t, q) THEN CHOOSE t \in Callers : Posts(t, q) ELSE Poller

-----------------------------------------------------------------------------
(***************************************************************************)
(* The inductive invariant.  It measures every number by its distance from *)
(* the recorded one.  Of the requests a queue has out, the oldest have     *)
(* been executed, then come those on the queue, then those of a call that  *)
(* has taken its numbers and not posted yet; the distances follow without  *)
(* a gap and end at the number given out last.                             *)
(***************************************************************************)
Distance(q, id) == CounterSub(id, last_compl[q])

\* The poster has numbers it has not posted yet, and how many.
Posting(q) == call[Poster(q)].pc = "post" /\ call[Poster(q)].q = q
InPost(q) == IF Posting(q) THEN Len(call[Poster(q)].wrs) ELSE 0

\* How far the adapter is.
Executed(q) == Uncompleted(q) - InPost(q) - Len(wq[q])

\* The poller is about to record a completion of the queue.
Handling(q) == call[Poller].pc = "update" /\ wc.q = q

OnlyPosterPosts ==
  \A t \in Callers : call[t].pc = "post" => t = Poster(call[t].q)

\* The requests on the queue and the ones to be posted.
Waiting(q) ==
  /\ Uncompleted(q) <= Window
  /\ Executed(q) >= 0
  /\ \A i \in 1 .. Len(wq[q]) : Distance(q, wq[q][i].id) = Executed(q) + i
  /\ Posting(q) => \A i \in 1 .. Len(call[Poster(q)].wrs) :
       Distance(q, call[Poster(q)].wrs[i].id) = Executed(q) + Len(wq[q]) + i

\* Completions come in the order of their requests.
InOrder(q) ==
  /\ \A i \in 1 .. Len(cq) : cq[i].q = q =>
       /\ Distance(q, cq[i].id) \in 1 .. Executed(q)
       /\ \A j \in 1 .. Len(cq) : cq[j].q = q /\ i < j =>
            Distance(q, cq[i].id) < Distance(q, cq[j].id)
  /\ Handling(q) =>
       /\ Distance(q, wc.id) \in 1 .. Executed(q)
       /\ \A i \in 1 .. Len(cq) : cq[i].q = q =>
            Distance(q, wc.id) < Distance(q, cq[i].id)

\* No request succeeds after one that failed.
FailuresLast(q) ==
  /\ failed[q] # {} => qp = "err"
  /\ \A id \in failed[q] :
       /\ Distance(q, id) \in 1 .. Executed(q)
       /\ Handling(q) => Distance(q, wc.id) < Distance(q, id)
       /\ \A i \in 1 .. Len(cq) : cq[i].q = q /\ cq[i].status = "success" =>
            Distance(q, cq[i].id) < Distance(q, id)

Strict == OnlyPosterPosts /\ \A q \in Queue : Waiting(q) /\ InOrder(q) /\ FailuresLast(q)

\* What is left of it after exit(), when a number may be taken in vain: nothing
\* unfinished or failed looks completed.
Near(q, id) == Distance(q, id) \in 1 .. Window

Safe ==
  \A q \in Queue :
    /\ \A i \in 1 .. Len(wq[q]) : Near(q, wq[q][i].id)
    /\ \A i \in 1 .. Len(cq) : cq[i].q = q => Near(q, cq[i].id)
    /\ \A id \in failed[q] : Near(q, id)

OInv == TypeOK /\ Safe /\ (~ exited => Strict)

-----------------------------------------------------------------------------
\* Distances from a later number are shorter by the distance between the two.
LEMMA DistanceLater ==
  ASSUME NEW a \in Counter, NEW b \in Counter, NEW c \in Counter,
         CounterSub(c, b) <= CounterSub(a, b)
  PROVE  CounterSub(a, c) = CounterSub(a, b) - CounterSub(c, b)
BY WrapAssumption DEF Counter, CounterSub

\* Counting on adds to the distance, up to the modulus.
LEMMA DistanceNext ==
  ASSUME NEW a \in Counter, NEW b \in Counter, NEW n \in Nat,
         CounterSub(a, b) + n < Wrap
  PROVE  /\ CounterAdd(a, n) \in Counter
         /\ CounterSub(CounterAdd(a, n), b) = CounterSub(a, b) + n
BY WrapAssumption DEF Counter, CounterSub, CounterAdd

\* A number within the window is ahead.
LEMMA NearIsAhead ==
  ASSUME NEW a \in Counter, NEW b \in Counter, CounterSub(a, b) \in 1 .. Window
  PROVE  cmp_counters(a, b) > 0
<1>1. CounterSub(a, b) < HalfRange /\ a # b
  BY WindowAssumption, DepthAssumption, HalfRangeBelowWrap, WrapAssumption DEF CounterSub, Counter
<1> QED
  BY <1>1 DEF cmp_counters

LEMMA PosterIsCaller == \A q \in Queue : Poster(q) \in Callers
BY DEF Poster, Callers

\* The quantities of the invariant are numbers.
LEMMA Numbers ==
  ASSUME TypeOK, NEW q \in Queue
  PROVE  /\ Uncompleted(q) \in Counter /\ Uncompleted(q) \in Nat /\ Uncompleted(q) < Wrap
         /\ Len(wq[q]) \in Nat /\ InPost(q) \in Nat /\ Executed(q) \in Int
         /\ wq[q] \in Seq(WorkRequest) /\ call[Poster(q)] \in Call
         /\ last[q] \in Counter /\ last_compl[q] \in Counter
         /\ Window \in Nat /\ Window < Wrap
         /\ \A id \in Counter : Distance(q, id) \in Nat
<1>1. last[q] \in Counter /\ last_compl[q] \in Counter
  BY DEF TypeOK
<1>2. Uncompleted(q) \in Counter
  BY <1>1, CounterArithmetic, SmallCounters DEF Uncompleted
<1>3. Uncompleted(q) \in Nat /\ Uncompleted(q) < Wrap
  BY <1>2, WrapAssumption DEF Counter
<1>4. wq[q] \in Seq(WorkRequest) /\ call[Poster(q)] \in Call
  BY PosterIsCaller DEF TypeOK
<1>5. Len(wq[q]) \in Nat /\ InPost(q) \in Nat
  BY <1>4 DEF InPost, Call
<1>6. Executed(q) \in Int
  BY <1>3, <1>5 DEF Executed
<1>7. \A id \in Counter : Distance(q, id) \in Nat
  BY <1>1, WrapAssumption DEF Distance, CounterSub, Counter
<1> QED
  BY <1>1, <1>2, <1>3, <1>4, <1>5, <1>6, <1>7, WindowBelowWrap

LEMMA InitOInv ==
  ASSUME Init
  PROVE  OInv
<1>1. TypeOK
  BY InitType
<1>2. \A q \in Queue : /\ wq[q] = <<>> /\ failed[q] = {} /\ Uncompleted(q) = 0
                      /\ ~ Posting(q) /\ ~ Handling(q)
  BY PosterIsCaller, WrapAssumption
  DEF Init, Uncompleted, CounterSub, Posting, Handling, NotInCall, Callers
<1>3. cq = <<>>
  BY DEF Init
<1>4. \A q \in Queue : InPost(q) = 0 /\ Executed(q) = 0
  BY <1>2 DEF InPost, Executed
<1>5. OnlyPosterPosts
  BY DEF Init, OnlyPosterPosts, NotInCall
<1>6. Safe
  BY <1>2, <1>3 DEF Safe
<1>7. \A q \in Queue : Waiting(q) /\ InOrder(q) /\ FailuresLast(q)
  BY <1>2, <1>3, <1>4, WindowBelowWrap DEF Waiting, InOrder, FailuresLast
<1> QED
  BY <1>1, <1>5, <1>6, <1>7 DEF OInv, Strict

\* As long as the library runs the strict invariant implies the other.
LEMMA StrictIsSafe == TypeOK /\ Strict => Safe
<1> SUFFICES ASSUME TypeOK, Strict, NEW q \in Queue
             PROVE  /\ \A i \in 1 .. Len(wq[q]) : Near(q, wq[q][i].id)
                    /\ \A i \in 1 .. Len(cq) : cq[i].q = q => Near(q, cq[i].id)
                    /\ \A id \in failed[q] : Near(q, id)
  BY DEF Safe
<1>1. Waiting(q) /\ InOrder(q) /\ FailuresLast(q)
  BY DEF Strict
<1>2. Executed(q) \in 0 .. Window /\ Executed(q) + Len(wq[q]) <= Window
  BY <1>1, Numbers DEF Waiting, Executed
<1>3. \A i \in 1 .. Len(wq[q]) : Near(q, wq[q][i].id)
  <2> TAKE i \in 1 .. Len(wq[q])
  <2>1. Distance(q, wq[q][i].id) = Executed(q) + i
    BY <1>1 DEF Waiting
  <2> QED
    BY <1>2, <2>1, Numbers DEF Near
<1>4. 1 .. Executed(q) \subseteq 1 .. Window
  BY <1>2, Numbers
<1>5. \A i \in 1 .. Len(cq) : cq[i].q = q => Near(q, cq[i].id)
  BY <1>1, <1>4 DEF InOrder, Near
<1>6. \A id \in failed[q] : Near(q, id)
  BY <1>1, <1>4 DEF FailuresLast, Near
<1> QED
  BY <1>3, <1>5, <1>6

-----------------------------------------------------------------------------
\* A caller moves between places where it neither posts nor records.
LEMMA CallMoves ==
  ASSUME TypeOK, Strict, NEW t \in Callers, NEW c \in Call,
         call' = [call EXCEPT ![t] = c],
         c.pc \notin {"post", "update"}, call[t].pc \notin {"post", "update"},
         UNCHANGED <<last, last_compl, wc, wq, cq, qp, failed>>
  PROVE  Strict' /\ \A p \in Queue : Executed(p)' = Executed(p) /\ (Handling(p)' => Handling(p))
<1>1. \A u \in Callers : u # t => call'[u] = call[u]
  BY DEF TypeOK
<1>2. call'[t] = c
  BY DEF TypeOK
<1>3. Poller \in Callers
  BY DEF Callers
<1>4. OnlyPosterPosts'
  BY <1>1, <1>2 DEF Strict, OnlyPosterPosts
<1>5. ASSUME NEW q \in Queue
      PROVE  /\ Waiting(q)' /\ InOrder(q)' /\ FailuresLast(q)'
             /\ Executed(q)' = Executed(q) /\ (Handling(q)' => Handling(q))
  <2>1. Waiting(q) /\ InOrder(q) /\ FailuresLast(q)
    BY DEF Strict
  <2>2. Poster(q) \in Callers
    BY PosterIsCaller
  <2>3. /\ Posting(q)' <=> Posting(q)
        /\ Posting(q) => call'[Poster(q)] = call[Poster(q)]
    BY <1>1, <1>2, <2>2 DEF Posting
  <2>4. Handling(q)' <=> Handling(q)
    BY <1>1, <1>2, <1>3 DEF Handling
  <2>5. InPost(q)' = InPost(q) /\ Uncompleted(q)' = Uncompleted(q)
    BY <2>3 DEF InPost, Uncompleted
  <2>6. Executed(q)' = Executed(q)
    BY <2>5 DEF Executed
  <2>7. Waiting(q)'
    BY <2>1, <2>3, <2>5, <2>6 DEF Waiting, Distance
  <2>8. InOrder(q)'
    BY <2>1, <2>4, <2>6 DEF InOrder, Distance
  <2>9. FailuresLast(q)'
    BY <2>1, <2>4, <2>6 DEF FailuresLast, Distance
  <2> QED
    BY <2>4, <2>6, <2>7, <2>8, <2>9
<1> QED
  BY <1>4, <1>5 DEF Strict

\* A call takes its numbers: they follow the ones that are out.
LEMMA EnterStrict ==
  ASSUME TypeOK, TypeOK', Strict, NEW t \in Callers, NEW q \in Queue, t = Poster(q),
         NEW signaled \in Seq(BOOLEAN), signaled # <<>>, NEW sync \in BOOLEAN,
         Free(t), Enter(t, q, signaled, sync)
  PROVE  Strict' /\ \A p \in Queue : Executed(p)' = Executed(p) /\ (Handling(p)' => Handling(p))
<1> DEFINE n == Len(signaled)
<1>1. /\ n \in Nat /\ n >= 1 /\ Uncompleted(q) + n <= Window
      /\ last' = [last EXCEPT ![q] = CounterAdd(last[q], n)]
      /\ UNCHANGED <<last_compl, wc, wq, cq, qp, failed>>
  BY EmptySeq DEF Enter, hcaVars
<1>2. /\ call'[t].pc = "post" /\ call'[t].q = q /\ Len(call'[t].wrs) = n
      /\ \A i \in 1 .. n : call'[t].wrs[i].id = CounterAdd(last[q], i)
      /\ \A u \in Callers : u # t => call'[u] = call[u]
  BY <1>1 DEF Enter, TypeOK
<1>3. call[t].pc \notin {"post", "update"} /\ Poller \in Callers
  BY DEF Free, Callers
<1>4. OnlyPosterPosts'
  BY <1>2 DEF Strict, OnlyPosterPosts
<1>5. ~ Posting(q) /\ InPost(q) = 0
  BY <1>3 DEF Posting, InPost
<1>6. /\ Posting(q)' /\ InPost(q)' = n
  BY <1>2 DEF Posting, InPost
<1>7. \A i \in 0 .. n : Distance(q, CounterAdd(last[q], i)) = Uncompleted(q) + i
  <2> TAKE i \in 0 .. n
  <2>1. Uncompleted(q) \in Nat /\ Window < Wrap /\ Window \in Nat
    BY Numbers
  <2>2. i \in Nat /\ Uncompleted(q) + i < Wrap
    <3>1. n \in Nat /\ Uncompleted(q) + n <= Window
      BY <1>1
    <3> HIDE DEF n
    <3> QED
      BY <2>1, <3>1, WrapAssumption
  <2>3. last[q] \in Counter /\ last_compl[q] \in Counter
    BY Numbers
  <2> QED
    BY <2>2, <2>3, DistanceNext DEF Distance, Uncompleted
<1>8. Uncompleted(q)' = Uncompleted(q) + n
  <2>1. last'[q] = CounterAdd(last[q], n)
    BY <1>1 DEF TypeOK
  <2> QED
    BY <1>1, <1>7, <2>1 DEF Uncompleted, Distance
<1>9. Executed(q)' = Executed(q)
  BY <1>1, <1>5, <1>6, <1>8, Numbers DEF Executed
<1>10. \A p \in Queue : Handling(p)' <=> Handling(p)
  BY <1>1, <1>2, <1>3 DEF Handling
<1>11. Waiting(q)'
  <2>1. Waiting(q) /\ Executed(q) + Len(wq[q]) = Uncompleted(q)
    BY <1>5, Numbers DEF Strict, Executed
  <2>2. \A i \in 1 .. n : Distance(q, call'[t].wrs[i].id) = Uncompleted(q) + i
    BY <1>2, <1>7
  <2> QED
    BY <1>1, <1>2, <1>8, <1>9, <2>1, <2>2 DEF Waiting, Distance
<1>12. InOrder(q)'
  BY <1>1, <1>9, <1>10 DEF Strict, InOrder, Distance
<1>13. FailuresLast(q)'
  BY <1>1, <1>9, <1>10 DEF Strict, FailuresLast, Distance
<1>14. ASSUME NEW p \in Queue, p # q
       PROVE  Waiting(p)' /\ InOrder(p)' /\ FailuresLast(p)' /\ Executed(p)' = Executed(p)
  <2>1. Waiting(p) /\ InOrder(p) /\ FailuresLast(p)
    BY DEF Strict
  <2>2. Poster(p) \in Callers
    BY PosterIsCaller
  <2>3. /\ Posting(p)' <=> Posting(p)
        /\ Posting(p) => call'[Poster(p)] = call[Poster(p)]
    BY <1>2, <1>3, <1>14, <2>2 DEF Posting
  <2>4. last'[p] = last[p]
    BY <1>1, <1>14 DEF TypeOK
  <2>5. InPost(p)' = InPost(p) /\ Uncompleted(p)' = Uncompleted(p)
    BY <1>1, <2>3, <2>4 DEF InPost, Uncompleted
  <2>6. Executed(p)' = Executed(p)
    BY <1>1, <2>5 DEF Executed
  <2>7. Waiting(p)'
    BY <1>1, <2>1, <2>3, <2>5, <2>6 DEF Waiting, Distance
  <2>8. InOrder(p)'
    BY <1>1, <1>10, <2>1, <2>6 DEF InOrder, Distance
  <2>9. FailuresLast(p)'
    BY <1>1, <1>10, <2>1, <2>6 DEF FailuresLast, Distance
  <2> QED
    BY <2>6, <2>7, <2>8, <2>9
<1> QED
  BY <1>4, <1>9, <1>10, <1>11, <1>12, <1>13, <1>14 DEF Strict

\* The second part of two that are joined, counted from its own start.
LEMMA SecondPart ==
  ASSUME NEW m \in Nat, NEW n \in Nat, NEW i \in m + 1 .. m + n
  PROVE  i \in 1 .. m + n /\ ~ (i <= m) /\ i - m \in 1 .. n
OBVIOUS

LEMMA FirstPart ==
  ASSUME NEW m \in Nat, NEW n \in Nat, NEW i \in 1 .. m
  PROVE  i \in 1 .. m + n /\ i <= m
OBVIOUS

\* The numbers of a call move to the queue.
LEMMA PostStrict ==
  ASSUME TypeOK, TypeOK', Strict, NEW t \in Callers, Post(t), ~ exited',
         NEW q \in Queue, q = call[t].q, NEW n \in Nat, n = Len(call[t].wrs)
  PROVE  Strict' /\ \A p \in Queue : Executed(p)' = Executed(p) /\ (Handling(p)' => Handling(p))
<1>1. /\ call[t] \in Call /\ call[t].pc = "post"
      /\ call[t].wrs \in Seq(WorkRequest) /\ t = Poster(q)
  BY DEF Post, TypeOK, Call, Strict, OnlyPosterPosts
<1>2. /\ wq' = [wq EXCEPT ![q] = wq[q] \o call[t].wrs]
      /\ \E c : /\ call' = [call EXCEPT ![t] = c]
               /\ c.pc \notin {"post", "update"}
      /\ UNCHANGED <<last, last_compl, wc, cq, qp, failed>>
  <2>1. ~ (used[q] + n > Depth(q))
    BY DEF Post
  <2>2. /\ wq' = [wq EXCEPT ![q] = wq[q] \o call[t].wrs]
        /\ call' = [call EXCEPT ![t] = IF call[t].sync THEN [call[t] EXCEPT !.pc = "spin"]
                                                      ELSE Returned(t)]
        /\ UNCHANGED <<last, last_compl, wc, cq, qp, failed>>
    BY <2>1 DEF Post
  <2>3. /\ [call[t] EXCEPT !.pc = "spin"].pc \notin {"post", "update"}
        /\ Returned(t).pc \notin {"post", "update"}
    BY <1>1 DEF Call, Returned, NotInCall
  <2> QED
    BY <2>2, <2>3
<1>3. /\ call'[t].pc \notin {"post", "update"}
      /\ \A u \in Callers : u # t => call'[u] = call[u]
  BY <1>2 DEF TypeOK
<1>0. PICK m \in Nat : m = Len(wq[q])
  BY Numbers
<1>4. /\ wq'[q] = wq[q] \o call[t].wrs /\ Len(wq'[q]) = m + n
      /\ \A i \in 1 .. m : wq'[q][i] = wq[q][i]
      /\ \A i \in m + 1 .. m + n : wq'[q][i] = call[t].wrs[i - m]
  <2>1. wq[q] \in Seq(WorkRequest) /\ wq'[q] = wq[q] \o call[t].wrs
    BY <1>1, <1>2 DEF TypeOK
  <2> DEFINE both == wq[q] \o call[t].wrs
  <2>2. /\ Len(both) = m + n
        /\ \A i \in 1 .. m + n : both[i] = IF i <= m THEN wq[q][i] ELSE call[t].wrs[i - m]
    <3>1. /\ Len(both) = Len(wq[q]) + Len(call[t].wrs)
          /\ \A i \in 1 .. Len(wq[q]) + Len(call[t].wrs) :
               both[i] = IF i <= Len(wq[q]) THEN wq[q][i] ELSE call[t].wrs[i - Len(wq[q])]
      BY <1>1, <2>1, ConcatProperties, ZenonT(30)
    <3> QED
      BY <1>0, <3>1, Zenon
  <2> HIDE DEF both
  <2>3. /\ \A i \in 1 .. m : both[i] = wq[q][i]
        /\ \A i \in m + 1 .. m + n : both[i] = call[t].wrs[i - m]
    <3>1. ASSUME NEW i \in 1 .. m PROVE both[i] = wq[q][i]
      BY <1>0, <2>2, <3>1, FirstPart, Zenon
    <3>2. ASSUME NEW i \in m + 1 .. m + n PROVE both[i] = call[t].wrs[i - m]
      BY <1>0, <2>2, <3>2, SecondPart, Zenon
    <3> QED
      BY <3>1, <3>2, Zenon
  <2> QED
    BY <2>1, <2>2, <2>3 DEF both
<1>5. OnlyPosterPosts'
  BY <1>3 DEF Strict, OnlyPosterPosts
<1>6. Posting(q) /\ InPost(q) = n /\ ~ Posting(q)' /\ InPost(q)' = 0
  BY <1>1, <1>3 DEF Posting, InPost
<1>7. Poller \in Callers /\ \A p \in Queue : Handling(p)' <=> Handling(p)
  BY <1>1, <1>2, <1>3 DEF Handling, Callers
<1>8. Uncompleted(q)' = Uncompleted(q) /\ Executed(q)' = Executed(q)
  <2>1. Uncompleted(q)' = Uncompleted(q)
    BY <1>2 DEF Uncompleted
  <2> QED
    <3>1. PICK k \in Nat : k = Uncompleted(q)
      BY Numbers
    <3>2. Executed(q) = k - n - m /\ Executed(q)' = k - 0 - (m + n)
      BY <1>0, <1>4, <1>6, <2>1, <3>1 DEF Executed
    <3> QED
      BY <2>1, <3>2
<1>9. Waiting(q)'
  <2>0. PICK k \in Int : k = Executed(q)
    BY Numbers
  <2>1. Waiting(q)
    BY DEF Strict
  <2>2. ASSUME NEW i \in 1 .. m + n
        PROVE  Distance(q, wq'[q][i].id) = k + i
    <3>1. CASE i \in 1 .. m
      BY <1>0, <1>4, <2>0, <2>1, <3>1 DEF Waiting
    <3>2. CASE i \in m + 1 .. m + n
      <4>1. i - m \in 1 .. n
        BY <1>0, <3>2, SecondPart, Zenon
      <4>2. Distance(q, call[t].wrs[i - m].id) = k + m + (i - m)
        <5>1. \A j \in 1 .. n : Distance(q, call[t].wrs[j].id) = Executed(q) + Len(wq[q]) + j
          <6>1. \A j \in 1 .. Len(call[Poster(q)].wrs) :
                  Distance(q, call[Poster(q)].wrs[j].id) = Executed(q) + Len(wq[q]) + j
            BY <1>6, <2>1, Zenon DEF Waiting
          <6>2. t = Poster(q)
            BY <1>1
          <6> QED
            BY <6>1, <6>2, Zenon
        <5> QED
          BY <1>0, <2>0, <4>1, <5>1, Zenon
      <4>3. wq'[q][i] = call[t].wrs[i - m]
        BY <1>4, <3>2, Zenon
      <4>4. k + m + (i - m) = k + i
        BY <1>0, <2>0, <3>2, <4>1
      <4> QED
        BY <4>2, <4>3, <4>4, Zenon
    <3> QED
      BY <3>1, <3>2
  <2> QED
    BY <1>2, <1>6, <1>4, <1>8, <2>0, <2>1, <2>2, ZenonT(30) DEF Waiting, Distance
<1>10. InOrder(q)' /\ FailuresLast(q)'
  BY <1>1, <1>2, <1>7, <1>8 DEF Strict, InOrder, FailuresLast, Distance
<1>11. ASSUME NEW p \in Queue, p # q
       PROVE  Waiting(p)' /\ InOrder(p)' /\ FailuresLast(p)' /\ Executed(p)' = Executed(p)
  <2>1. Waiting(p) /\ InOrder(p) /\ FailuresLast(p)
    BY DEF Strict
  <2>2. Poster(p) \in Callers
    BY PosterIsCaller
  <2>3. /\ Posting(p)' <=> Posting(p)
        /\ Posting(p) => call'[Poster(p)] = call[Poster(p)]
    BY <1>1, <1>3, <1>11, <2>2 DEF Posting
  <2>4. wq'[p] = wq[p]
    BY <1>2, <1>11 DEF TypeOK
  <2>5. InPost(p)' = InPost(p) /\ Uncompleted(p)' = Uncompleted(p)
    BY <1>2, <2>3 DEF InPost, Uncompleted
  <2>6. Executed(p)' = Executed(p)
    BY <2>4, <2>5 DEF Executed
  <2>7. Waiting(p)'
    BY <1>2, <2>1, <2>3, <2>4, <2>5, <2>6 DEF Waiting, Distance
  <2>8. InOrder(p)'
    BY <1>2, <1>7, <2>1, <2>6 DEF InOrder, Distance
  <2>9. FailuresLast(p)'
    BY <1>2, <1>7, <2>1, <2>6 DEF FailuresLast, Distance
  <2> QED
    BY <2>6, <2>7, <2>8, <2>9
<1> QED
  BY <1>1, <1>5, <1>7, <1>8, <1>9, <1>10, <1>11 DEF Strict

\* Polling takes the oldest completion; one that is not a success goes no
\* further.
LEMMA PollCqStrict ==
  ASSUME TypeOK, TypeOK', Strict, PollCq
  PROVE  Strict' /\ \A p \in Queue : Executed(p)' = Executed(p)
<1>1. /\ call[Poller].pc = "poll" /\ cq # <<>> /\ cq' = Tail(cq)
      /\ UNCHANGED <<last, last_compl, wq, qp, failed>>
      /\ Poller \in Callers /\ cq \in Seq(Completion)
  BY DEF PollCq, Callers, TypeOK
<1>2. PICK m \in Nat : Len(cq) = m + 1 /\ Len(cq') = m
  <2>1. Len(cq) \in Nat /\ Len(cq) # 0
    BY <1>1, EmptySeq
  <2>2. Len(cq) - 1 \in Nat /\ Len(cq') = Len(cq) - 1
    BY <1>1, <2>1, HeadTailProperties
  <2> QED
    BY <2>1, <2>2
<1>3. Head(cq) = cq[1] /\ \A i \in 1 .. m : cq'[i] = cq[i + 1]
  BY <1>1, <1>2
<1>4. \A i \in 1 .. m : i + 1 \in 1 .. m + 1 /\ 1 < i + 1
  BY <1>2
<1>5. 1 \in 1 .. m + 1
  BY <1>2
<1>6. /\ call'[Poller].pc \in {"poll", "update"}
      /\ call'[Poller].pc = "update" => wc' = cq[1] /\ cq[1].status = "success"
      /\ \A t \in Callers : t # Poller => call'[t] = call[t]
  BY <1>1, <1>3, SMTT(30) DEF PollCq, TypeOK, Call
<1>7. OnlyPosterPosts'
  BY <1>1, <1>6 DEF Strict, OnlyPosterPosts
<1>8. ASSUME NEW q \in Queue
      PROVE  Waiting(q)' /\ InOrder(q)' /\ FailuresLast(q)' /\ Executed(q)' = Executed(q)
  <2>1. Waiting(q) /\ InOrder(q) /\ FailuresLast(q)
    BY DEF Strict
  <2>2. Poster(q) \in Callers
    BY PosterIsCaller
  <2>3. /\ Posting(q)' <=> Posting(q)
        /\ Posting(q) => call'[Poster(q)] = call[Poster(q)]
    BY <1>1, <1>6, <2>2 DEF Posting
  <2>4. InPost(q)' = InPost(q) /\ Uncompleted(q)' = Uncompleted(q)
    BY <1>1, <2>3 DEF InPost, Uncompleted
  <2>5. Executed(q)' = Executed(q)
    BY <1>1, <2>4 DEF Executed
  <2>6. Waiting(q)'
    BY <1>1, <2>1, <2>3, <2>4, <2>5 DEF Waiting, Distance
  <2>7. Handling(q)' => cq[1].q = q /\ cq[1].status = "success" /\ wc' = cq[1]
    BY <1>6 DEF Handling
  <2>8. /\ \A i \in 1 .. m + 1 : cq[i].q = q =>
             /\ Distance(q, cq[i].id) \in 1 .. Executed(q)
             /\ \A j \in 1 .. m + 1 : cq[j].q = q /\ i < j =>
                  Distance(q, cq[i].id) < Distance(q, cq[j].id)
        /\ \A id \in failed[q] :
             /\ Distance(q, id) \in 1 .. Executed(q)
             /\ \A i \in 1 .. m + 1 : cq[i].q = q /\ cq[i].status = "success" =>
                  Distance(q, cq[i].id) < Distance(q, id)
    BY <1>2, <2>1 DEF InOrder, FailuresLast
  <2>9. InOrder(q)'
    <3>1. \A i, j \in 1 .. m : i < j => i + 1 < j + 1
      BY <1>2
    <3>2. \A i \in 1 .. m : cq'[i].q = q =>
            /\ Distance(q, cq'[i].id) \in 1 .. Executed(q)
            /\ \A j \in 1 .. m : cq'[j].q = q /\ i < j =>
                 Distance(q, cq'[i].id) < Distance(q, cq'[j].id)
      BY <1>3, <1>4, <2>8, <3>1
    <3>3. Handling(q)' =>
            /\ Distance(q, wc'.id) \in 1 .. Executed(q)
            /\ \A i \in 1 .. m : cq'[i].q = q =>
                 Distance(q, wc'.id) < Distance(q, cq'[i].id)
      BY <1>3, <1>4, <1>5, <2>7, <2>8
    <3> QED
      BY <1>1, <1>2, <2>5, <3>2, <3>3 DEF InOrder, Distance
  <2>10. FailuresLast(q)'
    <3>1. \A id \in failed[q] :
            /\ Handling(q)' => Distance(q, wc'.id) < Distance(q, id)
            /\ \A i \in 1 .. m : cq'[i].q = q /\ cq'[i].status = "success" =>
                 Distance(q, cq'[i].id) < Distance(q, id)
      BY <1>3, <1>4, <1>5, <2>7, <2>8
    <3> QED
      BY <1>1, <1>2, <2>1, <2>5, <2>8, <3>1 DEF FailuresLast, Distance
  <2> QED
    BY <2>5, <2>6, <2>9, <2>10
<1> QED
  BY <1>7, <1>8 DEF Strict

\* Recording a completion brings every number nearer by the same distance.
LEMMA UpdateStrict ==
  ASSUME TypeOK, TypeOK', Strict, UpdateCompletions, NEW q \in Queue, wc.q = q,
         NEW d \in Nat, d = Distance(q, wc.id)
  PROVE  Strict' /\ \A p \in Queue :
           Executed(p)' = IF p = q THEN Executed(p) - d ELSE Executed(p)
<1>1. /\ call[Poller].pc = "update" /\ last_compl' = [last_compl EXCEPT ![q] = wc.id]
      /\ call' = [call EXCEPT ![Poller].pc = "callback"]
      /\ UNCHANGED <<last, wq, cq, qp, failed>>
      /\ Poller \in Callers /\ call[Poller] \in Call /\ wc.id \in Counter
  BY DEF UpdateCompletions, hcaVars, TypeOK, Callers, Completion
<1>2. /\ call'[Poller].pc = "callback"
      /\ \A t \in Callers : t # Poller => call'[t] = call[t]
  BY <1>1 DEF TypeOK, Call
<1>3. OnlyPosterPosts'
  BY <1>1, <1>2 DEF Strict, OnlyPosterPosts
<1>4. \A p \in Queue : ~ Handling(p)'
  BY <1>2 DEF Handling
<1>5. ASSUME NEW p \in Queue
      PROVE  /\ Posting(p)' <=> Posting(p)
             /\ Posting(p) => call'[Poster(p)] = call[Poster(p)]
             /\ InPost(p)' = InPost(p)
  <2>1. Poster(p) \in Callers
    BY PosterIsCaller
  <2>2. /\ Posting(p)' <=> Posting(p)
        /\ Posting(p) => call'[Poster(p)] = call[Poster(p)]
    BY <1>1, <1>2, <2>1 DEF Posting
  <2> QED
    BY <2>2 DEF InPost
<1>6. Waiting(q) /\ InOrder(q) /\ FailuresLast(q) /\ Handling(q)
  BY <1>1 DEF Strict, Handling
<1>7. \A id \in Counter : d <= Distance(q, id) => Distance(q, id)' = Distance(q, id) - d
  <2>1. last_compl'[q] = wc.id
    BY <1>1 DEF TypeOK
  <2> QED
    BY <1>1, <2>1, Numbers, DistanceLater DEF Distance
<1>8. PICK e \in Int, u \in Nat, m \in Nat, k \in Nat :
        e = Executed(q) /\ u = Uncompleted(q) /\ m = Len(wq[q]) /\ k = InPost(q)
  BY Numbers
<1>9. d \in 1 .. e /\ e = u - k - m /\ d <= u
  <2>1. d \in 1 .. e /\ e = u - k - m
    BY <1>6, <1>8 DEF InOrder, Executed
  <2> QED
    BY <1>8, <2>1, SMTT(30)
<1>0. e \in Int /\ u \in Nat /\ m \in Nat /\ k \in Nat /\ d \in Nat /\ d <= e /\ e = u - k - m
  BY <1>8, <1>9
<1>10. Uncompleted(q)' = u - d
  <2>1. d <= Distance(q, last[q]) /\ Distance(q, last[q]) = u /\ last[q] \in Counter
    BY <1>8, <1>9, Numbers DEF Distance, Uncompleted
  <2>2. Distance(q, last[q])' = u - d
    BY <1>1, <1>7, <2>1
  <2> QED
    BY <1>1, <2>2 DEF Distance, Uncompleted
<1>11. Executed(q)' = e - d
  <2>1. Executed(q)' = (u - d) - k - m
    BY <1>1, <1>5, <1>8, <1>10 DEF Executed
  <2>2. (u - d) - k - m = e - d
    BY <1>0
  <2> QED
    BY <2>1, <2>2
<1>15. \A id \in Counter : d <= Distance(q, id) =>
         CounterSub(id, last_compl'[q]) = Distance(q, id) - d
  BY <1>7 DEF Distance
<1>12. Waiting(q)'
  <2>1. e - d >= 0 /\ u - d <= Window
    BY <1>6, <1>8, <1>9, WindowBelowWrap DEF Waiting
  <2>2. ASSUME NEW i \in 1 .. m
        PROVE  Distance(q, wq[q][i].id)' = (e - d) + i
    <3>1. wq[q][i].id \in Counter
      <4>1. wq[q][i] \in WorkRequest
        BY <1>8, Numbers, ElementOfSeq, Zenon
      <4> QED
        BY <4>1 DEF WorkRequest
    <3>2. Distance(q, wq[q][i].id) = e + i
      BY <1>6, <1>8 DEF Waiting
    <3>3. d <= e + i /\ (e + i) - d = (e - d) + i
      <4>1. d <= e /\ i \in Nat
        BY <1>8, <1>9
      <4> QED
        BY <1>0, <4>1
    <3> QED
      BY <1>1, <1>7, <3>1, <3>2, <3>3
  <2>3. ASSUME Posting(q), NEW i \in 1 .. Len(call[Poster(q)].wrs)
        PROVE  CounterSub(call[Poster(q)].wrs[i].id, last_compl'[q]) = (e - d) + m + i
    <3>1. call[Poster(q)].wrs[i].id \in Counter /\ i \in Nat
      <4>1. call[Poster(q)].wrs \in Seq(WorkRequest)
        BY Numbers DEF Call
      <4>2. call[Poster(q)].wrs[i] \in WorkRequest
        BY <4>1, ElementOfSeq, Zenon
      <4> QED
        BY <4>1, <4>2 DEF WorkRequest
    <3>2. Distance(q, call[Poster(q)].wrs[i].id) = e + m + i
      BY <1>6, <1>8, <2>3 DEF Waiting
    <3>3. d <= e + m + i /\ (e + m + i) - d = (e - d) + m + i
      <4>1. i \in Nat
        BY <3>1
      <4> QED
        BY <1>0, <4>1
    <3>4. CounterSub(call[Poster(q)].wrs[i].id, last_compl'[q])
            = Distance(q, call[Poster(q)].wrs[i].id) - d
      BY <1>15, <3>1, <3>2, <3>3, Zenon
    <3> QED
      BY <3>2, <3>3, <3>4, Zenon
  <2>4. \A i \in 1 .. m : CounterSub(wq[q][i].id, last_compl'[q]) = (e - d) + i
    BY <1>1, <2>2 DEF Distance
  <2> QED
    BY <1>1, <1>5, <1>8, <1>10, <1>11, <2>1, <2>3, <2>4, SMTT(30) DEF Waiting, Distance
<1>13. \A i \in 1 .. Len(cq) : cq[i].id \in Counter
  <2> TAKE i \in 1 .. Len(cq)
  <2>1. cq \in Seq(Completion)
    BY DEF TypeOK
  <2>2. cq[i] \in Completion
    BY <2>1, ElementOfSeq, Zenon
  <2> QED
    BY <2>2 DEF Completion
<1>14. \A id \in Counter : d < Distance(q, id) /\ Distance(q, id) \in 1 .. e =>
         CounterSub(id, last_compl'[q]) \in 1 .. e - d
  <2> SUFFICES ASSUME NEW id \in Counter, d < Distance(q, id), Distance(q, id) \in 1 .. e
               PROVE  CounterSub(id, last_compl'[q]) \in 1 .. e - d
    OBVIOUS
  <2>1. PICK x \in 1 .. e : x = Distance(q, id)
    OBVIOUS
  <2>2. CounterSub(id, last_compl'[q]) = x - d
    BY <1>7, <1>8, <2>1 DEF Distance
  <2> QED
    BY <1>8, <2>1, <2>2
<1>16. InOrder(q)'
  <2>1. \A i \in 1 .. Len(cq) : cq[i].q = q =>
          /\ CounterSub(cq[i].id, last_compl'[q]) \in 1 .. e - d
          /\ d < Distance(q, cq[i].id)
    BY <1>6, <1>8, <1>13, <1>14 DEF InOrder
  <2>2. ASSUME NEW i \in 1 .. Len(cq), NEW j \in 1 .. Len(cq), cq[i].q = q, cq[j].q = q, i < j
        PROVE  CounterSub(cq[i].id, last_compl'[q]) < CounterSub(cq[j].id, last_compl'[q])
    <3>1. Distance(q, cq[i].id) < Distance(q, cq[j].id)
      BY <1>6, <2>2 DEF InOrder
    <3>2. PICK x \in Nat, y \in Nat : x = Distance(q, cq[i].id) /\ y = Distance(q, cq[j].id)
      BY <1>13, Numbers
    <3>3. /\ CounterSub(cq[i].id, last_compl'[q]) = x - d
          /\ CounterSub(cq[j].id, last_compl'[q]) = y - d
      BY <1>13, <1>15, <2>1, <2>2, <3>2, SMTT(30)
    <3> QED
      BY <3>1, <3>2, <3>3
  <2> QED
    BY <1>1, <1>4, <1>8, <1>11, <2>1, <2>2 DEF InOrder, Distance
<1>17. FailuresLast(q)'
  <2>1. failed[q] \subseteq Counter
    BY DEF TypeOK
  <2>2. \A id \in failed[q] : d < Distance(q, id) /\ CounterSub(id, last_compl'[q]) \in 1 .. e - d
    BY <1>6, <1>8, <1>14, <2>1 DEF FailuresLast
  <2>3. ASSUME NEW id \in failed[q], NEW i \in 1 .. Len(cq), cq[i].q = q, cq[i].status = "success"
        PROVE  CounterSub(cq[i].id, last_compl'[q]) < CounterSub(id, last_compl'[q])
    <3>1. Distance(q, cq[i].id) < Distance(q, id) /\ d < Distance(q, cq[i].id)
      BY <1>6, <2>3 DEF FailuresLast, InOrder
    <3>2. PICK x \in Nat, y \in Nat : x = Distance(q, cq[i].id) /\ y = Distance(q, id)
      BY <1>13, <2>1, Numbers
    <3>3. /\ CounterSub(cq[i].id, last_compl'[q]) = x - d
          /\ CounterSub(id, last_compl'[q]) = y - d
      BY <1>13, <1>15, <2>1, <2>2, <3>1, <3>2
    <3> QED
      BY <3>1, <3>2, <3>3
  <2> QED
    BY <1>1, <1>4, <1>6, <1>8, <1>11, <2>2, <2>3 DEF FailuresLast, Distance
<1>18. ASSUME NEW p \in Queue, p # q
       PROVE  Waiting(p)' /\ InOrder(p)' /\ FailuresLast(p)' /\ Executed(p)' = Executed(p)
  <2>1. Waiting(p) /\ InOrder(p) /\ FailuresLast(p)
    BY DEF Strict
  <2>2. last_compl'[p] = last_compl[p]
    BY <1>1, <1>18 DEF TypeOK
  <2>3. Uncompleted(p)' = Uncompleted(p)
    BY <1>1, <2>2 DEF Uncompleted
  <2>4. Executed(p)' = Executed(p)
    BY <1>1, <1>5, <2>3 DEF Executed
  <2>5. Waiting(p)'
    BY <1>1, <1>5, <2>1, <2>2, <2>3, <2>4 DEF Waiting, Distance
  <2>6. InOrder(p)'
    BY <1>1, <1>4, <2>1, <2>2, <2>4 DEF InOrder, Distance
  <2>7. FailuresLast(p)'
    BY <1>1, <1>4, <2>1, <2>2, <2>4 DEF FailuresLast, Distance
  <2> QED
    BY <2>4, <2>5, <2>6, <2>7
<1> QED
  BY <1>3, <1>8, <1>11, <1>12, <1>16, <1>17, <1>18 DEF Strict

\* The adapter executes the request at the head of a queue: its completion is
\* the newest of the queue, and after a failure only failures follow.
LEMMA ExecuteStrict ==
  ASSUME TypeOK, TypeOK', Strict, NEW q \in Queue, NEW status \in {"success", "error"},
         Execute(q, status),
         NEW e \in Int, e = Executed(q), NEW m \in Nat, Len(wq[q]) = m + 1,
         NEW l \in Nat, l = Len(cq), NEW wr \in WorkRequest, wr = Head(wq[q])
  PROVE  Strict' /\ \A p \in Queue :
           Executed(p)' = IF p = q THEN e + 1 ELSE Executed(p)
<1>1. /\ wq' = [wq EXCEPT ![q] = Tail(wq[q])]
      /\ status = "success" => qp = "rts"
      /\ qp' \in {"err", qp} /\ (status = "error" => qp' = "err")
      /\ failed' = IF status = "error"
                   THEN [failed EXCEPT ![q] = failed[q] \cup {wr.id}] ELSE failed
      /\ UNCHANGED <<last, last_compl, call, wc>>
  BY DEF Execute, callVars
<1>2. /\ wq'[q] = Tail(wq[q]) /\ Len(wq'[q]) = m /\ wq[q][1] = wr
      /\ \A i \in 1 .. m : wq'[q][i] = wq[q][i + 1]
  <2>1. wq[q] \in Seq(WorkRequest) /\ wq[q] # <<>> /\ wq'[q] = Tail(wq[q])
    BY <1>1 DEF Execute, TypeOK
  <2>2. Len(wq'[q]) = Len(wq[q]) - 1 /\ \A i \in 1 .. Len(wq'[q]) : wq'[q][i] = wq[q][i + 1]
    BY <2>1, HeadTailProperties
  <2>3. Len(wq'[q]) = m
    BY <2>2
  <2> QED
    BY <2>1, <2>2, <2>3
<1>3. \A i \in 1 .. Len(cq') :
        \/ i \in 1 .. l /\ cq'[i] = cq[i]
        \/ /\ i = l + 1
           /\ cq'[i].q = q /\ cq'[i].id = wr.id /\ cq'[i].status = status
  <2> DEFINE cqe == [q |-> q, id |-> wr.id, status |-> status, slots |-> held[q] + 1]
  <2>1. cq' = cq \/ cq' = Append(cq, cqe)
    BY DEF Execute
  <2>2. cqe.q = q /\ cqe.id = wr.id /\ cqe.status = status
    OBVIOUS
  <2>3. cq \in Seq(Completion)
    BY DEF TypeOK
  <2> HIDE DEF cqe
  <2>4. CASE cq' = cq
    BY <2>4
  <2>5. CASE cq' = Append(cq, cqe)
    BY <2>2, <2>3, <2>5
  <2> QED
    BY <2>1, <2>4, <2>5
<1>4. Waiting(q) /\ InOrder(q) /\ FailuresLast(q)
  BY DEF Strict
<1>5. wr.id \in Counter /\ Distance(q, wr.id) = e + 1
  <2>1. 1 \in 1 .. m + 1
    OBVIOUS
  <2> QED
    BY <1>2, <1>4, <2>1 DEF Waiting, WorkRequest
<1>6. ASSUME NEW p \in Queue
      PROVE  /\ Posting(p)' <=> Posting(p)
             /\ Handling(p)' <=> Handling(p)
             /\ InPost(p)' = InPost(p) /\ Uncompleted(p)' = Uncompleted(p)
  BY <1>1 DEF Posting, InPost, Uncompleted, Handling
<1>7. OnlyPosterPosts'
  BY <1>1 DEF Strict, OnlyPosterPosts
<1>8. Executed(q)' = e + 1
  <2>1. PICK u \in Nat, k \in Nat : u = Uncompleted(q) /\ k = InPost(q)
    BY Numbers
  <2>2. e = u - k - (m + 1) /\ Executed(q)' = u - k - m
    BY <1>2, <1>6, <2>1 DEF Executed
  <2>3. u \in Nat /\ k \in Nat
    BY <2>1
  <2>4. u - k - m = (u - k - (m + 1)) + 1
    BY <2>3
  <2> QED
    BY <2>2, <2>4
<1>9. e >= 0
  BY <1>4 DEF Waiting
<1>10. Waiting(q)'
  <2>1. \A i \in 1 .. m : Distance(q, wq'[q][i].id) = (e + 1) + i
    <3> TAKE i \in 1 .. m
    <3>1. i + 1 \in 1 .. m + 1 /\ e + (i + 1) = (e + 1) + i
      OBVIOUS
    <3>2. Distance(q, wq[q][i + 1].id) = e + (i + 1)
      BY <1>4, <3>1 DEF Waiting
    <3> QED
      BY <1>2, <3>1, <3>2
  <2>2. ASSUME Posting(q), NEW i \in 1 .. Len(call[Poster(q)].wrs)
        PROVE  Distance(q, call[Poster(q)].wrs[i].id) = (e + 1) + m + i
    <3>1. Distance(q, call[Poster(q)].wrs[i].id) = e + (m + 1) + i
      BY <1>4, <2>2 DEF Waiting
    <3>2. i \in Nat
      BY Numbers DEF Call
    <3>3. e + (m + 1) + i = (e + 1) + m + i
      BY <3>2
    <3> QED
      BY <3>1, <3>3
  <2>3. Uncompleted(q)' <= Window /\ Executed(q)' >= 0
    BY <1>4, <1>6, <1>8, <1>9 DEF Waiting
  <2> QED
    BY <1>1, <1>2, <1>6, <1>8, <2>1, <2>2, <2>3 DEF Waiting, Distance
<1>11. /\ \A i \in 1 .. l : cq[i].q = q => Distance(q, cq[i].id) \in 1 .. e
       /\ \A i, j \in 1 .. l : cq[i].q = q /\ cq[j].q = q /\ i < j =>
            Distance(q, cq[i].id) < Distance(q, cq[j].id)
       /\ Handling(q) => Distance(q, wc.id) \in 1 .. e
  BY <1>4 DEF InOrder
<1>12. InOrder(q)'
  <2>1. \A i \in 1 .. Len(cq') : cq'[i].q = q => Distance(q, cq'[i].id) \in 1 .. e + 1
    <3> SUFFICES ASSUME NEW i \in 1 .. Len(cq'), cq'[i].q = q
                 PROVE  Distance(q, cq'[i].id) \in 1 .. e + 1
      OBVIOUS
    <3>1. CASE i \in 1 .. l /\ cq'[i] = cq[i]
      BY <1>11, <3>1
    <3>2. CASE cq'[i].id = wr.id
      BY <1>5, <1>9, <3>2
    <3> QED
      BY <1>3, <3>1, <3>2
  <2>2. \A i, j \in 1 .. Len(cq') : cq'[i].q = q /\ cq'[j].q = q /\ i < j =>
          Distance(q, cq'[i].id) < Distance(q, cq'[j].id)
    <3> SUFFICES ASSUME NEW i \in 1 .. Len(cq'), NEW j \in 1 .. Len(cq'),
                        cq'[i].q = q, cq'[j].q = q, i < j
                 PROVE  Distance(q, cq'[i].id) < Distance(q, cq'[j].id)
      OBVIOUS
    <3>1. i \in 1 .. l /\ cq'[i] = cq[i]
      BY <1>3
    <3>2. CASE j \in 1 .. l /\ cq'[j] = cq[j]
      BY <1>11, <3>1, <3>2
    <3>3. CASE cq'[j].id = wr.id
      BY <1>5, <1>11, <3>1, <3>3
    <3> QED
      BY <1>3, <3>2, <3>3
  <2>3. Handling(q) =>
          /\ Distance(q, wc.id) \in 1 .. e + 1
          /\ \A i \in 1 .. Len(cq') : cq'[i].q = q => Distance(q, wc.id) < Distance(q, cq'[i].id)
    <3> SUFFICES ASSUME Handling(q)
                 PROVE  /\ Distance(q, wc.id) \in 1 .. e + 1
                        /\ \A i \in 1 .. Len(cq') : cq'[i].q = q =>
                             Distance(q, wc.id) < Distance(q, cq'[i].id)
      OBVIOUS
    <3>1. \A i \in 1 .. l : cq[i].q = q => Distance(q, wc.id) < Distance(q, cq[i].id)
      BY <1>4 DEF InOrder
    <3>2. Distance(q, wc.id) < e + 1 /\ Distance(q, wc.id) \in 1 .. e + 1
      BY <1>9, <1>11
    <3>3. ASSUME NEW i \in 1 .. Len(cq'), cq'[i].q = q
          PROVE  Distance(q, wc.id) < Distance(q, cq'[i].id)
      <4>1. CASE i \in 1 .. l /\ cq'[i] = cq[i]
        BY <3>1, <3>3, <4>1
      <4>2. CASE cq'[i].id = wr.id
        BY <1>5, <3>2, <4>2
      <4> QED
        BY <1>3, <4>1, <4>2
    <3> QED
      BY <3>2, <3>3
  <2> QED
    BY <1>1, <1>6, <1>8, <2>1, <2>2, <2>3 DEF InOrder, Distance
<1>13. FailuresLast(q)'
  <2>1. failed[q] # {} => qp = "err"
    BY <1>4 DEF FailuresLast
  <2>2. \A id \in failed'[q] : id \in failed[q] \/ (id = wr.id /\ status = "error")
    BY <1>1 DEF TypeOK
  <2>3. \A id \in failed'[q] : Distance(q, id) \in 1 .. e + 1
    BY <1>4, <1>5, <1>9, <2>2 DEF FailuresLast
  <2>4. \A id \in failed'[q] : Handling(q) => Distance(q, wc.id) < Distance(q, id)
    BY <1>4, <1>5, <1>11, <2>2 DEF FailuresLast
  <2>5. ASSUME NEW id \in failed'[q], NEW i \in 1 .. Len(cq'), cq'[i].q = q,
               cq'[i].status = "success"
        PROVE  Distance(q, cq'[i].id) < Distance(q, id)
    <3>1. status = "error"
      <4>1. CASE status = "success"
        <5>1. failed'[q] = {}
          BY <1>1, <2>1, <4>1
        <5> QED
          BY <2>5, <5>1
      <4> QED
        BY <4>1
    <3>2. i \in 1 .. l /\ cq'[i] = cq[i]
      BY <1>3, <2>5, <3>1
    <3>3. CASE id \in failed[q]
      BY <1>4, <2>5, <3>2, <3>3 DEF FailuresLast
    <3>4. CASE id = wr.id
      BY <1>5, <1>11, <2>5, <3>2, <3>4
    <3> QED
      BY <2>2, <3>3, <3>4
  <2>6. failed'[q] # {} => qp' = "err"
    BY <1>1, <2>1, <2>2
  <2> QED
    BY <1>1, <1>6, <1>8, <2>3, <2>4, <2>5, <2>6 DEF FailuresLast, Distance
<1>14. ASSUME NEW p \in Queue, p # q
       PROVE  Waiting(p)' /\ InOrder(p)' /\ FailuresLast(p)' /\ Executed(p)' = Executed(p)
  <2>1. Waiting(p) /\ InOrder(p) /\ FailuresLast(p)
    BY DEF Strict
  <2>2. wq'[p] = wq[p] /\ failed'[p] = failed[p]
    BY <1>1, <1>14 DEF TypeOK
  <2>3. Executed(p)' = Executed(p)
    BY <1>6, <2>2 DEF Executed
  <2>4. \A i \in 1 .. Len(cq') : cq'[i].q = p => i \in 1 .. l /\ cq'[i] = cq[i]
    BY <1>3, <1>14
  <2>5. Waiting(p)'
    BY <1>1, <1>6, <2>1, <2>2, <2>3 DEF Waiting, Distance
  <2>6. InOrder(p)'
    BY <1>1, <1>6, <2>1, <2>3, <2>4 DEF InOrder, Distance
  <2>7. FailuresLast(p)'
    BY <1>1, <1>6, <2>1, <2>2, <2>3, <2>4 DEF FailuresLast, Distance
  <2> QED
    BY <2>3, <2>5, <2>6, <2>7
<1> QED
  BY <1>7, <1>8, <1>10, <1>12, <1>13, <1>14 DEF Strict

-----------------------------------------------------------------------------
\* Nothing changes once the library has called exit().
LEMMA NothingAfterExit ==
  ASSUME exited, [Next]_vars
  PROVE  UNCHANGED vars
BY DEF Next, StartCall, ContinueCall, PollerLoop, Hca, PostSend, PostReadWrite,
       PostAtomic, PostNoop, PostUnsignaledNoop, PostRecv, PostBadRecv, PostWr, Await,
       May, Post, SpinReturn, PollCq, UpdateCompletions, CallbackReturns, HcaSend,
       HcaRecv, Execute

LEMMA SafeStays ==
  ASSUME Safe, UNCHANGED <<last_compl, wq, cq, failed>>
  PROVE  Safe'
BY DEF Safe, Near, Distance

\* Whoever posts on a queue is the queue's poster.
LEMMA PosterOf ==
  ASSUME OnePoster, NEW t \in Callers, NEW q \in Queue, Posts(t, q)
  PROVE  t = Poster(q)
BY DEF OnePoster, Poster

\* The verbs of a call that numbers its requests.
LEMMA StartCallCases ==
  ASSUME NEW t \in Callers, StartCall(t)
  PROVE  \/ \E q \in Queue, signaled \in Seq(BOOLEAN), sync \in BOOLEAN :
              /\ signaled # <<>> /\ Free(t) /\ Posts(t, q) /\ ~ exited
              /\ Enter(t, q, signaled, sync)
         \/ exited' /\ UNCHANGED <<last_compl, wq, cq, failed>>
         \/ \E q \in Queue : Await(t, q)
<1>0. \A b \in BOOLEAN : <<b>> \in Seq(BOOLEAN) /\ <<b>> # <<>>
  OBVIOUS
<1>1. CASE \E sync \in BOOLEAN :
             \/ PostSend(t, sync) \/ PostReadWrite(t, sync)
             \/ PostAtomic(t, sync) \/ PostNoop(t, sync)
  <2>1. PICK sync \in BOOLEAN :
               \/ PostSend(t, sync) \/ PostReadWrite(t, sync)
               \/ PostAtomic(t, sync) \/ PostNoop(t, sync)
    BY <1>1
  <2>2. /\ Free(t) /\ ~ exited /\ Enter(t, "send", <<TRUE>>, sync)
        /\ \E verb \in {"send", "rw", "atomic", "noop"} : <<verb, sync>> \in Calls[t]
    BY <2>1 DEF PostSend, PostReadWrite, PostAtomic, PostNoop, May
  <2>3. Posts(t, "send")
    BY <2>2 DEF Posts, PostingVerbs
  <2> QED
    BY <1>0, <2>2, <2>3 DEF Queue
<1>2. CASE \E sync \in BOOLEAN : PostRecv(t, sync)
  <2>1. PICK sync \in BOOLEAN : PostRecv(t, sync)
    BY <1>2
  <2>2. /\ Free(t) /\ ~ exited /\ Enter(t, "recv", <<TRUE>>, sync)
        /\ <<"recv", sync>> \in Calls[t]
    BY <2>1 DEF PostRecv, May
  <2>3. Posts(t, "recv")
    BY <2>2 DEF Posts, PostingVerbs
  <2> QED
    BY <1>0, <2>2, <2>3 DEF Queue
<1>3. CASE \E sync \in BOOLEAN : PostUnsignaledNoop(t, sync)
  <2>1. PICK sync \in BOOLEAN : PostUnsignaledNoop(t, sync)
    BY <1>3
  <2>2. CASE sync
    BY <2>1, <2>2 DEF PostUnsignaledNoop, hcaVars
  <2>3. CASE ~ sync
    <3>1. /\ Free(t) /\ ~ exited /\ Enter(t, "send", <<FALSE>>, sync)
          /\ <<"unsignaled_noop", sync>> \in Calls[t]
      BY <2>1, <2>3 DEF PostUnsignaledNoop, May
    <3>2. Posts(t, "send")
      BY <3>1 DEF Posts, PostingVerbs
    <3> QED
      BY <1>0, <3>1, <3>2 DEF Queue
  <2> QED
    BY <2>2, <2>3
<1>4. CASE \E sync \in BOOLEAN : PostBadRecv(t, sync)
  BY <1>4 DEF PostBadRecv, hcaVars
<1>5. CASE \E sync \in BOOLEAN : \E chain \in Chains : PostWr(t, chain, sync)
  <2>1. PICK sync \in BOOLEAN, chain \in Chains : PostWr(t, chain, sync)
    BY <1>5
  <2>2. /\ Free(t) /\ ~ exited /\ Enter(t, "send", chain, sync)
        /\ <<"wr", sync>> \in Calls[t]
    BY <2>1 DEF PostWr, May
  <2>3. chain \in Seq(BOOLEAN) /\ chain # <<>>
    BY CallsAssumption
  <2>4. Posts(t, "send")
    BY <2>2 DEF Posts, PostingVerbs
  <2> QED
    BY <2>2, <2>3, <2>4 DEF Queue
<1> QED
  BY <1>1, <1>2, <1>3, <1>4, <1>5 DEF StartCall

\* A step from a state where the library runs.
LEMMA StepKeepsStrict ==
  ASSUME OnePoster, TypeOK, TypeOK', Strict, ~ exited, ~ exited', Next
  PROVE  Strict'
<1>1. ASSUME NEW t \in Callers, StartCall(t)
      PROVE  Strict'
  <2>1. CASE \E q \in Queue, signaled \in Seq(BOOLEAN), sync \in BOOLEAN :
               /\ signaled # <<>> /\ Free(t) /\ Posts(t, q) /\ ~ exited
               /\ Enter(t, q, signaled, sync)
    <3>1. PICK q \in Queue, signaled \in Seq(BOOLEAN), sync \in BOOLEAN :
            /\ signaled # <<>> /\ Free(t) /\ Posts(t, q)
            /\ Enter(t, q, signaled, sync)
      BY <2>1
    <3> QED
      BY <3>1, PosterOf, EnterStrict
  <2>2. CASE \E q \in Queue : Await(t, q)
    <3>1. PICK q \in Queue : Await(t, q)
      BY <2>2
    <3>2. PICK i \in 1 .. Len(wq[q]) :
            call' = [call EXCEPT ![t] =
              [pc |-> "spin", q |-> q, wrs |-> <<wq[q][i]>>, sync |-> TRUE]]
      BY <3>1 DEF Await
    <3> DEFINE c == [pc |-> "spin", q |-> q, wrs |-> <<wq[q][i]>>, sync |-> TRUE]
    <3>3. call' = [call EXCEPT ![t] = c] /\ c.pc \notin {"post", "update"}
      BY <3>2
    <3>4. c \in Call
      BY <3>3 DEF TypeOK
    <3>5. call[t].pc \notin {"post", "update"}
      BY <3>1 DEF Await, May, Free
    <3>6. UNCHANGED <<last, last_compl, wc, wq, cq, qp, failed>>
      BY <3>1 DEF Await, hcaVars
    <3> HIDE DEF c
    <3> QED
      BY <3>3, <3>4, <3>5, <3>6, CallMoves
  <2> QED
    BY <1>1, <2>1, <2>2, StartCallCases
<1>2. ASSUME NEW t \in Callers, Post(t)
      PROVE  Strict'
  <2>1. call[t].q \in Queue /\ Len(call[t].wrs) \in Nat
    BY SMTT(30) DEF TypeOK, Call
  <2> QED
    BY <1>2, <2>1, PostStrict
<1>3. ASSUME NEW t \in Callers, SpinReturn(t)
      PROVE  Strict'
  <2>1. /\ call' = [call EXCEPT ![t] = Returned(t)]
        /\ call[t].pc \notin {"post", "update"}
        /\ UNCHANGED <<last, last_compl, wc, wq, cq, qp, failed>>
    BY <1>3 DEF SpinReturn, hcaVars
  <2>2. Returned(t) \in Call /\ Returned(t).pc \notin {"post", "update"}
    BY ReturnedType DEF Returned, NotInCall
  <2> QED
    BY <2>1, <2>2, CallMoves
<1>4. CASE PollCq
  BY <1>4, PollCqStrict
<1>5. CASE UpdateCompletions
  <2>1. wc.q \in Queue /\ wc.id \in Counter
    BY DEF TypeOK, Completion
  <2>2. Distance(wc.q, wc.id) \in Nat
    BY <2>1, Numbers
  <2> QED
    BY <1>5, <2>1, <2>2, UpdateStrict
<1>6. CASE CallbackReturns
  <2>1. /\ call' = [call EXCEPT ![Poller] = NotInCall("poll")]
        /\ call[Poller].pc \notin {"post", "update"} /\ Poller \in Callers
        /\ UNCHANGED <<last, last_compl, wc, wq, cq, qp, failed>>
    BY <1>6 DEF CallbackReturns, hcaVars, Callers
  <2>2. NotInCall("poll") \in Call /\ NotInCall("poll").pc \notin {"post", "update"}
    BY NotInCallType DEF NotInCall
  <2> QED
    BY <2>1, <2>2, CallMoves
<1>7. ASSUME NEW q \in Queue, NEW status \in {"success", "error"}, Execute(q, status)
      PROVE  Strict'
  <2>1. wq[q] \in Seq(WorkRequest) /\ wq[q] # <<>> /\ cq \in Seq(Completion)
    BY <1>7 DEF Execute, TypeOK
  <2>2. Head(wq[q]) \in WorkRequest
    BY <2>1, HeadTailProperties
  <2>3. Len(wq[q]) \in Nat /\ Len(wq[q]) # 0
    BY <2>1, EmptySeq
  <2>4. PICK m \in Nat : Len(wq[q]) = m + 1
    <3>1. Len(wq[q]) - 1 \in Nat /\ Len(wq[q]) = (Len(wq[q]) - 1) + 1
      BY <2>3
    <3> QED
      BY <3>1
  <2>5. Executed(q) \in Int /\ Len(cq) \in Nat
    BY <2>1, Numbers
  <2> QED
    BY <1>7, <2>2, <2>4, <2>5, ExecuteStrict
<1> QED
  BY <1>1, <1>2, <1>3, <1>4, <1>5, <1>6, <1>7
     DEF Next, ContinueCall, PollerLoop, Hca, HcaSend, HcaRecv, Queue

LEMMA StepKeepsSafe ==
  ASSUME OInv, [Next]_vars, exited'
  PROVE  Safe'
<1>1. CASE UNCHANGED vars
  BY <1>1, SafeStays DEF OInv, vars, callVars, hcaVars
<1>2. CASE exited
  BY <1>1, <1>2, NothingAfterExit
<1>3. CASE ~ exited /\ Next
  <2>1. UNCHANGED <<last_compl, wq, cq, failed>>
    <3>1. ASSUME NEW t \in Callers, StartCall(t)
          PROVE  UNCHANGED <<last_compl, wq, cq, failed>>
      BY <1>3, <3>1, StartCallCases DEF Enter, Await
    <3>2. ASSUME NEW t \in Callers, ContinueCall(t)
          PROVE  UNCHANGED <<last_compl, wq, cq, failed>>
      BY <1>3, <3>2 DEF ContinueCall, Post, SpinReturn
    <3> QED
      BY <1>3, <3>1, <3>2
         DEF Next, PollerLoop, PollCq, UpdateCompletions, CallbackReturns,
             Hca, HcaSend, HcaRecv, Execute
  <2> QED
    BY <2>1, SafeStays DEF OInv
<1> QED
  BY <1>1, <1>2, <1>3

\* The invariant holds in every reachable state.
THEOREM OInvHolds ==
  ASSUME OnePoster
  PROVE  Spec => []OInv
<1>1. Init => OInv
  BY InitOInv
<1>2. OInv /\ TypeOK' /\ [Next]_vars => OInv'
  <2>0. (TypeOK /\ Strict => Safe)'
    BY StrictIsSafe, PTL
  <2> SUFFICES ASSUME OInv, TypeOK', [Next]_vars PROVE OInv'
    OBVIOUS
  <2>1. CASE exited'
    BY <2>1, StepKeepsSafe DEF OInv
  <2>2. CASE ~ exited' /\ UNCHANGED vars
    BY <2>2 DEF OInv, Strict, Safe, OnlyPosterPosts, Waiting, InOrder, FailuresLast, Near,
                Posting, InPost, Executed, Uncompleted, Handling, Distance,
                vars, callVars, hcaVars
  <2>3. CASE ~ exited' /\ Next
    <3>1. ~ exited
      BY <2>3, NothingAfterExit DEF vars
    <3>2. Strict'
      BY <2>3, <3>1, StepKeepsStrict DEF OInv
    <3> QED
      BY <2>0, <3>2 DEF OInv
  <2> QED
    BY <2>1, <2>2, <2>3
<1> QED
  BY <1>1, <1>2, TypeCorrect, PTL DEF Spec

\* A caller leaves spin_till_completion only when the poller has taken the
\* successful completion of its request (connection.c 374-385).
THEOREM SyncReturnsHolds ==
  ASSUME OnePoster
  PROVE  Spec => []SyncReturnsAfterCompletion
<1>1. OInv => SyncReturnsAfterCompletion
  <2> SUFFICES ASSUME OInv, NEW t \in Callers, call[t].pc = "spin", Released(t),
                      NEW id, id = call[t].wrs[Len(call[t].wrs)].id,
                      NEW q, q = call[t].q,
                      id \in Unfinished(q) \cup failed[q]
               PROVE  FALSE
    BY DEF SyncReturnsAfterCompletion
  <2>1. q \in Queue /\ last_compl[q] \in Counter
    BY DEF OInv, TypeOK, Call
  <2>2. id \in Counter
    <3>1. call[t].wrs \in Seq(WorkRequest) /\ call[t].wrs # <<>>
      BY DEF OInv, TypeOK, Call
    <3>2. Len(call[t].wrs) \in 1 .. Len(call[t].wrs)
      BY <3>1, EmptySeq
    <3>3. call[t].wrs[Len(call[t].wrs)] \in WorkRequest
      BY <3>1, <3>2, ElementOfSeq, Zenon
    <3> QED
      BY <3>3 DEF WorkRequest
  <2>3. Near(q, id)
    BY <2>1 DEF OInv, Safe, Unfinished, NumbersIn
  <2>4. cmp_counters(id, last_compl[q]) > 0
    BY <2>1, <2>2, <2>3, NearIsAhead DEF Near, Distance
  <2>5. cmp_counters(id, last_compl[q]) <= 0
    BY DEF Released
  <2>6. cmp_counters(id, last_compl[q]) \in Int
    BY DEF cmp_counters
  <2> QED
    BY <2>4, <2>5, <2>6
<1> QED
  BY <1>1, OInvHolds, PTL

\* The recorded number never moves back, across wraparound (update_completions,
\* connection.c 360-372).
THEOREM CompletionsAdvanceHolds ==
  ASSUME OnePoster
  PROVE  Spec => CompletionsAdvance
<1>1. OInv /\ [Next]_vars =>
        \A q \in Queue : cmp_counters(last_compl'[q], last_compl[q]) >= 0
  <2> SUFFICES ASSUME OInv, [Next]_vars, NEW q \in Queue
               PROVE  cmp_counters(last_compl'[q], last_compl[q]) >= 0
    OBVIOUS
  <2>1. CASE UpdateCompletions
    <3>1. /\ ~ exited /\ call[Poller].pc = "update"
          /\ last_compl' = [last_compl EXCEPT ![wc.q] = wc.id]
      BY <2>1 DEF UpdateCompletions
    <3>2. wc.q \in Queue /\ wc.id \in Counter /\ last_compl[wc.q] \in Counter
      BY DEF OInv, TypeOK, Completion
    <3>3. CASE q = wc.q
      <4>1. Handling(q) /\ InOrder(q) /\ Waiting(q) /\ TypeOK
        BY <3>1, <3>3 DEF OInv, Strict, Handling
      <4>2. Distance(q, wc.id) \in 1 .. Executed(q)
        BY <4>1 DEF InOrder
      <4>3. Executed(q) \in 0 .. Window
        BY <4>1, Numbers DEF Waiting, Executed
      <4>4. CounterSub(wc.id, last_compl[q]) \in 1 .. Window
        BY <4>1, <4>2, <4>3, Numbers DEF Distance
      <4>5. last_compl'[q] = wc.id
        BY <3>1, <3>3, <4>1 DEF TypeOK
      <4>6. cmp_counters(wc.id, last_compl[q]) > 0
        BY <3>2, <3>3, <4>4, NearIsAhead
      <4> QED
        BY <4>5, <4>6 DEF cmp_counters
    <3>4. CASE q # wc.q
      BY <3>1, <3>2, <3>4 DEF cmp_counters, OInv, TypeOK
    <3> QED
      BY <3>3, <3>4
  <2>2. CASE ~ UpdateCompletions
    <3>1. last_compl' = last_compl
      <4>1. CASE UNCHANGED vars
        BY <4>1 DEF vars
      <4>2. ASSUME NEW t \in Callers, StartCall(t) PROVE last_compl' = last_compl
        BY <4>2, StartCallCases DEF Enter, Await
      <4>3. ASSUME NEW t \in Callers, ContinueCall(t) PROVE last_compl' = last_compl
        BY <4>3 DEF ContinueCall, Post, SpinReturn
      <4> QED
        BY <2>2, <4>1, <4>2, <4>3
           DEF Next, PollerLoop, PollCq, CallbackReturns, Hca, HcaSend, HcaRecv, Execute
    <3> QED
      BY <3>1 DEF cmp_counters
  <2> QED
    BY <2>1, <2>2
<1> QED
  BY <1>1, OInvHolds, PTL DEF Spec, CompletionsAdvance

\* A request that failed is never counted as completed (connection.c 389-400).
THEOREM FailuresHold ==
  ASSUME OnePoster
  PROVE  Spec => []FailuresNeverCountAsDone
<1>1. OInv => FailuresNeverCountAsDone
  <2> SUFFICES ASSUME OInv, NEW q \in Queue, NEW id \in failed[q]
               PROVE  cmp_counters(id, last_compl[q]) > 0
    BY DEF FailuresNeverCountAsDone
  <2>1. id \in Counter /\ last_compl[q] \in Counter
    BY DEF OInv, TypeOK
  <2>2. Near(q, id)
    BY DEF OInv, Safe
  <2> QED
    BY <2>1, <2>2, NearIsAhead DEF Near, Distance
<1> QED
  BY <1>1, OInvHolds, PTL
-----------------------------------------------------------------------------
(***************************************************************************)
(* An application that keeps to its window is never refused a request and  *)
(* never overruns the CQ.  WithinCapacity is not inductive: what the       *)
(* adapter still holds must be measured against the numbers that are out.  *)
(***************************************************************************)
\* The assumption: a window fits each queue and two windows the CQ, and nobody
\* makes the calls that the library refuses with exit().
RoomyQueues ==
  /\ Window <= SendDepth /\ Window <= RecvDepth /\ 2 * Window <= CqDepth
  /\ \A t \in Callers :
       /\ <<"unsignaled_noop", TRUE>> \notin Calls[t]
       /\ \A sync \in BOOLEAN : <<"bad_recv", sync>> \notin Calls[t]

\* The numbers past the recorded one whose slots are free again.
Freed(q) == Executed(q) + Len(wq[q]) - used[q]

\* Releasing so many slots frees those of the numbers up to n, once the first k
\* completions are polled.
Covers(q, n, k, slots) ==
  \/ n <= Freed(q) + slots
  \/ \E j \in 1 .. k : cq[j].q = q /\ n <= Distance(q, cq[j].id) + slots

\* Every completion releases its slot and those of the unsignaled requests
\* before it; the executed requests after the last one are held.
SlotsKept(q) ==
  /\ Freed(q) >= 0
  /\ Handling(q) => Distance(q, wc.id) <= Freed(q)
  /\ \A i \in 1 .. Len(cq) : cq[i].q = q =>
       Covers(q, Distance(q, cq[i].id), i - 1, cq[i].slots)
  /\ Covers(q, Executed(q), Len(cq), held[q])

CInv == OInv /\ WithinCapacity /\ \A q \in Queue : SlotsKept(q)

LEMMA SlotNumbers ==
  ASSUME TypeOK, NEW q \in Queue
  PROVE  /\ Executed(q) \in Int /\ Len(wq[q]) \in Nat /\ used[q] \in Int
         /\ held[q] \in Nat /\ Freed(q) \in Int /\ Len(cq) \in Nat
         /\ \A i \in 1 .. Len(cq) :
              /\ cq[i].q \in Queue /\ cq[i].id \in Counter /\ cq[i].slots \in Nat
              /\ Distance(q, cq[i].id) \in Nat
<1>1. Executed(q) \in Int /\ Len(wq[q]) \in Nat
  BY Numbers
<1>2. used[q] \in Int /\ held[q] \in Nat /\ cq \in Seq(Completion)
  BY DEF TypeOK
<1>3. Freed(q) \in Int
  BY <1>1, <1>2 DEF Freed
<1>4. ASSUME NEW i \in 1 .. Len(cq)
      PROVE  /\ cq[i].q \in Queue /\ cq[i].id \in Counter /\ cq[i].slots \in Nat
             /\ Distance(q, cq[i].id) \in Nat
  <2>1. cq[i] \in Completion
    BY <1>2, ElementOfSeq, Zenon
  <2>2. cq[i].q \in Queue /\ cq[i].id \in Counter /\ cq[i].slots \in Nat
    BY <2>1 DEF Completion
  <2> QED
    BY <2>2, Numbers
<1> QED
  BY <1>1, <1>2, <1>3, <1>4

\* A step that neither frees nor executes nor polls leaves a queue as it was.
LEMMA SlotsStay ==
  ASSUME NEW q \in Queue, SlotsKept(q), Freed(q)' = Freed(q), Executed(q)' = Executed(q),
         Handling(q)' => Handling(q) /\ wc' = wc,
         held'[q] = held[q], last_compl'[q] = last_compl[q], cq' = cq
  PROVE  SlotsKept(q)'
BY DEF SlotsKept, Covers, Distance

\* A call that has taken numbers finds room for them on its queue.
LEMMA QueueHasRoom ==
  ASSUME RoomyQueues, TypeOK, Strict, NEW t \in Callers, call[t].pc = "post",
         NEW q \in Queue, q = call[t].q, SlotsKept(q)
  PROVE  used[q] + Len(call[t].wrs) <= Depth(q)
<1>1. t = Poster(q) /\ Waiting(q)
  BY DEF Strict, OnlyPosterPosts
<1>2. InPost(q) = Len(call[t].wrs)
  BY <1>1 DEF InPost, Posting
<1>3. PICK u \in Nat, n \in Nat, m \in Nat, s \in Int :
        u = Uncompleted(q) /\ n = InPost(q) /\ m = Len(wq[q]) /\ s = used[q]
  BY Numbers, SlotNumbers
<1>4. u <= Window /\ (u - n - m) + m - s >= 0
  BY <1>1, <1>3 DEF Waiting, SlotsKept, Freed, Executed
<1>5. Window <= Depth(q) /\ Depth(q) \in Nat /\ Window \in Nat
  BY DepthAssumption DEF RoomyQueues, Depth, Queue
<1>6. s + n <= Depth(q)
  <2>1. u \in Nat /\ n \in Nat /\ m \in Nat /\ s \in Int
    BY <1>3
  <2> QED
    BY <1>4, <1>5, <2>1
<1> QED
  BY <1>2, <1>3, <1>6

\* A queue with a request left to execute leaves the CQ a place for it: the
\* completions of a queue have different numbers within the window.
LEMMA CqHasRoom ==
  ASSUME RoomyQueues, TypeOK, Strict, NEW q \in Queue, wq[q] # <<>>
  PROVE  Len(cq) < CqDepth
<1> DEFINE f == [i \in 1 .. Len(cq) |->
                   IF cq[i].q = "send" THEN Distance("send", cq[i].id)
                                       ELSE Window + Distance("recv", cq[i].id)]
           x == IF q = "send" THEN Window ELSE 2 * Window
           T == (1 .. 2 * Window) \ {x}
<1>1. Window \in Nat /\ Window >= 1 /\ 2 * Window <= CqDepth /\ CqDepth \in Nat
  BY WindowBelowWrap, DepthAssumption DEF RoomyQueues
<1>2. \A p \in Queue : Executed(p) \in 0 .. Window /\ Executed(p) + Len(wq[p]) <= Window
  <2> SUFFICES ASSUME NEW p \in Queue
               PROVE  Executed(p) \in 0 .. Window /\ Executed(p) + Len(wq[p]) <= Window
    OBVIOUS
  <2>1. Waiting(p)
    BY DEF Strict
  <2>2. PICK u \in Nat, n \in Nat, m \in Nat :
          u = Uncompleted(p) /\ n = InPost(p) /\ m = Len(wq[p])
    BY Numbers
  <2>3. Executed(p) = u - n - m /\ u - n - m >= 0 /\ u <= Window
    BY <2>1, <2>2 DEF Waiting, Executed
  <2>4. u \in Nat /\ n \in Nat /\ m \in Nat
    BY <2>2
  <2>5. u - n - m \in 0 .. Window /\ (u - n - m) + m <= Window
    BY <1>1, <2>3, <2>4
  <2> QED
    BY <2>2, <2>3, <2>5
<1>3. Executed(q) < Window
  <2>1. Len(wq[q]) \in Nat /\ Len(wq[q]) # 0
    BY EmptySeq DEF TypeOK
  <2> QED
    BY <1>1, <1>2, <2>1
<1>4. "send" \in Queue /\ "recv" \in Queue
  BY DEF Queue
<1>5. \A i \in 1 .. Len(cq) :
        /\ cq[i].q = "send" \/ cq[i].q = "recv"
        /\ cq[i].q = "send" => Distance("send", cq[i].id) \in 1 .. Executed("send")
        /\ cq[i].q = "recv" => Distance("recv", cq[i].id) \in 1 .. Executed("recv")
  BY <1>4, SlotNumbers DEF Strict, InOrder, Queue
<1>6. \A i \in 1 .. Len(cq) : f[i] \in T
  <2> SUFFICES ASSUME NEW i \in 1 .. Len(cq) PROVE f[i] \in T
    OBVIOUS
  <2>1. CASE cq[i].q = "send"
    <3>1. PICK y \in 1 .. Executed("send") : f[i] = y
      BY <1>5, <2>1
    <3>2. y \in 1 .. Window /\ (q = "send" => y < Window)
      BY <1>1, <1>2, <1>3, <1>4, <3>1
    <3> QED
      BY <1>1, <3>1, <3>2
  <2>2. CASE cq[i].q = "recv"
    <3>1. PICK y \in 1 .. Executed("recv") : f[i] = Window + y
      BY <1>5, <2>2
    <3>2. y \in 1 .. Window /\ (q = "recv" => y < Window)
      BY <1>1, <1>2, <1>3, <1>4, <3>1
    <3>3. q = "send" \/ q = "recv"
      BY DEF Queue
    <3> QED
      BY <1>1, <3>1, <3>2, <3>3
  <2> QED
    BY <1>5, <2>1, <2>2
<1>7. \A i, j \in 1 .. Len(cq) : i # j => f[i] # f[j]
  <2> SUFFICES ASSUME NEW i \in 1 .. Len(cq), NEW j \in 1 .. Len(cq), i < j
               PROVE  f[i] # f[j]
    BY SlotNumbers
  <2>1. \A p \in Queue : cq[i].q = p /\ cq[j].q = p =>
          Distance(p, cq[i].id) < Distance(p, cq[j].id)
    BY DEF Strict, InOrder
  <2>2. \A k \in 1 .. Len(cq) :
          /\ cq[k].q = "send" => Distance("send", cq[k].id) \in 1 .. Window
          /\ cq[k].q = "recv" => Distance("recv", cq[k].id) \in 1 .. Window
    BY <1>1, <1>2, <1>4, <1>5
  <2>3. CASE cq[i].q = cq[j].q
    BY <1>1, <1>4, <1>5, <2>1, <2>2, <2>3
  <2>4. CASE cq[i].q # cq[j].q
    BY <1>1, <1>5, <2>2, <2>4
  <2> QED
    BY <2>3, <2>4
<1>8. f \in [1 .. Len(cq) -> T]
  BY <1>6
<1>9. /\ IsFiniteSet(1 .. Len(cq)) /\ Cardinality(1 .. Len(cq)) = Len(cq)
      /\ IsFiniteSet(T) /\ Cardinality(T) = 2 * Window - 1
  <2>1. /\ IsFiniteSet(1 .. Len(cq)) /\ Cardinality(1 .. Len(cq)) = Len(cq)
    <3>1. PICK l \in Nat : l = Len(cq)
      BY SlotNumbers
    <3>2. IsFiniteSet(1 .. l) /\ Cardinality(1 .. l) = l
      BY FS_Interval
    <3> QED
      BY <3>1, <3>2
  <2>2. /\ IsFiniteSet(1 .. 2 * Window) /\ Cardinality(1 .. 2 * Window) = 2 * Window
    BY <1>1, FS_Interval
  <2>3. x \in 1 .. 2 * Window
    BY <1>1
  <2> QED
    BY <2>1, <2>2, <2>3, FS_RemoveElement, ZenonT(30)
<1> HIDE DEF f, T, x
<1>10. ~ (Cardinality(1 .. Len(cq)) > Cardinality(T))
  BY <1>7, <1>8, <1>9, FS_PigeonHole
<1> QED
  BY <1>1, <1>4, <1>9, <1>10, SlotNumbers

\* Nobody makes a call that is refused with exit().
LEMMA NoMisuse ==
  ASSUME RoomyQueues, NEW t \in Callers, StartCall(t), ~ exited
  PROVE  ~ exited'
<1>1. ASSUME NEW q, NEW signaled, NEW sync, Enter(t, q, signaled, sync)
      PROVE  exited' = exited
  BY <1>1 DEF Enter
<1>2. ASSUME NEW q, Await(t, q)
      PROVE  exited' = exited
  BY <1>2 DEF Await
<1>3. ASSUME NEW sync \in BOOLEAN, PostBadRecv(t, sync)
      PROVE  FALSE
  BY <1>3 DEF PostBadRecv, May, RoomyQueues
<1>4. ASSUME NEW sync \in BOOLEAN, PostUnsignaledNoop(t, sync)
      PROVE  exited' = exited
  <2>1. <<"unsignaled_noop", sync>> \in Calls[t]
    BY <1>4 DEF PostUnsignaledNoop, May
  <2>2. sync # TRUE
    BY <2>1 DEF RoomyQueues
  <2> QED
    BY <1>1, <1>4, <2>2 DEF PostUnsignaledNoop
<1> QED
  BY <1>1, <1>2, <1>3, <1>4
     DEF StartCall, PostSend, PostReadWrite, PostAtomic, PostNoop, PostRecv, PostWr

-----------------------------------------------------------------------------
\* A call takes numbers, or waits for one: no slot is taken or freed.
LEMMA StartCallSlots ==
  ASSUME OnePoster, RoomyQueues, TypeOK, TypeOK', Strict, ~ exited, NEW t \in Callers,
         StartCall(t), \A p \in Queue : SlotsKept(p)
  PROVE  \A p \in Queue : SlotsKept(p)'
<1>1. ~ exited'
  BY NoMisuse
<1>2. /\ UNCHANGED <<last_compl, wc, wq, used, held, cq>>
      /\ \A p \in Queue : Executed(p)' = Executed(p) /\ (Handling(p)' => Handling(p))
  <2>1. CASE \E q \in Queue, signaled \in Seq(BOOLEAN), sync \in BOOLEAN :
               /\ signaled # <<>> /\ Free(t) /\ Posts(t, q) /\ ~ exited
               /\ Enter(t, q, signaled, sync)
    <3>1. PICK q \in Queue, signaled \in Seq(BOOLEAN), sync \in BOOLEAN :
            /\ signaled # <<>> /\ Free(t) /\ Posts(t, q)
            /\ Enter(t, q, signaled, sync)
      BY <2>1
    <3>2. \A p \in Queue : Executed(p)' = Executed(p) /\ (Handling(p)' => Handling(p))
      BY <3>1, PosterOf, EnterStrict
    <3>3. UNCHANGED <<last_compl, wc, wq, used, held, cq>>
      BY <3>1 DEF Enter, hcaVars
    <3> QED
      BY <3>2, <3>3
  <2>2. CASE \E q \in Queue : Await(t, q)
    <3>1. PICK q \in Queue : Await(t, q)
      BY <2>2
    <3>2. /\ UNCHANGED <<last, last_compl, wc, wq, used, held, cq, qp, failed>>
          /\ call[t].pc \notin {"post", "update"}
      BY <3>1 DEF Await, hcaVars, May, Free
    <3>3. PICK i \in 1 .. Len(wq[q]) :
            call' = [call EXCEPT ![t] =
              [pc |-> "spin", q |-> q, wrs |-> <<wq[q][i]>>, sync |-> TRUE]]
      BY <3>1 DEF Await
    <3> DEFINE c == [pc |-> "spin", q |-> q, wrs |-> <<wq[q][i]>>, sync |-> TRUE]
    <3>4. call' = [call EXCEPT ![t] = c] /\ c.pc \notin {"post", "update"}
      BY <3>3
    <3>5. c \in Call
      BY <3>4 DEF TypeOK
    <3> HIDE DEF c
    <3>6. \A p \in Queue : Executed(p)' = Executed(p) /\ (Handling(p)' => Handling(p))
      BY <3>2, <3>4, <3>5, CallMoves
    <3> QED
      BY <3>2, <3>6
  <2> QED
    BY <1>1, <2>1, <2>2, StartCallCases
<1>3. \A p \in Queue : Freed(p)' = Freed(p)
  BY <1>2 DEF Freed
<1> QED
  BY <1>2, <1>3, SlotsStay

\* What a call posts takes as many slots as requests.
LEMMA PostSlots ==
  ASSUME TypeOK, TypeOK', Strict, NEW t \in Callers, Post(t), ~ exited',
         \A p \in Queue : SlotsKept(p)
  PROVE  \A p \in Queue : SlotsKept(p)'
<1>1. PICK q \in Queue, n \in Nat : q = call[t].q /\ n = Len(call[t].wrs)
  BY DEF TypeOK, Call
<1>2. \A p \in Queue : Executed(p)' = Executed(p) /\ (Handling(p)' => Handling(p))
  BY <1>1, PostStrict
<1>3. /\ wq' = [wq EXCEPT ![q] = wq[q] \o call[t].wrs]
      /\ used' = [used EXCEPT ![q] = used[q] + n]
      /\ UNCHANGED <<last_compl, wc, held, cq>>
  BY <1>1 DEF Post
<1>4. Freed(q)' = Freed(q)
  <2>1. wq[q] \in Seq(WorkRequest) /\ call[t].wrs \in Seq(WorkRequest)
    BY DEF TypeOK, Call
  <2>2. Len(wq[q] \o call[t].wrs) = Len(wq[q]) + n
    BY <1>1, <2>1, ConcatProperties
  <2>3. wq'[q] = wq[q] \o call[t].wrs /\ used'[q] = used[q] + n
    BY <1>3 DEF TypeOK
  <2>4. PICK m \in Nat, s \in Int, e \in Int :
          m = Len(wq[q]) /\ s = used[q] /\ e = Executed(q)
    BY SlotNumbers
  <2>5. Freed(q)' = e + (m + n) - (s + n) /\ Freed(q) = e + m - s
    BY <1>2, <2>2, <2>3, <2>4 DEF Freed
  <2>6. e \in Int /\ m \in Nat /\ n \in Nat /\ s \in Int
    BY <1>1, <2>4
  <2>7. e + (m + n) - (s + n) = e + m - s
    BY <2>6
  <2> QED
    BY <2>5, <2>7
<1>5. \A p \in Queue : p # q => Freed(p)' = Freed(p)
  BY <1>2, <1>3 DEF TypeOK, Freed
<1> QED
  BY <1>2, <1>3, <1>4, <1>5, SlotsStay

\* Polling a completion releases its slots.
LEMMA PollCqSlots ==
  ASSUME TypeOK, TypeOK', Strict, PollCq, \A p \in Queue : SlotsKept(p), NEW q \in Queue
  PROVE  SlotsKept(q)'
<1>1. /\ call[Poller].pc = "poll" /\ cq # <<>> /\ cq' = Tail(cq)
      /\ used' = [used EXCEPT ![Head(cq).q] = used[Head(cq).q] - Head(cq).slots]
      /\ UNCHANGED <<last_compl, wq, held>>
      /\ Poller \in Callers /\ cq \in Seq(Completion)
  BY DEF PollCq, Callers, TypeOK
<1>2. Executed(q)' = Executed(q)
  BY PollCqStrict
<1>3. PICK m \in Nat : Len(cq) = m + 1 /\ Len(cq') = m
  <2>1. Len(cq) \in Nat /\ Len(cq) # 0
    BY <1>1, EmptySeq
  <2>2. Len(cq) - 1 \in Nat /\ Len(cq') = Len(cq) - 1
    BY <1>1, <2>1, HeadTailProperties
  <2> QED
    BY <2>1, <2>2
<1>4. Head(cq) = cq[1] /\ \A i \in 1 .. m : cq'[i] = cq[i + 1]
  BY <1>1, <1>3
<1>5. 1 \in 1 .. m + 1 /\ \A i \in 1 .. m : i + 1 \in 1 .. m + 1
  BY <1>3
<1>6. PICK f \in Int, g \in Int, s \in Nat :
        f = Freed(q) /\ g = Freed(q)' /\ s = cq[1].slots
  <2>1. Freed(q) \in Int /\ cq[1].slots \in Nat
    BY <1>3, <1>5, SlotNumbers
  <2>2. Executed(q) \in Int /\ Len(wq[q]) \in Nat /\ used'[q] \in Int
    BY SlotNumbers DEF TypeOK
  <2>3. Freed(q)' = Executed(q) + Len(wq[q]) - used'[q]
    BY <1>1, <1>2 DEF Freed
  <2> QED
    BY <2>1, <2>2, <2>3
<1>7. g = IF cq[1].q = q THEN f + s ELSE f
  <2>1. used'[q] = IF cq[1].q = q THEN used[q] - s ELSE used[q]
    BY <1>1, <1>4, <1>6 DEF TypeOK
  <2>2. PICK e \in Int, n \in Nat, u \in Int :
          e = Executed(q) /\ n = Len(wq[q]) /\ u = used[q]
    BY SlotNumbers
  <2>3. f = e + n - u /\ g = e + n - (IF cq[1].q = q THEN u - s ELSE u)
    BY <1>1, <1>2, <1>6, <2>1, <2>2 DEF Freed
  <2>4. e \in Int /\ n \in Nat /\ u \in Int /\ s \in Nat /\ f \in Int /\ g \in Int
    BY <1>6, <2>2
  <2> QED
    BY <2>3, <2>4
<1>8. SlotsKept(q)
  OBVIOUS
<1>9. cq[1].q = q => Distance(q, cq[1].id) \in Nat /\ Distance(q, cq[1].id) <= g
  <2> SUFFICES ASSUME cq[1].q = q
               PROVE  Distance(q, cq[1].id) \in Nat /\ Distance(q, cq[1].id) <= g
    OBVIOUS
  <2>1. Covers(q, Distance(q, cq[1].id), 0, s) /\ Distance(q, cq[1].id) \in Nat
    BY <1>3, <1>5, <1>6, <1>8, SlotNumbers DEF SlotsKept
  <2> QED
    BY <1>6, <1>7, <2>1 DEF Covers
<1>10. ASSUME NEW n \in Int, NEW k \in 0 .. m, NEW r \in Nat, Covers(q, n, k + 1, r)
       PROVE  \/ n <= g + r
              \/ \E j \in 1 .. k : cq'[j].q = q /\ n <= Distance(q, cq'[j].id) + r
  <2>1. CASE n <= f + r
    BY <1>6, <1>7, <2>1
  <2>2. CASE \E j \in 1 .. k + 1 : cq[j].q = q /\ n <= Distance(q, cq[j].id) + r
    <3>1. PICK j \in 1 .. k + 1 : cq[j].q = q /\ n <= Distance(q, cq[j].id) + r
      BY <2>2
    <3>2. CASE j = 1
      BY <1>6, <1>9, <3>1, <3>2
    <3>3. CASE j # 1
      <4>1. j - 1 \in 1 .. k /\ j - 1 \in 1 .. m /\ (j - 1) + 1 = j
        BY <3>3
      <4>2. cq'[j - 1] = cq[j]
        BY <1>4, <4>1
      <4> QED
        BY <3>1, <4>1, <4>2
    <3> QED
      BY <3>2, <3>3
  <2> QED
    BY <1>6, <1>10, <2>1, <2>2 DEF Covers
<1>11. g >= 0
  BY <1>6, <1>7, <1>8 DEF SlotsKept
<1>12. Handling(q)' => Distance(q, wc'.id) <= g
  <2>1. Handling(q)' => cq[1].q = q /\ wc' = cq[1]
    BY <1>1, <1>4 DEF PollCq, TypeOK, Call, Handling
  <2> QED
    BY <1>9, <2>1
<1>13. ASSUME NEW i \in 1 .. m, cq'[i].q = q
       PROVE  \/ Distance(q, cq'[i].id) <= g + cq'[i].slots
              \/ \E j \in 1 .. i - 1 :
                   cq'[j].q = q /\ Distance(q, cq'[i].id) <= Distance(q, cq'[j].id) + cq'[i].slots
  <2>1. cq'[i] = cq[i + 1] /\ i + 1 \in 1 .. m + 1 /\ (i + 1) - 1 = (i - 1) + 1
        /\ i - 1 \in 0 .. m
    BY <1>4, <1>5
  <2>2. Covers(q, Distance(q, cq[i + 1].id), (i - 1) + 1, cq[i + 1].slots)
    BY <1>3, <1>8, <1>13, <2>1 DEF SlotsKept
  <2>3. Distance(q, cq[i + 1].id) \in Int /\ cq[i + 1].slots \in Nat
    <3>1. i + 1 \in 1 .. Len(cq)
      BY <1>3, <2>1
    <3>2. Distance(q, cq[i + 1].id) \in Nat /\ cq[i + 1].slots \in Nat
      BY <3>1, SlotNumbers
    <3> QED
      BY <3>2
  <2>4. \/ Distance(q, cq[i + 1].id) <= g + cq[i + 1].slots
        \/ \E j \in 1 .. i - 1 :
             cq'[j].q = q /\ Distance(q, cq[i + 1].id) <= Distance(q, cq'[j].id) + cq[i + 1].slots
    BY <1>10, <2>1, <2>2, <2>3
  <2> QED
    BY <2>1, <2>4
<1>14. \/ Executed(q) <= g + held[q]
       \/ \E j \in 1 .. m : cq'[j].q = q /\ Executed(q) <= Distance(q, cq'[j].id) + held[q]
  <2>1. Covers(q, Executed(q), m + 1, held[q]) /\ m \in 0 .. m
    BY <1>3, <1>8 DEF SlotsKept
  <2> QED
    BY <1>10, <2>1, SlotNumbers
<1> QED
  BY <1>1, <1>2, <1>3, <1>6, <1>11, <1>12, <1>13, <1>14 DEF SlotsKept, Covers, Distance

\* Recording a completion leaves what is freed past it.
LEMMA UpdateSlots ==
  ASSUME TypeOK, TypeOK', Strict, UpdateCompletions, \A p \in Queue : SlotsKept(p),
         NEW q \in Queue
  PROVE  SlotsKept(q)'
<1> DEFINE r == wc.q
<1>1. /\ call[Poller].pc = "update"
      /\ last_compl' = [last_compl EXCEPT ![r] = wc.id]
      /\ call' = [call EXCEPT ![Poller].pc = "callback"]
      /\ UNCHANGED <<wq, used, held, cq>>
      /\ Poller \in Callers /\ r \in Queue /\ wc.id \in Counter
  BY DEF UpdateCompletions, hcaVars, TypeOK, Callers, Completion
<1>2. PICK d \in Nat : d = Distance(r, wc.id)
  BY <1>1, Numbers
<1>3. \A p \in Queue : Executed(p)' = IF p = r THEN Executed(p) - d ELSE Executed(p)
  BY <1>1, <1>2, UpdateStrict
<1>4. ~ Handling(q)'
  <2>1. call'[Poller].pc = "callback"
    BY <1>1 DEF TypeOK, Call
  <2> QED
    BY <2>1 DEF Handling
<1>5. SlotsKept(q)
  OBVIOUS
<1>6. CASE q # r
  <2>1. Executed(q)' = Executed(q) /\ last_compl'[q] = last_compl[q]
    BY <1>1, <1>3, <1>6 DEF TypeOK
  <2>2. Freed(q)' = Freed(q)
    BY <1>1, <2>1 DEF Freed
  <2> QED
    BY <1>1, <1>4, <1>5, <2>1, <2>2, SlotsStay
<1>7. CASE q = r
  <2>1. InOrder(q) /\ Handling(q)
    BY <1>1, <1>7 DEF Strict, Handling
  <2>2. last_compl'[q] = wc.id /\ last_compl[q] \in Counter
    BY <1>1, <1>7 DEF TypeOK
  <2>3. PICK e \in Int, n \in Nat, u \in Int, h \in Nat, f \in Int, l \in Nat :
          /\ e = Executed(q) /\ n = Len(wq[q]) /\ u = used[q]
          /\ h = held[q] /\ f = Freed(q) /\ l = Len(cq)
    BY SlotNumbers
  <2>4. Executed(q)' = e - d
    BY <1>3, <1>7, <2>3
  <2>5. Freed(q)' = f - d
    <3>1. f = e + n - u /\ Freed(q)' = (e - d) + n - u
      BY <1>1, <2>3, <2>4 DEF Freed
    <3>2. e \in Int /\ n \in Nat /\ u \in Int /\ d \in Nat
      BY <1>2, <2>3
    <3>3. (e - d) + n - u = (e + n - u) - d
      BY <3>2
    <3> QED
      BY <3>1, <3>3
  <2>6. d <= f
    BY <1>2, <1>5, <1>7, <2>1, <2>3 DEF SlotsKept
  <2>7. \A j \in 1 .. l : cq[j].q = q =>
          /\ Distance(q, cq[j].id) \in Nat
          /\ CounterSub(cq[j].id, last_compl'[q]) = Distance(q, cq[j].id) - d
    <3> SUFFICES ASSUME NEW j \in 1 .. l, cq[j].q = q
                 PROVE  /\ Distance(q, cq[j].id) \in Nat
                        /\ CounterSub(cq[j].id, last_compl'[q]) = Distance(q, cq[j].id) - d
      OBVIOUS
    <3>1. Distance(q, cq[j].id) \in Nat /\ cq[j].id \in Counter
      BY <2>3, SlotNumbers
    <3>2. d < Distance(q, cq[j].id)
      BY <1>2, <1>7, <2>1, <2>3 DEF InOrder
    <3>3. CounterSub(wc.id, last_compl[q]) <= CounterSub(cq[j].id, last_compl[q])
      BY <1>2, <1>7, <3>1, <3>2 DEF Distance
    <3>4. CounterSub(cq[j].id, wc.id)
            = CounterSub(cq[j].id, last_compl[q]) - CounterSub(wc.id, last_compl[q])
      BY <1>1, <2>2, <3>1, <3>3, DistanceLater
    <3> QED
      BY <1>2, <1>7, <2>2, <3>1, <3>4 DEF Distance
  <2>8. ASSUME NEW n0 \in Int, NEW k \in 0 .. l, NEW s \in Nat, Covers(q, n0, k, s)
        PROVE  \/ n0 - d <= (f - d) + s
               \/ \E j \in 1 .. k :
                    cq[j].q = q /\ n0 - d <= CounterSub(cq[j].id, last_compl'[q]) + s
    <3>1. CASE n0 <= f + s
      BY <1>2, <2>3, <3>1
    <3>2. CASE \E j \in 1 .. k : cq[j].q = q /\ n0 <= Distance(q, cq[j].id) + s
      <4>1. PICK j \in 1 .. k : cq[j].q = q /\ n0 <= Distance(q, cq[j].id) + s
        BY <3>2
      <4>2. j \in 1 .. l
        BY <2>3
      <4>3. PICK x \in Nat : x = Distance(q, cq[j].id)
        BY <2>7, <4>1, <4>2
      <4>4. CounterSub(cq[j].id, last_compl'[q]) = x - d
        BY <2>7, <4>1, <4>2, <4>3
      <4>5. n0 - d <= (x - d) + s
        BY <1>2, <4>1, <4>3
      <4> QED
        BY <4>1, <4>4, <4>5
    <3> QED
      BY <2>3, <2>8, <3>1, <3>2 DEF Covers
  <2>9. f - d >= 0
    BY <1>2, <2>3, <2>6
  <2>10. ASSUME NEW i \in 1 .. l, cq[i].q = q
         PROVE  LET x == CounterSub(cq[i].id, last_compl'[q])
                IN \/ x <= (f - d) + cq[i].slots
                   \/ \E j \in 1 .. i - 1 : /\ cq[j].q = q
                                            /\ x <= CounterSub(cq[j].id, last_compl'[q]) + cq[i].slots
    <3>1. Covers(q, Distance(q, cq[i].id), i - 1, cq[i].slots) /\ i - 1 \in 0 .. l
      BY <1>5, <2>3, <2>10 DEF SlotsKept
    <3>2. Distance(q, cq[i].id) \in Int /\ cq[i].slots \in Nat
      BY <2>3, <2>7, <2>10, SlotNumbers
    <3>3. CounterSub(cq[i].id, last_compl'[q]) = Distance(q, cq[i].id) - d
      BY <2>7, <2>10
    <3> QED
      BY <2>8, <3>1, <3>2, <3>3
  <2>11. \/ e - d <= (f - d) + h
         \/ \E j \in 1 .. l : /\ cq[j].q = q
                              /\ e - d <= CounterSub(cq[j].id, last_compl'[q]) + h
    <3>1. Covers(q, e, l, h) /\ l \in 0 .. l
      BY <1>5, <2>3 DEF SlotsKept
    <3> QED
      BY <2>3, <2>8, <3>1
  <2> QED
    BY <1>1, <1>4, <2>3, <2>4, <2>5, <2>9, <2>10, <2>11 DEF SlotsKept, Covers, Distance
<1> QED
  BY <1>6, <1>7

\* An executed request holds its slot until a completion releases it.
LEMMA ExecuteSlots ==
  ASSUME RoomyQueues, TypeOK, TypeOK', Strict, NEW q \in Queue,
         NEW status \in {"success", "error"}, Execute(q, status),
         NEW m \in Nat, Len(wq[q]) = m + 1, NEW wr \in WorkRequest, wr = Head(wq[q]),
         \A p \in Queue : SlotsKept(p)
  PROVE  ~ overrun' /\ \A p \in Queue : SlotsKept(p)'
<1> DEFINE visible == wr.signaled \/ status = "error"
           cqe == [q |-> q, id |-> wr.id, status |-> status, slots |-> held[q] + 1]
<1>1. wq[q] # <<>> /\ wq[q] \in Seq(WorkRequest) /\ cq \in Seq(Completion)
  BY DEF Execute, TypeOK
<1>2. Len(cq) < CqDepth
  BY <1>1, CqHasRoom
<1>3. PICK e \in Int, u \in Int, h \in Nat, l \in Nat, f \in Int :
        /\ e = Executed(q) /\ u = used[q] /\ h = held[q] /\ l = Len(cq) /\ f = Freed(q)
  BY SlotNumbers
<1>4. ~ (Len(cq) >= CqDepth)
  BY <1>2, <1>3, DepthAssumption
<1>5. /\ ~ overrun'
      /\ wq' = [wq EXCEPT ![q] = Tail(wq[q])]
      /\ held' = [held EXCEPT ![q] = IF visible THEN 0 ELSE h + 1]
      /\ cq' = IF visible THEN Append(cq, cqe) ELSE cq
      /\ UNCHANGED <<last_compl, wc, call, used>>
  BY <1>3, <1>4 DEF Execute, callVars
<1>6. \A p \in Queue : Executed(p)' = IF p = q THEN e + 1 ELSE Executed(p)
  BY <1>3, ExecuteStrict
<1>7. \A p \in Queue : Freed(p)' = Freed(p)
  <2>1. Len(wq'[q]) = m
    <3>1. wq'[q] = Tail(wq[q])
      BY <1>5 DEF TypeOK
    <3>2. Len(Tail(wq[q])) = Len(wq[q]) - 1
      BY <1>1, HeadTailProperties
    <3> QED
      BY <3>1, <3>2
  <2>2. Freed(q)' = (e + 1) + m - u /\ Freed(q) = e + (m + 1) - u
    BY <1>3, <1>5, <1>6, <2>1 DEF Freed
  <2>3. e \in Int /\ m \in Nat /\ u \in Int
    BY <1>3
  <2>4. (e + 1) + m - u = e + (m + 1) - u
    BY <2>3
  <2>5. \A p \in Queue : p # q => wq'[p] = wq[p]
    BY <1>5 DEF TypeOK
  <2> QED
    BY <1>5, <1>6, <2>2, <2>4, <2>5 DEF Freed
<1>8. wr.id \in Counter /\ Distance(q, wr.id) = e + 1
  <2>1. wq[q][1] = wr /\ 1 \in 1 .. m + 1
    BY <1>1
  <2>2. Waiting(q)
    BY DEF Strict
  <2> QED
    BY <1>3, <2>1, <2>2 DEF Waiting, WorkRequest
<1>9. PICK k \in Nat :
        /\ Len(cq') = k /\ l <= k /\ k <= l + 1
        /\ \A i \in 1 .. l : cq'[i] = cq[i]
        /\ k = l + 1 => visible /\ cq'[l + 1] = cqe
        /\ visible => k = l + 1
  <2> HIDE DEF visible, cqe
  <2>1. CASE visible
    BY <1>1, <1>3, <1>5, <2>1
  <2>2. CASE ~ visible
    BY <1>3, <1>5, <2>2
  <2> QED
    BY <2>1, <2>2
<1>10. cqe.q = q /\ cqe.id = wr.id /\ cqe.slots = h + 1
  BY <1>3
<1>11. ASSUME NEW p \in Queue, NEW n \in Int, NEW j \in 0 .. l, NEW s \in Nat, Covers(p, n, j, s)
       PROVE  \A i \in j .. k :
                \/ n <= Freed(p) + s
                \/ \E o \in 1 .. i : cq'[o].q = p /\ n <= Distance(p, cq'[o].id) + s
  <2> SUFFICES ASSUME NEW i \in j .. k, ~ (n <= Freed(p) + s)
               PROVE  \E o \in 1 .. i : cq'[o].q = p /\ n <= Distance(p, cq'[o].id) + s
    OBVIOUS
  <2>1. PICK o \in 1 .. j : cq[o].q = p /\ n <= Distance(p, cq[o].id) + s
    BY <1>11 DEF Covers
  <2>2. o \in 1 .. i /\ o \in 1 .. l
    BY <1>3, <1>9
  <2> QED
    BY <1>9, <2>1, <2>2
<1> HIDE DEF cqe, visible
<1>12. ASSUME NEW p \in Queue PROVE SlotsKept(p)'
  <2>1. SlotsKept(p)
    OBVIOUS
  <2>2. Handling(p)' => Handling(p)
    BY <1>5 DEF Handling
  <2>3. ASSUME NEW i \in 1 .. k, cq'[i].q = p
        PROVE  \/ Distance(p, cq'[i].id) <= Freed(p) + cq'[i].slots
               \/ \E o \in 1 .. i - 1 :
                    cq'[o].q = p /\ Distance(p, cq'[i].id) <= Distance(p, cq'[o].id) + cq'[i].slots
    <3>1. CASE i \in 1 .. l
      <4>1. cq'[i] = cq[i] /\ i - 1 \in 0 .. l /\ i - 1 \in i - 1 .. k
        BY <1>3, <1>9, <3>1
      <4>2. Covers(p, Distance(p, cq[i].id), i - 1, cq[i].slots)
        BY <1>3, <2>1, <2>3, <3>1, <4>1 DEF SlotsKept
      <4>3. Distance(p, cq[i].id) \in Int /\ cq[i].slots \in Nat
        BY <1>3, <3>1, SlotNumbers
      <4> QED
        BY <1>11, <4>1, <4>2, <4>3
    <3>2. CASE i = l + 1 /\ k = l + 1
      <4>1. cq'[i] = cqe /\ p = q
        BY <1>9, <1>10, <2>3, <3>2
      <4>2. Covers(q, e, l, h) /\ l \in 0 .. l /\ l \in l .. k
        BY <1>3, <1>9, <2>1, <4>1 DEF SlotsKept
      <4>3. \/ e <= f + h
            \/ \E o \in 1 .. l : cq'[o].q = q /\ e <= Distance(q, cq'[o].id) + h
        BY <1>3, <1>11, <4>2
      <4>4. \A o \in 1 .. l : cq'[o].q = q => Distance(q, cq'[o].id) \in Nat
        BY <1>3, <1>9, SlotNumbers
      <4>5. \/ e + 1 <= f + (h + 1)
            \/ \E o \in 1 .. l : cq'[o].q = q /\ e + 1 <= Distance(q, cq'[o].id) + (h + 1)
        <5>1. \A y \in Nat : e <= y + h => e + 1 <= y + (h + 1)
          BY <1>3
        <5>2. e <= f + h => e + 1 <= f + (h + 1)
          BY <1>3
        <5> QED
          BY <4>3, <4>4, <5>1, <5>2
      <4>6. i - 1 = l
        BY <1>3, <3>2
      <4> QED
        BY <1>3, <1>8, <1>10, <4>1, <4>5, <4>6
    <3> QED
      BY <1>3, <1>9, <3>1, <3>2
  <2>4. LET x == Executed(p)'
        IN \/ x <= Freed(p) + held'[p]
           \/ \E o \in 1 .. k : cq'[o].q = p /\ x <= Distance(p, cq'[o].id) + held'[p]
    <3>1. CASE p # q
      <4>1. Executed(p)' = Executed(p) /\ held'[p] = held[p]
        BY <1>5, <1>6, <3>1 DEF TypeOK
      <4>2. Covers(p, Executed(p), l, held[p]) /\ l \in 0 .. l /\ k \in l .. k
        BY <1>3, <1>9, <2>1 DEF SlotsKept
      <4>3. Executed(p) \in Int /\ held[p] \in Nat
        BY SlotNumbers
      <4>4. \/ Executed(p) <= Freed(p) + held[p]
            \/ \E o \in 1 .. k : cq'[o].q = p /\ Executed(p) <= Distance(p, cq'[o].id) + held[p]
        BY <1>11, <4>2, <4>3
      <4> QED
        BY <4>1, <4>4
    <3>2. CASE p = q /\ ~ visible
      <4>1. Executed(p)' = e + 1 /\ held'[p] = h + 1
        BY <1>5, <1>6, <3>2 DEF TypeOK
      <4>2. Covers(q, e, l, h) /\ l \in 0 .. l /\ k \in l .. k
        BY <1>3, <1>9, <2>1, <3>2 DEF SlotsKept
      <4>3. k = l
        BY <1>3, <1>9, <3>2
      <4>4. \/ e <= f + h
            \/ \E o \in 1 .. k : cq'[o].q = q /\ e <= Distance(q, cq'[o].id) + h
        BY <1>3, <1>11, <4>2
      <4>5. \A o \in 1 .. k : cq'[o].q = q => Distance(q, cq'[o].id) \in Nat
        BY <1>3, <1>9, <4>3, SlotNumbers
      <4>6. \A y \in Nat : e <= y + h => e + 1 <= y + (h + 1)
        BY <1>3
      <4>7. e <= f + h => e + 1 <= f + (h + 1)
        BY <1>3
      <4> QED
        BY <1>3, <3>2, <4>1, <4>4, <4>5, <4>6, <4>7
    <3>3. CASE p = q /\ visible
      <4>1. Executed(p)' = e + 1 /\ held'[p] = 0
        BY <1>5, <1>6, <3>3 DEF TypeOK
      <4>2. k = l + 1 /\ cq'[k].q = q /\ Distance(q, cq'[k].id) = e + 1 /\ k \in 1 .. k
        BY <1>3, <1>8, <1>9, <1>10, <3>3
      <4>3. e + 1 <= (e + 1) + 0
        BY <1>3
      <4> QED
        BY <3>3, <4>1, <4>2, <4>3
    <3> QED
      BY <3>1, <3>2, <3>3
  <2>5. Freed(p) >= 0 /\ (Handling(p)' => Distance(p, wc.id) <= Freed(p))
    BY <2>1, <2>2 DEF SlotsKept
  <2> QED
    BY <1>5, <1>7, <1>9, <2>3, <2>4, <2>5 DEF SlotsKept, Covers, Distance
<1> QED
  BY <1>5, <1>12

\* The invariant of an application that keeps to its window.
LEMMA CInvHolds ==
  ASSUME OnePoster, RoomyQueues
  PROVE  Spec => []CInv
<1>1. Init => CInv
  <2> SUFFICES ASSUME Init PROVE CInv
    OBVIOUS
  <2>1. OInv /\ WithinCapacity
    BY InitOInv DEF Init, WithinCapacity
  <2>2. ASSUME NEW q \in Queue PROVE SlotsKept(q)
    <3>1. wq[q] = <<>> /\ used[q] = 0 /\ held[q] = 0 /\ cq = <<>>
      BY DEF Init
    <3>2. Uncompleted(q) = 0
      BY WrapAssumption DEF Init, Uncompleted, CounterSub
    <3>3. ~ Handling(q) /\ InPost(q) = 0
      BY PosterIsCaller DEF Init, InPost, Posting, Handling, NotInCall, Callers
    <3>4. Executed(q) = 0 /\ Freed(q) = 0
      <4>1. Len(wq[q]) = 0
        BY <3>1
      <4>2. Executed(q) = 0
        BY <3>2, <3>3, <4>1 DEF Executed
      <4> QED
        BY <3>1, <4>1, <4>2 DEF Freed
    <3> QED
      BY <3>1, <3>3, <3>4 DEF SlotsKept, Covers
  <2> QED
    BY <2>1, <2>2 DEF CInv
<1>2. CInv /\ OInv' /\ [Next]_vars => CInv'
  <2> SUFFICES ASSUME CInv, OInv', [Next]_vars
               PROVE  ~ overrun' /\ ~ exited' /\ \A q \in Queue : SlotsKept(q)'
    BY DEF CInv, WithinCapacity
  <2>0. TypeOK /\ TypeOK' /\ Strict /\ ~ exited /\ ~ overrun /\ \A q \in Queue : SlotsKept(q)
    BY DEF CInv, OInv, WithinCapacity
  <2>1. CASE UNCHANGED vars
    <3>1. UNCHANGED <<last, last_compl, call, wc, wq, used, held, cq, overrun, exited>>
      BY <2>1 DEF vars, callVars, hcaVars
    <3>2. ASSUME NEW q \in Queue PROVE SlotsKept(q)'
      <4>0. wc' = wc /\ held' = held /\ last_compl' = last_compl /\ cq' = cq
        BY <3>1
      <4>1. Freed(q)' = Freed(q) /\ Executed(q)' = Executed(q)
        BY <3>1 DEF Freed, Executed, InPost, Posting, Uncompleted
      <4>2. Handling(q)' => Handling(q) /\ wc' = wc
        BY <3>1, <4>0 DEF Handling
      <4>3. held'[q] = held[q] /\ last_compl'[q] = last_compl[q]
        BY <4>0
      <4> QED
        BY <2>0, <4>0, <4>1, <4>2, <4>3, SlotsStay
    <3> QED
      BY <2>0, <3>1, <3>2
  <2>2. ASSUME NEW t \in Callers, StartCall(t)
        PROVE  ~ overrun' /\ ~ exited' /\ \A q \in Queue : SlotsKept(q)'
    <3>1. ~ exited'
      BY <2>0, <2>2, NoMisuse
    <3>2. overrun' = overrun
      BY <2>2, <3>1 DEF StartCall, PostSend, PostReadWrite, PostAtomic, PostNoop,
            PostUnsignaledNoop, PostRecv, PostBadRecv, PostWr, Await, Enter, hcaVars
    <3> QED
      BY <2>0, <2>2, <3>1, <3>2, StartCallSlots
  <2>3. ASSUME NEW t \in Callers, Post(t)
        PROVE  ~ overrun' /\ ~ exited' /\ \A q \in Queue : SlotsKept(q)'
    <3>1. call[t].q \in Queue /\ call[t].pc = "post"
      BY <2>0, <2>3 DEF TypeOK, Call, Post
    <3>2. used[call[t].q] + Len(call[t].wrs) <= Depth(call[t].q)
      BY <2>0, <3>1, QueueHasRoom
    <3>3. ~ (used[call[t].q] + Len(call[t].wrs) > Depth(call[t].q))
      <4>1. PICK s \in Int, n \in Nat : s = used[call[t].q] /\ n = Len(call[t].wrs)
        BY <2>0, <3>1 DEF TypeOK, Call
      <4>2. Depth(call[t].q) \in Nat
        BY DepthAssumption DEF Depth
      <4> QED
        BY <3>2, <4>1, <4>2
    <3>4. ~ exited' /\ ~ overrun'
      BY <2>0, <2>3, <3>3 DEF Post
    <3> QED
      BY <2>0, <2>3, <3>4, PostSlots
  <2>4. ASSUME NEW t \in Callers, NEW c \in Call, SpinReturn(t) \/ CallbackReturns,
               call' = [call EXCEPT ![t] = c],
               c.pc \notin {"post", "update"}, call[t].pc \notin {"post", "update"}
        PROVE  ~ overrun' /\ ~ exited' /\ \A q \in Queue : SlotsKept(q)'
    <3>1. UNCHANGED <<last, last_compl, wc, wq, used, held, cq, qp, failed, overrun, exited>>
      BY <2>4 DEF SpinReturn, CallbackReturns, hcaVars
    <3>2. \A q \in Queue : Executed(q)' = Executed(q) /\ (Handling(q)' => Handling(q))
      BY <2>0, <2>4, <3>1, CallMoves
    <3>3. \A q \in Queue : Freed(q)' = Freed(q)
      BY <3>1, <3>2 DEF Freed
    <3> QED
      BY <2>0, <3>1, <3>2, <3>3, SlotsStay
  <2>5. ASSUME NEW t \in Callers, SpinReturn(t)
        PROVE  ~ overrun' /\ ~ exited' /\ \A q \in Queue : SlotsKept(q)'
    <3>1. /\ call' = [call EXCEPT ![t] = Returned(t)]
          /\ call[t].pc \notin {"post", "update"}
      BY <2>5 DEF SpinReturn
    <3>2. Returned(t) \in Call /\ Returned(t).pc \notin {"post", "update"}
      BY ReturnedType DEF Returned, NotInCall
    <3> QED
      BY <2>4, <2>5, <3>1, <3>2
  <2>6. CASE CallbackReturns
    <3>1. /\ call' = [call EXCEPT ![Poller] = NotInCall("poll")]
          /\ call[Poller].pc \notin {"post", "update"} /\ Poller \in Callers
      BY <2>6 DEF CallbackReturns, Callers
    <3>2. NotInCall("poll") \in Call /\ NotInCall("poll").pc \notin {"post", "update"}
      BY NotInCallType DEF NotInCall
    <3> QED
      BY <2>4, <2>6, <3>1, <3>2
  <2>7. CASE PollCq
    BY <2>0, <2>7, PollCqSlots DEF PollCq
  <2>8. CASE UpdateCompletions
    BY <2>0, <2>8, UpdateSlots DEF UpdateCompletions, hcaVars
  <2>9. ASSUME NEW q \in Queue, NEW status \in {"success", "error"}, Execute(q, status)
        PROVE  ~ overrun' /\ ~ exited' /\ \A p \in Queue : SlotsKept(p)'
    <3>1. wq[q] \in Seq(WorkRequest) /\ wq[q] # <<>> /\ ~ exited'
      BY <2>0, <2>9 DEF Execute, TypeOK
    <3>2. Head(wq[q]) \in WorkRequest
      BY <3>1, HeadTailProperties
    <3>3. Len(wq[q]) \in Nat /\ Len(wq[q]) # 0
      BY <3>1, EmptySeq
    <3>4. PICK m \in Nat : Len(wq[q]) = m + 1
      <4>1. Len(wq[q]) - 1 \in Nat /\ Len(wq[q]) = (Len(wq[q]) - 1) + 1
        BY <3>3
      <4> QED
        BY <4>1
    <3> QED
      BY <2>0, <2>9, <3>1, <3>2, <3>4, ExecuteSlots
  <2> QED
    BY <2>1, <2>2, <2>3, <2>5, <2>6, <2>7, <2>8, <2>9
       DEF Next, ContinueCall, PollerLoop, Hca, HcaSend, HcaRecv, Queue
<1> QED
  BY <1>1, <1>2, OInvHolds, PTL DEF Spec

\* An application that keeps to its window is never refused a request, and the
\* CQ never overflows (connection.c 71, verbs_wrap.c 29-33).
THEOREM WithinCapacityHolds ==
  ASSUME OnePoster, RoomyQueues
  PROVE  Spec => []WithinCapacity
<1>1. CInv => WithinCapacity
  BY DEF CInv
<1> QED
  BY <1>1, CInvHolds, PTL
=============================================================================
