---------------------------- MODULE TeardownProofs ----------------------------
(***************************************************************************)
(* Theorems about Teardown, for every bound on the requests and every      *)
(* choice of its assumptions on applications and build: the poller is      *)
(* outlived by what it uses, and callbacks that are let finish find their  *)
(* queue pair.                                                             *)
(***************************************************************************)
EXTENDS Teardown, TLAPS

-----------------------------------------------------------------------------
(***************************************************************************)
(* The inductive invariant.                                                *)
(***************************************************************************)
\* The objects the poller uses in every round of its loop.
Shared == {"cq", "channel", "ctx"}

\* Where the poller has a completion in hand.
Handling == {"complete", "callback", "posting"}

\* Each step that gives up a shared object is preceded by the wait, or the
\* wait is over.
Guarded(steps, over) ==
  \A i \in 1 .. Len(steps) :
    steps[i] \in Shared => over \/ \E j \in 1 .. (i - 1) : steps[j] = "wait"

WaitComesFirst == Guarded(todo, poller = "ended")

\* The flag tells the truth: only the poller sets it, with its last access.
StoppedMeansEnded == stopped => poller = "ended"

\* Before set-up is over there is nothing to poll, and at first no poller.
NothingPosted ==
  /\ owner = "new" => poller = "none" /\ "ctx" \in live
  /\ owner \in {"new", "polled"} => posted = 0 /\ cqes = <<>> /\ poller \notin Handling

\* Requests, completions and the completion in hand are never more than were
\* outstanding at first.
Budget ==
  posted + Len(cqes) + (IF poller \in Handling THEN 1 ELSE 0) <= MaxPosted

\* The queue pair is there until the teardown destroys it.
QpUntilTeardown == owner \in {"built", "ready", "terminated"} => "qp" \in live

\* A connection whose callback posts, and that ended only when its work was
\* done, has nothing left but flushed requests, and none if it left a group.
Ending == {"terminated", "destroying", "stuck", "gone"}

QuietEnd ==
  /\ poller = "posting" => answers
  /\ answers /\ DrainFirst /\ owner \in Ending =>
       /\ poller \notin Handling
       /\ \A i \in 1 .. Len(cqes) : cqes[i] = "error"
       /\ ~qp_error => cqes = <<>>

IInv ==
  /\ TypeOK
  /\ WaitComesFirst
  /\ StoppedMeansEnded
  /\ NothingPosted
  /\ Budget
  /\ QpUntilTeardown
  /\ QuietEnd
  /\ PollerOutlived
-----------------------------------------------------------------------------
StepName == {"stop", "wait"} \cup Object
Status == {"success", "error"}

\* The first step may be done: it is not the wait, or the wait is over.
LEMMA GuardedTail ==
  ASSUME NEW steps \in Seq(StepName), steps # <<>>, NEW over \in BOOLEAN,
         Guarded(steps, over), Head(steps) = "wait" => over
  PROVE  Guarded(Tail(steps), over)
<1> SUFFICES ASSUME NEW i \in 1 .. Len(Tail(steps)),
                    Tail(steps)[i] \in Shared, ~over
             PROVE  \E j \in 1 .. (i - 1) : Tail(steps)[j] = "wait"
  BY DEF Guarded
<1>1. i + 1 \in 1 .. Len(steps) /\ Tail(steps)[i] = steps[i + 1]
  OBVIOUS
<1>2. PICK j \in 1 .. i : steps[j] = "wait"
  BY <1>1 DEF Guarded
<1>3. j # 1
  BY <1>2
<1>4. j - 1 \in 1 .. (i - 1) /\ Tail(steps)[j - 1] = steps[j]
  BY <1>3
<1> QED
  BY <1>2, <1>4

\* A step that gives up a shared object comes first only after the wait.
LEMMA GuardedHead ==
  ASSUME NEW steps \in Seq(StepName), steps # <<>>, NEW over \in BOOLEAN,
         Guarded(steps, over), Head(steps) \in Shared
  PROVE  over
BY DEF Guarded

LEMMA GuardedDestroySteps ==
  DestroySteps \in Seq(StepName) /\ Guarded(DestroySteps, FALSE)
<1>1. DestroySteps \in Seq(StepName) /\ Len(DestroySteps) = 9
  BY DEF DestroySteps, StepName, Object
<1>2. /\ DestroySteps[1] = "stop" /\ DestroySteps[2] = "qp"
      /\ DestroySteps[3] = "wait"
  BY DEF DestroySteps
<1>3. ASSUME NEW i \in 1 .. 9, DestroySteps[i] \in Shared
      PROVE  \E j \in 1 .. (i - 1) : DestroySteps[j] = "wait"
  <2>1. i # 1 /\ i # 2 /\ i # 3
    BY <1>2, <1>3 DEF Shared
  <2> QED
    BY <1>2, <2>1
<1> QED
  BY <1>1, <1>3 DEF Guarded

LEMMA GuardedMonotone ==
  ASSUME NEW steps \in Seq(StepName), NEW over \in BOOLEAN, NEW later \in BOOLEAN,
         Guarded(steps, over), over => later
  PROVE  Guarded(steps, later)
BY DEF Guarded

LEMMA InitIInv == Init => IInv
<1> SUFFICES ASSUME Init PROVE IInv
  OBVIOUS
<1>1. /\ todo \in Seq(StepName) /\ Len(todo) = 0
      /\ cqes \in Seq(Status) /\ Len(cqes) = 0
  BY DEF Init
<1>2. TypeOK
  <2>1. answers \in BOOLEAN /\ 0 \in 0 .. MaxPosted
    BY TeardownAssumption DEF Init
  <2> QED
    BY <1>1, <2>1 DEF Init, TypeOK, Stage, Object, StepName, Status
<1>3. WaitComesFirst
  BY <1>1 DEF WaitComesFirst, Guarded
<1>4. Budget
  BY <1>1, TeardownAssumption DEF Init, Budget, Handling
<1>5. StoppedMeansEnded /\ NothingPosted /\ QpUntilTeardown /\ QuietEnd
      /\ PollerOutlived
  BY DEF Init, StoppedMeansEnded, NothingPosted, QpUntilTeardown, QuietEnd, Ending,
         Handling, PollerOutlived
<1> QED
  BY <1>2, <1>3, <1>4, <1>5 DEF IInv
-----------------------------------------------------------------------------
(***************************************************************************)
(* The owner's steps.                                                      *)
(***************************************************************************)
LEMMA SetsUpIInv ==
  ASSUME IInv, OwnerSetsUp
  PROVE  IInv'
<1> USE TeardownAssumption DEF IInv, OwnerMoves
<1>1. WaitComesFirst'
  <2>1. todo' = todo /\ todo \in Seq(StepName)
    BY DEF OwnerSetsUp, BuildCqChannel, BuildQp, Connect, TypeOK, StepName
  <2>2. poller = "ended" => poller' = "ended"
    BY DEF OwnerSetsUp, BuildCqChannel, BuildQp, Connect, NothingPosted
  <2> QED
    BY <2>1, <2>2, GuardedMonotone DEF WaitComesFirst
<1>2. CASE BuildCqChannel
  BY <1>1, <1>2
     DEF BuildCqChannel, TypeOK, Stage, Object, StoppedMeansEnded, NothingPosted,
         Budget, Handling, QpUntilTeardown, QuietEnd, Ending, PollerOutlived
<1>3. CASE BuildQp
  <2>1. /\ owner = "polled" /\ owner' = "built"
        /\ live' = live \cup {"pd", "qp", "mr"} /\ posted' \in 0 .. MaxPosted
        /\ UNCHANGED <<answers, todo, state, running, stopped, poller, cqes,
                       qp_error, crashed>>
    BY <1>3 DEF BuildQp
  <2>2. cqes' = <<>> /\ Len(cqes') = 0 /\ poller' \notin Handling
    BY <2>1 DEF NothingPosted
  <2>3. TypeOK'
    BY <2>1 DEF TypeOK, Stage, Object
  <2>4. Budget'
    <3>1. posted' \in Nat /\ posted' <= MaxPosted /\ MaxPosted \in Nat
      BY <2>1
    <3>2. (IF poller \in Handling THEN 1 ELSE 0)' = 0
      BY <2>2
    <3>3. (posted + Len(cqes) + (IF poller \in Handling THEN 1 ELSE 0))' = posted' + 0 + 0
      BY <2>2, <3>2
    <3> QED
      BY <3>1, <3>3 DEF Budget
  <2>5. StoppedMeansEnded' /\ NothingPosted' /\ QpUntilTeardown'
    BY <2>1 DEF StoppedMeansEnded, NothingPosted, QpUntilTeardown
  <2>6. QuietEnd' /\ PollerOutlived'
    BY <2>1 DEF QuietEnd, Ending, PollerOutlived
  <2> QED
    BY <1>1, <2>3, <2>4, <2>5, <2>6
<1>4. CASE Connect
  BY <1>1, <1>4
     DEF Connect, TypeOK, Stage, Object, StoppedMeansEnded, NothingPosted,
         Budget, Handling, QpUntilTeardown, QuietEnd, Ending, PollerOutlived
<1> QED
  BY <1>2, <1>3, <1>4 DEF OwnerSetsUp

LEMMA EndsCallIInv ==
  ASSUME IInv, OnDisconnect \/ RdmaDisconnect \/ LeaveMulticast
  PROVE  IInv'
<1> USE TeardownAssumption DEF IInv, OwnerMoves
<1>1. CASE OnDisconnect
  <2>1. WaitComesFirst'
    BY <1>1 DEF OnDisconnect, WaitComesFirst
  <2> QED
    BY <1>1, <2>1
       DEF OnDisconnect, Drained, TypeOK, Stage, Object, StoppedMeansEnded,
           NothingPosted, Budget, Handling, QpUntilTeardown, QuietEnd, Ending,
           PollerOutlived
<1>2. CASE RdmaDisconnect \/ LeaveMulticast
  <2>1. todo' \in Seq(StepName) /\ WaitComesFirst'
    BY <1>2, GuardedDestroySteps, GuardedMonotone
    DEF RdmaDisconnect, LeaveMulticast, WaitComesFirst
  <2>2. /\ owner = "terminated" /\ owner' = "destroying" /\ qp_error' \in {TRUE, qp_error}
        /\ UNCHANGED <<answers, live, state, running, stopped, poller, posted, cqes, crashed>>
    BY <1>2 DEF RdmaDisconnect, LeaveMulticast
  <2>3. TypeOK'
    BY <2>1, <2>2 DEF TypeOK, Stage, StepName
  <2>4. QuietEnd'
    BY <2>2 DEF QuietEnd, Ending, Handling
  <2> QED
    BY <2>1, <2>2, <2>3, <2>4
       DEF StoppedMeansEnded, NothingPosted, Budget, Handling, QpUntilTeardown, PollerOutlived
<1> QED
  BY <1>1, <1>2

\* A step of destroy_connection that is done leaves the rest guarded.
LEMMA StepDone ==
  ASSUME IInv, NEW step, NextStep(step), todo' = Tail(todo), poller' = poller,
         step = "wait" => poller = "ended"
  PROVE  todo' \in Seq(StepName) /\ WaitComesFirst'
<1>1. todo \in Seq(StepName) /\ todo # <<>> /\ Head(todo) = step
  BY DEF IInv, TypeOK, StepName, NextStep
<1>2. Guarded(Tail(todo), poller = "ended")
  BY <1>1, GuardedTail DEF IInv, WaitComesFirst
<1> QED
  BY <1>1, <1>2 DEF WaitComesFirst

LEMMA DestroysIInv ==
  ASSUME IInv,
         StopPoller \/ DestroyQp \/ AwaitStopped
           \/ \E o \in Object \ {"qp"} : DestroyObject(o)
  PROVE  IInv'
<1> USE TeardownAssumption DEF IInv
<1>1. CASE StopPoller
  <2>1. todo' \in Seq(StepName) /\ WaitComesFirst'
    BY <1>1, StepDone DEF StopPoller
  <2> QED
    BY <1>1, <2>1
       DEF StopPoller, NextStep, TypeOK, Stage, StepName, StoppedMeansEnded,
           NothingPosted, Budget, QpUntilTeardown, QuietEnd, Ending, PollerOutlived
<1>2. CASE DestroyQp
  <2>1. todo' \in Seq(StepName) /\ WaitComesFirst'
    BY <1>2, StepDone DEF DestroyQp
  <2>2. Len(cqes') \in Nat /\ Len(cqes') <= Len(cqes) /\ cqes' \in Seq(Status)
    <3>1. cqes \in Seq(Status) /\ (cqes' = cqes \/ cqes' = <<>>)
      BY <1>2 DEF DestroyQp, TypeOK, Status
    <3>2. CASE cqes' = cqes
      BY <3>1, <3>2
    <3>3. CASE cqes' = <<>>
      BY <3>1, <3>3
    <3> QED
      BY <3>1, <3>2, <3>3
  <2> QED
    BY <1>2, <2>1, <2>2
       DEF DestroyQp, NextStep, TypeOK, Stage, StepName, Object, Status,
           StoppedMeansEnded, NothingPosted, Budget, QpUntilTeardown, QuietEnd, Ending,
           PollerOutlived
<1>3. CASE AwaitStopped
  <2>1. todo' \in Seq(StepName) /\ WaitComesFirst'
    <3>1. CASE stopped
      BY <1>3, <3>1, StepDone DEF AwaitStopped, StoppedMeansEnded
    <3>2. CASE ~stopped
      BY <1>3, <3>2 DEF AwaitStopped, WaitComesFirst, TypeOK, StepName
    <3> QED
      BY <3>1, <3>2
  <2> QED
    BY <1>3, <2>1
       DEF AwaitStopped, NextStep, TypeOK, Stage, StepName, StoppedMeansEnded,
           NothingPosted, Budget, QpUntilTeardown, QuietEnd, Ending, PollerOutlived
<1>4. ASSUME NEW o \in Object \ {"qp"}, DestroyObject(o)
      PROVE  IInv'
  <2>1. todo' \in Seq(StepName) /\ WaitComesFirst'
    BY <1>4, StepDone DEF DestroyObject, Object
  <2>2. todo \in Seq(StepName) /\ todo # <<>> /\ Head(todo) = o
    BY <1>4 DEF DestroyObject, NextStep, TypeOK, StepName
  <2>3. o \in Shared => poller = "ended"
    BY <2>2, GuardedHead DEF WaitComesFirst
  <2>4. /\ owner = "destroying" /\ owner' \in {"destroying", "gone"}
        /\ live' = live \ {o}
        /\ UNCHANGED <<answers, state, running, stopped, poller, posted, cqes,
                       qp_error, crashed>>
    BY <1>4 DEF DestroyObject, NextStep
  <2> QED
    BY <2>1, <2>3, <2>4
       DEF TypeOK, Stage, StepName, Shared, StoppedMeansEnded, NothingPosted,
           Budget, QpUntilTeardown, QuietEnd, Ending, PollerOutlived
<1> QED
  BY <1>1, <1>2, <1>3, <1>4
-----------------------------------------------------------------------------
(***************************************************************************)
(* The poller's steps.                                                     *)
(***************************************************************************)
\* Rounds of the loop without a completion.
LEMMA RoundIInv ==
  ASSUME IInv,
         SetRunning \/ ClearStopped \/ PollEmpty \/ TestRunning \/ SetStopped
  PROVE  IInv'
<1>1. /\ UNCHANGED <<answers, owner, todo, live, state, qp_error, posted, cqes>>
      /\ running' \in BOOLEAN /\ stopped' \in BOOLEAN /\ UNCHANGED crashed
      /\ poller \notin {"none", "ended"} \cup Handling
      /\ poller' \in {"entered", "poll", "test", "stop", "ended"}
      /\ stopped' => poller' = "ended"
  <2> USE DEF IInv, TypeOK, StoppedMeansEnded, PollerMoves, Handling
  <2>1. CASE SetRunning
    BY <2>1 DEF SetRunning
  <2>2. CASE ClearStopped
    BY <2>2 DEF ClearStopped
  <2>3. CASE PollEmpty
    BY <2>3 DEF PollEmpty
  <2>4. CASE TestRunning
    BY <2>4 DEF TestRunning
  <2>5. CASE SetStopped
    BY <2>5 DEF SetStopped
  <2> QED
    BY <2>1, <2>2, <2>3, <2>4, <2>5
<1>2. WaitComesFirst'
  <2>1. todo \in Seq(StepName) /\ todo' = todo
    BY <1>1 DEF IInv, TypeOK, StepName
  <2>2. poller = "ended" => poller' = "ended"
    BY <1>1
  <2> QED
    BY <2>1, <2>2, GuardedMonotone DEF IInv, WaitComesFirst
<1> QED
  BY <1>1, <1>2, TeardownAssumption
     DEF IInv, TypeOK, StoppedMeansEnded, NothingPosted, Budget, Handling,
         QpUntilTeardown, QuietEnd, Ending, PollerOutlived

\* A completion taken from the CQ, and the callback made for it.
LEMMA CompletionIInv ==
  ASSUME IInv,
         PollCompletion \/ UpdateCompletions \/ CallbackReturns \/ CallbackCallsPost
           \/ PostFromCallback
  PROVE  IInv'
<1> USE TeardownAssumption
<1>1. /\ UNCHANGED <<answers, owner, todo, live, state, running, stopped, qp_error>>
      /\ poller \in Handling \cup {"poll"}
      /\ poller' \in Handling \cup {"poll"}
      /\ crashed' \in BOOLEAN
      /\ poller' = "posting" => answers
  BY DEF IInv, TypeOK, PollCompletion, UpdateCompletions, CallbackReturns,
         CallbackCallsPost, PostFromCallback, PollerMoves, Handling
<1>2. WaitComesFirst' /\ StoppedMeansEnded' /\ QpUntilTeardown' /\ PollerOutlived'
  BY <1>1 DEF IInv, WaitComesFirst, StoppedMeansEnded, QpUntilTeardown,
              PollerOutlived, Handling
<1>3. CASE PollCompletion
  <2>1. /\ cqes \in Seq(Status) /\ cqes # <<>> /\ cqes' = Tail(cqes)
        /\ poller = "poll" /\ posted' = posted
        /\ poller' = IF Head(cqes) = "success" THEN "complete" ELSE "poll"
    BY <1>3 DEF IInv, TypeOK, Status, PollCompletion, PollerMoves
  <2>2. /\ cqes' \in Seq(Status) /\ Len(cqes') = Len(cqes) - 1 /\ Len(cqes) \in Nat
        /\ Head(cqes) = cqes[1] /\ Len(cqes) >= 1
        /\ \A i \in 1 .. Len(cqes') : cqes'[i] = cqes[i + 1]
    BY <2>1
  <2>3. TypeOK' /\ Budget' /\ NothingPosted'
    BY <1>1, <2>1, <2>2
       DEF IInv, TypeOK, Status, Budget, NothingPosted, Handling
  <2>4. QuietEnd'
    BY <1>1, <2>1, <2>2 DEF IInv, QuietEnd, Handling, Ending
  <2> QED
    BY <1>2, <2>3, <2>4 DEF IInv
<1>4. CASE ~PollCompletion
  <2>1. poller \in Handling /\ cqes' = cqes
    BY <1>4 DEF UpdateCompletions, CallbackReturns, CallbackCallsPost,
                PostFromCallback, PollerMoves, Handling
  <2>2. \/ posted' = posted
        \/ poller' = "poll" /\ posted' = posted + 1
    BY <1>4 DEF UpdateCompletions, CallbackReturns, CallbackCallsPost,
                PostFromCallback, PollerMoves
  <2>3. Len(cqes) \in Nat /\ posted \in Nat
    BY DEF IInv, TypeOK
  <2>4. TypeOK' /\ Budget' /\ NothingPosted'
    BY <1>1, <2>1, <2>2, <2>3 DEF IInv, TypeOK, Budget, NothingPosted, Handling
  <2>5. QuietEnd'
    BY <1>1, <2>1 DEF IInv, QuietEnd, Handling, Ending
  <2> QED
    BY <1>2, <2>4, <2>5 DEF IInv
<1> QED
  BY <1>3, <1>4

LEMMA HcaIInv ==
  ASSUME IInv, HcaCompletes
  PROVE  IInv'
<1> USE TeardownAssumption
<1> DEFINE status == IF qp_error THEN "error" ELSE "success"
<1>1. /\ UNCHANGED <<answers, owner, todo, live, state, running, stopped, poller,
                     qp_error, crashed>>
      /\ posted > 0 /\ posted' = posted - 1 /\ ~PeerSilent
      /\ cqes' = Append(cqes, status)
      /\ cqes \in Seq(Status) /\ status \in Status /\ posted \in Nat
  BY DEF HcaCompletes, IInv, TypeOK, Status
<1>2. /\ cqes' \in Seq(Status) /\ Len(cqes') = Len(cqes) + 1 /\ Len(cqes) \in Nat
      /\ \A i \in 1 .. Len(cqes') :
           cqes'[i] = IF i <= Len(cqes) THEN cqes[i] ELSE status
  BY <1>1
<1>3. /\ WaitComesFirst' /\ StoppedMeansEnded' /\ QpUntilTeardown'
      /\ PollerOutlived'
  BY <1>1 DEF IInv, WaitComesFirst, StoppedMeansEnded, QpUntilTeardown,
              PollerOutlived
<1>4. TypeOK' /\ Budget' /\ NothingPosted'
  BY <1>1, <1>2 DEF IInv, TypeOK, Status, Budget, NothingPosted
<1>5. QuietEnd'
  BY <1>1, <1>2 DEF IInv, QuietEnd, PeerSilent, Ending
<1> QED
  BY <1>3, <1>4, <1>5 DEF IInv

LEMMA NextIInv == IInv /\ [Next]_vars => IInv'
<1> SUFFICES ASSUME IInv, [Next]_vars PROVE IInv'
  OBVIOUS
<1>1. CASE OwnerSetsUp
  BY <1>1, SetsUpIInv
<1>2. CASE OwnerEnds
  BY <1>2, EndsCallIInv, DestroysIInv DEF OwnerEnds
<1>3. CASE PollerSteps
  BY <1>3, RoundIInv, CompletionIInv DEF PollerSteps
<1>4. CASE HcaCompletes
  BY <1>4, HcaIInv
<1>5. CASE UNCHANGED vars
  BY <1>5
     DEF vars, IInv, TypeOK, WaitComesFirst, StoppedMeansEnded, NothingPosted,
         Budget, QpUntilTeardown, QuietEnd, PollerOutlived
<1> QED
  BY <1>1, <1>2, <1>3, <1>4, <1>5 DEF Next

LEMMA IInvHolds == Spec => []IInv
BY InitIInv, NextIInv, PTL DEF Spec

\* Type correctness: what is posted never exceeds what was outstanding at
\* first, although the callbacks post (verbs_wrap.c 29, connection.c 387-402).
THEOREM TypeCorrect == Spec => []TypeOK
<1>1. IInv => TypeOK
  BY DEF IInv
<1> QED
  BY <1>1, IInvHolds, PTL

\* The CQ, the channel and the context outlive the poller, for every
\* application, whether or not the build repeats the load of stopped, also
\* when the wait never ends (connection.c 404-419, 585-630).
THEOREM PollerOutlivedHolds == Spec => []PollerOutlived
<1>1. IInv => PollerOutlived
  BY DEF IInv
<1> QED
  BY <1>1, IInvHolds, PTL

\* If a connection whose callback posts ends only when its work is done, no
\* callback posts on a queue pair that is gone (connection.c 391, 581-583).
THEOREM CallbackUsesLiveQpHolds ==
  ASSUME DrainFirst
  PROVE  Spec => []CallbackUsesLiveQp
<1>1. IInv => CallbackUsesLiveQp
  BY DEF IInv, TypeOK, Stage, QuietEnd, Ending, NothingPosted, QpUntilTeardown,
         Handling, CallbackUsesLiveQp
<1> QED
  BY <1>1, IInvHolds, PTL
=============================================================================
