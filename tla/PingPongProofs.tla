--------------------------- MODULE PingPongProofs ---------------------------
(***************************************************************************)
(* The ping-pong of PingPong keeps in step for any number of rounds, its   *)
(* receives suffice, and the callback answers on a live queue pair only.   *)
(***************************************************************************)
EXTENDS PingPong, Integers, TLAPS

\* The messages an end has received.
Received(e) == Rounds - Len(recvs[e])

Asked == last_send["client"]
Answrd == last_send["server"]
Got == last_compl["client"]["recv"]

\* The counts along the way of a request and its answer never decrease by more
\* than one in all: one message is under way at most.
Chain ==
  /\ Got <= Received("client") /\ Received("client") <= Answrd
  /\ Answrd <= Received("server") /\ Received("server") <= Asked
  /\ Asked <= Got + 1 /\ Asked <= Rounds

\* What is on the wire was posted and not received.
Wires ==
  /\ Len(wire["server"]) <= Asked - Received("server")
  /\ Len(wire["client"]) <= Answrd - Received("client")

\* Receives carry their numbers in the order they were posted.
Numbered ==
  \A e \in End :
    /\ Len(recvs[e]) <= Rounds
    /\ \A i \in 1 .. Len(recvs[e]) : recvs[e][i] = Received(e) + i

\* The end has received a message that it has not answered (the server) or
\* counted (the client).
Behind(e) == Received(e) # (IF e = "server" THEN Answrd ELSE Got)

\* Its poller is about to answer or count it.
Handling(e) ==
  /\ wc[e].q = "recv"
  /\ \/ poller[e] = "update"
     \/ e = "server" /\ poller[e] = "callback"

\* A receive that is completed and not handled is the last one, and the only one.
Pending ==
  \A e \in End :
    /\ \A i \in 1 .. Len(cq[e]) : cq[e][i].q = "recv" =>
         /\ cq[e][i].id = Received(e) /\ cq[e][i].status = "success"
         /\ Behind(e) /\ ~ Handling(e)
         /\ \A j \in 1 .. Len(cq[e]) : cq[e][j].q = "recv" => j = i
    /\ Handling(e) => wc[e].id = Received(e) /\ Behind(e)

\* Only the client that has all its answers disconnects, and the server only
\* after it.
Owners ==
  /\ owner["client"] # "serving"
  /\ owner["client"] = "ready" => Asked = Got /\ Asked < Rounds
  /\ owner["client"] \in {"done", "destroying", "stuck", "gone"} => Asked = Got
  /\ owner["server"] \in {"serving", "destroying", "stuck", "gone"}
  /\ qp["client"] # "rts" => owner["client"] \in {"destroying", "stuck", "gone"}
  /\ qp["server"] # "rts" \/ owner["server"] # "serving" => qp["client"] # "rts"
  /\ \A e \in End : todo[e] # <<>> => owner[e] \in {"destroying", "stuck", "gone"}

IInv == TypeOK /\ Chain /\ Wires /\ Numbered /\ Pending /\ Owners

-----------------------------------------------------------------------------
\* What reading and extending a sequence does.
LEMMA TailFacts ==
  ASSUME NEW T, NEW s \in Seq(T), s # <<>>
  PROVE  /\ Head(s) \in T /\ Head(s) = s[1] /\ Tail(s) \in Seq(T)
         /\ Len(s) \in Nat /\ Len(s) >= 1 /\ Len(Tail(s)) = Len(s) - 1
         /\ \A i \in 1 .. Len(s) - 1 : Tail(s)[i] = s[i + 1]
  OBVIOUS

LEMMA AppendFacts ==
  ASSUME NEW T, NEW s \in Seq(T), NEW x \in T
  PROVE  /\ Append(s, x) \in Seq(T)
         /\ Len(s) \in Nat /\ Len(Append(s, x)) = Len(s) + 1
         /\ \A i \in 1 .. Len(s) : Append(s, x)[i] = s[i]
         /\ Append(s, x)[Len(s) + 1] = x
  OBVIOUS

\* The counts are numbers, and the two ends are each other's peers.
LEMMA Counts ==
  ASSUME TypeOK
  PROVE  /\ Rounds \in Nat
         /\ Asked \in Nat /\ Answrd \in Nat /\ Got \in Nat
         /\ Received("client") \in Int /\ Received("server") \in Int
         /\ Len(wire["client"]) \in Nat /\ Len(wire["server"]) \in Nat
  BY RoundsAssumption, SMTT(30) DEF TypeOK, Asked, Answrd, Got, Received, End, Queue

\* The connection starts with nothing under way.
LEMMA InitInv ==
  ASSUME Init
  PROVE  IInv
<1>1. Preposted \in Seq(1 .. Rounds) /\ Len(Preposted) = Rounds
      /\ \A i \in 1 .. Rounds : Preposted[i] = i
  BY RoundsAssumption DEF Preposted
<1>2. TypeOK
  BY <1>1, RoundsAssumption
  DEF Init, TypeOK, End, Queue, Completion, NoCompletion
<1>3. \A e \in End : Received(e) = 0
  BY <1>1, RoundsAssumption DEF Init, Received, End
<1>4. Chain /\ Wires
  BY <1>3, RoundsAssumption
  DEF Init, Chain, Wires, Asked, Answrd, Got, End, Queue
<1>5. Numbered
  BY <1>1, <1>3, RoundsAssumption DEF Init, Numbered, Received
<1>6. Pending
  BY DEF Init, Pending, Handling
<1>7. Owners
  BY RoundsAssumption DEF Init, Owners, Asked, Got, End, Queue
<1> QED
  BY <1>2, <1>4, <1>5, <1>6, <1>7 DEF IInv

-----------------------------------------------------------------------------
\* What posting a send changes.
LEMMA PostSendFacts ==
  ASSUME TypeOK, NEW e \in End, PostSend(e), last_send[e] < Rounds
  PROVE  /\ last_send' \in [End -> 0 .. Rounds]
         /\ sends' \in [End -> Seq(1 .. Rounds)] /\ wire' \in [End -> Seq(1 .. Rounds)]
         /\ last_send'[e] = last_send[e] + 1
         /\ last_send'[Peer(e)] = last_send[Peer(e)]
         /\ Len(wire'[Peer(e)]) = Len(wire[Peer(e)]) + 1 /\ wire'[e] = wire[e]
         /\ UNCHANGED <<recvs, cq, qp>>
<1> DEFINE id == last_send[e] + 1
<1>1. /\ last_send \in [End -> 0 .. Rounds] /\ last_send' = [last_send EXCEPT ![e] = id]
      /\ Peer(e) \in End /\ Peer(e) # e
  BY DEF TypeOK, PostSend, Peer, End
<1>2. id \in 1 .. Rounds /\ last_send'[e] = id
      /\ last_send' \in [End -> 0 .. Rounds] /\ last_send'[Peer(e)] = last_send[Peer(e)]
  BY <1>1, RoundsAssumption
<1>3. /\ sends \in [End -> Seq(1 .. Rounds)] /\ wire \in [End -> Seq(1 .. Rounds)]
      /\ sends' = [sends EXCEPT ![e] = Append(sends[e], id)]
      /\ wire' = [wire EXCEPT ![Peer(e)] = Append(wire[Peer(e)], id)]
  BY <1>2 DEF TypeOK, PostSend
<1> HIDE DEF id
<1>4. /\ Append(sends[e], id) \in Seq(1 .. Rounds)
      /\ Append(wire[Peer(e)], id) \in Seq(1 .. Rounds)
      /\ Len(Append(wire[Peer(e)], id)) = Len(wire[Peer(e)]) + 1
  BY <1>1, <1>2, <1>3, AppendFacts
<1>5. /\ sends' \in [End -> Seq(1 .. Rounds)] /\ wire' \in [End -> Seq(1 .. Rounds)]
      /\ Len(wire'[Peer(e)]) = Len(wire[Peer(e)]) + 1 /\ wire'[e] = wire[e]
  BY <1>1, <1>3, <1>4
<1> QED
  BY <1>2, <1>5 DEF PostSend, id

-----------------------------------------------------------------------------
\* One lemma per action: it preserves the invariant.
LEMMA PostRequestInv ==
  ASSUME IInv, PostRequest
  PROVE  IInv'
<1>0. /\ Rounds \in Nat /\ Asked \in Nat /\ Answrd \in Nat /\ Got \in Nat
      /\ Received("client") \in Int /\ Received("server") \in Int
      /\ Len(wire["client"]) \in Nat /\ Len(wire["server"]) \in Nat
  BY Counts DEF IInv
<1>1. PostSend("client") /\ owner' = [owner EXCEPT !["client"] = "spin"]
      /\ UNCHANGED <<todo, poller, wc, running, stopped, last_compl>>
      /\ Asked = Got /\ Asked < Rounds
  BY DEF PostRequest, IInv, Owners, pollerVars
<1>2. /\ last_send' \in [End -> 0 .. Rounds]
      /\ sends' \in [End -> Seq(1 .. Rounds)] /\ wire' \in [End -> Seq(1 .. Rounds)]
      /\ last_send'["client"] = last_send["client"] + 1
      /\ last_send'["server"] = last_send["server"]
      /\ Len(wire'["server"]) = Len(wire["server"]) + 1 /\ wire'["client"] = wire["client"]
      /\ UNCHANGED <<recvs, cq, qp>>
  BY <1>1, PostSendFacts DEF IInv, End, Peer, Asked
<1>3. owner \in [End -> {"ready", "spin", "done", "serving", "destroying", "stuck", "gone"}]
      /\ "client" \in End
  BY DEF IInv, TypeOK, End
<1>4. owner' \in [End -> {"ready", "spin", "done", "serving", "destroying", "stuck", "gone"}]
  BY <1>1, <1>3
<1>5. TypeOK'
  BY <1>1, <1>2, <1>4 DEF IInv, TypeOK
<1>6. /\ Asked' = Asked + 1 /\ Answrd' = Answrd /\ Got' = Got
      /\ \A e \in End : Received(e)' = Received(e)
      /\ Received("client")' = Received("client") /\ Received("server")' = Received("server")
  BY <1>1, <1>2 DEF Asked, Answrd, Got, Received
<1>7. \A e \in End : Behind(e)' = Behind(e) /\ Handling(e)' = Handling(e)
  BY <1>1, <1>6 DEF Behind, Handling
<1>8. Chain' /\ Wires'
  <2>1. Chain'
    BY <1>0, <1>1, <1>6 DEF IInv, Chain
  <2>2. Wires'
    BY <1>0, <1>1, <1>2, <1>6 DEF IInv, Wires
  <2> QED
    BY <2>1, <2>2
<1>9. Numbered' /\ Pending'
  BY <1>1, <1>2, <1>6, <1>7, SMTT(30) DEF IInv, Numbered, Pending
<1>10. Owners'
  <2>1. /\ owner'["client"] = "spin" /\ owner'["server"] = owner["server"]
        /\ owner["client"] \notin {"destroying", "stuck", "gone"}
        /\ \A e \in End : todo[e] # <<>> => e = "server"
    BY <1>1, <1>3 DEF IInv, Owners, End, PostRequest
  <2> QED
    BY <1>1, <1>2, <2>1 DEF IInv, Owners, End
<1> QED
  BY <1>5, <1>8, <1>9, <1>10 DEF IInv

LEMMA AwaitAnswerInv ==
  ASSUME IInv, AwaitAnswer
  PROVE  IInv'
<1>1. /\ owner["client"] = "spin" /\ Asked <= Got
      /\ owner' = [owner EXCEPT !["client"] = IF Asked = Rounds THEN "done" ELSE "ready"]
      /\ UNCHANGED <<todo, poller, wc, running, stopped, last_send, last_compl, recvs,
                     sends, wire, cq, qp>>
  BY DEF AwaitAnswer, Answered, Asked, Got, pollerVars, hcaVars
<1>2. Rounds \in Nat /\ Asked \in Nat /\ Got \in Nat /\ Asked = Got /\ Asked <= Rounds
  BY <1>1, Counts DEF IInv, Chain
<1>3. TypeOK'
  BY <1>1 DEF IInv, TypeOK
<1>4. Chain' /\ Wires' /\ Numbered' /\ Pending'
  BY <1>1 DEF IInv, Chain, Wires, Numbered, Pending, Behind, Handling, Received, Asked,
              Answrd, Got
<1>5. owner \in [End -> {"ready", "spin", "done", "serving", "destroying", "stuck", "gone"}]
      /\ Asked' = Asked /\ Got' = Got
  BY <1>1 DEF IInv, TypeOK, Asked, Got
<1>6. Owners'
  BY <1>1, <1>2, <1>5 DEF IInv, Owners, End
<1> QED
  BY <1>3, <1>4, <1>6 DEF IInv

\* Either end starts to destroy: the client when it has all its answers, the
\* server when the client has started.
LEMMA StartDestroyInv ==
  ASSUME IInv, NEW e \in End, StartDestroy(e),
         e = "client" => owner["client"] = "done",
         e = "server" => qp["client"] # "rts"
  PROVE  IInv'
<1> USE DEF IInv
<1>1. TypeOK'
  BY DEF TypeOK, StartDestroy, DestroySteps, End, pollerVars
<1>2. Owners'
  BY DEF TypeOK, StartDestroy, Owners, Asked, Got, End, pollerVars
<1>3. Chain' /\ Wires' /\ Numbered' /\ Pending'
  BY DEF StartDestroy, pollerVars, Chain, Wires, Numbered, Pending, Behind,
         Handling, Received, Asked, Answrd, Got
<1> QED
  BY <1>1, <1>2, <1>3

\* A step that moves no message and no poller.
SameCounts == UNCHANGED <<poller, wc, last_compl, last_send, recvs, cq>>

LEMMA CountsKept ==
  ASSUME IInv, SameCounts
  PROVE  Chain' /\ Numbered' /\ Pending'
<1>1. /\ Asked' = Asked /\ Answrd' = Answrd /\ Got' = Got
      /\ \A e \in End : Received(e)' = Received(e)
  BY DEF SameCounts, Asked, Answrd, Got, Received
<1>2. \A e \in End : Behind(e)' = Behind(e) /\ Handling(e)' = Handling(e)
  BY <1>1 DEF SameCounts, Behind, Handling
<1>3. Chain'
  BY <1>1 DEF IInv, Chain, End
<1>4. Numbered'
  BY <1>1 DEF IInv, Numbered, SameCounts
<1>5. Pending'
  BY <1>1, <1>2 DEF IInv, Pending, SameCounts
<1> QED
  BY <1>3, <1>4, <1>5

\* The steps of destroy_connection.
LEMMA DestroyStepsInv ==
  ASSUME IInv, NEW e \in End,
         StopPoller(e) \/ DestroyQp(e) \/ AwaitStopped(e) \/ FreeConnection(e)
  PROVE  IInv'
<1>1. todo[e] # <<>> /\ todo' \in {todo, [todo EXCEPT ![e] = Tail(todo[e])]}
  BY DEF StopPoller, DestroyQp, AwaitStopped, FreeConnection, DestroyStep, AtStep
<1>2. todo \in [End -> Seq({"stop", "qp", "wait", "free"})]
      /\ owner[e] \in {"destroying", "stuck", "gone"}
  BY <1>1 DEF IInv, TypeOK, Owners
<1>3. Tail(todo[e]) \in Seq({"stop", "qp", "wait", "free"})
  BY <1>1, <1>2, TailFacts
<1>4. todo' \in [End -> Seq({"stop", "qp", "wait", "free"})]
  BY <1>1, <1>2, <1>3
<1>5. UNCHANGED <<poller, wc, last_compl, last_send, recvs, cq, stopped>>
  BY DEF StopPoller, DestroyQp, AwaitStopped, FreeConnection, pollerVars, hcaVars
<1>6. owner' \in {owner, [owner EXCEPT ![e] = "stuck"], [owner EXCEPT ![e] = "gone"]}
      /\ qp' \in {qp, [qp EXCEPT ![e] = "none"]}
      /\ running' \in {running, [running EXCEPT ![e] = FALSE]}
      /\ sends' \in {sends, [sends EXCEPT ![e] = <<>>]}
      /\ wire' \in {wire, [wire EXCEPT ![e] = <<>>]}
  BY DEF StopPoller, DestroyQp, AwaitStopped, FreeConnection, pollerVars, hcaVars
<1>7. TypeOK'
  <2>1. /\ owner' \in [End -> {"ready", "spin", "done", "serving", "destroying", "stuck", "gone"}]
        /\ qp' \in [End -> {"rts", "error", "none"}]
        /\ running' \in [End -> BOOLEAN]
    BY <1>6 DEF IInv, TypeOK
  <2>2. sends' \in [End -> Seq(1 .. Rounds)] /\ wire' \in [End -> Seq(1 .. Rounds)]
    <3>1. /\ sends \in [End -> Seq(1 .. Rounds)] /\ wire \in [End -> Seq(1 .. Rounds)]
          /\ <<>> \in Seq(1 .. Rounds)
      BY DEF IInv, TypeOK
    <3> QED
      BY <1>6, <3>1
  <2> QED
    BY <1>4, <1>5, <2>1, <2>2 DEF IInv, TypeOK
<1>8. Chain' /\ Numbered' /\ Pending'
  BY <1>5, CountsKept DEF SameCounts
<1>9. Wires'
  <2>1. wire \in [End -> Seq(1 .. Rounds)]
    BY DEF IInv, TypeOK
  <2>2. \A f \in End : wire'[f] = wire[f] \/ wire'[f] = <<>>
    BY <1>6, <2>1
  <2>3. /\ Len(wire'["client"]) \in Nat /\ Len(wire'["client"]) <= Len(wire["client"])
        /\ Len(wire'["server"]) \in Nat /\ Len(wire'["server"]) <= Len(wire["server"])
    BY <2>1, <2>2, Counts, SMTT(30) DEF IInv, End
  <2>4. /\ Asked' = Asked /\ Answrd' = Answrd
        /\ Received("client")' = Received("client")
        /\ Received("server")' = Received("server")
    BY <1>5 DEF Asked, Answrd, Received
  <2> QED
    BY <2>3, <2>4, Counts, SMTT(30) DEF IInv, Wires
<1>10. Owners'
  <2>1. owner \in [End -> {"ready", "spin", "done", "serving", "destroying", "stuck", "gone"}]
        /\ qp \in [End -> {"rts", "error", "none"}]
    BY DEF IInv, TypeOK
  <2>2. /\ Asked' = Asked /\ Got' = Got
        /\ \A f \in End : todo'[f] # <<>> => todo[f] # <<>>
    BY <1>1, <1>2, <1>5 DEF Asked, Got
  <2> QED
    BY <1>2, <1>6, <2>1, <2>2 DEF IInv, Owners, End
<1> QED
  BY <1>7, <1>8, <1>9, <1>10 DEF IInv

\* A poller that starts, tests `running` or ends handles no completion.
LEMMA IdleStepsInv ==
  ASSUME IInv, NEW e \in End,
         SetRunning(e) \/ ClearStopped(e) \/ TestRunning(e) \/ SetStopped(e)
  PROVE  IInv'
<1> DEFINE Idle == {"created", "entered", "poll", "test", "stop", "ended"}
<1>1. /\ UNCHANGED <<owner, todo, wc, last_compl, last_send, recvs, sends, wire, cq, qp>>
      /\ poller[e] \in Idle /\ \E to \in Idle : poller' = [poller EXCEPT ![e] = to]
      /\ running' \in {running, [running EXCEPT ![e] = TRUE]}
      /\ \E b \in BOOLEAN : stopped' \in {stopped, [stopped EXCEPT ![e] = b]}
  BY DEF SetRunning, ClearStopped, TestRunning, SetStopped, PollerMoves, ownerVars, hcaVars
<1>2. /\ poller \in [End -> Idle \cup {"update", "callback"}]
      /\ running \in [End -> BOOLEAN] /\ stopped \in [End -> BOOLEAN]
  BY DEF IInv, TypeOK
<1>3. /\ poller' \in [End -> Idle \cup {"update", "callback"}]
      /\ running' \in [End -> BOOLEAN] /\ stopped' \in [End -> BOOLEAN]
  BY <1>1, <1>2, ZenonT(30)
<1>4. TypeOK'
  BY <1>1, <1>3 DEF IInv, TypeOK
<1>5. /\ poller[e] \notin {"update", "callback"} /\ poller'[e] \notin {"update", "callback"}
      /\ \A f \in End : f # e => poller'[f] = poller[f]
  <2>1. PICK to \in Idle : poller' = [poller EXCEPT ![e] = to]
    BY <1>1
  <2> QED
    BY <1>1, <1>2, <2>1
<1>6. \A f \in End : Received(f)' = Received(f) /\ Behind(f)' = Behind(f)
  BY <1>1 DEF Received, Behind, Answrd, Got
<1>7. \A f \in End : Handling(f)' = Handling(f)
  BY <1>1, <1>5 DEF Handling
<1>8. Chain' /\ Wires' /\ Numbered'
  BY <1>1 DEF IInv, Chain, Wires, Numbered, Received, Asked, Answrd, Got
<1>9. Pending'
  BY <1>1, <1>6, <1>7 DEF IInv, Pending
<1>10. Owners'
  BY <1>1 DEF IInv, Owners, Asked, Got
<1> QED
  BY <1>4, <1>8, <1>9, <1>10 DEF IInv

\* Polling an empty queue, or taking its oldest completion.
LEMMA PollCqInv ==
  ASSUME IInv, NEW e \in End, PollCq(e)
  PROVE  IInv'
<1>1. /\ UNCHANGED <<owner, todo, running, stopped, last_compl, last_send, recvs, sends,
                     wire, qp>>
      /\ poller[e] = "poll" /\ \E to \in {"test", "update", "poll"} :
                                 poller' = [poller EXCEPT ![e] = to]
  BY DEF PollCq, PollerMoves, ownerVars
<1>2. /\ poller \in [End -> {"created", "entered", "poll", "update", "callback", "test",
                            "stop", "ended"}]
      /\ wc \in [End -> Completion] /\ cq \in [End -> Seq(Completion)]
      /\ cq[e] \in Seq(Completion)
  BY DEF IInv, TypeOK
<1>3. /\ Chain' /\ Wires' /\ Numbered'
      /\ \A f \in End : Received(f)' = Received(f) /\ Behind(f)' = Behind(f)
  BY <1>1 DEF IInv, Chain, Wires, Numbered, Received, Behind, Asked, Answrd, Got
<1>4. Owners'
  BY <1>1 DEF IInv, Owners, Asked, Got
<1>5. poller' \in [End -> {"created", "entered", "poll", "update", "callback", "test",
                          "stop", "ended"}]
  BY <1>1, <1>2
<1>6. CASE cq[e] = <<>>
  <2>1. UNCHANGED <<wc, cq>> /\ poller' = [poller EXCEPT ![e] = "test"]
    BY <1>6 DEF PollCq, PollerMoves
  <2>2. TypeOK'
    BY <1>1, <1>5, <2>1 DEF IInv, TypeOK
  <2>3. \A f \in End : Handling(f)' = Handling(f)
    BY <1>1, <1>2, <2>1 DEF Handling
  <2>4. Pending'
    BY <1>3, <2>1, <2>3 DEF IInv, Pending
  <2> QED
    BY <1>3, <1>4, <2>2, <2>4 DEF IInv
<1>7. CASE cq[e] # <<>>
  <2>1. /\ wc' = [wc EXCEPT ![e] = Head(cq[e])] /\ cq' = [cq EXCEPT ![e] = Tail(cq[e])]
        /\ Head(cq[e]).status = "success" => poller' = [poller EXCEPT ![e] = "update"]
        /\ Head(cq[e]).status # "success" => poller' = [poller EXCEPT ![e] = "poll"]
    BY <1>7 DEF PollCq, PollerMoves
  <2>2. /\ Head(cq[e]) \in Completion /\ Head(cq[e]) = cq[e][1]
        /\ Tail(cq[e]) \in Seq(Completion)
        /\ Len(cq[e]) \in Nat /\ Len(cq[e]) >= 1 /\ Len(Tail(cq[e])) = Len(cq[e]) - 1
        /\ \A i \in 1 .. Len(cq[e]) - 1 : Tail(cq[e])[i] = cq[e][i + 1]
    BY <1>2, <1>7, TailFacts
  <2>3. wc' \in [End -> Completion] /\ cq' \in [End -> Seq(Completion)]
    BY <1>2, <2>1, <2>2
  <2>4. TypeOK'
    BY <1>1, <1>5, <2>3 DEF IInv, TypeOK
  <2>5. ASSUME NEW f \in End, f # e
        PROVE  cq'[f] = cq[f] /\ wc'[f] = wc[f] /\ Handling(f)' = Handling(f)
    BY <1>1, <1>2, <2>1, <2>5 DEF Handling
  <2>6. /\ cq'[e] = Tail(cq[e]) /\ wc'[e] = cq[e][1] /\ ~ Handling(e)
        /\ Handling(e)' => cq[e][1].q = "recv"
    BY <1>1, <1>2, <2>1, <2>2 DEF Handling
  <2>7. ASSUME NEW i \in 1 .. Len(cq'[e]), cq'[e][i].q = "recv"
        PROVE  /\ cq'[e][i].id = Received(e) /\ cq'[e][i].status = "success"
               /\ Behind(e) /\ ~ Handling(e)'
               /\ \A j \in 1 .. Len(cq'[e]) : cq'[e][j].q = "recv" => j = i
    <3>1. i \in 1 .. Len(cq[e]) - 1 /\ i + 1 \in 1 .. Len(cq[e]) /\ 1 \in 1 .. Len(cq[e])
      BY <2>2, <2>6
    <3>2. cq[e][i + 1].q = "recv" /\ cq'[e][i] = cq[e][i + 1]
      BY <2>2, <2>6, <2>7, <3>1
    <3>3. /\ cq[e][i + 1].id = Received(e) /\ cq[e][i + 1].status = "success" /\ Behind(e)
          /\ \A j \in 1 .. Len(cq[e]) : cq[e][j].q = "recv" => j = i + 1
      BY <3>1, <3>2 DEF IInv, Pending
    <3>4. ~ Handling(e)'
      BY <2>6, <3>1, <3>3
    <3>5. \A j \in 1 .. Len(cq'[e]) : cq'[e][j].q = "recv" => j = i
      BY <2>2, <2>6, <3>1, <3>3
    <3> QED
      BY <3>2, <3>3, <3>4, <3>5
  <2>8. Handling(e)' => wc'[e].id = Received(e) /\ Behind(e)
    BY <2>2, <2>6 DEF IInv, Pending
  <2>9. Pending'
    BY <1>3, <2>5, <2>7, <2>8 DEF IInv, Pending
  <2> QED
    BY <1>3, <1>4, <2>4, <2>9 DEF IInv
<1> QED
  BY <1>6, <1>7

\* Counting a completion: the client's answer stops being pending, the
\* server's request is pending until the callback.
LEMMA UpdateCompletionsInv ==
  ASSUME IInv, NEW e \in End, UpdateCompletions(e)
  PROVE  IInv'
<1>1. /\ UNCHANGED <<owner, todo, wc, running, stopped, last_send, recvs, sends, wire,
                     cq, qp>>
      /\ poller[e] = "update" /\ poller' = [poller EXCEPT ![e] = "callback"]
      /\ last_compl' = [last_compl EXCEPT ![e][wc[e].q] = wc[e].id]
  BY DEF UpdateCompletions, PollerMoves, ownerVars, hcaVars
<1>2. /\ poller \in [End -> {"created", "entered", "poll", "update", "callback", "test",
                            "stop", "ended"}]
      /\ wc[e].q \in Queue /\ wc[e].id \in 0 .. Rounds
      /\ last_compl \in [End -> [Queue -> 0 .. Rounds]]
  BY RoundsAssumption DEF IInv, TypeOK, Completion
<1>3. /\ last_compl' \in [End -> [Queue -> 0 .. Rounds]]
      /\ poller' \in [End -> {"created", "entered", "poll", "update", "callback", "test",
                             "stop", "ended"}]
  BY <1>1, <1>2
<1>4. TypeOK'
  BY <1>1, <1>3 DEF IInv, TypeOK
<1>5. /\ Asked' = Asked /\ Answrd' = Answrd
      /\ Received("client")' = Received("client")
      /\ Received("server")' = Received("server")
  BY <1>1 DEF Asked, Answrd, Received
<1>6. Numbered'
  BY <1>1 DEF IInv, Numbered, Received
<1>7. Wires'
  BY <1>1, <1>5 DEF IInv, Wires
<1>8. CASE e = "client" /\ wc[e].q = "recv"
  <2>1. Got' = wc[e].id
    BY <1>1, <1>2, <1>8 DEF Got, End, Queue
  <2>2. Handling("client") /\ "client" \in End /\ "server" \in End
    BY <1>1, <1>8 DEF Handling, End
  <2>3. Got' = Received("client") /\ Behind("client")
    BY <1>8, <2>1, <2>2 DEF IInv, Pending
  <2>4. Received("client") # Got
    BY <2>3 DEF Behind
  <2>5. Asked = Got' /\ Got' = Got + 1
    BY <2>3, <2>4, Counts DEF IInv, Chain
  <2>6. Chain'
    BY <1>5, <2>3, <2>5, Counts DEF IInv, Chain
  <2>7. Owners'
    <3>1. owner["client"] \notin {"ready", "done", "destroying", "stuck", "gone"}
      BY <2>5, Counts DEF IInv, Owners
    <3> QED
      BY <1>1, <3>1 DEF IInv, Owners
  <2>8. /\ \A i \in 1 .. Len(cq["client"]) : cq["client"][i].q # "recv"
        /\ ~ Handling("client")'
    BY <1>1, <1>2, <1>8, <2>2 DEF IInv, Pending, Handling
  <2>9. Behind("server")' = Behind("server") /\ Handling("server")' = Handling("server")
    BY <1>1, <1>2, <1>5, <1>8 DEF Behind, Handling, End
  <2>10. Pending'
    BY <1>1, <1>5, <2>8, <2>9 DEF IInv, Pending, End
  <2> QED
    BY <1>4, <1>6, <1>7, <2>6, <2>7, <2>10 DEF IInv
<1>9. CASE ~ (e = "client" /\ wc[e].q = "recv")
  <2>1. Got' = Got
    BY <1>1, <1>2, <1>9 DEF Got, End, Queue
  <2>2. \A f \in End : Behind(f)' = Behind(f) /\ Received(f)' = Received(f)
    BY <1>1, <1>5, <2>1 DEF Behind, Received
  <2>3. \A f \in End : Handling(f)' = Handling(f)
    BY <1>1, <1>2, <1>9 DEF Handling, End
  <2>4. Chain'
    BY <1>5, <2>1 DEF IInv, Chain
  <2>5. Owners'
    BY <1>1, <1>5, <2>1 DEF IInv, Owners
  <2>6. Pending'
    BY <1>1, <2>2, <2>3 DEF IInv, Pending
  <2> QED
    BY <1>4, <1>6, <1>7, <2>4, <2>5, <2>6 DEF IInv
<1> QED
  BY <1>8, <1>9

\* The callback: a request that is answered is answered for the first time.
LEMMA CallbackInv ==
  ASSUME IInv, NEW e \in End, Callback(e)
  PROVE  IInv'
<1>1. /\ UNCHANGED <<owner, todo, wc, running, stopped, last_compl>>
      /\ poller[e] = "callback" /\ poller' = [poller EXCEPT ![e] = "poll"]
  BY DEF Callback, PollerMoves, ownerVars
<1>2. /\ poller \in [End -> {"created", "entered", "poll", "update", "callback", "test",
                            "stop", "ended"}]
      /\ "client" \in End /\ "server" \in End
  BY DEF IInv, TypeOK, End
<1>3. poller' \in [End -> {"created", "entered", "poll", "update", "callback", "test",
                          "stop", "ended"}]
  BY <1>1, <1>2
<1>4. CASE Answers(e)
  <2>1. e = "server" /\ wc[e].q = "recv" /\ PostSend("server")
    BY <1>4 DEF Callback, Answers
  <2>2. Handling("server")
    BY <1>1, <2>1 DEF Handling
  <2>3. Received("server") # Answrd
    BY <1>2, <2>2 DEF IInv, Pending, Behind
  <2>4. Received("server") = Answrd + 1 /\ Asked = Answrd + 1 /\ Answrd < Rounds
    BY <2>3, Counts DEF IInv, Chain
  <2>5. /\ last_send' \in [End -> 0 .. Rounds]
        /\ sends' \in [End -> Seq(1 .. Rounds)] /\ wire' \in [End -> Seq(1 .. Rounds)]
        /\ last_send'["server"] = last_send["server"] + 1
        /\ last_send'["client"] = last_send["client"]
        /\ Len(wire'["client"]) = Len(wire["client"]) + 1
        /\ wire'["server"] = wire["server"]
        /\ UNCHANGED <<recvs, cq, qp>>
    BY <1>2, <2>1, <2>4, PostSendFacts DEF IInv, Peer, Answrd
  <2>6. TypeOK'
    BY <1>1, <1>3, <2>5 DEF IInv, TypeOK
  <2>7. /\ Asked' = Asked /\ Answrd' = Answrd + 1 /\ Got' = Got
        /\ Received("client")' = Received("client")
        /\ Received("server")' = Received("server")
    BY <1>1, <2>5 DEF Asked, Answrd, Got, Received
  <2>8. Chain'
    BY <2>4, <2>7, Counts DEF IInv, Chain
  <2>9. Wires'
    BY <2>5, <2>7, Counts, SMTT(30) DEF IInv, Wires
  <2>10. Numbered' /\ Owners'
    BY <1>1, <2>5, <2>7 DEF IInv, Numbered, Owners, Received
  <2>11. /\ \A i \in 1 .. Len(cq["server"]) : cq["server"][i].q # "recv"
         /\ ~ Handling("server")'
    BY <1>1, <1>2, <2>1, <2>2 DEF IInv, Pending, Handling
  <2>12. Behind("client")' = Behind("client") /\ Handling("client")' = Handling("client")
    BY <1>1, <1>2, <2>1, <2>7 DEF Behind, Handling
  <2>13. Pending'
    <3> SUFFICES ASSUME NEW f \in End
                 PROVE  /\ \A i \in 1 .. Len(cq'[f]) : cq'[f][i].q = "recv" =>
                             /\ cq'[f][i].id = Received(f)'
                             /\ cq'[f][i].status = "success"
                             /\ Behind(f)' /\ ~ Handling(f)'
                             /\ \A j \in 1 .. Len(cq'[f]) : cq'[f][j].q = "recv" => j = i
                        /\ Handling(f)' => wc'[f].id = Received(f)' /\ Behind(f)'
      BY DEF Pending
    <3>1. CASE f = "server"
      BY <2>5, <2>11, <3>1
    <3>2. CASE f = "client"
      <4>1. /\ cq'[f] = cq[f] /\ wc'[f] = wc[f] /\ Received(f)' = Received(f)
            /\ Behind(f)' = Behind(f) /\ Handling(f)' = Handling(f)
        BY <1>1, <2>5, <2>7, <2>12, <3>2
      <4> QED
        BY <4>1 DEF IInv, Pending
    <3> QED
      BY <3>1, <3>2 DEF End
  <2> QED
    BY <2>6, <2>8, <2>9, <2>10, <2>13 DEF IInv
<1>5. CASE ~ Answers(e)
  <2>1. UNCHANGED <<last_send, recvs, sends, wire, cq, qp>>
    BY <1>5 DEF Callback, hcaVars
  <2>2. \A f \in End : Behind(f)' = Behind(f) /\ Received(f)' = Received(f)
    BY <1>1, <2>1 DEF Behind, Received, Answrd, Got
  <2>3. \A f \in End : Handling(f)' = Handling(f)
    BY <1>1, <1>2, <1>5 DEF Handling, Answers
  <2>4. TypeOK'
    BY <1>1, <1>3, <2>1 DEF IInv, TypeOK
  <2>5. Chain' /\ Wires' /\ Numbered' /\ Owners'
    BY <1>1, <2>1 DEF IInv, Chain, Wires, Numbered, Owners, Received, Asked, Answrd, Got
  <2>6. Pending'
    BY <1>1, <2>1, <2>2, <2>3 DEF IInv, Pending
  <2> QED
    BY <2>4, <2>5, <2>6 DEF IInv
<1> QED
  BY <1>4, <1>5

\* A message arrives: nothing else is under way.
LEMMA ReceiveInv ==
  ASSUME IInv, NEW e \in End, Receive(e)
  PROVE  IInv'
<1> DEFINE c == [q |-> "recv", id |-> Head(recvs[e]), status |-> "success"]
<1>1. /\ UNCHANGED <<owner, todo, poller, wc, running, stopped, last_compl, last_send,
                     sends, qp>>
      /\ wire[e] # <<>> /\ recvs[e] # <<>>
      /\ wire' = [wire EXCEPT ![e] = Tail(wire[e])]
      /\ recvs' = [recvs EXCEPT ![e] = Tail(recvs[e])]
      /\ cq' = [cq EXCEPT ![e] = Append(cq[e], c)]
  BY DEF Receive, Complete, ownerVars, pollerVars
<1>2. /\ wire \in [End -> Seq(1 .. Rounds)] /\ wire[e] \in Seq(1 .. Rounds)
      /\ recvs \in [End -> Seq(1 .. Rounds)] /\ recvs[e] \in Seq(1 .. Rounds)
      /\ cq \in [End -> Seq(Completion)] /\ cq[e] \in Seq(Completion)
  BY DEF IInv, TypeOK
<1>3. /\ Tail(wire[e]) \in Seq(1 .. Rounds) /\ Len(Tail(wire[e])) = Len(wire[e]) - 1
      /\ Len(wire[e]) \in Nat /\ Len(wire[e]) >= 1
  BY <1>1, <1>2, TailFacts
<1>4. /\ Head(recvs[e]) \in 1 .. Rounds /\ Head(recvs[e]) = recvs[e][1]
      /\ Tail(recvs[e]) \in Seq(1 .. Rounds) /\ Len(Tail(recvs[e])) = Len(recvs[e]) - 1
      /\ Len(recvs[e]) \in Nat /\ Len(recvs[e]) >= 1
      /\ \A i \in 1 .. Len(recvs[e]) - 1 : Tail(recvs[e])[i] = recvs[e][i + 1]
  BY <1>1, <1>2, TailFacts
<1>5. c \in Completion /\ c.q = "recv" /\ c.status = "success" /\ c.id = Head(recvs[e])
  BY <1>4 DEF Completion, Queue
<1> HIDE DEF c
<1>6. /\ Append(cq[e], c) \in Seq(Completion) /\ Len(cq[e]) \in Nat
      /\ Len(Append(cq[e], c)) = Len(cq[e]) + 1
      /\ \A i \in 1 .. Len(cq[e]) : Append(cq[e], c)[i] = cq[e][i]
      /\ Append(cq[e], c)[Len(cq[e]) + 1] = c
  BY <1>2, <1>5, AppendFacts
<1>7. TypeOK'
  <2>1. /\ wire' \in [End -> Seq(1 .. Rounds)] /\ recvs' \in [End -> Seq(1 .. Rounds)]
        /\ cq' \in [End -> Seq(Completion)]
    BY <1>1, <1>2, <1>3, <1>4, <1>6
  <2> QED
    BY <1>1, <2>1 DEF IInv, TypeOK
<1>8. /\ recvs'[e] = Tail(recvs[e]) /\ wire'[e] = Tail(wire[e]) /\ cq'[e] = Append(cq[e], c)
      /\ \A f \in End : f # e => recvs'[f] = recvs[f] /\ wire'[f] = wire[f] /\ cq'[f] = cq[f]
  BY <1>1, <1>2
<1>9. /\ Asked' = Asked /\ Answrd' = Answrd /\ Got' = Got
      /\ \A f \in End : f # e => Received(f)' = Received(f)
  BY <1>1, <1>8 DEF Asked, Answrd, Got, Received
<1>10. Received(e)' = Received(e) + 1 /\ Received(e) \in Int
  <2>1. Len(recvs'[e]) = Len(recvs[e]) - 1
    BY <1>4, <1>8
  <2> QED
    BY <1>4, <2>1, RoundsAssumption DEF Received
<1>11. ~ Behind(e) /\ Behind(e)' /\ Chain' /\ Wires'
  <2>1. CASE e = "client"
    <3>1. Received("server")' = Received("server") /\ wire'["server"] = wire["server"]
      BY <1>8, <1>9, <2>1 DEF End
    <3>2. Got = Received("client") /\ Answrd = Received("client") + 1
      BY <1>3, <2>1, Counts DEF IInv, Chain, Wires
    <3>3. ~ Behind(e) /\ Behind(e)'
      BY <1>9, <1>10, <2>1, <3>2 DEF Behind
    <3>4. /\ Received("client")' = Received("client") + 1
          /\ Len(wire'["client"]) = Len(wire["client"]) - 1
      BY <1>3, <1>8, <1>10, <2>1
    <3>5. Chain'
      BY <1>9, <3>1, <3>2, <3>4, Counts DEF IInv, Chain
    <3>6. Wires'
      BY <1>9, <3>1, <3>4, Counts DEF IInv, Wires
    <3> QED
      BY <3>3, <3>5, <3>6
  <2>2. CASE e = "server"
    <3>1. Received("client")' = Received("client") /\ wire'["client"] = wire["client"]
      BY <1>8, <1>9, <2>2 DEF End
    <3>2. Answrd = Received("server") /\ Asked = Received("server") + 1
      BY <1>3, <2>2, Counts DEF IInv, Chain, Wires
    <3>3. ~ Behind(e) /\ Behind(e)'
      BY <1>9, <1>10, <2>2, <3>2, Counts DEF IInv, Behind
    <3>4. /\ Received("server")' = Received("server") + 1
          /\ Len(wire'["server"]) = Len(wire["server"]) - 1
      BY <1>3, <1>8, <1>10, <2>2
    <3>5. Chain'
      BY <1>9, <3>1, <3>2, <3>4, Counts DEF IInv, Chain
    <3>6. Wires'
      BY <1>9, <3>1, <3>4, Counts DEF IInv, Wires
    <3> QED
      BY <3>3, <3>5, <3>6
  <2> QED
    BY <2>1, <2>2 DEF End
<1>12. Numbered'
  <2>1. /\ Len(recvs[e]) <= Rounds
        /\ \A i \in 1 .. Len(recvs[e]) : recvs[e][i] = Received(e) + i
    BY DEF IInv, Numbered
  <2>2. /\ Len(recvs'[e]) = Len(recvs[e]) - 1 /\ Len(recvs'[e]) <= Rounds
    BY <1>4, <1>8, <2>1, RoundsAssumption
  <2>3. ASSUME NEW i \in 1 .. Len(recvs'[e])
        PROVE  recvs'[e][i] = Received(e)' + i
    <3>1. i \in 1 .. Len(recvs[e]) - 1 /\ i + 1 \in 1 .. Len(recvs[e])
      BY <1>4, <2>2
    <3>2. recvs'[e][i] = Received(e) + (i + 1)
      BY <1>4, <1>8, <2>1, <3>1
    <3> QED
      BY <1>10, <3>1, <3>2
  <2> QED
    BY <1>8, <1>9, <2>2, <2>3 DEF IInv, Numbered
<1>13. Owners'
  BY <1>1, <1>9 DEF IInv, Owners
<1>14. ~ Handling(e) /\ \A i \in 1 .. Len(cq[e]) : cq[e][i].q # "recv"
  BY <1>11 DEF IInv, Pending
<1>15. c.id = Received(e)'
  BY <1>4, <1>5, <1>10 DEF IInv, Numbered
<1>16. Pending'
  <2>1. ASSUME NEW i \in 1 .. Len(cq'[e]), cq'[e][i].q = "recv"
        PROVE  i = Len(cq[e]) + 1
    BY <1>6, <1>8, <1>14, <2>1
  <2>2. \A i \in 1 .. Len(cq'[e]) : cq'[e][i].q = "recv" => cq'[e][i] = c
    BY <1>6, <1>8, <2>1
  <2>3. Handling(e)' <=> Handling(e)
    BY <1>1 DEF Handling
  <2>4. \A i \in 1 .. Len(cq'[e]) : cq'[e][i].q = "recv" =>
          /\ cq'[e][i].id = Received(e)' /\ cq'[e][i].status = "success"
          /\ Behind(e)' /\ ~ Handling(e)'
          /\ \A j \in 1 .. Len(cq'[e]) : cq'[e][j].q = "recv" => j = i
    BY <1>5, <1>11, <1>14, <1>15, <2>1, <2>2, <2>3
  <2>5. ~ Handling(e)'
    BY <1>14, <2>3
  <2>6. ASSUME NEW f \in End, f # e
        PROVE  /\ cq'[f] = cq[f] /\ wc'[f] = wc[f] /\ Received(f)' = Received(f)
               /\ (Behind(f)' <=> Behind(f)) /\ (Handling(f)' <=> Handling(f))
    BY <1>1, <1>8, <1>9, <2>6 DEF Behind, Handling
  <2> QED
    BY <2>4, <2>5, <2>6 DEF IInv, Pending
<1> QED
  BY <1>7, <1>11, <1>12, <1>13, <1>16 DEF IInv

\* A send completes: no receive is touched.
LEMMA CompleteSendInv ==
  ASSUME IInv, NEW e \in End, CompleteSend(e)
  PROVE  IInv'
<1>1. PICK status \in {"success", "error"} :
        cq' = [cq EXCEPT ![e] = Append(cq[e],
                 [q |-> "send", id |-> Head(sends[e]), status |-> status])]
  BY DEF CompleteSend, Complete
<1> DEFINE c == [q |-> "send", id |-> Head(sends[e]), status |-> status]
<1>2. /\ UNCHANGED <<owner, todo, poller, wc, running, stopped, last_compl, last_send,
                     recvs, wire, qp>>
      /\ sends[e] # <<>> /\ sends' = [sends EXCEPT ![e] = Tail(sends[e])]
  BY DEF CompleteSend, ownerVars, pollerVars
<1>3. /\ sends \in [End -> Seq(1 .. Rounds)] /\ sends[e] \in Seq(1 .. Rounds)
      /\ cq \in [End -> Seq(Completion)] /\ cq[e] \in Seq(Completion)
  BY DEF IInv, TypeOK
<1>4. Head(sends[e]) \in 1 .. Rounds /\ Tail(sends[e]) \in Seq(1 .. Rounds)
  BY <1>2, <1>3, TailFacts
<1>5. c \in Completion /\ c.q = "send"
  BY <1>4 DEF Completion, Queue
<1>6. cq' = [cq EXCEPT ![e] = Append(cq[e], c)]
  BY <1>1
<1> HIDE DEF c
<1>7. /\ Append(cq[e], c) \in Seq(Completion) /\ Len(cq[e]) \in Nat
      /\ Len(Append(cq[e], c)) = Len(cq[e]) + 1
      /\ \A i \in 1 .. Len(cq[e]) : Append(cq[e], c)[i] = cq[e][i]
      /\ Append(cq[e], c)[Len(cq[e]) + 1] = c
  BY <1>3, <1>5, AppendFacts
<1>8. sends' \in [End -> Seq(1 .. Rounds)] /\ cq' \in [End -> Seq(Completion)]
  BY <1>2, <1>3, <1>4, <1>6, <1>7
<1>9. TypeOK'
  BY <1>2, <1>8 DEF IInv, TypeOK
<1>10. Chain' /\ Wires' /\ Numbered' /\ Owners'
  BY <1>2 DEF IInv, Chain, Wires, Numbered, Owners, Received, Asked, Answrd, Got
<1>11. \A f \in End : /\ Behind(f)' = Behind(f) /\ Received(f)' = Received(f)
                     /\ Handling(f)' = Handling(f)
  BY <1>2 DEF Behind, Received, Handling, Answrd, Got
<1>12. cq'[e] = Append(cq[e], c) /\ \A f \in End : f # e => cq'[f] = cq[f]
  BY <1>3, <1>6
<1>13. \A i \in 1 .. Len(cq'[e]) : cq'[e][i].q = "recv" =>
         i \in 1 .. Len(cq[e]) /\ cq'[e][i] = cq[e][i]
  BY <1>5, <1>7, <1>12
<1>14. Pending'
  <2>1. ASSUME NEW f \in End, NEW i \in 1 .. Len(cq'[f]), cq'[f][i].q = "recv"
        PROVE  i \in 1 .. Len(cq[f]) /\ cq'[f][i] = cq[f][i]
    BY <1>12, <1>13, <2>1
  <2>2. ASSUME NEW f \in End, NEW i \in 1 .. Len(cq'[f]), cq'[f][i].q = "recv"
        PROVE  /\ cq'[f][i].id = Received(f)' /\ cq'[f][i].status = "success"
               /\ Behind(f)' /\ ~ Handling(f)'
               /\ \A j \in 1 .. Len(cq'[f]) : cq'[f][j].q = "recv" => j = i
    BY <1>11, <2>1, <2>2 DEF IInv, Pending
  <2>3. \A f \in End : Handling(f)' => wc'[f].id = Received(f)' /\ Behind(f)'
    BY <1>2, <1>11 DEF IInv, Pending
  <2> QED
    BY <2>2, <2>3 DEF Pending
<1> QED
  BY <1>9, <1>10, <1>14 DEF IInv

-----------------------------------------------------------------------------
\* Every step preserves the invariant.
LEMMA NextInv ==
  ASSUME IInv, [Next]_vars
  PROVE  IInv'
<1>1. ASSUME NEW e \in End, OwnerSteps(e) PROVE IInv'
  <2>1. CASE e = "client" /\ PostRequest
    BY <2>1, PostRequestInv
  <2>2. CASE e = "client" /\ AwaitAnswer
    BY <2>2, AwaitAnswerInv
  <2>3. CASE e = "client" /\ Disconnect
    BY <2>3, StartDestroyInv DEF Disconnect
  <2>4. CASE e = "server" /\ HandleDisconnected
    BY <2>4, StartDestroyInv DEF HandleDisconnected
  <2>5. CASE StopPoller(e) \/ DestroyQp(e) \/ AwaitStopped(e) \/ FreeConnection(e)
    BY <2>5, DestroyStepsInv
  <2> QED
    BY <1>1, <2>1, <2>2, <2>3, <2>4, <2>5 DEF OwnerSteps
<1>2. ASSUME NEW e \in End, PollerSteps(e) PROVE IInv'
  BY <1>2, IdleStepsInv, PollCqInv, UpdateCompletionsInv, CallbackInv DEF PollerSteps
<1>3. ASSUME NEW e \in End, Receive(e) \/ CompleteSend(e) PROVE IInv'
  BY <1>3, ReceiveInv, CompleteSendInv
<1>4. CASE UNCHANGED vars
  <2>1. SameCounts
    BY <1>4 DEF vars, SameCounts
  <2>2. TypeOK' /\ Wires' /\ Owners'
    BY <1>4 DEF vars, IInv, TypeOK, Wires, Owners, Received, Asked, Answrd, Got
  <2> QED
    BY <2>1, <2>2, CountsKept DEF IInv
<1> QED
  BY <1>1, <1>2, <1>3, <1>4 DEF Next

THEOREM IInvHolds == Spec => []IInv
<1>1. Init => IInv
  BY InitInv
<1>2. IInv /\ [Next]_vars => IInv'
  BY NextInv
<1> QED
  BY <1>1, <1>2, PTL DEF Spec

\* The variables keep their types (sr_latency.c 59-105 with Rounds requests).
THEOREM TypeCorrect == Spec => []TypeOK
<1>1. IInv => TypeOK
  BY DEF IInv
<1> QED
  BY <1>1, IInvHolds, PTL

\* A message never finds its end without a posted receive (sr_latency.c 59-61).
THEOREM ReceiverReadyHolds == Spec => []ReceiverReady
<1>1. IInv => ReceiverReady
  <2> SUFFICES ASSUME IInv, NEW e \in End, wire[e] # <<>>, recvs[e] = <<>>
               PROVE  FALSE
    BY DEF ReceiverReady
  <2>1. wire[e] \in Seq(1 .. Rounds)
    BY DEF IInv, TypeOK
  <2>2. Len(wire[e]) >= 1 /\ Len(recvs[e]) = 0
    BY <2>1, TailFacts
  <2>3. Received(e) = Rounds
    BY <2>2, RoundsAssumption DEF Received
  <2>4. CASE e = "client"
    BY <2>2, <2>3, <2>4, Counts DEF IInv, Chain, Wires
  <2>5. CASE e = "server"
    BY <2>2, <2>3, <2>5, Counts DEF IInv, Chain, Wires
  <2> QED
    BY <2>4, <2>5 DEF End
<1> QED
  BY <1>1, IInvHolds, PTL

\* The server's callback never answers on a queue pair that is flushed or
\* gone: the client that disconnects has this answer (sr_latency.c 99-105).
THEOREM AnswersOnLiveQpHolds == Spec => []AnswersOnLiveQp
<1>1. IInv => AnswersOnLiveQp
  <2> SUFFICES ASSUME IInv, NEW e \in End, poller[e] = "callback", Answers(e)
               PROVE  qp[e] = "rts"
    BY DEF AnswersOnLiveQp
  <2>1. e = "server" /\ "server" \in End /\ Handling("server")
    BY DEF Answers, Handling, End
  <2>2. Received("server") # Answrd
    BY <2>1 DEF IInv, Pending, Behind
  <2>3. Asked # Got
    BY <2>2, Counts DEF IInv, Chain
  <2> QED
    BY <2>1, <2>3 DEF IInv, Owners
<1> QED
  BY <1>1, IInvHolds, PTL

\* The ping-pong implements the abstract round trips: a request only when the
\* answer before it was counted, each answered once (sr_latency.c 74-105).
THEOREM StaysInStep == Spec => RoundTripsInStep
<1>1. Init => Trips!Init
  BY DEF Init, Trips!Init, End, Queue
<1>2. IInv /\ [Next]_vars => [Trips!Next]_(Trips!vars)
  <2> SUFFICES ASSUME IInv, [Next]_vars
               PROVE  [Trips!Next]_(Trips!vars)
    OBVIOUS
  <2>1. CASE PostRequest
    <3>1. Asked = Got /\ Asked < Rounds /\ last_compl' = last_compl
      BY <2>1 DEF PostRequest, IInv, Owners, pollerVars
    <3>2. /\ last_send'["client"] = last_send["client"] + 1
          /\ last_send'["server"] = last_send["server"]
      BY <2>1, <3>1, PostSendFacts DEF PostRequest, IInv, End, Peer, Asked
    <3> QED
      BY <3>1, <3>2 DEF Trips!Next, Trips!Ask, Asked, Got
  <2>2. ASSUME NEW e \in End, Callback(e), Answers(e)
        PROVE  Trips!Next
    <3>1. e = "server" /\ PostSend("server") /\ Handling("server") /\ last_compl' = last_compl
      BY <2>2 DEF Callback, Answers, PollerMoves, Handling
    <3>2. Answrd < Asked /\ Answrd < Rounds
      <4>1. Received("server") # Answrd
        BY <3>1 DEF IInv, Pending, Behind, End
      <4> QED
        BY <4>1, Counts DEF IInv, Chain
    <3>3. /\ last_send'["server"] = last_send["server"] + 1
          /\ last_send'["client"] = last_send["client"]
      BY <3>1, <3>2, PostSendFacts DEF IInv, End, Peer, Answrd
    <3> QED
      BY <3>1, <3>2, <3>3 DEF Trips!Next, Trips!Answer, Asked, Answrd
  <2>3. ASSUME NEW e \in End, UpdateCompletions(e), e = "client", wc[e].q = "recv"
        PROVE  Trips!Next
    <3>1. /\ last_send' = last_send /\ Handling("client") /\ "client" \in End
          /\ last_compl' = [last_compl EXCEPT !["client"]["recv"] = wc["client"].id]
      BY <2>3 DEF UpdateCompletions, PollerMoves, hcaVars, Handling, End
    <3>2. Got' = wc["client"].id
      BY <3>1 DEF Got, IInv, TypeOK, End, Queue
    <3>3. Got' = Received("client") /\ Received("client") # Got
      BY <3>1, <3>2 DEF IInv, Pending, Behind
    <3>4. Got < Answrd /\ Got' = Got + 1
      BY <3>3, Counts DEF IInv, Chain
    <3> QED
      BY <3>1, <3>4 DEF Trips!Next, Trips!Get, Got, Answrd
  <2>4. ASSUME NEW e \in End, UpdateCompletions(e), ~ (e = "client" /\ wc[e].q = "recv")
        PROVE  UNCHANGED Trips!vars
    <3>1. /\ last_send' = last_send
          /\ last_compl' = [last_compl EXCEPT ![e][wc[e].q] = wc[e].id]
      BY <2>4 DEF UpdateCompletions, hcaVars
    <3>2. last_compl'["client"]["recv"] = last_compl["client"]["recv"]
      BY <2>4, <3>1 DEF IInv, TypeOK, End, Queue, Completion
    <3> QED
      BY <3>1, <3>2 DEF Trips!vars
  <2>5. CASE UNCHANGED <<last_send, last_compl>>
    BY <2>5 DEF Trips!vars
  <2>6. ASSUME NEW e \in End, OwnerSteps(e)
        PROVE  PostRequest \/ UNCHANGED <<last_send, last_compl>>
    BY <2>6 DEF OwnerSteps, AwaitAnswer, Disconnect, HandleDisconnected, StartDestroy,
                StopPoller, DestroyQp, AwaitStopped, FreeConnection, pollerVars, hcaVars
  <2>7. ASSUME NEW e \in End, PollerSteps(e)
        PROVE  \/ UpdateCompletions(e)
               \/ Callback(e) /\ Answers(e)
               \/ UNCHANGED <<last_send, last_compl>>
    <3>1. CASE Callback(e) /\ ~ Answers(e)
      BY <3>1 DEF Callback, hcaVars
    <3>2. CASE SetRunning(e) \/ ClearStopped(e) \/ PollCq(e) \/ TestRunning(e) \/ SetStopped(e)
      BY <3>2 DEF SetRunning, ClearStopped, PollCq, TestRunning, SetStopped, hcaVars
    <3>3. CASE UpdateCompletions(e) \/ (Callback(e) /\ Answers(e))
      BY <3>3
    <3> QED
      BY <2>7, <3>1, <3>2, <3>3 DEF PollerSteps
  <2>8. ASSUME NEW e \in End, Receive(e) \/ CompleteSend(e)
        PROVE  UNCHANGED <<last_send, last_compl>>
    BY <2>8 DEF Receive, CompleteSend, pollerVars
  <2>9. CASE UNCHANGED vars
    BY <2>9 DEF vars, Trips!vars
  <2>10. ASSUME NEW e \in End, UpdateCompletions(e)
         PROVE  [Trips!Next]_(Trips!vars)
    BY <2>3, <2>4, <2>10
  <2> QED
    BY <2>1, <2>2, <2>5, <2>6, <2>7, <2>8, <2>9, <2>10 DEF Next
<1>3. Init /\ [][Next]_vars /\ []IInv => Trips!Init /\ [][Trips!Next]_(Trips!vars)
  BY <1>1, <1>2, PTL
<1> QED
  BY <1>3, IInvHolds, PTL DEF Spec, RoundTripsInStep, Trips!Spec

\* What the abstract round trips are worth: the three counts stay in order and
\* never more than one round apart, hence so do those of sr_latency.c 74-105.
THEOREM NeverApart == Spec => []Trips!Lockstep
<1> USE RoundsAssumption
<1>1. Trips!Init => Trips!Lockstep
  BY DEF Trips!Init, Trips!Lockstep
<1>2. Trips!Lockstep /\ [Trips!Next]_(Trips!vars) => Trips!Lockstep'
  <2> SUFFICES ASSUME Trips!Lockstep, [Trips!Next]_(Trips!vars)
               PROVE  Trips!Lockstep'
    OBVIOUS
  <2>1. CASE Trips!Ask
    BY <2>1 DEF Trips!Ask, Trips!Lockstep
  <2>2. CASE Trips!Answer
    BY <2>2 DEF Trips!Answer, Trips!Lockstep
  <2>3. CASE Trips!Get
    BY <2>3 DEF Trips!Get, Trips!Lockstep
  <2>4. CASE UNCHANGED Trips!vars
    BY <2>4 DEF Trips!vars, Trips!Lockstep
  <2> QED
    BY <2>1, <2>2, <2>3, <2>4 DEF Trips!Next
<1>3. Trips!Spec => []Trips!Lockstep
  BY <1>1, <1>2, PTL DEF Trips!Spec
<1> QED
  BY <1>3, StaysInStep, PTL DEF RoundTripsInStep
=============================================================================
