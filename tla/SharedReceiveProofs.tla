------------------------- MODULE SharedReceiveProofs -------------------------
(***************************************************************************)
(* Theorems about SharedReceive, for every number of clients and           *)
(* descriptors.  Types are kept whatever the clients do; that a message    *)
(* finds a buffer and the callback finds the message needs clients that    *)
(* end when their message and the receive their connection posted have     *)
(* been handled.                                                           *)
(***************************************************************************)
EXTENDS SharedReceive, BitmapsProofs, FiniteSetTheorems

\* The assumption of the theorems about messages.
ClientsWait == Patient

-----------------------------------------------------------------------------
\* The step the event loop is at, or "idle".
At == IF loop.todo = <<>> THEN "idle" ELSE Head(loop.todo)

\* The steps left are what remains of a handler that was begun.
Remaining ==
  [sockfd  |-> <<"sockfd", "map", "prepare", "post", "accept">>,
   map     |-> <<"map", "prepare", "post", "accept">>,
   prepare |-> <<"prepare", "post", "accept">>,
   post    |-> <<"post", "accept">>,
   accept  |-> <<"accept">>,
   bit     |-> <<"bit", "unmap", "qp", "mr">>,
   unmap   |-> <<"unmap", "qp", "mr">>,
   qp      |-> <<"qp", "mr">>,
   mr      |-> <<"mr">>]

(***************************************************************************)
(* The inductive invariant behind the types: the handler has a connection, *)
(* a descriptor once it took one, and the callback has its completion.     *)
(***************************************************************************)
HandlerOK ==
  loop.todo # <<>> => /\ loop.conn \in Conns
                      /\ loop.todo = Remaining[Head(loop.todo)]

DescriptorTaken ==
  ~exited /\ At \in {"map", "prepare", "post", "accept"} => sockfd[loop.conn] \in Fds

PollerHas == poller.place # "poll" => poller.wc \in Completion

GInv == TypeOK /\ HandlerOK /\ DescriptorTaken /\ PollerHas

-----------------------------------------------------------------------------
(***************************************************************************)
(* The inductive invariant behind the messages, on top of GInv.            *)
(***************************************************************************)
\* A connection that has posted its receive and is not being destroyed.
Holding(c) ==
  \/ At = "accept" /\ loop.conn = c
  \/ client[c] \in {"connected", "sending", "sent"}

\* The event loop, the events on their way and the clients agree; the buffer of
\* a connection is registered from before its receive is posted.
Agreement ==
  /\ At \in {"sockfd", "map", "prepare", "post", "accept"} =>
       client[loop.conn] = "connecting"
  /\ At \in {"bit", "unmap", "qp", "mr"} => client[loop.conn] = "ended"
  /\ \A i \in 1 .. Len(events) :
       /\ events[i][1] = "request" => client[events[i][2]] = "connecting"
       /\ events[i][1] = "disconnected" => client[events[i][2]] = "ended"
       /\ At # "idle" => events[i][2] # loop.conn
       /\ \A j \in 1 .. Len(events) : events[i][2] = events[j][2] => i = j
  /\ \A c \in Conns : Holding(c) \/ (At = "post" /\ loop.conn = c) => c \in registered

\* A connection that has posted is found under its descriptor, which no other
\* connection has.
BitsSet ==
  \A c \in Conns :
    sockfd[c] \in Fds /\ ~ (At \in {"unmap", "qp", "mr"} /\ loop.conn = c) =>
      conn_bitmap[sockfd[c]] = 1

EntriesRight ==
  \A c \in Conns :
    Holding(c) \/ (At \in {"prepare", "post"} /\ loop.conn = c) =>
      sockfd[c] \in Fds /\ conn_fd_map[sockfd[c]] = c

OwnDescriptors ==
  \A c, d \in Conns : sockfd[c] \in Fds /\ sockfd[c] = sockfd[d] => c = d

TableInv == ~exited => BitsSet /\ EntriesRight /\ OwnDescriptors

\* The receive of a connection whose callback has not run.
Open(r) == Holding(r.conn) /\ r.conn \notin answered /\ r.wr_id = sockfd[r.conn]

\* Its completion: the message is in the buffer and nobody has read it.
Unread(wc) ==
  /\ Open(wc) /\ buffer[wc.conn] = wc.sender
  /\ client[wc.sender] = "sent" /\ wc.sender \notin handled

Apart(r, s) == r.conn # s.conn

\* Every connection has one receive: posted, completed or with the callback.
ReceivesOnce ==
  /\ \A i \in 1 .. Len(srq) :
       /\ Open(srq[i])
       /\ \A j \in 1 .. Len(srq) : srq[i].conn = srq[j].conn => i = j
       /\ \A j \in 1 .. Len(srq_cq) : Apart(srq[i], srq_cq[j])
       /\ poller.place # "poll" => Apart(srq[i], poller.wc)
  /\ \A i \in 1 .. Len(srq_cq) :
       /\ Unread(srq_cq[i])
       /\ \A j \in 1 .. Len(srq_cq) :
            srq_cq[i].conn = srq_cq[j].conn \/ srq_cq[i].sender = srq_cq[j].sender => i = j
       /\ poller.place # "poll" =>
            Apart(srq_cq[i], poller.wc) /\ srq_cq[i].sender # poller.wc.sender
  /\ poller.place # "poll" => Unread(poller.wc)
  /\ poller.place = "use" => poller.found = poller.wc.conn

\* Clients end after their message and their connection's receive.
EndsHandled ==
  \A c \in Conns :
    /\ client[c] = "ended" => c \in handled /\ c \in answered
    /\ c \in handled => client[c] \in {"sent", "ended"}
    /\ c \in answered => Holding(c) \/ client[c] = "ended"

\* As many receives as connections whose client has not sent.
Unsent ==
  {c \in Conns : client[c] \in {"connected", "sending"} \/ (At = "accept" /\ loop.conn = c)}

OnePerUnsent == IsFiniteSet(Unsent) /\ Len(srq) = Cardinality(Unsent)

QInv == Agreement /\ TableInv /\ ReceivesOnce /\ EndsHandled /\ OnePerUnsent

IInv == GInv /\ QInv

-----------------------------------------------------------------------------
\* The steps of the two handlers, one after the other.
LEMMA RemainingSteps ==
  /\ Tail(Remaining["sockfd"]) = Remaining["map"]
  /\ Tail(Remaining["map"]) = Remaining["prepare"]
  /\ Tail(Remaining["prepare"]) = Remaining["post"]
  /\ Tail(Remaining["post"]) = Remaining["accept"]
  /\ Tail(Remaining["accept"]) = <<>>
  /\ Tail(Remaining["bit"]) = Remaining["unmap"]
  /\ Tail(Remaining["unmap"]) = Remaining["qp"]
  /\ Tail(Remaining["qp"]) = Remaining["mr"]
  /\ Tail(Remaining["mr"]) = <<>>
  /\ RequestSteps = Remaining["sockfd"] /\ DisconnectSteps = Remaining["bit"]
  /\ \A s \in Step : /\ Remaining[s] \in Seq(Step) /\ Remaining[s] # <<>>
                     /\ Head(Remaining[s]) = s
<1>1. /\ Tail(Remaining["sockfd"]) = Remaining["map"]
      /\ Tail(Remaining["map"]) = Remaining["prepare"]
      /\ Tail(Remaining["prepare"]) = Remaining["post"]
      /\ Tail(Remaining["post"]) = Remaining["accept"]
      /\ Tail(Remaining["accept"]) = <<>>
  BY DEF Remaining
<1>2. /\ Tail(Remaining["bit"]) = Remaining["unmap"]
      /\ Tail(Remaining["unmap"]) = Remaining["qp"]
      /\ Tail(Remaining["qp"]) = Remaining["mr"]
      /\ Tail(Remaining["mr"]) = <<>>
  BY DEF Remaining
<1>3. RequestSteps = Remaining["sockfd"] /\ DisconnectSteps = Remaining["bit"]
  BY DEF Remaining, RequestSteps, DisconnectSteps
<1>4. ASSUME NEW s \in Step
      PROVE  Remaining[s] \in Seq(Step) /\ Remaining[s] # <<>> /\ Head(Remaining[s]) = s
  <2>1. CASE s = "sockfd"
    BY <2>1 DEF Remaining, Step
  <2>2. CASE s = "map"
    BY <2>2 DEF Remaining, Step
  <2>3. CASE s = "prepare"
    BY <2>3 DEF Remaining, Step
  <2>4. CASE s = "post"
    BY <2>4 DEF Remaining, Step
  <2>5. CASE s = "accept"
    BY <2>5 DEF Remaining, Step
  <2>6. CASE s = "bit"
    BY <2>6 DEF Remaining, Step
  <2>7. CASE s = "unmap"
    BY <2>7 DEF Remaining, Step
  <2>8. CASE s = "qp"
    BY <2>8 DEF Remaining, Step
  <2>9. CASE s = "mr"
    BY <2>9 DEF Remaining, Step
  <2> QED
    BY <2>1, <2>2, <2>3, <2>4, <2>5, <2>6, <2>7, <2>8, <2>9 DEF Step
<1> QED
  BY <1>1, <1>2, <1>3, <1>4

\* After a step of a handler comes the next.
LEMMA LoopMoves ==
  ASSUME TypeOK, HandlerOK, NEW step \in Step, LoopDoes(step)
  PROVE  /\ ~ exited /\ At = step /\ loop.conn \in Conns /\ loop.conn # NoConn
         /\ loop'.conn = loop.conn /\ UNCHANGED <<events, poller, handled, answered>>
         /\ loop' \in [conn : Conns \cup {NoConn}, todo : Seq(Step)]
         /\ HandlerOK'
         /\ step = "sockfd" => At' = "map"
         /\ step = "map" => At' = "prepare"
         /\ step = "prepare" => At' = "post"
         /\ step = "post" => At' = "accept"
         /\ step = "accept" => At' = "idle"
         /\ step = "bit" => At' = "unmap"
         /\ step = "unmap" => At' = "qp"
         /\ step = "qp" => At' = "mr"
         /\ step = "mr" => At' = "idle"
<1>1. /\ ~ exited /\ loop.todo # <<>> /\ Head(loop.todo) = step
      /\ loop \in [conn : Conns \cup {NoConn}, todo : Seq(Step)]
      /\ loop' = [loop EXCEPT !.todo = Tail(loop.todo)]
      /\ UNCHANGED <<events, poller, handled, answered>>
  BY DEF TypeOK, LoopDoes, history
<1>2. loop.conn \in Conns /\ loop.todo = Remaining[step] /\ loop.conn # NoConn
  BY <1>1, SharedReceiveAssumption DEF HandlerOK
<1>3. loop'.conn = loop.conn /\ loop'.todo = Tail(Remaining[step])
  BY <1>1, <1>2
<1>4. Remaining[step] \in Seq(Step) /\ Remaining[step] # <<>>
  BY RemainingSteps
<1> HIDE DEF Remaining
<1>5. loop' \in [conn : Conns \cup {NoConn}, todo : Seq(Step)]
  <2>1. Tail(Remaining[step]) \in Seq(Step)
    BY <1>4
  <2> QED
    BY <1>1, <1>2, <2>1
<1>6. \/ loop'.todo = <<>> /\ step \in {"accept", "mr"}
      \/ /\ loop'.todo = Remaining["map"] /\ step = "sockfd"
      \/ /\ loop'.todo = Remaining["prepare"] /\ step = "map"
      \/ /\ loop'.todo = Remaining["post"] /\ step = "prepare"
      \/ /\ loop'.todo = Remaining["accept"] /\ step = "post"
      \/ /\ loop'.todo = Remaining["unmap"] /\ step = "bit"
      \/ /\ loop'.todo = Remaining["qp"] /\ step = "unmap"
      \/ /\ loop'.todo = Remaining["mr"] /\ step = "qp"
  BY <1>3, RemainingSteps DEF Step
<1>7. At = step
  BY <1>1 DEF At
<1>8. ASSUME NEW s \in Step, loop'.todo = Remaining[s]
      PROVE  HandlerOK' /\ At' = s
  <2>1. loop'.todo # <<>> /\ Head(loop'.todo) = s
    BY <1>8, RemainingSteps
  <2> QED
    BY <1>2, <1>3, <1>8, <2>1 DEF HandlerOK, At
<1>9. ASSUME loop'.todo = <<>>
      PROVE  HandlerOK' /\ At' = "idle"
  BY <1>9 DEF HandlerOK, At
<1>10. {"map", "prepare", "post", "accept", "unmap", "qp", "mr"} \subseteq Step
  BY DEF Step
<1> QED
  BY <1>1, <1>2, <1>3, <1>5, <1>6, <1>7, <1>8, <1>9, <1>10

\* Purging a CQ is defined for every CQ: a shortest prefix without a value would
\* have one, from the prefix before it.
LEMMA PurgedDefined ==
  ASSUME NEW cq \in Seq(Completion), NEW c
  PROVE  \E kept \in [0 .. Len(cq) -> Seq(Completion)] :
           /\ Purged(cq, c) = kept[Len(cq)]
           /\ \A i \in 0 .. Len(cq) :
                kept[i] = IF i = 0 THEN <<>>
                          ELSE IF cq[i].sender = c THEN kept[i - 1]
                               ELSE Append(kept[i - 1], cq[i])
<1> DEFINE G(f, i) == IF i = 0 THEN <<>>
                      ELSE IF cq[i].sender = c THEN f[i - 1] ELSE Append(f[i - 1], cq[i])
           Upto(n) == \E f \in [0 .. n -> Seq(Completion)] : \A i \in 0 .. n : f[i] = G(f, i)
           bad == {n \in 0 .. Len(cq) : ~ Upto(n)}
           theKept == CHOOSE f : f = [i \in 0 .. Len(cq) |-> G(f, i)]
<1>1. Len(cq) \in Nat /\ \A i \in 1 .. Len(cq) : cq[i] \in Completion
  OBVIOUS
<1>2. Upto(0)
  <2> DEFINE f == [i \in 0 .. 0 |-> <<>>]
  <2>1. \A i \in 0 .. 0 : i = 0
    OBVIOUS
  <2>2. <<>> \in Seq(Completion)
    OBVIOUS
  <2>3. f \in [0 .. 0 -> Seq(Completion)]
    BY <2>2
  <2>4. \A i \in 0 .. 0 : f[i] = G(f, i)
    BY <2>1
  <2> HIDE DEF f
  <2> QED
    BY <2>3, <2>4
<1>3. ASSUME NEW n \in 1 .. Len(cq), Upto(n - 1)
      PROVE  Upto(n)
  <2>1. PICK f \in [0 .. n - 1 -> Seq(Completion)] : \A i \in 0 .. n - 1 : f[i] = G(f, i)
    BY <1>3
  <2> DEFINE last == IF cq[n].sender = c THEN f[n - 1] ELSE Append(f[n - 1], cq[n])
             g == [i \in 0 .. n |-> IF i = n THEN last ELSE f[i]]
  <2>2. f[n - 1] \in Seq(Completion)
    BY <1>1, <2>1
  <2>3. last \in Seq(Completion)
    BY <1>1, <2>2
  <2> HIDE DEF last
  <2>4. g \in [0 .. n -> Seq(Completion)]
    BY <1>1, <2>3
  <2>5. ASSUME NEW i \in 0 .. n PROVE g[i] = G(g, i)
    <3>1. CASE i = 0
      BY <1>1, <2>1, <3>1
    <3>2. CASE i \in 1 .. n - 1
      <4>1. i \in 0 .. n - 1 /\ i - 1 \in 0 .. n /\ i # n /\ i - 1 # n /\ i # 0
        BY <1>1, <3>2
      <4>2. g[i] = f[i] /\ g[i - 1] = f[i - 1]
        BY <4>1
      <4>3. f[i] = G(f, i)
        BY <2>1, <4>1
      <4> HIDE DEF g
      <4> QED
        BY <4>1, <4>2, <4>3
    <3>3. CASE i = n /\ n > 0
      BY <1>1, <3>3 DEF last
    <3> QED
      BY <1>1, <3>1, <3>2, <3>3
  <2> HIDE DEF g
  <2> QED
    BY <2>4, <2>5
<1>4. Upto(Len(cq))
  <2> HIDE DEF Upto
  <2> SUFFICES ASSUME bad # {} PROVE FALSE
    BY <1>1
  <2>1. PICK n \in bad : \A m \in bad : n <= m
    <3>1. bad \subseteq Nat
      BY <1>1
    <3> QED
      BY <3>1, HasMinimum
  <2>2. n \in 1 .. Len(cq) /\ n - 1 \in 0 .. Len(cq) /\ n - 1 \notin bad
    BY <1>1, <1>2, <2>1
  <2> QED
    BY <1>3, <2>1, <2>2
<1>5. PICK kept \in [0 .. Len(cq) -> Seq(Completion)] :
        \A i \in 0 .. Len(cq) : kept[i] = G(kept, i)
  BY <1>4
<1>6. kept = [i \in 0 .. Len(cq) |-> G(kept, i)]
  BY <1>5
<1>7. theKept = [i \in 0 .. Len(cq) |-> G(theKept, i)]
  BY <1>6
<1> HIDE DEF theKept
<1>8. Purged(cq, c) = theKept[Len(cq)]
  BY DEF Purged, theKept
<1> DEFINE untyped == {i \in 0 .. Len(cq) : theKept[i] \notin Seq(Completion)}
<1>9. untyped = {}
  <2> SUFFICES ASSUME untyped # {} PROVE FALSE
    OBVIOUS
  <2>1. PICK i \in untyped : \A j \in untyped : i <= j
    <3>1. untyped \subseteq Nat
      BY <1>1
    <3> QED
      BY <3>1, HasMinimum
  <2>2. theKept[i] = G(theKept, i)
    BY <1>7
  <2>3. CASE i = 0
    <3>1. theKept[i] = <<>> /\ <<>> \in Seq(Completion)
      BY <2>2, <2>3
    <3> QED
      BY <3>1
  <2>4. CASE i # 0
    <3>1. i \in 1 .. Len(cq) /\ i - 1 \in 0 .. Len(cq) /\ i - 1 \notin untyped
      BY <1>1, <2>1, <2>4
    <3>2. theKept[i - 1] \in Seq(Completion) /\ cq[i] \in Completion
      BY <1>1, <3>1
    <3>3. theKept[i] \in Seq(Completion)
      BY <2>2, <2>4, <3>2
    <3> QED
      BY <3>3
  <2> QED
    BY <2>3, <2>4
<1>10. theKept \in [0 .. Len(cq) -> Seq(Completion)]
  BY <1>7, <1>9
<1>11. \A i \in 0 .. Len(cq) : theKept[i] = G(theKept, i)
  BY <1>7
<1> QED
  BY <1>8, <1>10, <1>11

\* Purging keeps a CQ a CQ, and changes nothing if the queue pair has none.
LEMMA PurgedCq ==
  ASSUME NEW cq \in Seq(Completion), NEW c
  PROVE  /\ Purged(cq, c) \in Seq(Completion)
         /\ (\A i \in 1 .. Len(cq) : cq[i].sender # c) => Purged(cq, c) = cq
<1>1. PICK kept \in [0 .. Len(cq) -> Seq(Completion)] :
        /\ Purged(cq, c) = kept[Len(cq)]
        /\ \A i \in 0 .. Len(cq) :
             kept[i] = IF i = 0 THEN <<>>
                       ELSE IF cq[i].sender = c THEN kept[i - 1]
                            ELSE Append(kept[i - 1], cq[i])
  BY PurgedDefined, SMTT(30)
<1>2. Len(cq) \in Nat
  OBVIOUS
<1>3. Purged(cq, c) \in Seq(Completion)
  BY <1>1, <1>2
<1>4. ASSUME \A i \in 1 .. Len(cq) : cq[i].sender # c
      PROVE  Purged(cq, c) = cq
  <2> DEFINE other == {i \in 0 .. Len(cq) : ~ (/\ Len(kept[i]) = i
                                             /\ \A j \in 1 .. i : kept[i][j] = cq[j])}
  <2>1. other = {}
    <3> SUFFICES ASSUME other # {} PROVE FALSE
      OBVIOUS
    <3>1. PICK i \in other : \A j \in other : i <= j
      <4>1. other \subseteq Nat
        BY <1>2
      <4> QED
        BY <4>1, HasMinimum
    <3>2. CASE i = 0
      BY <1>1, <1>2, <3>2
    <3>3. CASE i # 0
      <4>1. i \in 1 .. Len(cq) /\ i - 1 \in 0 .. Len(cq) /\ i - 1 \notin other
        BY <1>2, <3>1, <3>3
      <4>2. Len(kept[i - 1]) = i - 1 /\ \A j \in 1 .. i - 1 : kept[i - 1][j] = cq[j]
        BY <4>1
      <4>3. kept[i - 1] \in Seq(Completion) /\ cq[i] \in Completion
        <5>1. kept[i - 1] \in Seq(Completion)
          BY <1>1, <4>1
        <5>2. cq[i] \in Completion
          BY <4>1
        <5> QED
          BY <5>1, <5>2
      <4>4. kept[i] = Append(kept[i - 1], cq[i])
        BY <1>1, <1>4, <3>3, <4>1
      <4> HIDE DEF other
      <4>5. Len(kept[i]) = i /\ \A j \in 1 .. i : kept[i][j] = cq[j]
        BY <4>1, <4>2, <4>3, <4>4
      <4> QED
        BY <4>5 DEF other
    <3> QED
      BY <3>2, <3>3
  <2>2. /\ Len(kept[Len(cq)]) = Len(cq)
        /\ \A j \in 1 .. Len(cq) : kept[Len(cq)][j] = cq[j]
    BY <1>2, <2>1
  <2>3. kept[Len(cq)] \in Seq(Completion)
    BY <1>1, <1>2
  <2> QED
    BY <1>1, <2>2, <2>3
<1> QED
  BY <1>3, <1>4

-----------------------------------------------------------------------------
(***************************************************************************)
(* GInv is inductive.                                                      *)
(***************************************************************************)
LEMMA InitGInv == Init => GInv
<1> SUFFICES ASSUME Init PROVE GInv
  OBVIOUS
<1>1. TypeOK
  <2>1. /\ conn_bitmap \in [Fds -> {0, 1}] /\ conn_fd_map \in [Fds -> Contexts]
        /\ sockfd \in [Conns -> Fds \cup {NoSlot}] /\ registered \subseteq Conns
    BY DEF Init, Contexts
  <2>2. /\ buffer \in [Conns -> Conns \cup {NoConn}]
        /\ client \in [Conns -> {"new", "connecting", "connected", "sending", "sent",
                                 "ended"}]
        /\ handled \subseteq Conns /\ answered \subseteq Conns /\ exited \in BOOLEAN
    BY DEF Init
  <2>3. /\ srq \in Seq(Receive) /\ srq_cq \in Seq(Completion)
        /\ events \in Seq({"request", "disconnected"} \X Conns)
    BY DEF Init
  <2>4. loop \in [conn : Conns \cup {NoConn}, todo : Seq(Step)]
    BY DEF Init, NotHandling
  <2>5. poller \in [place : {"poll", "check", "fetch", "use"},
                   wc : Completion \cup {NoConn}, found : Contexts]
    BY DEF Init, NotPolling, Contexts
  <2> QED
    BY <2>1, <2>2, <2>3, <2>4, <2>5 DEF TypeOK
<1>2. HandlerOK /\ DescriptorTaken /\ PollerHas
  BY DEF Init, HandlerOK, DescriptorTaken, PollerHas, At, NotPolling, NotHandling
<1> QED
  BY <1>1, <1>2 DEF GInv

LEMMA ClientGInv ==
  ASSUME GInv, NEW c \in Conns, ClientSteps(c)
  PROVE  GInv'
<1>1. UNCHANGED <<conn_bitmap, conn_fd_map, sockfd, registered, loop, poller, handled,
                  answered, exited>>
  BY DEF ClientSteps, Connect, Send, Deliver, Disconnect, table, history
<1>2. client' \in [Conns -> {"new", "connecting", "connected", "sending", "sent", "ended"}]
  BY DEF ClientSteps, Connect, Send, Deliver, Disconnect, ClientMoves, GInv, TypeOK
<1>3. events' \in Seq({"request", "disconnected"} \X Conns)
  <2> DEFINE Event == {"request", "disconnected"} \X Conns
  <2>1. /\ events \in Seq(Event)
        /\ <<"request", c>> \in Event /\ <<"disconnected", c>> \in Event
    BY DEF GInv, TypeOK
  <2>2. \/ events' = events \/ events' = Append(events, <<"request", c>>)
        \/ events' = Append(events, <<"disconnected", c>>)
    BY DEF ClientSteps, Connect, Send, Deliver, Disconnect
  <2> HIDE DEF Event
  <2>3. \A e \in Event : Append(events, e) \in Seq(Event)
    BY <2>1
  <2>4. events' \in Seq(Event)
    BY <2>1, <2>2, <2>3, Zenon
  <2> QED
    BY <2>4 DEF Event
<1>4. /\ srq' \in Seq(Receive) /\ srq_cq' \in Seq(Completion)
      /\ buffer' \in [Conns -> Conns \cup {NoConn}]
  <2>1. CASE Deliver(c)
    <3>1. srq \in Seq(Receive) /\ srq # <<>> /\ Head(srq) \in Receive
      BY <2>1 DEF Deliver, GInv, TypeOK
    <3>2. srq' = Tail(srq) /\ srq' \in Seq(Receive)
      BY <2>1, <3>1 DEF Deliver
    <3>3. [wr_id |-> Head(srq).wr_id, conn |-> Head(srq).conn, sender |-> c] \in Completion
      BY <3>1 DEF Receive, Completion
    <3>4. srq_cq' \in Seq(Completion)
      BY <2>1, <3>3 DEF Deliver, GInv, TypeOK
    <3>5. buffer' \in [Conns -> Conns \cup {NoConn}]
      BY <2>1, <3>1 DEF Deliver, GInv, TypeOK
    <3> QED
      BY <3>2, <3>4, <3>5
  <2>2. CASE Connect(c) \/ Send(c) \/ Disconnect(c)
    BY <2>2 DEF Connect, Send, Disconnect, GInv, TypeOK
  <2> QED
    BY <2>1, <2>2 DEF ClientSteps
<1>5. TypeOK'
  BY <1>1, <1>2, <1>3, <1>4 DEF GInv, TypeOK
<1>6. HandlerOK' /\ DescriptorTaken' /\ PollerHas'
  BY <1>1 DEF GInv, HandlerOK, DescriptorTaken, PollerHas, At
<1> QED
  BY <1>5, <1>6 DEF GInv

LEMMA GetEventMoves ==
  ASSUME GInv, GetEvent
  PROVE  /\ At = "idle" /\ ~ exited
         /\ events # <<>> /\ events \in Seq({"request", "disconnected"} \X Conns)
         /\ events' = Tail(events) /\ events' \in Seq({"request", "disconnected"} \X Conns)
         /\ Head(events) \in {"request", "disconnected"} \X Conns
         /\ loop'.conn = Head(events)[2]
         /\ At' = IF Head(events)[1] = "request" THEN "sockfd" ELSE "bit"
         /\ loop' \in [conn : Conns \cup {NoConn}, todo : Seq(Step)]
         /\ HandlerOK'
<1>1. /\ At = "idle" /\ ~ exited /\ events # <<>>
      /\ events \in Seq({"request", "disconnected"} \X Conns) /\ events' = Tail(events)
  BY DEF GetEvent, At, GInv, TypeOK
<1>2. /\ events' \in Seq({"request", "disconnected"} \X Conns)
      /\ Head(events) \in {"request", "disconnected"} \X Conns
  BY <1>1
<1>3. /\ loop'.conn = Head(events)[2]
      /\ loop'.todo = IF Head(events)[1] = "request" THEN Remaining["sockfd"]
                                                     ELSE Remaining["bit"]
      /\ loop' = [conn |-> loop'.conn, todo |-> loop'.todo]
  BY RemainingSteps DEF GetEvent
<1>4. PICK s \in Step : /\ loop'.todo = Remaining[s]
                        /\ s = IF Head(events)[1] = "request" THEN "sockfd" ELSE "bit"
  BY <1>3 DEF Step
<1>5. Remaining[s] \in Seq(Step) /\ Remaining[s] # <<>> /\ Head(Remaining[s]) = s
  BY RemainingSteps
<1>6. Head(events)[2] \in Conns
  BY <1>2
<1>7. loop' \in [conn : Conns \cup {NoConn}, todo : Seq(Step)]
  BY <1>3, <1>4, <1>5, <1>6
<1>8. HandlerOK' /\ At' = s
  BY <1>3, <1>4, <1>5, <1>6 DEF HandlerOK, At
<1> QED
  BY <1>1, <1>2, <1>3, <1>4, <1>7, <1>8

LEMMA GetEventGInv ==
  ASSUME GInv, GetEvent
  PROVE  GInv'
<1>1. UNCHANGED <<conn_bitmap, conn_fd_map, sockfd, registered, buffer, srq, srq_cq, poller,
                  client, handled, answered, exited>>
  BY DEF GetEvent, table, history
<1>2. TypeOK'
  BY <1>1, GetEventMoves DEF GInv, TypeOK
<1>3. DescriptorTaken'
  BY GetEventMoves DEF DescriptorTaken
<1>4. HandlerOK' /\ PollerHas'
  BY <1>1, GetEventMoves DEF GInv, PollerHas
<1> QED
  BY <1>2, <1>3, <1>4 DEF GInv

\* get_sockfd takes a clear bit, or the server exits.
LEMMA GetSockfdMoves ==
  ASSUME GInv, GetSockfd
  PROVE  /\ At = "sockfd" /\ At' = "map" /\ loop.conn \in Conns
         /\ UNCHANGED <<conn_fd_map, registered, buffer, srq, srq_cq, client>>
         /\ \/ exited' = TRUE /\ UNCHANGED <<conn_bitmap, sockfd>>
            \/ \E fd \in Fds : /\ conn_bitmap[fd] = 0
                               /\ conn_bitmap' = [conn_bitmap EXCEPT ![fd] = 1]
                               /\ sockfd' = [sockfd EXCEPT ![loop.conn] = fd]
                               /\ exited' = exited
<1> DEFINE fd == find_first_empty_bit(conn_bitmap)
<1>1. LoopDoes("sockfd")
  BY DEF GetSockfd
<1>2. At = "sockfd" /\ At' = "map" /\ loop.conn \in Conns
  BY <1>1, LoopMoves DEF GInv, Step
<1>3. fd = NoSlot \/ (fd \in Fds /\ conn_bitmap[fd] = 0)
  <2>1. MaxConnections \in Nat /\ conn_bitmap \in [0 .. MaxConnections - 1 -> {0, 1}]
    BY SharedReceiveAssumption DEF GInv, TypeOK, Fds
  <2> QED
    BY <2>1, FirstEmptyBit DEF Fds
<1>4. UNCHANGED <<conn_fd_map, registered, buffer, srq, srq_cq, client>>
  BY DEF GetSockfd
<1>5. CASE fd = NoSlot
  <2>1. exited' = TRUE /\ UNCHANGED <<conn_bitmap, sockfd>>
    BY <1>5 DEF GetSockfd
  <2> QED
    BY <1>2, <1>4, <2>1
<1>6. CASE fd # NoSlot
  <2>1. /\ conn_bitmap' = [conn_bitmap EXCEPT ![fd] = 1]
        /\ sockfd' = [sockfd EXCEPT ![loop.conn] = fd]
        /\ exited' = exited
    BY <1>6 DEF GetSockfd
  <2> HIDE DEF fd
  <2> QED
    BY <1>2, <1>3, <1>4, <1>6, <2>1
<1> QED
  BY <1>5, <1>6

LEMMA LoopGInv ==
  ASSUME GInv, LoopSteps
  PROVE  GInv'
<1>1. CASE GetEvent
  BY <1>1, GetEventGInv
<1>2. CASE GetSockfd
  <2>1. LoopDoes("sockfd")
    BY <1>2 DEF GetSockfd
  <2>2. /\ ~ exited /\ HandlerOK' /\ UNCHANGED <<events, poller, handled, answered>>
        /\ loop'.conn = loop.conn
        /\ loop' \in [conn : Conns \cup {NoConn}, todo : Seq(Step)]
    BY <2>1, LoopMoves DEF GInv, Step
  <2>3. /\ conn_bitmap' \in [Fds -> {0, 1}] /\ sockfd' \in [Conns -> Fds \cup {NoSlot}]
        /\ exited' \in BOOLEAN
        /\ ~ exited' => sockfd'[loop.conn] \in Fds
    <3>1. /\ conn_bitmap \in [Fds -> {0, 1}] /\ sockfd \in [Conns -> Fds \cup {NoSlot}]
          /\ exited \in BOOLEAN /\ loop.conn \in Conns
      BY <1>2, GetSockfdMoves DEF GInv, TypeOK
    <3>2. CASE exited' = TRUE /\ UNCHANGED <<conn_bitmap, sockfd>>
      BY <3>1, <3>2
    <3>3. ASSUME NEW fd \in Fds, conn_bitmap' = [conn_bitmap EXCEPT ![fd] = 1],
                 sockfd' = [sockfd EXCEPT ![loop.conn] = fd], exited' = exited
          PROVE  /\ conn_bitmap' \in [Fds -> {0, 1}]
                 /\ sockfd' \in [Conns -> Fds \cup {NoSlot}]
                 /\ exited' \in BOOLEAN /\ sockfd'[loop.conn] \in Fds
      BY <3>1, <3>3
    <3> QED
      BY <1>2, <3>2, <3>3, GetSockfdMoves
  <2>4. UNCHANGED <<conn_fd_map, registered, buffer, srq, srq_cq, client>>
    BY <1>2, GetSockfdMoves
  <2>5. TypeOK'
    BY <2>2, <2>3, <2>4 DEF GInv, TypeOK
  <2>6. DescriptorTaken' /\ PollerHas'
    BY <2>2, <2>3 DEF GInv, DescriptorTaken, PollerHas
  <2> QED
    BY <2>2, <2>5, <2>6 DEF GInv
<1>3. ASSUME SetMap \/ Prepare \/ PostSrqRecv \/ Accept \/ FreeBit \/ FreeMap \/ DestroyQp
             \/ FreeBuffer
      PROVE  GInv'
  <2>1. PICK step \in Step \ {"sockfd"} :
          /\ LoopDoes(step)
          /\ step = "post" => srq' = Append(srq, [wr_id |-> sockfd[loop.conn],
                                                  conn |-> loop.conn])
          /\ step # "post" => srq' = srq
          /\ step # "mr" => sockfd' = sockfd
          /\ step = "mr" => sockfd' = [sockfd EXCEPT ![loop.conn] = NoSlot]
    BY <1>3 DEF SetMap, Prepare, PostSrqRecv, Accept, FreeBit, FreeMap, DestroyQp, FreeBuffer,
                table, Step
  <2>2. /\ ~ exited /\ At = step /\ loop.conn \in Conns
        /\ HandlerOK' /\ UNCHANGED <<events, poller, handled, answered>>
        /\ loop'.conn = loop.conn
        /\ loop' \in [conn : Conns \cup {NoConn}, todo : Seq(Step)]
    BY <2>1, LoopMoves DEF GInv
  <2>3. At' \in {"map", "prepare", "post", "accept"} =>
          step \in {"map", "prepare", "post", "accept"}
    BY <2>1, LoopMoves DEF GInv, Step
  <2>4. exited' = exited
    BY <1>3 DEF SetMap, Prepare, PostSrqRecv, Accept, FreeBit, FreeMap, DestroyQp, FreeBuffer
  <2>5. srq' \in Seq(Receive)
    <3>1. CASE step = "post"
      <4>1. sockfd[loop.conn] \in Fds
        BY <2>2, <3>1 DEF GInv, DescriptorTaken
      <4>2. [wr_id |-> sockfd[loop.conn], conn |-> loop.conn] \in Receive
        BY <2>2, <4>1 DEF Receive
      <4>3. /\ srq \in Seq(Receive)
            /\ srq' = Append(srq, [wr_id |-> sockfd[loop.conn], conn |-> loop.conn])
        BY <2>1, <3>1 DEF GInv, TypeOK
      <4> QED
        BY <4>2, <4>3
    <3>2. CASE step # "post"
      BY <2>1, <3>2 DEF GInv, TypeOK
    <3> QED
      BY <3>1, <3>2
  <2>6. sockfd' \in [Conns -> Fds \cup {NoSlot}]
    BY <2>1, <2>2 DEF GInv, TypeOK
  <2>7. conn_bitmap' \in [Fds -> {0, 1}] /\ conn_fd_map' \in [Fds -> Contexts]
    BY <1>3, <2>2 DEF SetMap, Prepare, PostSrqRecv, Accept, FreeBit, FreeMap, DestroyQp,
                FreeBuffer, table, GInv, TypeOK, Contexts
  <2>8. registered' \subseteq Conns /\ buffer' \in [Conns -> Conns \cup {NoConn}]
    BY <1>3, <2>2 DEF SetMap, Prepare, PostSrqRecv, Accept, FreeBit, FreeMap, DestroyQp,
                FreeBuffer, GInv, TypeOK
  <2>9. srq_cq' \in Seq(Completion)
    <3>1. Purged(srq_cq, loop.conn) \in Seq(Completion)
      BY PurgedCq DEF GInv, TypeOK
    <3> QED
      BY <1>3, <3>1 DEF SetMap, Prepare, PostSrqRecv, Accept, FreeBit, FreeMap, DestroyQp,
                FreeBuffer, GInv, TypeOK
  <2>10. client' \in [Conns -> {"new", "connecting", "connected", "sending", "sent", "ended"}]
    BY <1>3, <2>2 DEF SetMap, Prepare, PostSrqRecv, Accept, FreeBit, FreeMap, DestroyQp,
                FreeBuffer, GInv, TypeOK
  <2>11. TypeOK'
    BY <2>2, <2>4, <2>5, <2>6, <2>7, <2>8, <2>9, <2>10 DEF GInv, TypeOK
  <2>12. DescriptorTaken'
    BY <2>1, <2>2, <2>3, <2>4 DEF GInv, DescriptorTaken
  <2>13. PollerHas'
    BY <2>2 DEF GInv, PollerHas
  <2> QED
    BY <2>2, <2>11, <2>12, <2>13 DEF GInv
<1> QED
  BY <1>1, <1>2, <1>3 DEF LoopSteps

LEMMA PollerGInv ==
  ASSUME GInv, PollerSteps
  PROVE  GInv'
<1>1. UNCHANGED <<conn_bitmap, conn_fd_map, sockfd, registered, buffer, srq, events, loop,
                  client, exited>>
  BY DEF PollerSteps, PollCq, CheckBit, FetchMap, UseBuffer, PollerAt, table
<1>2. /\ poller \in [place : {"poll", "check", "fetch", "use"},
                     wc : Completion \cup {NoConn}, found : Contexts]
      /\ srq_cq \in Seq(Completion) /\ conn_fd_map \in [Fds -> Contexts]
      /\ NoConn \in Contexts
  BY DEF GInv, TypeOK, Contexts
<1>3. poller.place # "poll" =>
        /\ poller.wc \in Completion /\ poller.wc.wr_id \in Fds /\ poller.wc.conn \in Conns
        /\ conn_fd_map[poller.wc.wr_id] \in Contexts
  BY <1>2 DEF GInv, PollerHas, Completion
<1>4. /\ srq_cq' \in Seq(Completion)
      /\ poller' \in [place : {"poll", "check", "fetch", "use"},
                      wc : Completion \cup {NoConn}, found : Contexts]
      /\ PollerHas'
  <2>1. CASE PollCq
    <3>1. Head(srq_cq) \in Completion /\ Tail(srq_cq) \in Seq(Completion)
      BY <1>2, <2>1 DEF PollCq
    <3> QED
      BY <1>2, <2>1, <3>1 DEF PollCq, PollerHas
  <2>2. CASE CheckBit
    BY <1>2, <1>3, <2>2 DEF CheckBit, PollerAt, PollerHas
  <2>3. CASE FetchMap
    BY <1>2, <1>3, <2>3 DEF FetchMap, PollerAt, PollerHas
  <2>4. CASE UseBuffer
    BY <1>2, <2>4 DEF UseBuffer, PollerHas, NotPolling
  <2> QED
    BY <2>1, <2>2, <2>3, <2>4 DEF PollerSteps
<1>5. handled' \subseteq Conns /\ answered' \subseteq Conns
  <2>1. CASE UseBuffer
    <3>1. poller.wc.conn \in Conns
      BY <1>3, <2>1 DEF UseBuffer, PollerAt
    <3>2. poller.found \in Conns
      BY <2>1 DEF UseBuffer, GInv, TypeOK
    <3>3. buffer[poller.found] \in Conns \cup {NoConn}
      BY <3>2 DEF GInv, TypeOK
    <3> QED
      BY <2>1, <3>1, <3>3 DEF UseBuffer, GInv, TypeOK
  <2>2. CASE PollCq \/ CheckBit \/ FetchMap
    BY <2>2 DEF PollCq, CheckBit, FetchMap, history, GInv, TypeOK
  <2> QED
    BY <2>1, <2>2 DEF PollerSteps
<1>6. TypeOK'
  BY <1>1, <1>4, <1>5 DEF GInv, TypeOK
<1>7. HandlerOK' /\ DescriptorTaken'
  BY <1>1 DEF GInv, HandlerOK, DescriptorTaken, At
<1> QED
  BY <1>4, <1>6, <1>7 DEF GInv

LEMMA NextGInv == GInv /\ [Next]_vars => GInv'
<1> SUFFICES ASSUME GInv, [Next]_vars PROVE GInv'
  OBVIOUS
<1>1. CASE UNCHANGED vars
  BY <1>1 DEF vars, GInv, TypeOK, HandlerOK, DescriptorTaken, PollerHas, At
<1> QED
  BY <1>1, LoopGInv, PollerGInv, ClientGInv DEF Next

\* The invariant of the types holds, whether or not clients wait.
THEOREM GInvHolds == Spec => []GInv
BY InitGInv, NextGInv, PTL DEF Spec

\* The table, the queue, its CQ and the threads keep their types: a receive is
\* always posted under a descriptor, and the callback always has a completion.
THEOREM TypeOKHolds == Spec => []TypeOK
<1>1. GInv => TypeOK
  BY DEF GInv
<1> QED
  BY <1>1, GInvHolds, PTL

-----------------------------------------------------------------------------
(***************************************************************************)
(* QInv is inductive when clients wait.                                    *)
(***************************************************************************)
LEMMA InitQInv == Init => QInv
<1> SUFFICES ASSUME Init PROVE QInv
  OBVIOUS
<1>1. /\ At = "idle" /\ client = [c \in Conns |-> "new"]
      /\ sockfd = [c \in Conns |-> NoSlot]
      /\ srq = <<>> /\ srq_cq = <<>> /\ events = <<>> /\ poller.place = "poll"
      /\ handled = {} /\ answered = {}
  BY DEF Init, At, NotHandling, NotPolling
<1>2. Agreement
  BY <1>1 DEF Agreement, Holding
<1>3. TableInv
  BY <1>1 DEF TableInv, BitsSet, EntriesRight, OwnDescriptors, Holding, NoSlot, Fds
<1>4. ReceivesOnce /\ EndsHandled
  BY <1>1 DEF ReceivesOnce, EndsHandled
<1>5. OnePerUnsent
  <2>1. Unsent = {}
    BY <1>1 DEF Unsent
  <2> QED
    BY <1>1, <2>1, FS_EmptySet DEF OnePerUnsent
<1> QED
  BY <1>2, <1>3, <1>4, <1>5 DEF QInv

\* What the invariant says of the receives and completions, with their types.
LEMMA Receives ==
  ASSUME IInv
  PROVE  /\ srq \in Seq(Receive) /\ srq_cq \in Seq(Completion)
         /\ \A i \in 1 .. Len(srq) : srq[i] \in Receive /\ srq[i].conn \in Conns
         /\ \A i \in 1 .. Len(srq_cq) :
              srq_cq[i] \in Completion /\ srq_cq[i].conn \in Conns /\ srq_cq[i].sender \in Conns
         /\ poller.place # "poll" =>
              poller.wc \in Completion /\ poller.wc.conn \in Conns /\ poller.wc.sender \in Conns
<1>1. srq \in Seq(Receive) /\ srq_cq \in Seq(Completion)
  BY DEF IInv, GInv, TypeOK
<1>2. \A r \in Receive : r.conn \in Conns
  BY DEF Receive
<1>3. \A wc \in Completion : wc.conn \in Conns /\ wc.sender \in Conns
  BY DEF Completion
<1>4. poller.place # "poll" => poller.wc \in Completion
  BY DEF IInv, GInv, PollerHas
<1>5. \A i \in 1 .. Len(srq) : srq[i] \in Receive
  BY <1>1
<1>6. \A i \in 1 .. Len(srq_cq) : srq_cq[i] \in Completion
  BY <1>1
<1> QED
  BY <1>1, <1>2, <1>3, <1>4, <1>5, <1>6

\* A step that leaves the queue, its CQ and the poller alone keeps ReceivesOnce if
\* connections with an open receive keep what it rests on.
LEMMA ReceivesKept ==
  ASSUME IInv, UNCHANGED <<srq, srq_cq, poller, handled, answered>>,
         \A c \in Conns : Holding(c) /\ c \notin answered =>
           Holding(c)' /\ sockfd'[c] = sockfd[c] /\ buffer'[c] = buffer[c],
         \A c \in Conns : client[c] = "sent" /\ c \notin handled => client'[c] = "sent"
  PROVE  ReceivesOnce'
<1>1. \A r : r.conn \in Conns /\ Open(r) => Open(r)'
  BY DEF Open
<1>2. \A wc : wc.conn \in Conns /\ wc.sender \in Conns /\ Unread(wc) => Unread(wc)'
  BY DEF Unread, Open
<1> QED
  BY <1>1, <1>2, Receives DEF IInv, QInv, ReceivesOnce, Apart

\* Open and Unread after a step, of a receive or completion of before or after it.
HoldingNext(c) ==
  \/ At' = "accept" /\ loop'.conn = c
  \/ client'[c] \in {"connected", "sending", "sent"}

OpenNext(r) == HoldingNext(r.conn) /\ r.conn \notin answered' /\ r.wr_id = sockfd'[r.conn]

UnreadNext(wc) ==
  /\ OpenNext(wc) /\ buffer'[wc.conn] = wc.sender
  /\ client'[wc.sender] = "sent" /\ wc.sender \notin handled'

\* ReceivesOnce after a step, in these words.
LEMMA ReceivesNext ==
  ASSUME \A i \in 1 .. Len(srq') :
           /\ OpenNext(srq'[i])
           /\ \A j \in 1 .. Len(srq') : srq'[i].conn = srq'[j].conn => i = j
           /\ \A j \in 1 .. Len(srq_cq') : Apart(srq'[i], srq_cq'[j])
           /\ poller'.place # "poll" => Apart(srq'[i], poller'.wc),
         \A i \in 1 .. Len(srq_cq') :
           /\ UnreadNext(srq_cq'[i])
           /\ \A j \in 1 .. Len(srq_cq') :
                srq_cq'[i].conn = srq_cq'[j].conn \/ srq_cq'[i].sender = srq_cq'[j].sender
                  => i = j
           /\ poller'.place # "poll" =>
                Apart(srq_cq'[i], poller'.wc) /\ srq_cq'[i].sender # poller'.wc.sender,
         poller'.place # "poll" => UnreadNext(poller'.wc),
         poller'.place = "use" => poller'.found = poller'.wc.conn
  PROVE  ReceivesOnce'
BY DEF ReceivesOnce, Open, Unread, Holding, OpenNext, UnreadNext, HoldingNext, Apart

-----------------------------------------------------------------------------
\* The clients' steps that take no receive.
LEMMA ClientMovesQInv ==
  ASSUME IInv, ClientsWait, NEW c \in Conns, Connect(c) \/ Send(c) \/ Disconnect(c)
  PROVE  QInv'
<1>1. /\ UNCHANGED <<conn_bitmap, conn_fd_map, sockfd, registered, buffer, srq, srq_cq, loop,
                     poller, handled, answered, exited>>
      /\ At' = At
  BY DEF Connect, Send, Disconnect, table, history, At
<1>2. PICK from, to :
        /\ client[c] = from /\ client' = [client EXCEPT ![c] = to]
        /\ \/ from = "new" /\ to = "connecting" /\ events' = Append(events, <<"request", c>>)
           \/ from = "connected" /\ to = "sending" /\ events' = events
           \/ /\ from = "sent" /\ to = "ended" /\ events' = Append(events, <<"disconnected", c>>)
              /\ c \in handled /\ c \in answered
  BY DEF Connect, Send, Disconnect, ClientMoves, ClientsWait
<1>3. /\ client \in [Conns -> {"new", "connecting", "connected", "sending", "sent", "ended"}]
      /\ \A d \in Conns : client'[d] = IF d = c THEN to ELSE client[d]
  BY <1>2 DEF IInv, GInv, TypeOK
<1>4. \A d \in Conns : Holding(d) /\ ~ (d = c /\ to = "ended") => Holding(d)'
  BY <1>1, <1>2, <1>3 DEF Holding
<1>5. \A d \in Conns : Holding(d)' => Holding(d)
  BY <1>1, <1>2, <1>3 DEF Holding
<1>6. /\ At # "idle" => loop.conn \in Conns /\ client[loop.conn] \in {"connecting", "ended"}
      /\ events \in Seq({"request", "disconnected"} \X Conns)
  BY DEF IInv, GInv, TypeOK, HandlerOK, QInv, Agreement, At, Step
<1>7. Agreement'
  <2>1. /\ \A i \in 1 .. Len(events) :
             /\ events[i][1] = "request" => client[events[i][2]] = "connecting"
             /\ events[i][1] = "disconnected" => client[events[i][2]] = "ended"
             /\ At # "idle" => events[i][2] # loop.conn
             /\ \A j \in 1 .. Len(events) : events[i][2] = events[j][2] => i = j
             /\ events[i][1] \in {"request", "disconnected"} /\ events[i][2] \in Conns
        /\ Len(events) \in Nat
    <3>1. /\ \A i \in 1 .. Len(events) : events[i][1] \in {"request", "disconnected"}
                                      /\ events[i][2] \in Conns
          /\ Len(events) \in Nat
      BY <1>6
    <3> QED
      BY <3>1 DEF IInv, QInv, Agreement
  <2>2. \A i \in 1 .. Len(events) : events[i][2] # c
    BY <1>2, <2>1
  <2>3. At # "idle" => loop.conn # c
    BY <1>2, <1>6
  <2>4. CASE events' = events
    <3>1. \A i \in 1 .. Len(events) : client'[events[i][2]] = client[events[i][2]]
      BY <1>3, <2>1, <2>2
    <3>2. At # "idle" => client'[loop.conn] = client[loop.conn]
      BY <1>3, <1>6, <2>3
    <3> QED
      BY <1>1, <1>5, <2>1, <2>4, <3>1, <3>2 DEF IInv, QInv, Agreement
  <2>5. ASSUME NEW kind \in {"request", "disconnected"},
               events' = Append(events, <<kind, c>>),
               kind = "request" => to = "connecting", kind = "disconnected" => to = "ended"
        PROVE  Agreement'
    <3>1. /\ Len(events') = Len(events) + 1
          /\ \A i \in 1 .. Len(events) : events'[i] = events[i]
          /\ events'[Len(events) + 1] = <<kind, c>>
      BY <1>6, <2>5
    <3>2. \A i \in 1 .. Len(events) + 1 :
            IF i = Len(events) + 1 THEN events'[i][1] = kind /\ events'[i][2] = c
            ELSE i \in 1 .. Len(events) /\ events'[i][1] = events[i][1]
                 /\ events'[i][2] = events[i][2]
      BY <2>1, <3>1
    <3>3. \A i \in 1 .. Len(events') :
            /\ events'[i][1] = "request" => client'[events'[i][2]] = "connecting"
            /\ events'[i][1] = "disconnected" => client'[events'[i][2]] = "ended"
            /\ At' # "idle" => events'[i][2] # loop'.conn
      BY <1>1, <1>3, <2>1, <2>2, <2>3, <2>5, <3>1, <3>2
    <3>4. \A i, j \in 1 .. Len(events') : events'[i][2] = events'[j][2] => i = j
      BY <2>1, <2>2, <3>1, <3>2
    <3>5. At # "idle" => client'[loop.conn] = client[loop.conn]
      BY <1>3, <1>6, <2>3
    <3> QED
      BY <1>1, <1>5, <3>3, <3>4, <3>5 DEF IInv, QInv, Agreement
  <2> QED
    BY <1>2, <2>4, <2>5
<1>8. TableInv'
  BY <1>1, <1>5 DEF IInv, QInv, TableInv, BitsSet, EntriesRight, OwnDescriptors
<1>9. ReceivesOnce'
  <2>1. \A d \in Conns : Holding(d) /\ d \notin answered => Holding(d)'
    BY <1>2, <1>4
  <2>2. \A d \in Conns : client[d] = "sent" /\ d \notin handled => client'[d] = "sent"
    BY <1>2, <1>3
  <2> QED
    BY <1>1, <2>1, <2>2, ReceivesKept
<1>10. EndsHandled'
  BY <1>1, <1>2, <1>3, <1>4 DEF IInv, QInv, EndsHandled
<1>11. OnePerUnsent'
  <2>1. Unsent' = Unsent
    BY <1>1, <1>2, <1>3 DEF Unsent
  <2> QED
    BY <1>1, <2>1 DEF IInv, QInv, OnePerUnsent
<1> QED
  BY <1>7, <1>8, <1>9, <1>10, <1>11 DEF QInv

\* A message takes the oldest receive and becomes a completion.
LEMMA DeliverQInv ==
  ASSUME IInv, NEW c \in Conns, Deliver(c)
  PROVE  QInv'
<1> DEFINE r == srq[1]
           w == [wr_id |-> r.wr_id, conn |-> r.conn, sender |-> c]
<1>1. /\ srq \in Seq(Receive) /\ srq # <<>> /\ Head(srq) = r /\ r \in Receive
      /\ r.conn \in Conns /\ r.wr_id \in Fds /\ 1 \in 1 .. Len(srq) /\ Len(srq) \in Nat
      /\ srq_cq \in Seq(Completion) /\ Len(srq_cq) \in Nat
  <2>1. srq \in Seq(Receive) /\ srq # <<>> /\ srq_cq \in Seq(Completion)
    BY DEF Deliver, IInv, GInv, TypeOK
  <2>2. Head(srq) = r /\ r \in Receive /\ 1 \in 1 .. Len(srq) /\ Len(srq) \in Nat
        /\ Len(srq_cq) \in Nat
    BY <2>1
  <2>3. r.conn \in Conns /\ r.wr_id \in Fds
    BY <2>2 DEF Receive
  <2> QED
    BY <2>1, <2>2, <2>3
<1>2. /\ client[c] = "sending" /\ client' = [client EXCEPT ![c] = "sent"]
      /\ srq' = Tail(srq) /\ buffer' = [buffer EXCEPT ![r.conn] = c]
      /\ srq_cq' = Append(srq_cq, w)
      /\ UNCHANGED <<conn_bitmap, conn_fd_map, sockfd, registered, events, loop, poller,
                     handled, answered, exited>>
      /\ At' = At
  BY <1>1 DEF Deliver, ClientMoves, table, history, At
<1>3. /\ \A d \in Conns : client'[d] = IF d = c THEN "sent" ELSE client[d]
      /\ \A d \in Conns : buffer'[d] = IF d = r.conn THEN c ELSE buffer[d]
  BY <1>1, <1>2 DEF IInv, GInv, TypeOK
<1>4. /\ \A d \in Conns : Holding(d)' <=> Holding(d)
      /\ \A d \in Conns : HoldingNext(d) <=> Holding(d)
  BY <1>2, <1>3 DEF Holding, HoldingNext
<1>5. /\ Len(srq') = Len(srq) - 1
      /\ \A i \in 1 .. Len(srq') : srq'[i] = srq[i + 1] /\ i + 1 \in 1 .. Len(srq)
  BY <1>1, <1>2
<1>6. /\ Len(srq_cq') = Len(srq_cq) + 1
      /\ \A i \in 1 .. Len(srq_cq) + 1 :
           \/ i \in 1 .. Len(srq_cq) /\ srq_cq'[i] = srq_cq[i]
           \/ i = Len(srq_cq) + 1 /\ srq_cq'[i] = w
  <2>1. w \in Completion
    BY <1>1 DEF Completion
  <2> HIDE DEF w
  <2> QED
    BY <1>1, <1>2, <2>1
<1>7. Agreement'
  <2>1. events \in Seq({"request", "disconnected"} \X Conns)
    BY DEF IInv, GInv, TypeOK
  <2>2. \A i \in 1 .. Len(events) : events[i][1] \in {"request", "disconnected"}
                                    /\ events[i][2] \in Conns
    BY <2>1
  <2>3. \A i \in 1 .. Len(events) : client'[events[i][2]] = client[events[i][2]]
    BY <1>2, <1>3, <2>2 DEF IInv, QInv, Agreement
  <2>4. At # "idle" => loop.conn \in Conns /\ At \in Step
    BY DEF IInv, GInv, TypeOK, HandlerOK, At
  <2>5. At # "idle" => client'[loop.conn] = client[loop.conn]
    BY <1>2, <1>3, <2>4 DEF IInv, QInv, Agreement, Step
  <2> QED
    BY <1>2, <1>4, <2>3, <2>4, <2>5 DEF IInv, QInv, Agreement
<1>8. TableInv'
  BY <1>2, <1>4 DEF IInv, QInv, TableInv, BitsSet, EntriesRight, OwnDescriptors
<1>9. ReceivesOnce'
  <2>1. \A s : s.conn \in Conns /\ Open(s) => OpenNext(s)
    BY <1>2, <1>4 DEF Open, OpenNext
  <2>2. \A wc : /\ wc.conn \in Conns /\ wc.sender \in Conns /\ Unread(wc) /\ wc.conn # r.conn
                => UnreadNext(wc) /\ wc.sender # c
    BY <1>2, <1>3, <2>1 DEF Unread, UnreadNext
  <2>3. /\ Open(r) /\ \A j \in 1 .. Len(srq_cq) : srq_cq[j].conn # r.conn
        /\ poller.place # "poll" => poller.wc.conn # r.conn
    BY <1>1 DEF IInv, QInv, ReceivesOnce, Apart
  <2>4. w.conn = r.conn /\ w.sender = c /\ w.wr_id = r.wr_id
    OBVIOUS
  <2>5. UnreadNext(w)
    <3>1. c \notin handled
      BY <1>2 DEF IInv, QInv, EndsHandled
    <3>2. OpenNext(r)
      BY <1>1, <2>1, <2>3
    <3>3. r.conn \in Conns /\ UNCHANGED <<handled>> /\ buffer'[r.conn] = c /\ client'[c] = "sent"
      BY <1>1, <1>2, <1>3
    <3> HIDE DEF w, r
    <3> QED
      BY <2>4, <3>1, <3>2, <3>3 DEF UnreadNext, OpenNext
  <2>6. \A i \in 1 .. Len(srq') :
          /\ OpenNext(srq'[i]) /\ srq'[i].conn # r.conn
          /\ \A j \in 1 .. Len(srq') : srq'[i].conn = srq'[j].conn => i = j
          /\ \A j \in 1 .. Len(srq_cq) : Apart(srq'[i], srq_cq[j])
          /\ poller.place # "poll" => Apart(srq'[i], poller.wc)
    <3>1. \A i \in 1 .. Len(srq) :
            /\ Open(srq[i]) /\ srq[i].conn \in Conns
            /\ \A j \in 1 .. Len(srq) : srq[i].conn = srq[j].conn => i = j
            /\ \A j \in 1 .. Len(srq_cq) : Apart(srq[i], srq_cq[j])
            /\ poller.place # "poll" => Apart(srq[i], poller.wc)
      BY Receives DEF IInv, QInv, ReceivesOnce
    <3> SUFFICES ASSUME NEW i \in 1 .. Len(srq')
                 PROVE  /\ OpenNext(srq'[i]) /\ srq'[i].conn # r.conn
                        /\ \A j \in 1 .. Len(srq') : srq'[i].conn = srq'[j].conn => i = j
                        /\ \A j \in 1 .. Len(srq_cq) : Apart(srq'[i], srq_cq[j])
                        /\ poller.place # "poll" => Apart(srq'[i], poller.wc)
      OBVIOUS
    <3>2. srq'[i] = srq[i + 1] /\ i + 1 \in 1 .. Len(srq) /\ i + 1 # 1
      BY <1>1, <1>5
    <3>3. OpenNext(srq[i + 1])
      BY <2>1, <3>1, <3>2
    <3>4. srq[i + 1].conn # r.conn
      BY <1>1, <3>1, <3>2
    <3>5. ASSUME NEW j \in 1 .. Len(srq'), srq'[i].conn = srq'[j].conn
          PROVE  i = j
      <4>1. srq'[j] = srq[j + 1] /\ j + 1 \in 1 .. Len(srq)
        BY <1>1, <1>5
      <4>2. i + 1 = j + 1
        BY <3>1, <3>2, <3>5, <4>1
      <4> QED
        BY <1>5, <4>2
    <3> HIDE DEF r
    <3> QED
      BY <3>1, <3>2, <3>3, <3>4, <3>5
  <2> HIDE DEF w, r
  <2>7. \A i \in 1 .. Len(srq_cq) :
          /\ UnreadNext(srq_cq[i]) /\ srq_cq[i].sender # c /\ srq_cq[i].conn # w.conn
          /\ \A j \in 1 .. Len(srq_cq) :
               srq_cq[i].conn = srq_cq[j].conn \/ srq_cq[i].sender = srq_cq[j].sender => i = j
          /\ poller.place # "poll" =>
               Apart(srq_cq[i], poller.wc) /\ srq_cq[i].sender # poller.wc.sender
    BY <2>2, <2>3, <2>4, Receives DEF IInv, QInv, ReceivesOnce
  <2>8. poller.place # "poll" =>
          UnreadNext(poller.wc) /\ poller.wc.sender # c /\ poller.wc.conn # w.conn
    BY <2>2, <2>3, <2>4, Receives DEF IInv, QInv, ReceivesOnce
  <2>9. \A i \in 1 .. Len(srq') :
          /\ OpenNext(srq'[i])
          /\ \A j \in 1 .. Len(srq') : srq'[i].conn = srq'[j].conn => i = j
          /\ \A j \in 1 .. Len(srq_cq') : Apart(srq'[i], srq_cq'[j])
          /\ poller'.place # "poll" => Apart(srq'[i], poller'.wc)
    BY <1>2, <1>6, <2>4, <2>6 DEF Apart
  <2>10. \A i \in 1 .. Len(srq_cq') :
           /\ UnreadNext(srq_cq'[i])
           /\ \A j \in 1 .. Len(srq_cq') :
                srq_cq'[i].conn = srq_cq'[j].conn \/ srq_cq'[i].sender = srq_cq'[j].sender
                  => i = j
           /\ poller'.place # "poll" =>
                Apart(srq_cq'[i], poller'.wc) /\ srq_cq'[i].sender # poller'.wc.sender
    BY <1>1, <1>2, <1>6, <2>4, <2>5, <2>7, <2>8 DEF Apart
  <2>11. /\ poller'.place # "poll" => UnreadNext(poller'.wc)
         /\ poller'.place = "use" => poller'.found = poller'.wc.conn
    BY <1>2, <2>8 DEF IInv, QInv, ReceivesOnce
  <2> QED
    BY <2>9, <2>10, <2>11, ReceivesNext
<1>10. EndsHandled'
  BY <1>2, <1>3, <1>4 DEF IInv, QInv, EndsHandled
<1>11. OnePerUnsent'
  <2>1. Unsent' = Unsent \ {c} /\ c \in Unsent
    <3>1. At = "accept" => loop.conn # c
      BY <1>2 DEF IInv, QInv, Agreement
    <3> QED
      BY <1>2, <1>3, <3>1 DEF Unsent
  <2>2. IsFiniteSet(Unsent) /\ Len(srq) = Cardinality(Unsent)
    BY DEF IInv, QInv, OnePerUnsent
  <2>3. IsFiniteSet(Unsent \ {c}) /\ Cardinality(Unsent \ {c}) = Cardinality(Unsent) - 1
    BY <2>1, <2>2, FS_RemoveElement
  <2> QED
    BY <1>5, <2>1, <2>2, <2>3 DEF OnePerUnsent
<1> QED
  BY <1>7, <1>8, <1>9, <1>10, <1>11 DEF QInv

-----------------------------------------------------------------------------
\* The event loop turns to an event: nothing it held was under way.
LEMMA GetEventQInv ==
  ASSUME IInv, GetEvent
  PROVE  QInv'
<1>1. UNCHANGED <<conn_bitmap, conn_fd_map, sockfd, registered, buffer, srq, srq_cq, poller,
                  client, handled, answered, exited>>
  BY DEF GetEvent, table, history
<1>2. /\ At = "idle" /\ At' \in {"sockfd", "bit"} /\ loop'.conn = events[1][2]
      /\ At' = IF events[1][1] = "request" THEN "sockfd" ELSE "bit"
      /\ events[1][1] \in {"request", "disconnected"}
      /\ Len(events) \in Nat /\ 1 \in 1 .. Len(events) /\ Len(events') = Len(events) - 1
      /\ \A i \in 1 .. Len(events') : events'[i] = events[i + 1] /\ i + 1 \in 1 .. Len(events)
  <2>1. /\ At = "idle" /\ events # <<>> /\ events' = Tail(events)
        /\ events \in Seq({"request", "disconnected"} \X Conns)
        /\ Head(events) \in {"request", "disconnected"} \X Conns
        /\ loop'.conn = Head(events)[2]
        /\ At' = IF Head(events)[1] = "request" THEN "sockfd" ELSE "bit"
    BY GetEventMoves DEF IInv
  <2> DEFINE Event == {"request", "disconnected"} \X Conns
  <2>2. Head(events)[1] \in {"request", "disconnected"}
    BY <2>1
  <2>3. events \in Seq(Event)
    BY <2>1
  <2> HIDE DEF Event
  <2>4. /\ Head(events) = events[1]
        /\ Len(events) \in Nat /\ 1 \in 1 .. Len(events) /\ Len(events') = Len(events) - 1
        /\ \A i \in 1 .. Len(events') :
             events'[i] = events[i + 1] /\ i + 1 \in 1 .. Len(events)
    BY <2>1, <2>3
  <2> QED
    BY <2>1, <2>2, <2>4
<1>3. \A c \in Conns : Holding(c)' <=> Holding(c)
  BY <1>1, <1>2 DEF Holding
<1>4. Agreement'
  <2>1. \A i \in 1 .. Len(events) :
          /\ events[i][1] = "request" => client[events[i][2]] = "connecting"
          /\ events[i][1] = "disconnected" => client[events[i][2]] = "ended"
          /\ \A j \in 1 .. Len(events) : events[i][2] = events[j][2] => i = j
    BY DEF IInv, QInv, Agreement
  <2>2. /\ At' \in {"sockfd", "map", "prepare", "post", "accept"} =>
             client'[loop'.conn] = "connecting"
        /\ At' \in {"bit", "unmap", "qp", "mr"} => client'[loop'.conn] = "ended"
    BY <1>1, <1>2, <2>1
  <2>3. ASSUME NEW i \in 1 .. Len(events')
        PROVE  /\ events'[i][1] = "request" => client'[events'[i][2]] = "connecting"
               /\ events'[i][1] = "disconnected" => client'[events'[i][2]] = "ended"
               /\ events'[i][2] # loop'.conn
               /\ \A j \in 1 .. Len(events') : events'[i][2] = events'[j][2] => i = j
    <3>1. events'[i] = events[i + 1] /\ i + 1 \in 1 .. Len(events) /\ i + 1 # 1
      BY <1>2
    <3>2. events[i + 1][2] # events[1][2]
      BY <1>2, <2>1, <3>1
    <3>3. ASSUME NEW j \in 1 .. Len(events'), events'[i][2] = events'[j][2]
          PROVE  i = j
      <4>1. events'[j] = events[j + 1] /\ j + 1 \in 1 .. Len(events)
        BY <1>2
      <4>2. i + 1 = j + 1
        BY <2>1, <3>1, <3>3, <4>1
      <4> QED
        BY <1>2, <4>2
    <3> QED
      BY <1>1, <1>2, <2>1, <3>1, <3>2, <3>3
  <2>4. \A c \in Conns : Holding(c)' \/ (At' = "post" /\ loop'.conn = c) => c \in registered'
    BY <1>1, <1>2, <1>3 DEF IInv, QInv, Agreement
  <2> QED
    BY <2>2, <2>3, <2>4 DEF Agreement
<1>5. TableInv'
  BY <1>1, <1>2, <1>3 DEF IInv, QInv, TableInv, BitsSet, EntriesRight, OwnDescriptors
<1>6. ReceivesOnce'
  BY <1>1, <1>3, ReceivesKept
<1>7. EndsHandled'
  BY <1>1, <1>3 DEF IInv, QInv, EndsHandled
<1>8. OnePerUnsent'
  <2>1. Unsent' = Unsent
    BY <1>1, <1>2 DEF Unsent
  <2> QED
    BY <1>1, <2>1 DEF IInv, QInv, OnePerUnsent
<1> QED
  BY <1>4, <1>5, <1>6, <1>7, <1>8 DEF QInv

\* What a step of a handler changes.
HandlerEffect(step) ==
  /\ LoopDoes(step)
  /\ client' = IF step = "accept" THEN [client EXCEPT ![loop.conn] = "connected"] ELSE client
  /\ registered' = IF step = "prepare" THEN registered \cup {loop.conn}
                   ELSE IF step = "mr" THEN registered \ {loop.conn} ELSE registered
  /\ buffer' = IF step = "prepare" THEN [buffer EXCEPT ![loop.conn] = NoConn] ELSE buffer
  /\ srq' = IF step = "post"
            THEN Append(srq, [wr_id |-> sockfd[loop.conn], conn |-> loop.conn]) ELSE srq
  /\ srq_cq' = IF step = "qp" THEN Purged(srq_cq, loop.conn) ELSE srq_cq
  /\ conn_fd_map' = IF step = "map" THEN [conn_fd_map EXCEPT ![sockfd[loop.conn]] = loop.conn]
                    ELSE IF step = "unmap"
                         THEN [conn_fd_map EXCEPT ![sockfd[loop.conn]] = NoConn]
                         ELSE conn_fd_map
  /\ step \notin {"sockfd", "bit"} => conn_bitmap' = conn_bitmap
  /\ step = "bit" => conn_bitmap' = [conn_bitmap EXCEPT ![sockfd[loop.conn]] = 0]
  /\ step \notin {"sockfd", "mr"} => sockfd' = sockfd
  /\ step = "mr" => sockfd' = [sockfd EXCEPT ![loop.conn] = NoSlot]
  /\ step # "sockfd" => exited' = exited
  /\ step = "sockfd" =>
       \/ exited' = TRUE /\ UNCHANGED <<conn_bitmap, sockfd>>
       \/ \E fd \in Fds : /\ conn_bitmap[fd] = 0
                          /\ conn_bitmap' = [conn_bitmap EXCEPT ![fd] = 1]
                          /\ sockfd' = [sockfd EXCEPT ![loop.conn] = fd]
                          /\ exited' = exited

LEMMA LoopEffects ==
  ASSUME IInv,
         \/ GetSockfd \/ SetMap \/ Prepare \/ PostSrqRecv \/ Accept
         \/ FreeBit \/ FreeMap \/ DestroyQp \/ FreeBuffer
  PROVE  \E step \in Step : HandlerEffect(step)
<1>1. CASE GetSockfd
  <2>1. HandlerEffect("sockfd")
    <3>1. LoopDoes("sockfd")
      BY <1>1 DEF GetSockfd
    <3> QED
      BY <1>1, <3>1, GetSockfdMoves DEF HandlerEffect, IInv
  <2> QED
    BY <2>1 DEF Step
<1>2. CASE SetMap
  <2>1. HandlerEffect("map")
    BY <1>2 DEF SetMap, HandlerEffect
  <2> QED
    BY <2>1 DEF Step
<1>3. CASE Prepare
  <2>1. HandlerEffect("prepare")
    BY <1>3 DEF Prepare, HandlerEffect, table
  <2> QED
    BY <2>1 DEF Step
<1>4. CASE PostSrqRecv
  <2>1. HandlerEffect("post")
    BY <1>4 DEF PostSrqRecv, HandlerEffect, table
  <2> QED
    BY <2>1 DEF Step
<1>5. CASE Accept
  <2>1. HandlerEffect("accept")
    BY <1>5 DEF Accept, HandlerEffect, table
  <2> QED
    BY <2>1 DEF Step
<1>6. CASE FreeBit
  <2>1. HandlerEffect("bit")
    BY <1>6 DEF FreeBit, HandlerEffect
  <2> QED
    BY <2>1 DEF Step
<1>7. CASE FreeMap
  <2>1. HandlerEffect("unmap")
    BY <1>7 DEF FreeMap, HandlerEffect
  <2> QED
    BY <2>1 DEF Step
<1>8. CASE DestroyQp
  <2>1. HandlerEffect("qp")
    BY <1>8 DEF DestroyQp, HandlerEffect, table
  <2> QED
    BY <2>1 DEF Step
<1>9. CASE FreeBuffer
  <2>1. HandlerEffect("mr")
    BY <1>9 DEF FreeBuffer, HandlerEffect
  <2> QED
    BY <2>1 DEF Step
<1> QED
  BY <1>1, <1>2, <1>3, <1>4, <1>5, <1>6, <1>7, <1>8, <1>9

\* Where a handler is, before and after a step.
LEMMA HandlerMoves ==
  ASSUME IInv, NEW step \in Step, HandlerEffect(step)
  PROVE  /\ ~ exited /\ At = step /\ loop.conn \in Conns /\ loop'.conn = loop.conn
         /\ UNCHANGED <<events, poller, handled, answered>>
         /\ step \in {"sockfd", "map", "prepare", "post", "accept"} =>
              client[loop.conn] = "connecting"
         /\ step \in {"bit", "unmap", "qp", "mr"} => client[loop.conn] = "ended"
         /\ At' = "accept" <=> step = "post"
         /\ \A c \in Conns :
              client'[c] = IF c = loop.conn /\ step = "accept" THEN "connected" ELSE client[c]
         /\ \A c \in Conns :
              Holding(c)' <=> Holding(c) \/ (step = "post" /\ c = loop.conn)
         /\ step # "accept" => ~ Holding(loop.conn)
<1>1. /\ LoopDoes(step)
      /\ client' = IF step = "accept" THEN [client EXCEPT ![loop.conn] = "connected"]
                   ELSE client
  BY DEF HandlerEffect
<1>2. /\ ~ exited /\ At = step /\ loop.conn \in Conns /\ loop'.conn = loop.conn
      /\ UNCHANGED <<events, poller, handled, answered>>
      /\ At' = "accept" <=> step = "post"
  BY <1>1, LoopMoves DEF IInv, GInv, Step
<1>3. /\ step \in {"sockfd", "map", "prepare", "post", "accept"} =>
           client[loop.conn] = "connecting"
      /\ step \in {"bit", "unmap", "qp", "mr"} => client[loop.conn] = "ended"
  BY <1>2 DEF IInv, QInv, Agreement
<1>4. \A c \in Conns :
        client'[c] = IF c = loop.conn /\ step = "accept" THEN "connected" ELSE client[c]
  BY <1>1, <1>2 DEF IInv, GInv, TypeOK
<1>5. \A c \in Conns : Holding(c)' <=> Holding(c) \/ (step = "post" /\ c = loop.conn)
  BY <1>2, <1>3, <1>4 DEF Holding
<1>6. step # "accept" => ~ Holding(loop.conn)
  BY <1>2, <1>3 DEF Holding, Step
<1> QED
  BY <1>2, <1>3, <1>4, <1>5, <1>6

LEMMA HandlerAgreement ==
  ASSUME IInv, NEW step \in Step, HandlerEffect(step)
  PROVE  Agreement'
<1>1. /\ At = step /\ loop.conn \in Conns /\ loop'.conn = loop.conn /\ events' = events
      /\ \A c \in Conns :
           client'[c] = IF c = loop.conn /\ step = "accept" THEN "connected" ELSE client[c]
      /\ \A c \in Conns : Holding(c)' <=> Holding(c) \/ (step = "post" /\ c = loop.conn)
      /\ step # "accept" => ~ Holding(loop.conn)
      /\ step \in {"sockfd", "map", "prepare", "post", "accept"} =>
           client[loop.conn] = "connecting"
      /\ step \in {"bit", "unmap", "qp", "mr"} => client[loop.conn] = "ended"
  BY HandlerMoves
<1>2. /\ At' \in {"sockfd", "map", "prepare", "post", "accept"} =>
           step \in {"sockfd", "map", "prepare", "post"}
      /\ At' \in {"bit", "unmap", "qp", "mr"} => step \in {"bit", "unmap", "qp", "mr"}
      /\ At' = "post" => step = "prepare"
  BY LoopMoves DEF HandlerEffect, IInv, GInv, Step
<1>3. registered' = IF step = "prepare" THEN registered \cup {loop.conn}
                    ELSE IF step = "mr" THEN registered \ {loop.conn} ELSE registered
  BY DEF HandlerEffect
<1>4. /\ At' \in {"sockfd", "map", "prepare", "post", "accept"} =>
           client'[loop'.conn] = "connecting"
      /\ At' \in {"bit", "unmap", "qp", "mr"} => client'[loop'.conn] = "ended"
  BY <1>1, <1>2
<1>5. step # "idle"
  BY DEF Step
<1>6. \A i \in 1 .. Len(events) :
        /\ events[i][1] = "request" => client'[events[i][2]] = "connecting"
        /\ events[i][1] = "disconnected" => client'[events[i][2]] = "ended"
        /\ events[i][2] # loop.conn
        /\ \A j \in 1 .. Len(events) : events[i][2] = events[j][2] => i = j
  <2>1. events \in Seq({"request", "disconnected"} \X Conns)
    BY DEF IInv, GInv, TypeOK
  <2>2. \A i \in 1 .. Len(events) : events[i][2] \in Conns
    BY <2>1
  <2>3. \A i \in 1 .. Len(events) :
          /\ events[i][1] = "request" => client[events[i][2]] = "connecting"
          /\ events[i][1] = "disconnected" => client[events[i][2]] = "ended"
          /\ events[i][2] # loop.conn
          /\ \A j \in 1 .. Len(events) : events[i][2] = events[j][2] => i = j
    BY <1>1, <1>5 DEF IInv, QInv, Agreement
  <2> QED
    BY <1>1, <2>2, <2>3
<1>7. \A c \in Conns : Holding(c)' \/ (At' = "post" /\ loop'.conn = c) => c \in registered'
  <2>1. \A c \in Conns : Holding(c) \/ (At = "post" /\ loop.conn = c) => c \in registered
    BY DEF IInv, QInv, Agreement
  <2> QED
    BY <1>1, <1>2, <1>3, <2>1
<1> QED
  BY <1>1, <1>4, <1>6, <1>7 DEF Agreement

LEMMA HandlerTable ==
  ASSUME IInv, NEW step \in Step, HandlerEffect(step)
  PROVE  TableInv'
<1> SUFFICES ASSUME ~ exited' PROVE BitsSet' /\ EntriesRight' /\ OwnDescriptors'
  BY DEF TableInv
<1> DEFINE c == loop.conn
<1>1. /\ At = step /\ c \in Conns /\ loop'.conn = c /\ ~ exited
      /\ \A d \in Conns : Holding(d)' <=> Holding(d) \/ (step = "post" /\ d = c)
      /\ step # "accept" => ~ Holding(c)
  BY HandlerMoves
<1>2. /\ At' \in {"unmap", "qp", "mr"} <=> step \in {"bit", "unmap", "qp"}
      /\ At' \in {"prepare", "post"} <=> step \in {"map", "prepare"}
  BY LoopMoves DEF HandlerEffect, IInv, GInv, Step
<1>3. /\ conn_bitmap \in [Fds -> {0, 1}] /\ conn_fd_map \in [Fds -> Contexts]
      /\ sockfd \in [Conns -> Fds \cup {NoSlot}] /\ NoSlot \notin Fds
      /\ c # NoConn
  BY <1>1, SharedReceiveAssumption DEF IInv, GInv, TypeOK, Fds, NoSlot
<1>4. /\ \A d \in Conns :
           /\ sockfd[d] \in Fds /\ ~ (step \in {"unmap", "qp", "mr"} /\ c = d) =>
                conn_bitmap[sockfd[d]] = 1
           /\ Holding(d) \/ (step \in {"prepare", "post"} /\ c = d) =>
                sockfd[d] \in Fds /\ conn_fd_map[sockfd[d]] = d
      /\ \A d, e \in Conns : sockfd[d] \in Fds /\ sockfd[d] = sockfd[e] => d = e
  BY <1>1 DEF IInv, QInv, TableInv, BitsSet, EntriesRight, OwnDescriptors
<1>5. CASE step = "sockfd"
  <2>1. PICK fd \in Fds : /\ conn_bitmap[fd] = 0
                          /\ conn_bitmap' = [conn_bitmap EXCEPT ![fd] = 1]
                          /\ sockfd' = [sockfd EXCEPT ![c] = fd]
    BY <1>5 DEF HandlerEffect
  <2>2. conn_fd_map' = conn_fd_map
    BY <1>5 DEF HandlerEffect
  <2> HIDE DEF c
  <2>3. \A d \in Conns : sockfd[d] # fd
    BY <1>4, <1>5, <2>1
  <2>4. \A d \in Conns : sockfd'[d] = IF d = c THEN fd ELSE sockfd[d]
    BY <1>1, <1>3, <2>1
  <2>5. \A i \in Fds : conn_bitmap'[i] = IF i = fd THEN 1 ELSE conn_bitmap[i]
    BY <1>3, <2>1
  <2>6. BitsSet'
    BY <1>2, <1>4, <1>5, <2>1, <2>4, <2>5 DEF BitsSet
  <2>7. EntriesRight'
    BY <1>1, <1>2, <1>4, <1>5, <2>2, <2>4 DEF EntriesRight
  <2>8. OwnDescriptors'
    BY <1>4, <2>3, <2>4 DEF OwnDescriptors
  <2> QED
    BY <2>6, <2>7, <2>8
<1>6. CASE step = "map"
  <2>1. /\ conn_bitmap' = conn_bitmap /\ sockfd' = sockfd
        /\ conn_fd_map' = [conn_fd_map EXCEPT ![sockfd[c]] = c]
        /\ sockfd[c] \in Fds
    BY <1>1, <1>6 DEF HandlerEffect, IInv, GInv, DescriptorTaken
  <2> HIDE DEF c
  <2>2. \A i \in Fds : conn_fd_map'[i] = IF i = sockfd[c] THEN c ELSE conn_fd_map[i]
    BY <1>3, <2>1
  <2> QED
    BY <1>1, <1>2, <1>4, <1>6, <2>1, <2>2 DEF BitsSet, EntriesRight, OwnDescriptors
<1>7. CASE step = "bit"
  <2>1. /\ conn_bitmap' = [conn_bitmap EXCEPT ![sockfd[c]] = 0]
        /\ sockfd' = sockfd /\ conn_fd_map' = conn_fd_map
    BY <1>7 DEF HandlerEffect
  <2> HIDE DEF c
  <2>2. \A i \in Fds : i # sockfd[c] => conn_bitmap'[i] = conn_bitmap[i]
    BY <1>3, <2>1
  <2> QED
    BY <1>1, <1>2, <1>4, <1>7, <2>1, <2>2 DEF BitsSet, EntriesRight, OwnDescriptors
<1>8. CASE step = "unmap"
  <2>1. /\ conn_fd_map' = [conn_fd_map EXCEPT ![sockfd[c]] = NoConn]
        /\ sockfd' = sockfd /\ conn_bitmap' = conn_bitmap
    BY <1>8 DEF HandlerEffect
  <2> HIDE DEF c
  <2>2. \A i \in Fds : i # sockfd[c] => conn_fd_map'[i] = conn_fd_map[i]
    BY <1>3, <2>1
  <2> QED
    BY <1>1, <1>2, <1>4, <1>8, <2>1, <2>2 DEF BitsSet, EntriesRight, OwnDescriptors
<1>9. CASE step = "mr"
  <2>1. /\ conn_fd_map' = conn_fd_map /\ conn_bitmap' = conn_bitmap
        /\ sockfd' = [sockfd EXCEPT ![c] = NoSlot]
    BY <1>9 DEF HandlerEffect
  <2> HIDE DEF c
  <2>2. \A d \in Conns : sockfd'[d] = IF d = c THEN NoSlot ELSE sockfd[d]
    BY <1>3, <2>1
  <2> QED
    BY <1>1, <1>2, <1>3, <1>4, <1>9, <2>1, <2>2 DEF BitsSet, EntriesRight, OwnDescriptors
<1>10. CASE step \in {"prepare", "post", "accept", "qp"}
  <2>1. conn_fd_map' = conn_fd_map /\ conn_bitmap' = conn_bitmap /\ sockfd' = sockfd
    BY <1>10 DEF HandlerEffect
  <2> QED
    BY <1>1, <1>2, <1>4, <1>10, <2>1 DEF BitsSet, EntriesRight, OwnDescriptors
<1> QED
  BY <1>5, <1>6, <1>7, <1>8, <1>9, <1>10 DEF Step

\* The queue pair of a client that waited has no completion left in the shared CQ.
LEMMA HandlerKeepsCq ==
  ASSUME IInv, NEW step \in Step, HandlerEffect(step)
  PROVE  srq_cq' = srq_cq
<1>1. CASE step = "qp"
  <2>1. client[loop.conn] = "ended" /\ srq_cq' = Purged(srq_cq, loop.conn)
    BY <1>1, HandlerMoves DEF HandlerEffect
  <2>2. \A i \in 1 .. Len(srq_cq) : srq_cq[i].sender # loop.conn
    BY <2>1 DEF IInv, QInv, ReceivesOnce, Unread
  <2>3. srq_cq \in Seq(Completion)
    BY Receives
  <2> QED
    BY <2>1, <2>2, <2>3, PurgedCq
<1>2. CASE step # "qp"
  BY <1>2 DEF HandlerEffect
<1> QED
  BY <1>1, <1>2

LEMMA HandlerReceives ==
  ASSUME IInv, NEW step \in Step, HandlerEffect(step)
  PROVE  ReceivesOnce'
<1> DEFINE c == loop.conn
<1>1. /\ At = step /\ c \in Conns /\ ~ exited /\ UNCHANGED <<poller, handled, answered>>
      /\ \A d \in Conns : Holding(d)' <=> Holding(d) \/ (step = "post" /\ d = c)
      /\ step # "accept" => ~ Holding(c)
      /\ \A d \in Conns : client[d] = "sent" => client'[d] = "sent"
  <2>1. step = "accept" => client[c] = "connecting"
    BY HandlerMoves
  <2> QED
    BY <2>1, HandlerMoves
<1>2. srq_cq' = srq_cq
  BY HandlerKeepsCq
<1>3. \A d \in Conns : Holding(d) => sockfd'[d] = sockfd[d] /\ buffer'[d] = buffer[d]
  <2>1. CASE step \in {"sockfd", "mr"}
    <3>1. buffer' = buffer /\ (sockfd' = sockfd \/ \E fd : sockfd' = [sockfd EXCEPT ![c] = fd])
      BY <2>1 DEF HandlerEffect
    <3> QED
      BY <1>1, <2>1, <3>1 DEF IInv, GInv, TypeOK
  <2>2. CASE step = "prepare"
    <3>1. sockfd' = sockfd /\ buffer' = [buffer EXCEPT ![c] = NoConn]
      BY <2>2 DEF HandlerEffect
    <3> QED
      BY <1>1, <2>2, <3>1 DEF IInv, GInv, TypeOK
  <2>3. CASE step \notin {"sockfd", "mr", "prepare"}
    BY <2>3 DEF HandlerEffect
  <2> QED
    BY <2>1, <2>2, <2>3
<1>4. CASE step # "post"
  <2>1. srq' = srq
    BY <1>4 DEF HandlerEffect
  <2> QED
    BY <1>1, <1>2, <1>3, <1>4, <2>1, ReceivesKept
<1>5. CASE step = "post"
  <2> DEFINE r == [wr_id |-> sockfd[c], conn |-> c]
  <2>1. /\ srq' = Append(srq, r) /\ sockfd' = sockfd /\ At' = "accept" /\ loop'.conn = c
        /\ client[c] = "connecting"
    BY <1>5, HandlerMoves DEF HandlerEffect
  <2>2. sockfd[c] \in Fds /\ r \in Receive
    BY <1>1, <1>5 DEF IInv, GInv, DescriptorTaken, Receive
  <2>3. /\ srq \in Seq(Receive) /\ Len(srq) \in Nat
        /\ srq_cq \in Seq(Completion)
    BY Receives
  <2>4. r.conn = c /\ r.wr_id = sockfd[c]
    OBVIOUS
  <2> HIDE DEF c, r
  <2>5. /\ Len(srq') = Len(srq) + 1
        /\ \A i \in 1 .. Len(srq') : \/ i \in 1 .. Len(srq) /\ srq'[i] = srq[i]
                                     \/ i = Len(srq) + 1 /\ srq'[i] = r
    BY <2>1, <2>2, <2>3
  <2>6. c \notin answered
    BY <1>1, <1>5, <2>1 DEF IInv, QInv, EndsHandled
  <2>7. OpenNext(r)
    BY <1>1, <2>1, <2>4, <2>6 DEF OpenNext, HoldingNext
  <2>8. \A d \in Conns : Holding(d) => HoldingNext(d) /\ d # c
    BY <1>1, <1>5 DEF Holding, HoldingNext
  <2>9. \A s : s.conn \in Conns /\ Open(s) => OpenNext(s) /\ s.conn # c
    BY <1>1, <1>3, <2>8 DEF Open, OpenNext
  <2>10. \A wc : wc.conn \in Conns /\ wc.sender \in Conns /\ Unread(wc) =>
                   UnreadNext(wc) /\ wc.conn # c
    BY <1>1, <1>3, <2>9 DEF Unread, UnreadNext, Open
  <2>11. \A i \in 1 .. Len(srq) :
           /\ OpenNext(srq[i]) /\ srq[i].conn # c
           /\ \A j \in 1 .. Len(srq) : srq[i].conn = srq[j].conn => i = j
           /\ \A j \in 1 .. Len(srq_cq) : Apart(srq[i], srq_cq[j])
           /\ poller.place # "poll" => Apart(srq[i], poller.wc)
    BY <2>9, Receives DEF IInv, QInv, ReceivesOnce
  <2>12. \A i \in 1 .. Len(srq_cq) :
           /\ UnreadNext(srq_cq[i]) /\ srq_cq[i].conn # c
           /\ \A j \in 1 .. Len(srq_cq) :
                srq_cq[i].conn = srq_cq[j].conn \/ srq_cq[i].sender = srq_cq[j].sender => i = j
           /\ poller.place # "poll" =>
                Apart(srq_cq[i], poller.wc) /\ srq_cq[i].sender # poller.wc.sender
    BY <2>10, Receives DEF IInv, QInv, ReceivesOnce
  <2>13. poller.place # "poll" => UnreadNext(poller.wc) /\ poller.wc.conn # c
    BY <2>10, Receives DEF IInv, QInv, ReceivesOnce
  <2>14. \A i \in 1 .. Len(srq') :
           /\ OpenNext(srq'[i])
           /\ \A j \in 1 .. Len(srq') : srq'[i].conn = srq'[j].conn => i = j
           /\ \A j \in 1 .. Len(srq_cq') : Apart(srq'[i], srq_cq'[j])
           /\ poller'.place # "poll" => Apart(srq'[i], poller'.wc)
    <3>1. \A i \in 1 .. Len(srq') :
            /\ OpenNext(srq'[i])
            /\ \A j \in 1 .. Len(srq_cq) : Apart(srq'[i], srq_cq[j])
            /\ poller.place # "poll" => Apart(srq'[i], poller.wc)
      BY <2>4, <2>5, <2>7, <2>11, <2>12, <2>13 DEF Apart
    <3>2. \A i, j \in 1 .. Len(srq') : srq'[i].conn = srq'[j].conn => i = j
      BY <2>4, <2>5, <2>11
    <3> QED
      BY <1>1, <1>2, <3>1, <3>2
  <2>15. poller.place = "use" => poller.found = poller.wc.conn
    BY DEF IInv, QInv, ReceivesOnce
  <2> QED
    BY <1>1, <1>2, <2>12, <2>13, <2>14, <2>15, ReceivesNext
<1> QED
  BY <1>4, <1>5

LEMMA HandlerQInv ==
  ASSUME IInv, NEW step \in Step, HandlerEffect(step)
  PROVE  QInv'
<1> DEFINE c == loop.conn
<1>1. /\ At = step /\ c \in Conns /\ loop'.conn = c /\ UNCHANGED <<handled, answered>>
      /\ At' = "accept" <=> step = "post"
      /\ \A d \in Conns :
           client'[d] = IF d = c /\ step = "accept" THEN "connected" ELSE client[d]
      /\ \A d \in Conns : Holding(d)' <=> Holding(d) \/ (step = "post" /\ d = c)
      /\ step \in {"post", "accept"} => client[c] = "connecting"
  BY HandlerMoves
<1>2. EndsHandled'
  BY <1>1 DEF IInv, QInv, EndsHandled
<1>3. IsFiniteSet(Unsent) /\ Len(srq) = Cardinality(Unsent) /\ srq \in Seq(Receive)
  BY Receives DEF IInv, QInv, OnePerUnsent
<1>4. OnePerUnsent'
  <2>1. CASE step = "post"
    <3>1. Unsent' = Unsent \cup {c} /\ c \notin Unsent
      BY <1>1, <2>1 DEF Unsent
    <3>2. /\ IsFiniteSet(Unsent \cup {c})
          /\ Cardinality(Unsent \cup {c}) = Cardinality(Unsent) + 1
      BY <1>3, <3>1, FS_AddElement
    <3>3. [wr_id |-> sockfd[c], conn |-> c] \in Receive
      BY <1>1, <2>1, HandlerMoves DEF IInv, GInv, DescriptorTaken, Receive
    <3>4. srq' = Append(srq, [wr_id |-> sockfd[c], conn |-> c])
      BY <2>1 DEF HandlerEffect
    <3>5. Len(srq') = Len(srq) + 1
      BY <1>3, <3>3, <3>4
    <3> QED
      BY <1>3, <3>1, <3>2, <3>5 DEF OnePerUnsent
  <2>2. CASE step # "post"
    <3>1. Unsent' = Unsent
      BY <1>1, <2>2 DEF Unsent
    <3>2. srq' = srq
      BY <2>2 DEF HandlerEffect
    <3> QED
      BY <1>3, <3>1, <3>2 DEF OnePerUnsent
  <2> QED
    BY <2>1, <2>2
<1> QED
  BY <1>2, <1>4, HandlerAgreement, HandlerTable, HandlerReceives DEF QInv

-----------------------------------------------------------------------------
\* The poller takes the oldest completion.
LEMMA PollCqQInv ==
  ASSUME IInv, PollCq
  PROVE  QInv'
<1>1. /\ srq_cq \in Seq(Completion) /\ srq_cq # <<>> /\ Len(srq_cq) \in Nat
      /\ Head(srq_cq) = srq_cq[1] /\ 1 \in 1 .. Len(srq_cq)
  <2>1. srq_cq \in Seq(Completion) /\ srq_cq # <<>>
    BY Receives DEF PollCq
  <2> QED
    BY <2>1
<1>2. /\ poller.place = "poll" /\ poller'.place = "check" /\ poller'.wc = srq_cq[1]
      /\ srq_cq' = Tail(srq_cq)
      /\ UNCHANGED <<conn_bitmap, conn_fd_map, sockfd, registered, buffer, srq, events, loop,
                     client, handled, answered, exited>>
      /\ At' = At
  BY <1>1 DEF PollCq, PollerAt, table, history, At, IInv, GInv, TypeOK
<1>3. /\ Len(srq_cq') = Len(srq_cq) - 1
      /\ \A i \in 1 .. Len(srq_cq') : srq_cq'[i] = srq_cq[i + 1] /\ i + 1 \in 1 .. Len(srq_cq)
                                      /\ i + 1 # 1
  BY <1>1, <1>2
<1>4. /\ \A r : Open(r) => OpenNext(r)
      /\ \A wc : Unread(wc) => UnreadNext(wc)
  BY <1>2 DEF Open, Unread, OpenNext, UnreadNext, Holding, HoldingNext
<1>5. ReceivesOnce'
  <2>1. \A i \in 1 .. Len(srq) :
          /\ OpenNext(srq[i])
          /\ \A j \in 1 .. Len(srq) : srq[i].conn = srq[j].conn => i = j
          /\ \A j \in 1 .. Len(srq_cq) : Apart(srq[i], srq_cq[j])
    BY <1>4 DEF IInv, QInv, ReceivesOnce
  <2>2. \A i \in 1 .. Len(srq_cq) :
          /\ UnreadNext(srq_cq[i])
          /\ \A j \in 1 .. Len(srq_cq) :
               srq_cq[i].conn = srq_cq[j].conn \/ srq_cq[i].sender = srq_cq[j].sender => i = j
    BY <1>4 DEF IInv, QInv, ReceivesOnce
  <2>3. \A i \in 1 .. Len(srq') :
          /\ OpenNext(srq'[i])
          /\ \A j \in 1 .. Len(srq') : srq'[i].conn = srq'[j].conn => i = j
          /\ \A j \in 1 .. Len(srq_cq') : Apart(srq'[i], srq_cq'[j])
          /\ poller'.place # "poll" => Apart(srq'[i], poller'.wc)
    BY <1>1, <1>2, <1>3, <2>1
  <2>4. \A i \in 1 .. Len(srq_cq') :
          /\ UnreadNext(srq_cq'[i])
          /\ Apart(srq_cq'[i], poller'.wc) /\ srq_cq'[i].sender # poller'.wc.sender
    BY <1>1, <1>2, <1>3, <2>2 DEF Apart
  <2>5. ASSUME NEW i \in 1 .. Len(srq_cq'), NEW j \in 1 .. Len(srq_cq'),
               srq_cq'[i].conn = srq_cq'[j].conn \/ srq_cq'[i].sender = srq_cq'[j].sender
        PROVE  i = j
    <3>1. /\ i + 1 \in 1 .. Len(srq_cq) /\ j + 1 \in 1 .. Len(srq_cq)
          /\ srq_cq'[i] = srq_cq[i + 1] /\ srq_cq'[j] = srq_cq[j + 1]
      BY <1>3
    <3>2. i + 1 = j + 1
      BY <2>2, <2>5, <3>1
    <3> QED
      BY <1>1, <1>3, <3>2
  <2>6. UnreadNext(poller'.wc)
    BY <1>1, <1>2, <2>2
  <2> QED
    BY <1>2, <2>3, <2>4, <2>5, <2>6, ReceivesNext
<1> QED
  BY <1>2, <1>5
     DEF IInv, QInv, Agreement, Holding, TableInv, BitsSet, EntriesRight, OwnDescriptors,
         EndsHandled, OnePerUnsent, Unsent

\* The connection whose completion the callback has is found under its number.
LEMMA PollerFinds ==
  ASSUME IInv, ~ exited, poller.place # "poll"
  PROVE  /\ poller.wc.wr_id \in Fds /\ conn_bitmap[poller.wc.wr_id] = 1
         /\ conn_fd_map[poller.wc.wr_id] = poller.wc.conn
<1>1. /\ poller.wc.conn \in Conns /\ Holding(poller.wc.conn)
      /\ poller.wc.wr_id = sockfd[poller.wc.conn]
  BY Receives DEF IInv, QInv, ReceivesOnce, Unread, Open
<1>2. ~ (At \in {"unmap", "qp", "mr"} /\ loop.conn = poller.wc.conn)
  BY <1>1 DEF IInv, QInv, Agreement, Holding
<1> QED
  BY <1>1, <1>2 DEF IInv, QInv, TableInv, BitsSet, EntriesRight

LEMMA LookUpQInv ==
  ASSUME IInv, CheckBit \/ FetchMap
  PROVE  QInv'
<1>1. /\ poller.place # "poll" /\ poller'.place # "poll" /\ poller'.wc = poller.wc
      /\ poller'.place = "use" => poller'.found = poller'.wc.conn
      /\ UNCHANGED <<conn_bitmap, conn_fd_map, sockfd, registered, buffer, srq, srq_cq, events,
                     loop, client, handled, answered, exited>>
      /\ At' = At
  <2>1. poller \in [place : {"poll", "check", "fetch", "use"},
                    wc : Completion \cup {NoConn}, found : Contexts]
    BY DEF IInv, GInv, TypeOK
  <2>2. CASE CheckBit
    <3>1. poller.place = "check" /\ ~ exited
      BY <2>2 DEF CheckBit, PollerAt
    <3>2. conn_bitmap[poller.wc.wr_id] = 1
      BY <3>1, PollerFinds
    <3> QED
      BY <2>1, <2>2, <3>1, <3>2 DEF CheckBit, PollerAt, table, history, At
  <2>3. CASE FetchMap
    <3>1. poller.place = "fetch" /\ ~ exited
      BY <2>3 DEF FetchMap, PollerAt
    <3>2. conn_fd_map[poller.wc.wr_id] = poller.wc.conn
      BY <3>1, PollerFinds
    <3> QED
      BY <2>1, <2>3, <3>1, <3>2 DEF FetchMap, PollerAt, table, history, At
  <2> QED
    BY <2>2, <2>3
<1>2. ReceivesOnce'
  <2>1. /\ \A r : Open(r) => OpenNext(r)
        /\ \A wc : Unread(wc) => UnreadNext(wc)
    BY <1>1 DEF Open, Unread, OpenNext, UnreadNext, Holding, HoldingNext
  <2> QED
    BY <1>1, <2>1, ReceivesNext DEF IInv, QInv, ReceivesOnce
<1> QED
  BY <1>1, <1>2
     DEF IInv, QInv, Agreement, Holding, TableInv, BitsSet, EntriesRight, OwnDescriptors,
         EndsHandled, OnePerUnsent, Unsent

\* The callback reads the message of the completion's sender, and the receive is
\* answered.
LEMMA UseBufferQInv ==
  ASSUME IInv, UseBuffer
  PROVE  QInv'
<1> DEFINE wc == poller.wc
<1>1. poller.place = "use" /\ poller.found = wc.conn /\ Unread(wc)
  BY DEF UseBuffer, PollerAt, IInv, QInv, ReceivesOnce
<1>2. /\ wc.conn \in Conns /\ wc.sender \in Conns /\ wc.sender # NoConn
      /\ buffer[wc.conn] = wc.sender /\ client[wc.sender] = "sent" /\ Holding(wc.conn)
  BY <1>1, Receives, SharedReceiveAssumption DEF Unread, Open
<1>3. /\ handled' = handled \cup {wc.sender} /\ answered' = answered \cup {wc.conn}
      /\ poller'.place = "poll"
      /\ UNCHANGED <<conn_bitmap, conn_fd_map, sockfd, registered, buffer, srq, srq_cq, events,
                     loop, client, exited>>
      /\ At' = At
  BY <1>1, <1>2 DEF UseBuffer, PollerAt, NotPolling, table, At
<1> HIDE DEF wc
<1>4. ReceivesOnce'
  <2>1. /\ \A r : Open(r) /\ r.conn # wc.conn => OpenNext(r)
        /\ \A w : Unread(w) /\ w.conn # wc.conn /\ w.sender # wc.sender => UnreadNext(w)
    BY <1>3 DEF Open, Unread, OpenNext, UnreadNext, Holding, HoldingNext
  <2>2. \A i \in 1 .. Len(srq) :
          /\ OpenNext(srq[i])
          /\ \A j \in 1 .. Len(srq) : srq[i].conn = srq[j].conn => i = j
          /\ \A j \in 1 .. Len(srq_cq) : Apart(srq[i], srq_cq[j])
    BY <1>1, <2>1 DEF IInv, QInv, ReceivesOnce, Apart, wc
  <2>3. \A i \in 1 .. Len(srq_cq) :
          /\ UnreadNext(srq_cq[i])
          /\ \A j \in 1 .. Len(srq_cq) :
               srq_cq[i].conn = srq_cq[j].conn \/ srq_cq[i].sender = srq_cq[j].sender => i = j
    BY <1>1, <2>1 DEF IInv, QInv, ReceivesOnce, Apart, wc
  <2> QED
    BY <1>3, <2>2, <2>3, ReceivesNext
<1>5. EndsHandled'
  BY <1>2, <1>3 DEF IInv, QInv, EndsHandled, Holding
<1> QED
  BY <1>3, <1>4, <1>5
     DEF IInv, QInv, Agreement, Holding, TableInv, BitsSet, EntriesRight, OwnDescriptors,
         OnePerUnsent, Unsent

LEMMA UnchangedQInv ==
  ASSUME IInv, UNCHANGED vars
  PROVE  QInv'
<1>1. /\ UNCHANGED <<conn_bitmap, conn_fd_map, sockfd, registered, buffer, srq, srq_cq, events,
                     loop, poller, client, handled, answered, exited>>
      /\ At' = At
  BY DEF vars, At
<1>2. \A c \in Conns : Holding(c)' <=> Holding(c)
  BY <1>1 DEF Holding
<1>3. ReceivesOnce'
  BY <1>1, <1>2, ReceivesKept
<1>4. Agreement' /\ TableInv'
  BY <1>1, <1>2
     DEF IInv, QInv, Agreement, TableInv, BitsSet, EntriesRight, OwnDescriptors
<1>5. EndsHandled' /\ OnePerUnsent'
  BY <1>1, <1>2 DEF IInv, QInv, EndsHandled, OnePerUnsent, Unsent
<1> QED
  BY <1>3, <1>4, <1>5 DEF QInv

LEMMA NextIInv ==
  ASSUME ClientsWait
  PROVE  IInv /\ [Next]_vars => IInv'
<1> SUFFICES ASSUME IInv, [Next]_vars PROVE QInv'
  BY NextGInv DEF IInv
<1>1. CASE LoopSteps
  <2>1. CASE GetEvent
    BY <2>1, GetEventQInv
  <2>2. CASE ~ GetEvent
    BY <1>1, <2>2, LoopEffects, HandlerQInv DEF LoopSteps
  <2> QED
    BY <2>1, <2>2
<1>2. CASE PollerSteps
  BY <1>2, PollCqQInv, LookUpQInv, UseBufferQInv DEF PollerSteps
<1>3. ASSUME NEW c \in Conns, ClientSteps(c) PROVE QInv'
  BY <1>3, ClientMovesQInv, DeliverQInv DEF ClientSteps
<1>4. CASE UNCHANGED vars
  BY <1>4, UnchangedQInv
<1> QED
  BY <1>1, <1>2, <1>3, <1>4 DEF Next

\* The invariant of the messages holds when clients wait.
THEOREM IInvHolds ==
  ASSUME ClientsWait
  PROVE  Spec => []IInv
BY InitGInv, InitQInv, NextIInv, PTL DEF Spec, IInv

\* A client that may send finds a receive posted, whose buffer is registered: as
\* many receives as clients that have not sent, none left by a dead connection.
THEOREM ReceiveReadyHolds ==
  ASSUME ClientsWait
  PROVE  Spec => []ReceiveReady
<1>1. IInv => ReceiveReady
  <2> SUFFICES ASSUME IInv, NEW c \in Conns, client[c] \in {"connected", "sending"}
               PROVE  srq # <<>> /\ Head(srq).conn \in registered
    BY DEF ReceiveReady
  <2>1. c \in Unsent
    BY DEF Unsent
  <2>2. IsFiniteSet(Unsent) /\ Len(srq) = Cardinality(Unsent)
    BY DEF IInv, QInv, OnePerUnsent
  <2>3. srq \in Seq(Receive) /\ Len(srq) # 0
    BY <2>1, <2>2, FS_EmptySet, Receives
  <2>4. srq # <<>> /\ Head(srq) = srq[1] /\ 1 \in 1 .. Len(srq)
    BY <2>3
  <2>5. srq[1].conn \in Conns /\ Holding(srq[1].conn)
    BY <2>4, Receives DEF IInv, QInv, ReceivesOnce, Open
  <2> QED
    BY <2>4, <2>5 DEF IInv, QInv, Agreement
<1> QED
  BY <1>1, IInvHolds, PTL

\* The callback finds, by descriptor and without the mutex, the live connection
\* whose buffer holds the message of its completion.
THEOREM HandlerFindsBufferHolds ==
  ASSUME ClientsWait
  PROVE  Spec => []HandlerFindsBuffer
<1>1. IInv => HandlerFindsBuffer
  <2> SUFFICES ASSUME IInv, poller.place = "use"
               PROVE  /\ poller.found = poller.wc.conn
                      /\ poller.found \in registered
                      /\ buffer[poller.found] = poller.wc.sender
    BY DEF HandlerFindsBuffer
  <2>1. poller.found = poller.wc.conn /\ Unread(poller.wc) /\ poller.wc.conn \in Conns
    BY Receives DEF IInv, QInv, ReceivesOnce
  <2>2. poller.wc.conn \in registered
    BY <2>1 DEF Unread, Open, IInv, QInv, Agreement
  <2> QED
    BY <2>1, <2>2 DEF Unread
<1> QED
  BY <1>1, IInvHolds, PTL

=============================================================================
