--------------------------- MODULE EventLoopProofs ---------------------------
(***************************************************************************)
(* Theorems about EventLoop, for every number of clients, whatever they    *)
(* do and however they and their messages are interleaved.                 *)
(***************************************************************************)
EXTENDS EventLoop, BitmapsProofs, SequenceTheorems

\* The assumption of ThreadsUseLive: an application that calls disconnect does
\* not go back to its event loop, as it would from a callback of client_loop.
LoopsStay == "loop" \notin Disconnecting

\* The assumption of ReadyMeansPrepared: the regions that the server's
\* application may register fit the private data.  Clients send none.
RegionsFit ==
  \A c \in Clients : \A n \in ServerAsks[c] : n <= MaxMr => n <= DataRoom

-----------------------------------------------------------------------------
(***************************************************************************)
(* The inductive invariant behind the types: who gets which message and    *)
(* event, and which steps a thread can have left.                          *)
(***************************************************************************)
Multicast(c) == kind[c] \in {"receiver", "sender"}
Disconnects(t) == t # Server /\ kind[t] \in Disconnecting

\* The steps of a thread, and what can be left after them.
StepsOf(t) ==
  {"ready", "callback", "destroy", "return", "exit"} \cup
  IF t = Server THEN {"init", "prepare", "accept", "remote_mr", "hang_up"}
  ELSE IF Multicast(t) THEN {"prepare", "join", "create_ah", "leave"}
  ELSE {"resolve_route", "prepare", "connect", "remote_mr", "hang_up", "destroy_channel"}

Asks(t) == IF t = Server THEN "accept" ELSE IF Multicast(t) THEN "join" ELSE "connect"

Back(t) == IF ExitOnConnect(t) THEN <<"return">> ELSE <<>>

Closing(t) ==
  {<<>>, <<"return">>} \cup
  IF Disconnects(t) THEN {<<"destroy_channel">>, <<"destroy_channel", "return">>} ELSE {}

Follows(t, s, rest) ==
  /\ s \in StepsOf(t)
  /\ s \in {"resolve_route", "connect", "join", "accept", "return", "exit"} => rest = <<>>
  /\ s = "init" => rest = <<"prepare", "accept">>
  /\ s = "prepare" => rest = <<Asks(t)>>
  /\ s \in {"remote_mr", "create_ah"} => rest = <<"ready", "callback">> \o Back(t)
  /\ s = "ready" => rest = <<"callback">> \o Back(t)
  /\ s = "callback" => rest = Back(t)
  /\ s = "hang_up" => \E q \in Closing(t) : rest = <<"destroy">> \o q
  /\ s = "leave" => rest = <<"destroy">>
  /\ s = "destroy" => rest \in Closing(t)
  /\ s = "destroy_channel" => Disconnects(t) /\ rest \in {<<>>, <<"return">>}

StepsFollow ==
  \A t \in Threads : todo[t] # <<>> => Follows(t, Head(todo[t]), Tail(todo[t]))

\* A client handles its own events; the server is at work on a client's.
CopiesRight ==
  /\ \A c \in Clients : event_copy[c].conn = c
  /\ todo[Server] # <<>> <=> event_copy[Server].conn # Server

EventsOf(t) ==
  IF t = Server
  THEN {"CONNECT_REQUEST", "ESTABLISHED", "DISCONNECTED", "REJECTED", "UNREACHABLE"}
  ELSE {"ADDR_RESOLVED", "ADDR_ERROR"} \cup
       IF Multicast(t) THEN {"MULTICAST_JOIN", "MULTICAST_ERROR"}
       ELSE {"ROUTE_RESOLVED", "ROUTE_ERROR", "ESTABLISHED", "DISCONNECTED", "REJECTED"}

Expected(t, event) == <<t, event.conn>> \in End /\ event.type \in EventsOf(t)

EventsRight == \A t \in Threads : \A i \in 1 .. Len(events[t]) : Expected(t, events[t][i])

Addressed(m) ==
  /\ m.to \in {Server, m.conn}
  /\ m.type = "REQ" => m.to = Server /\ m.regions = 0
  /\ m.type = "REP" => m.to = m.conn

MessagesRight == \A m \in net : Addressed(m)

CmOf(t) ==
  {"none", "closed"} \cup
  IF t = Server THEN {"requested", "accepted", "failed", "connected", "disconnecting"}
  ELSE {"resolving", "idle"} \cup
       IF Multicast(t) THEN {"joining"}
       ELSE {"routing", "connecting", "connected", "disconnecting"}

IdsRight == \A e \in End : cm[e] \in CmOf(e[1])

GInv == TypeOK /\ StepsFollow /\ CopiesRight /\ EventsRight /\ MessagesRight /\ IdsRight

-----------------------------------------------------------------------------
(***************************************************************************)
(* The inductive invariant of ThreadsUseLive.                              *)
(***************************************************************************)
WorksOnLive ==
  \A t \in Threads :
    todo[t] # <<>> /\ Head(todo[t]) \notin {"init", "destroy_channel", "return", "exit"}
    => Live(Here(t))

\* What an id is doing, and what it raised, is about a context that is there.
IdsLive ==
  /\ \A e \in End : cm[e] \notin {"none", "requested", "failed"} => Live(e)
  /\ \A t \in Threads : \A i \in 1 .. Len(events[t]) :
       events[t][i].type # "CONNECT_REQUEST" => Live(<<t, events[t][i].conn>>)

LInv == WorksOnLive /\ IdsLive

Last(steps) == steps[Len(steps)]

\* A thread has its channel until it disconnects for good: in or after
\* start_connect, which then returns.  No call but disconnect ends with the
\* channel, and the callbacks' disconnect is followed by the return.
ChannelKept ==
  \A t \in Threads :
    /\ t \notin channels =>
         \/ place[t] \in {"new", "exited"}
         \/ /\ kind[t] = "connect" /\ t # Server
            /\ place[t] = "returned" \/ (place[t] = "loop" /\ At(t, "return"))
    /\ place[t] = "watched" => t # Server /\ kind[t] = "reactor"
    /\ place[t] # "returned" /\ todo[t] # <<>> => Last(todo[t]) # "destroy_channel"
    /\ place[t] \in {"new", "exited"} => todo[t] = <<>>

-----------------------------------------------------------------------------
(***************************************************************************)
(* The inductive invariant of ReadyMeansPrepared, client by client.        *)
(***************************************************************************)
Mine(c) == <<c, c>>
Peer(c) == <<Server, c>>
Prepared(e) == {"qp", "mr"} \subseteq built[e]

\* Nothing on the way to READY comes before the preparation of the end.
OnTheWay(c) ==
  \/ \E s \in {"connect", "join", "create_ah", "remote_mr", "ready"} : At(c, s)
  \/ \E i \in 1 .. Len(events[c]) : events[c][i].type \in {"ESTABLISHED", "MULTICAST_JOIN"}
  \/ cm[Mine(c)] \in {"joining", "connecting", "connected"}
  \/ ctx[Mine(c)] = "READY"

MinePrepared(c) ==
  /\ OnTheWay(c) => Prepared(Mine(c))
  /\ kind[c] = "sender" /\ (At(c, "ready") \/ ctx[Mine(c)] = "READY") =>
       "ah" \in built[Mine(c)]

\* The step of its handler that the server is at for c.
Serves(c, s) == event_copy[Server].conn = c /\ At(Server, s)

PeerPrepared(c) ==
  /\ num_local[Peer(c)] <= DataRoom
  /\ Serves(c, "accept") => Prepared(Peer(c))

\* A client's way to its request: the CM works on its id, or it has the one
\* event, or it handles it.
EarlyEvent ==
  {"ADDR_RESOLVED", "ADDR_ERROR", "ROUTE_RESOLVED", "ROUTE_ERROR", "MULTICAST_JOIN",
   "MULTICAST_ERROR"}
EarlyId(c) == cm[Mine(c)] \in {"resolving", "routing", "joining"}
HasEarlyEvent(c) == \E i \in 1 .. Len(events[c]) : events[c][i].type \in EarlyEvent
AtEarlyStep(c) == \E s \in {"resolve_route", "prepare", "connect", "join"} : At(c, s)
Early(c) == EarlyId(c) \/ HasEarlyEvent(c) \/ AtEarlyStep(c)

OneAfterAnother(c) ==
  /\ EarlyId(c) => events[c] = <<>> /\ todo[c] = <<>>
  /\ HasEarlyEvent(c) => Len(events[c]) = 1 /\ todo[c] = <<>> /\ cm[Mine(c)] = "idle"
  /\ AtEarlyStep(c) => events[c] = <<>> /\ cm[Mine(c)] = "idle"
  /\ Early(c) => place[c] = "loop" /\ ctx[Mine(c)] = "TERMINATED"
  /\ place[c] = "new" => /\ cm[Mine(c)] = "none" /\ ctx[Mine(c)] = "none"
                         /\ events[c] = <<>> /\ todo[c] = <<>>

\* Until a client has asked, and if it only joins a group, nobody knows it.
NoMessages(c) == \A m \in net : m.conn # c
ServerEvent(i, c) == i \in 1 .. Len(events[Server]) /\ events[Server][i].conn = c
Unknown(c) ==
  /\ event_copy[Server].conn # c
  /\ cm[Peer(c)] = "none" /\ ~ Live(Peer(c))
  /\ \A i : ~ ServerEvent(i, c)

NotAsked(c) == Multicast(c) \/ place[c] = "new" \/ Early(c)

UnknownBefore(c) == NotAsked(c) => Unknown(c) /\ NoMessages(c)

\* A request is in one place: on its way, in the server's channel, or handled.
Requested(c) == \E m \in net : m.type = "REQ" /\ m.conn = c
RequestAt(i, c) == ServerEvent(i, c) /\ events[Server][i].type = "CONNECT_REQUEST"
RequestHandled(c) == \E s \in {"init", "prepare", "accept"} : Serves(c, s)

RequestOnce(c) ==
  /\ Requested(c) => Unknown(c)
  /\ \A i : RequestAt(i, c) =>
       /\ \A j : ServerEvent(j, c) => i = j
       /\ event_copy[Server].conn # c /\ cm[Peer(c)] \in {"requested", "failed"}

\* Until the server accepts it, the client has no answer.
Asking(c) == Requested(c) \/ (\E i : RequestAt(i, c)) \/ RequestHandled(c)

Answer(c, n) ==
  \/ \E m \in net : m.type = "REP" /\ m.conn = c /\ m.regions = n
  \/ \E i \in 1 .. Len(events[c]) :
       events[c][i].type = "ESTABLISHED" /\ events[c][i].regions = n
  \/ At(c, "remote_mr") /\ event_copy[c].regions = n
  \/ (At(c, "ready") \/ ctx[Mine(c)] = "READY") /\ num_remote[Mine(c)] = n

NoAnswerYet(c) == Asking(c) => \A n \in 0 .. MaxMr : ~ Answer(c, n)

\* What the client learns is what the server has.
AnswersAgree(c) ==
  \A n \in 0 .. MaxMr :
    Answer(c, n) /\ Live(Peer(c)) => Prepared(Peer(c)) /\ num_local[Peer(c)] = n

ClientInv(c) ==
  /\ MinePrepared(c) /\ PeerPrepared(c) /\ OneAfterAnother(c) /\ UnknownBefore(c)
  /\ RequestOnce(c) /\ NoAnswerYet(c) /\ AnswersAgree(c)

PInv == \A c \in Clients : ClientInv(c)

-----------------------------------------------------------------------------
(***************************************************************************)
(* Channels.  Whatever happens to a channel but the arrival of an event    *)
(* leaves some of its events, in their order.                              *)
(***************************************************************************)
Thinned(new, old) ==
  /\ new \in Seq(Event)
  /\ \E f \in [1 .. Len(new) -> 1 .. Len(old)] :
       /\ \A i \in 1 .. Len(new) : new[i] = old[f[i]]
       /\ \A i, j \in 1 .. Len(new) : f[i] = f[j] => i = j

\* Two events of what is left were two before.
LEMMA ThinnedPairs ==
  ASSUME NEW old, NEW new, Thinned(new, old)
  PROVE  \A i, k \in 1 .. Len(new) : \E a, b \in 1 .. Len(old) :
           new[i] = old[a] /\ new[k] = old[b] /\ (a = b => i = k)
<1>1. PICK f \in [1 .. Len(new) -> 1 .. Len(old)] :
        /\ \A i \in 1 .. Len(new) : new[i] = old[f[i]]
        /\ \A i, j \in 1 .. Len(new) : f[i] = f[j] => i = j
  BY DEF Thinned
<1>2. ASSUME NEW i \in 1 .. Len(new), NEW k \in 1 .. Len(new)
      PROVE  \E a, b \in 1 .. Len(old) : new[i] = old[a] /\ new[k] = old[b] /\ (a = b => i = k)
  <2>1. f[i] \in 1 .. Len(old) /\ f[k] \in 1 .. Len(old)
    BY <1>1
  <2> QED
    BY <1>1, <2>1
<1> QED
  BY <1>2

\* Dropping the events of an id is defined for every channel: a shortest
\* prefix without a value would have one, from the prefix before it.
LEMMA WithoutDefined ==
  ASSUME NEW q \in Seq(Event), NEW c
  PROVE  \E kept \in [0 .. Len(q) -> Seq(Event)] :
           /\ Without(q, c) = kept[Len(q)]
           /\ \A i \in 0 .. Len(q) :
                kept[i] = IF i = 0 THEN <<>>
                          ELSE IF q[i].conn = c THEN kept[i - 1]
                               ELSE Append(kept[i - 1], q[i])
<1> DEFINE G(f, i) == IF i = 0 THEN <<>>
                      ELSE IF q[i].conn = c THEN f[i - 1] ELSE Append(f[i - 1], q[i])
           Upto(n) == \E f \in [0 .. n -> Seq(Event)] : \A i \in 0 .. n : f[i] = G(f, i)
           bad == {n \in 0 .. Len(q) : ~ Upto(n)}
           theKept == CHOOSE f : f = [i \in 0 .. Len(q) |-> G(f, i)]
<1>1. Len(q) \in Nat /\ \A i \in 1 .. Len(q) : q[i] \in Event
  OBVIOUS
<1>2. Upto(0)
  <2> DEFINE f == [i \in 0 .. 0 |-> <<>>]
  <2>1. \A i \in 0 .. 0 : i = 0
    OBVIOUS
  <2>2. <<>> \in Seq(Event)
    OBVIOUS
  <2>3. f \in [0 .. 0 -> Seq(Event)]
    BY <2>2
  <2>4. \A i \in 0 .. 0 : f[i] = G(f, i)
    BY <2>1
  <2> HIDE DEF f
  <2> QED
    BY <2>3, <2>4
<1>3. ASSUME NEW n \in 1 .. Len(q), Upto(n - 1)
      PROVE  Upto(n)
  <2>1. PICK f \in [0 .. n - 1 -> Seq(Event)] : \A i \in 0 .. n - 1 : f[i] = G(f, i)
    BY <1>3
  <2> DEFINE last == IF q[n].conn = c THEN f[n - 1] ELSE Append(f[n - 1], q[n])
             g == [i \in 0 .. n |-> IF i = n THEN last ELSE f[i]]
  <2>2. f[n - 1] \in Seq(Event)
    BY <1>1, <2>1
  <2>3. last \in Seq(Event)
    BY <1>1, <2>2
  <2> HIDE DEF last
  <2>4. g \in [0 .. n -> Seq(Event)]
    BY <1>1, <2>3
  <2>5. ASSUME NEW i \in 0 .. n PROVE g[i] = G(g, i)
    <3>1. CASE i = 0
      BY <1>1, <2>1, <3>1
    <3>2. CASE i \in 1 .. n - 1
      <4>1. i \in 0 .. n - 1 /\ i - 1 \in 0 .. n /\ i # n /\ i - 1 # n /\ i # 0
        BY <1>1, <3>2
      <4>2. g[i] = f[i] /\ g[i - 1] = f[i - 1]
        BY <4>1
      <4>3. f[i] = G(f, i)
        BY <2>1, <4>1
      <4> HIDE DEF g
      <4> QED
        BY <4>1, <4>2, <4>3
    <3>3. CASE i = n /\ n > 0
      BY <1>1, <3>3 DEF last
    <3> QED
      BY <1>1, <3>1, <3>2, <3>3
  <2> HIDE DEF g
  <2> QED
    BY <2>4, <2>5
<1>4. Upto(Len(q))
  <2> HIDE DEF Upto
  <2> SUFFICES ASSUME bad # {} PROVE FALSE
    BY <1>1
  <2>1. PICK n \in bad : \A m \in bad : n <= m
    <3>1. bad \subseteq Nat
      BY <1>1
    <3> QED
      BY <3>1, HasMinimum
  <2>2. n \in 1 .. Len(q) /\ n - 1 \in 0 .. Len(q) /\ n - 1 \notin bad
    BY <1>1, <1>2, <2>1
  <2> QED
    BY <1>3, <2>1, <2>2
<1>5. PICK kept \in [0 .. Len(q) -> Seq(Event)] :
        \A i \in 0 .. Len(q) : kept[i] = G(kept, i)
  BY <1>4
<1>6. kept = [i \in 0 .. Len(q) |-> G(kept, i)]
  BY <1>5, Zenon
<1>7. theKept = [i \in 0 .. Len(q) |-> G(theKept, i)]
  BY <1>6, Zenon
<1> HIDE DEF theKept
<1>8. Without(q, c) = theKept[Len(q)]
  BY DEF Without, theKept
<1> DEFINE untyped == {i \in 0 .. Len(q) : theKept[i] \notin Seq(Event)}
<1>9. untyped = {}
  <2> SUFFICES ASSUME untyped # {} PROVE FALSE
    OBVIOUS
  <2>1. PICK i \in untyped : \A j \in untyped : i <= j
    <3>1. untyped \subseteq Nat
      BY <1>1
    <3> QED
      BY <3>1, HasMinimum
  <2>2. theKept[i] = G(theKept, i)
    BY <1>7
  <2>3. CASE i = 0
    <3>1. theKept[i] = <<>> /\ <<>> \in Seq(Event)
      BY <2>2, <2>3
    <3> QED
      BY <3>1
  <2>4. CASE i # 0
    <3>1. i \in 1 .. Len(q) /\ i - 1 \in 0 .. Len(q) /\ i - 1 \notin untyped
      BY <1>1, <2>1, <2>4
    <3>2. theKept[i - 1] \in Seq(Event) /\ q[i] \in Event
      BY <1>1, <3>1
    <3>3. theKept[i] \in Seq(Event)
      BY <2>2, <2>4, <3>2
    <3> QED
      BY <3>3
  <2> QED
    BY <2>3, <2>4
<1>10. theKept \in [0 .. Len(q) -> Seq(Event)]
  BY <1>7, <1>9
<1>11. \A i \in 0 .. Len(q) : theKept[i] = G(theKept, i)
  BY <1>7
<1> QED
  BY <1>8, <1>10, <1>11

\* An event more, behind the events there are.
LEMMA Appended ==
  ASSUME NEW q \in Seq(Event), NEW event \in Event
  PROVE  /\ Append(q, event) \in Seq(Event)
         /\ Len(q) \in Nat /\ Len(Append(q, event)) = Len(q) + 1
         /\ Append(q, event)[Len(q) + 1] = event
         /\ \A i \in 1 .. Len(q) : Append(q, event)[i] = q[i]
OBVIOUS

LEMMA Emptied == ASSUME NEW q \in Seq(Event) PROVE Thinned(<<>>, q)
<1> DEFINE f == [i \in 1 .. 0 |-> 1]
<1>1. <<>> \in Seq(Event) /\ Len(<<>>) = 0 /\ 1 .. 0 = {}
  OBVIOUS
<1>2. f \in [1 .. 0 -> 1 .. Len(q)]
  BY <1>1
<1> HIDE DEF f
<1> QED
  BY <1>1, <1>2 DEF Thinned

LEMMA Untouched == ASSUME NEW q \in Seq(Event) PROVE Thinned(q, q)
<1> DEFINE f == [i \in 1 .. Len(q) |-> i]
<1>1. f \in [1 .. Len(q) -> 1 .. Len(q)] /\ \A i \in 1 .. Len(q) : f[i] = i
  OBVIOUS
<1> HIDE DEF f
<1> QED
  BY <1>1 DEF Thinned

\* A channel, or what a thread has to do, without its first element.
LEMMA Shorter ==
  ASSUME NEW S, NEW q \in Seq(S), q # <<>>
  PROVE  /\ Tail(q) \in Seq(S)
         /\ \E n \in Nat : /\ Len(q) = n + 1 /\ Len(Tail(q)) = n
                          /\ \A i \in 1 .. n : Tail(q)[i] = q[i + 1] /\ i + 1 \in 1 .. n + 1
<1> DEFINE n == Len(q) - 1
<1>1. /\ Len(q) \in Nat /\ Len(q) # 0 /\ Len(Tail(q)) = Len(q) - 1 /\ Tail(q) \in Seq(S)
      /\ \A i \in 1 .. Len(Tail(q)) : Tail(q)[i] = q[i + 1]
  OBVIOUS
<1>2. n \in Nat /\ Len(q) = n + 1 /\ Len(Tail(q)) = n
  BY <1>1
<1> HIDE DEF n
<1>3. \A i \in 1 .. n : Tail(q)[i] = q[i + 1] /\ i + 1 \in 1 .. n + 1
  BY <1>1, <1>2
<1> QED
  BY <1>1, <1>2, <1>3, Zenon

LEMMA Dequeued == ASSUME NEW q \in Seq(Event), q # <<>> PROVE Thinned(Tail(q), q)
<1>1. PICK n \in Nat : /\ Len(q) = n + 1 /\ Len(Tail(q)) = n
                      /\ \A i \in 1 .. n : Tail(q)[i] = q[i + 1]
  BY Shorter
<1>2. Tail(q) \in Seq(Event)
  BY Shorter
<1> DEFINE f == [i \in 1 .. n |-> i + 1]
<1>3. f \in [1 .. n -> 1 .. n + 1] /\ \A i \in 1 .. n : f[i] = i + 1
  OBVIOUS
<1> HIDE DEF f
<1>4. \A i, j \in 1 .. n : f[i] = f[j] => i = j
  BY <1>3
<1>5. \A i \in 1 .. n : Tail(q)[i] = q[f[i]]
  BY <1>1, <1>3
<1> DEFINE rest == Tail(q)
<1>6. /\ f \in [1 .. Len(rest) -> 1 .. Len(q)]
      /\ \A i \in 1 .. Len(rest) : rest[i] = q[f[i]]
      /\ \A i, j \in 1 .. Len(rest) : f[i] = f[j] => i = j
      /\ rest \in Seq(Event)
  BY <1>1, <1>2, <1>3, <1>4, <1>5
<1> HIDE DEF rest
<1>7. Thinned(rest, q)
  BY <1>6 DEF Thinned
<1> QED
  BY <1>7 DEF rest

\* Without the events of an id, the others are left, in their order: a
\* shortest prefix of which this were not so would not be empty.
LEMMA WithoutThins ==
  ASSUME NEW q \in Seq(Event), NEW c
  PROVE  /\ Thinned(Without(q, c), q)
         /\ \A i \in 1 .. Len(Without(q, c)) : Without(q, c)[i].conn # c
<1>1. PICK kept \in [0 .. Len(q) -> Seq(Event)] :
        /\ Without(q, c) = kept[Len(q)]
        /\ \A i \in 0 .. Len(q) :
             kept[i] = IF i = 0 THEN <<>>
                       ELSE IF q[i].conn = c THEN kept[i - 1]
                            ELSE Append(kept[i - 1], q[i])
  BY WithoutDefined
<1> DEFINE Picks(f, new, n) ==
             /\ f \in [1 .. Len(new) -> 1 .. n]
             /\ \A k \in 1 .. Len(new) : new[k] = q[f[k]] /\ new[k].conn # c
             /\ \A k, l \in 1 .. Len(new) : f[k] = f[l] => k = l
           Right(n) == \E f : Picks(f, kept[n], n)
           wrong == {n \in 0 .. Len(q) : ~ Right(n)}
<1>2. Len(q) \in Nat
  OBVIOUS
<1>3. Right(0)
  <2>1. kept[0] = <<>> /\ Len(<<>>) = 0 /\ 1 .. 0 = {}
    BY <1>1, <1>2
  <2> DEFINE f == [i \in 1 .. 0 |-> 1]
  <2>2. f \in [1 .. 0 -> 1 .. 0]
    OBVIOUS
  <2> HIDE DEF f
  <2> QED
    BY <2>1, <2>2
<1>4. ASSUME NEW n \in 1 .. Len(q), Right(n - 1)
      PROVE  Right(n)
  <2>1. n - 1 \in 0 .. Len(q) /\ n \in 0 .. Len(q) /\ n # 0 /\ q[n] \in Event
    BY <1>2
  <2>2. kept[n - 1] \in Seq(Event)
    BY <1>1, <2>1
  <2>3. PICK m \in Nat : m = Len(kept[n - 1])
    BY <2>2
  <2>4. PICK f : Picks(f, kept[n - 1], n - 1)
    BY <1>4
  <2>5. \A k \in 1 .. m : f[k] \in 1 .. n - 1
    BY <2>3, <2>4
  <2>6. \A k \in 1 .. m : f[k] \in 1 .. n /\ f[k] # n
    BY <2>1, <2>5
  <2>7. CASE q[n].conn = c
    <3>1. kept[n] = kept[n - 1]
      BY <1>1, <2>1, <2>7
    <3>2. f \in [1 .. m -> 1 .. n]
      BY <2>3, <2>4, <2>6
    <3>3. Picks(f, kept[n - 1], n)
      BY <2>3, <2>4, <3>2
    <3> HIDE DEF Picks
    <3> QED
      BY <3>1, <3>3
  <2>8. CASE q[n].conn # c
    <3>1. kept[n] = Append(kept[n - 1], q[n])
      BY <1>1, <2>1, <2>8
    <3>2. /\ Len(kept[n]) = m + 1 /\ kept[n][m + 1] = q[n]
          /\ \A k \in 1 .. m : kept[n][k] = kept[n - 1][k]
      BY <2>1, <2>2, <2>3, <3>1, Appended
    <3> DEFINE g == [k \in 1 .. m + 1 |-> IF k = m + 1 THEN n ELSE f[k]]
    <3>3. /\ m + 1 \in 1 .. m + 1
          /\ \A k \in 1 .. m : k # m + 1 /\ k \in 1 .. m + 1
          /\ \A k \in 1 .. m + 1 : k \in 1 .. m \/ k = m + 1
      BY <2>3
    <3>4. g[m + 1] = n /\ \A k \in 1 .. m : g[k] = f[k]
      BY <3>3
    <3>5. \A k \in 1 .. m + 1 : (IF k = m + 1 THEN n ELSE f[k]) \in 1 .. n
      BY <1>2, <2>6, <3>3
    <3>6. g \in [1 .. m + 1 -> 1 .. n]
      BY <3>5
    <3> HIDE DEF g
    <3>7. ASSUME NEW k \in 1 .. m + 1
          PROVE  kept[n][k] = q[g[k]] /\ kept[n][k].conn # c
      <4>1. CASE k = m + 1
        BY <2>8, <3>2, <3>4, <4>1
      <4>2. CASE k \in 1 .. m
        <5>1. kept[n - 1][k] = q[f[k]] /\ kept[n - 1][k].conn # c
          BY <2>3, <2>4, <4>2
        <5> QED
          BY <3>2, <3>4, <4>2, <5>1
      <4> QED
        BY <3>3, <4>1, <4>2
    <3>8. ASSUME NEW k \in 1 .. m + 1, NEW l \in 1 .. m + 1, g[k] = g[l]
          PROVE  k = l
      <4>1. CASE k \in 1 .. m /\ l \in 1 .. m
        BY <2>3, <2>4, <3>4, <3>8, <4>1
      <4>2. CASE k = m + 1 \/ l = m + 1
        BY <2>6, <3>3, <3>4, <3>8, <4>2
      <4> QED
        BY <3>3, <4>1, <4>2
    <3>9. Picks(g, kept[n], n)
      BY <3>2, <3>6, <3>7, <3>8
    <3> HIDE DEF Picks
    <3> QED
      BY <3>9
  <2> QED
    BY <2>7, <2>8
<1>5. Right(Len(q))
  <2> HIDE DEF Right
  <2> SUFFICES ASSUME wrong # {} PROVE FALSE
    BY <1>2
  <2>1. PICK n \in wrong : \A m \in wrong : n <= m
    <3>1. wrong \subseteq Nat
      BY <1>2
    <3> QED
      BY <3>1, HasMinimum
  <2>2. n \in 1 .. Len(q) /\ n - 1 \in 0 .. Len(q) /\ n - 1 \notin wrong
    BY <1>2, <1>3, <2>1
  <2> QED
    BY <1>4, <2>1, <2>2
<1>6. Without(q, c) \in Seq(Event)
  BY <1>1, <1>2
<1>7. PICK f : Picks(f, Without(q, c), Len(q))
  <2> HIDE DEF Picks
  <2> QED
    BY <1>1, <1>5
<1> DEFINE w == Without(q, c)
<1>8. /\ f \in [1 .. Len(w) -> 1 .. Len(q)]
      /\ \A i \in 1 .. Len(w) : w[i] = q[f[i]] /\ w[i].conn # c
      /\ \A i, j \in 1 .. Len(w) : f[i] = f[j] => i = j
  BY <1>7
<1>9. \A i \in 1 .. Len(w) : w[i] = q[f[i]]
  BY <1>8
<1> HIDE DEF w, Picks
<1>10. w \in Seq(Event)
  BY <1>6 DEF w
<1>11. Thinned(w, q)
  BY <1>8, <1>9, <1>10 DEF Thinned
<1> QED
  BY <1>8, <1>11 DEF w

-----------------------------------------------------------------------------
(***************************************************************************)
(* The steps of the handlers and calls.                                    *)
(***************************************************************************)
Program(t, steps) ==
  steps \in Seq(Step) /\ (steps # <<>> => Follows(t, Head(steps), Tail(steps)))

LEMMA OneStep ==
  ASSUME NEW s \in Step
  PROVE  <<s>> \in Seq(Step) /\ <<s>> # <<>> /\ Head(<<s>>) = s /\ Tail(<<s>>) = <<>>
OBVIOUS

LEMMA StepBefore ==
  ASSUME NEW s \in Step, NEW q \in Seq(Step)
  PROVE  /\ <<s>> \o q \in Seq(Step) /\ <<s>> \o q # <<>>
         /\ Head(<<s>> \o q) = s /\ Tail(<<s>> \o q) = q
OBVIOUS

LEMMA TwoSteps ==
  ASSUME NEW s \in Step, NEW r \in Step
  PROVE  /\ <<s, r>> \in Seq(Step) /\ <<s, r>> # <<>>
         /\ Head(<<s, r>>) = s /\ Tail(<<s, r>>) = <<r>>
         /\ <<s, r>> = <<s>> \o <<r>>
<1>1. /\ <<s, r>> \in Seq(Step) /\ <<s, r>> # <<>>
      /\ Head(<<s, r>>) = s /\ Tail(<<s, r>>) = <<r>>
  OBVIOUS
<1>2. <<s>> \in Seq(Step) /\ <<r>> \in Seq(Step)
  BY OneStep
<1>3. <<s, r>> = <<s>> \o <<r>>
  <2> DEFINE both == <<s>> \o <<r>>
  <2>1. both \in Seq(Step) /\ Len(both) = 2 /\ both[1] = s /\ both[2] = r
    OBVIOUS
  <2>2. Len(<<s, r>>) = 2 /\ <<s, r>>[1] = s /\ <<s, r>>[2] = r
    OBVIOUS
  <2>3. \A i \in 1 .. 2 : i = 1 \/ i = 2
    OBVIOUS
  <2> DEFINE pair == <<s, r>>
  <2> HIDE DEF both, pair
  <2>4. /\ pair \in Seq(Step) /\ both \in Seq(Step) /\ Len(pair) = Len(both)
        /\ \A i \in 1 .. Len(pair) : pair[i] = both[i]
    BY <1>1, <2>1, <2>2, <2>3 DEF pair
  <2>5. pair = both
    BY <2>4, SeqEqual, Zenon
  <2> QED
    BY <2>5 DEF pair, both
<1> QED
  BY <1>1, <1>3

LEMMA TwoStepsBefore ==
  ASSUME NEW s \in Step, NEW r \in Step, NEW q \in Seq(Step)
  PROVE  <<s, r>> \o q = <<s>> \o (<<r>> \o q)
<1> DEFINE x == <<s>>
           y == <<r>>
<1>1. x \in Seq(Step) /\ y \in Seq(Step) /\ <<s, r>> = x \o y
  BY OneStep, TwoSteps
<1> HIDE DEF x, y
<1>2. (x \o y) \o q = x \o (y \o q)
  BY <1>1, ConcatAssociative, SMTT(30)
<1> QED
  BY <1>1, <1>2 DEF x, y

LEMMA StepNames ==
  /\ {"resolve_route", "prepare", "connect", "init", "accept", "remote_mr", "create_ah",
      "join", "ready", "callback", "hang_up", "leave", "destroy", "destroy_channel",
      "return", "exit"} \subseteq Step
  /\ <<>> \in Seq(Step)
BY DEF Step

LEMMA BackSteps == ASSUME NEW t PROVE Back(t) \in {<<>>, <<"return">>} /\ Back(t) \in Seq(Step)
<1>1. "return" \in Step
  BY DEF Step
<1>2. <<"return">> \in Seq(Step) /\ <<>> \in Seq(Step)
  BY <1>1
<1> QED
  BY <1>2 DEF Back

\* Which step a thread does says what it still has to do: kinds do not change.
LEMMA SameKind ==
  ASSUME kind' = kind, NEW t
  PROVE  /\ \A s, rest : Follows(t, s, rest) => Follows(t, s, rest)'
         /\ EventsOf(t)' = EventsOf(t) /\ CmOf(t)' = CmOf(t)
         /\ Back(t)' = Back(t) /\ Multicast(t)' = Multicast(t)
         /\ Disconnects(t)' = Disconnects(t)
<1>1. Multicast(t)' = Multicast(t) /\ Disconnects(t)' = Disconnects(t) /\ Back(t)' = Back(t)
  BY DEF Multicast, Disconnects, Back, ExitOnConnect
<1>2. /\ EventsOf(t)' = EventsOf(t) /\ CmOf(t)' = CmOf(t) /\ StepsOf(t)' = StepsOf(t)
      /\ Asks(t)' = Asks(t) /\ Closing(t)' = Closing(t)
  BY <1>1 DEF EventsOf, CmOf, StepsOf, Asks, Closing
<1> QED
  BY <1>1, <1>2, SMTT(30) DEF Follows

\* What follows a step follows from there.
LEMMA Continues ==
  ASSUME EventLoopAssumption, NEW t, NEW s, NEW rest, Follows(t, s, rest)
  PROVE  Program(t, rest)
<1>1. s \in Step
  BY DEF Follows, StepsOf, Step
<1>2. /\ {"prepare", "accept", "connect", "join", "ready", "callback", "return", "destroy",
          "destroy_channel"} \subseteq Step
      /\ <<>> \in Seq(Step) /\ Back(t) \in Seq(Step)
      /\ {"ready", "callback", "destroy", "return"} \subseteq StepsOf(t)
  BY BackSteps, StepNames DEF StepsOf
<1>3. ASSUME NEW r \in Step, NEW q \in Seq(Step), rest = <<r>> \o q, Follows(t, r, q)
      PROVE  Program(t, rest)
  BY <1>3, StepBefore DEF Program
<1>4. ASSUME NEW r \in Step, rest = <<r>>, Follows(t, r, <<>>)
      PROVE  Program(t, rest)
  BY <1>4, OneStep DEF Program
<1>5. ASSUME rest = <<>> PROVE Program(t, rest)
  BY <1>5, StepNames DEF Program
<1>6. CASE s \in {"resolve_route", "connect", "join", "accept", "return", "exit"}
  BY <1>5, <1>6 DEF Follows
<1>7. CASE s = "init"
  <2>1. rest = <<"prepare", "accept">> /\ t = Server
    BY <1>7 DEF Follows, StepsOf
  <2>2. Follows(t, "prepare", <<"accept">>)
    BY <2>1 DEF Follows, StepsOf, Asks
  <2>3. rest \in Seq(Step) /\ rest # <<>> /\ Head(rest) = "prepare" /\ Tail(rest) = <<"accept">>
    BY <1>2, <2>1, TwoSteps
  <2> QED
    BY <2>2, <2>3 DEF Program
<1>8. CASE s = "prepare"
  <2>1. rest = <<Asks(t)>> /\ Asks(t) \in Step /\ Asks(t) \in {"accept", "join", "connect"}
    BY <1>2, <1>8 DEF Follows, Asks
  <2>2. Asks(t) \in StepsOf(t)
    BY DEF Asks, StepsOf
  <2>3. Follows(t, Asks(t), <<>>)
    BY <2>1, <2>2 DEF Follows
  <2> QED
    BY <1>4, <2>1, <2>3
<1>9. CASE s \in {"remote_mr", "create_ah"}
  <2>1. rest = <<"ready", "callback">> \o Back(t)
    BY <1>9 DEF Follows
  <2>2. rest = <<"ready">> \o (<<"callback">> \o Back(t)) /\ <<"callback">> \o Back(t) \in Seq(Step)
    BY <1>2, <2>1, TwoStepsBefore, StepBefore
  <2>3. Follows(t, "ready", <<"callback">> \o Back(t))
    BY <1>2 DEF Follows
  <2> QED
    BY <1>2, <1>3, <2>2, <2>3
<1>10. CASE s = "ready"
  <2>1. rest = <<"callback">> \o Back(t)
    BY <1>10 DEF Follows
  <2>2. Follows(t, "callback", Back(t))
    BY <1>2 DEF Follows
  <2> QED
    BY <1>2, <1>3, <2>1, <2>2
<1>11. CASE s = "callback" \/ s = "destroy_channel"
  <2>1. rest \in {<<>>, <<"return">>}
    BY <1>11, BackSteps DEF Follows
  <2>2. Follows(t, "return", <<>>)
    BY <1>2 DEF Follows
  <2> QED
    BY <1>2, <1>4, <1>5, <2>1, <2>2
<1>12. CASE s = "hang_up"
  <2>1. PICK q \in Closing(t) : rest = <<"destroy">> \o q
    BY <1>12 DEF Follows
  <2>2. q \in Seq(Step)
    <3>1. /\ <<"return">> \in Seq(Step) /\ <<"destroy_channel">> \in Seq(Step)
          /\ <<"destroy_channel", "return">> \in Seq(Step)
      BY <1>2, OneStep, TwoSteps
    <3> QED
      BY <1>2, <3>1 DEF Closing
  <2>3. Follows(t, "destroy", q)
    BY <1>2 DEF Follows
  <2> QED
    BY <1>2, <1>3, <2>1, <2>2, <2>3
<1>13. CASE s = "leave"
  <2>1. rest = <<"destroy">>
    BY <1>13 DEF Follows
  <2>2. Follows(t, "destroy", <<>>)
    BY <1>2 DEF Follows, Closing
  <2> QED
    BY <1>2, <1>4, <2>1, <2>2
<1>14. CASE s = "destroy"
  <2>1. \/ rest \in {<<>>, <<"return">>}
        \/ /\ Disconnects(t)
           /\ rest \in {<<"destroy_channel">>, <<"destroy_channel", "return">>}
    BY <1>14 DEF Follows, Closing
  <2>2. Follows(t, "return", <<>>)
    BY <1>2 DEF Follows
  <2>3. Disconnects(t) => "destroy_channel" \in StepsOf(t)
    BY DEF EventLoopAssumption, Disconnects, StepsOf, Multicast
  <2>4. Disconnects(t) => /\ Follows(t, "destroy_channel", <<>>)
                          /\ Follows(t, "destroy_channel", <<"return">>)
    BY <2>3 DEF Follows
  <2>5. ASSUME Disconnects(t), rest = <<"destroy_channel", "return">>
        PROVE  Program(t, rest)
    <3>1. /\ rest \in Seq(Step) /\ rest # <<>> /\ Head(rest) = "destroy_channel"
          /\ Tail(rest) = <<"return">>
      BY <1>2, <2>5, TwoSteps
    <3> QED
      BY <2>4, <2>5, <3>1 DEF Program
  <2> QED
    BY <1>2, <1>4, <1>5, <2>1, <2>2, <2>4, <2>5
<1> QED
  BY <1>1, <1>6, <1>7, <1>8, <1>9, <1>10, <1>11, <1>12, <1>13, <1>14 DEF Step

\* The programs that threads begin.
LEMMA Begins ==
  ASSUME EventLoopAssumption, NEW t \in Threads, kind \in [Clients -> Kinds]
  PROVE  /\ Program(t, <<"exit">>) /\ Program(t, <<>>)
         /\ \A event \in Event :
              Expected(t, event) =>
                Program(t, HandlerSteps(t, event)) /\ HandlerSteps(t, event) # <<>>
         /\ t # Server /\ Multicast(t) => Program(t, LeaveSteps) /\ LeaveSteps # <<>>
         /\ Disconnects(t) => /\ Program(t, DisconnectSteps) /\ DisconnectSteps # <<>>
                              /\ Program(t, DisconnectSteps \o Back(t))
                              /\ DisconnectSteps \o Back(t) # <<>>
<1>1. Program(t, <<"exit">>) /\ Program(t, <<>>)
  BY DEF Program, Follows, StepsOf, Step
<1>2. ASSUME NEW event \in Event, Expected(t, event)
      PROVE  Program(t, HandlerSteps(t, event)) /\ HandlerSteps(t, event) # <<>>
  <2> DEFINE steps == HandlerSteps(t, event)
  <2>0. event.type \in EventType /\ event.conn \in Clients /\ (t # Server => event.conn = t)
    BY <1>2 DEF Event, End, Expected
  <2>1. CASE event.type = "ADDR_RESOLVED"
    <3>1. t # Server
      BY <1>2, <2>1 DEF EventsOf, Expected
    <3>2. steps = IF Multicast(t) THEN <<"prepare", "join">> ELSE <<"resolve_route">>
      BY <2>0, <2>1, <3>1 DEF HandlerSteps, Multicast
    <3> HIDE DEF steps
    <3>3. /\ <<"prepare", "join">> \in Seq(Step) /\ <<"prepare", "join">> # <<>>
          /\ Head(<<"prepare", "join">>) = "prepare" /\ Tail(<<"prepare", "join">>) = <<"join">>
          /\ <<"resolve_route">> \in Seq(Step) /\ <<"resolve_route">> # <<>>
          /\ Head(<<"resolve_route">>) = "resolve_route" /\ Tail(<<"resolve_route">>) = <<>>
      BY StepNames, OneStep, TwoSteps
    <3>4. CASE Multicast(t)
      <4>1. Follows(t, "prepare", <<"join">>)
        BY <3>1, <3>4 DEF Follows, StepsOf, Asks
      <4> QED
        BY <3>2, <3>3, <3>4, <4>1 DEF Program, steps
    <3>5. CASE ~ Multicast(t)
      <4>1. Follows(t, "resolve_route", <<>>)
        BY <3>1, <3>5 DEF Follows, StepsOf
      <4> QED
        BY <3>2, <3>3, <3>5, <4>1 DEF Program, steps
    <3> QED
      BY <3>4, <3>5 DEF steps
  <2>2. CASE event.type = "MULTICAST_JOIN"
    <3>1. t # Server /\ Multicast(t)
      BY <1>2, <2>2 DEF EventsOf, Expected
    <3>2. steps = <<"create_ah">> \o (<<"ready", "callback">> \o Back(t))
      BY <2>2 DEF HandlerSteps, OnConnect, Back
    <3> DEFINE back == <<"ready", "callback">> \o Back(t)
    <3>3. back \in Seq(Step) /\ {"create_ah", "remote_mr"} \subseteq Step
      <4>1. back = <<"ready">> \o (<<"callback">> \o Back(t))
        BY StepNames, BackSteps, TwoStepsBefore
      <4>2. <<"callback">> \o Back(t) \in Seq(Step)
        BY StepNames, BackSteps, StepBefore
      <4>3. <<"ready">> \o (<<"callback">> \o Back(t)) \in Seq(Step)
        BY <4>2, StepNames, StepBefore
      <4> QED
        BY <4>1, <4>3, StepNames
    <3> HIDE DEF steps
    <3>4. Follows(t, "create_ah", back)
      BY <3>1 DEF Follows, StepsOf
    <3> HIDE DEF back
    <3>5. /\ <<"create_ah">> \o back \in Seq(Step) /\ <<"create_ah">> \o back # <<>>
          /\ Head(<<"create_ah">> \o back) = "create_ah" /\ Tail(<<"create_ah">> \o back) = back
      BY <3>3, StepBefore
    <3>6. steps = <<"create_ah">> \o back
      BY <3>2 DEF back
    <3> QED
      BY <3>4, <3>5, <3>6 DEF Program, steps
  <2>3. CASE event.type = "ROUTE_RESOLVED"
    <3>1. t # Server /\ ~ Multicast(t)
      BY <1>2, <2>3 DEF EventsOf, Expected
    <3>2. steps = <<"prepare", "connect">>
      BY <2>3 DEF HandlerSteps
    <3>3. Follows(t, "prepare", <<"connect">>) /\ {"prepare", "connect"} \subseteq Step
      BY <3>1, StepNames DEF Follows, StepsOf, Asks
    <3>4. /\ steps \in Seq(Step) /\ steps # <<>> /\ Head(steps) = "prepare"
          /\ Tail(steps) = <<"connect">>
      BY <3>2, <3>3, TwoSteps
    <3> HIDE DEF steps
    <3> QED
      BY <3>3, <3>4 DEF Program, steps
  <2>4. CASE event.type = "CONNECT_REQUEST"
    <3>1. t = Server
      BY <1>2, <2>4 DEF EventsOf, Expected
    <3>2. steps = <<"init", "prepare", "accept">>
      BY <2>4 DEF HandlerSteps, RequestSteps
    <3>3. /\ Follows(t, "init", <<"prepare", "accept">>)
          /\ {"init", "prepare", "accept"} \subseteq Step
      BY <3>1 DEF Follows, StepsOf, Step
    <3>4. /\ steps \in Seq(Step) /\ steps # <<>> /\ Head(steps) = "init"
          /\ Tail(steps) = <<"prepare", "accept">>
      BY <3>2, <3>3
    <3> HIDE DEF steps
    <3> QED
      BY <3>3, <3>4 DEF Program, steps
  <2>5. CASE event.type = "ESTABLISHED"
    <3>1. ~ Multicast(t) \/ t = Server
      BY <1>2, <2>5 DEF EventsOf, Expected
    <3>2. steps = <<"remote_mr">> \o (<<"ready", "callback">> \o Back(t))
      BY <2>5 DEF HandlerSteps, OnConnect, Back
    <3> DEFINE back == <<"ready", "callback">> \o Back(t)
    <3>3. back \in Seq(Step) /\ {"create_ah", "remote_mr"} \subseteq Step
      <4>1. back = <<"ready">> \o (<<"callback">> \o Back(t))
        BY StepNames, BackSteps, TwoStepsBefore
      <4>2. <<"callback">> \o Back(t) \in Seq(Step)
        BY StepNames, BackSteps, StepBefore
      <4>3. <<"ready">> \o (<<"callback">> \o Back(t)) \in Seq(Step)
        BY <4>2, StepNames, StepBefore
      <4> QED
        BY <4>1, <4>3, StepNames
    <3> HIDE DEF steps
    <3>4. Follows(t, "remote_mr", back)
      BY <3>1 DEF Follows, StepsOf
    <3> HIDE DEF back
    <3>5. /\ <<"remote_mr">> \o back \in Seq(Step) /\ <<"remote_mr">> \o back # <<>>
          /\ Head(<<"remote_mr">> \o back) = "remote_mr" /\ Tail(<<"remote_mr">> \o back) = back
      BY <3>3, StepBefore
    <3>6. steps = <<"remote_mr">> \o back
      BY <3>2 DEF back
    <3> QED
      BY <3>4, <3>5, <3>6 DEF Program, steps
  <2>6. CASE event.type = "DISCONNECTED"
    <3>1. ~ Multicast(t) \/ t = Server
      BY <1>2, <2>6 DEF EventsOf, Expected
    <3>2. PICK q \in {<<>>, <<"return">>} : steps = <<"hang_up", "destroy">> \o q
      BY <2>6 DEF HandlerSteps
    <3> HIDE DEF steps
    <3>3. /\ steps \in Seq(Step) /\ steps # <<>> /\ Head(steps) = "hang_up"
          /\ Tail(steps) = <<"destroy">> \o q
      <4>1. q \in Seq(Step)
        BY StepNames, OneStep
      <4>2. steps = <<"hang_up">> \o (<<"destroy">> \o q)
        BY <3>2, <4>1, StepNames, TwoStepsBefore
      <4>3. <<"destroy">> \o q \in Seq(Step)
        BY <4>1, StepNames, StepBefore
      <4> QED
        BY <4>2, <4>3, StepNames, StepBefore
    <3>4. q \in Closing(t)
      BY DEF Closing
    <3> QED
      BY <3>1, <3>3, <3>4 DEF Program, Follows, StepsOf, steps
  <2>7. CASE event.type \notin {"ADDR_RESOLVED", "MULTICAST_JOIN", "ROUTE_RESOLVED",
                               "CONNECT_REQUEST", "ESTABLISHED", "DISCONNECTED"}
    <3>1. steps = <<"exit">>
      BY <2>7 DEF HandlerSteps
    <3> QED
      BY <1>1, <3>1
  <2> HIDE DEF steps
  <2> QED
    BY <2>1, <2>2, <2>3, <2>4, <2>5, <2>6, <2>7 DEF steps
<1>3. ASSUME t # Server, Multicast(t)
      PROVE  Program(t, LeaveSteps) /\ LeaveSteps # <<>>
  BY <1>3 DEF LeaveSteps, Program, Follows, StepsOf, Step
<1>4. ASSUME Disconnects(t)
      PROVE  /\ Program(t, DisconnectSteps) /\ DisconnectSteps # <<>>
             /\ Program(t, DisconnectSteps \o Back(t)) /\ DisconnectSteps \o Back(t) # <<>>
  <2>1. t # Server /\ ~ Multicast(t)
    BY <1>4, EventLoopAssumption DEF Disconnects, Multicast
  <2>2. ASSUME NEW q \in {<<>>, <<"return">>}
        PROVE  Program(t, DisconnectSteps \o q) /\ DisconnectSteps \o q # <<>>
    <3> DEFINE steps == DisconnectSteps \o q
    <3> DEFINE last == <<"destroy_channel">> \o q
    <3>0. q \in Seq(Step)
      BY StepNames, OneStep
    <3>1. last \in Seq(Step)
      BY <3>0, StepNames, StepBefore
    <3>2. last \in Closing(t)
      <4>1. <<"destroy_channel">> \o <<>> = <<"destroy_channel">>
        OBVIOUS
      <4>2. <<"destroy_channel">> \o <<"return">> = <<"destroy_channel", "return">>
        BY StepNames, TwoSteps
      <4> QED
        BY <1>4, <4>1, <4>2 DEF Closing
    <3>3. steps = <<"hang_up">> \o (<<"destroy">> \o last)
      <4>1. /\ <<"hang_up", "destroy", "destroy_channel">> \in Seq(Step)
            /\ <<"destroy", "destroy_channel">> \in Seq(Step)
            /\ <<"hang_up">> \in Seq(Step)
        BY StepNames
      <4>2. DisconnectSteps = <<"hang_up">> \o <<"destroy", "destroy_channel">>
        BY <4>1 DEF DisconnectSteps
      <4>3. steps = <<"hang_up">> \o (<<"destroy", "destroy_channel">> \o q)
        <5> DEFINE x == <<"hang_up">>
                   y == <<"destroy", "destroy_channel">>
        <5>1. x \in Seq(Step) /\ y \in Seq(Step) /\ DisconnectSteps = x \o y
          BY <4>1, <4>2
        <5> HIDE DEF x, y
        <5>2. (x \o y) \o q = x \o (y \o q)
          BY <3>0, <5>1, ConcatAssociative
        <5> QED
          BY <5>1, <5>2 DEF x, y
      <4> QED
        BY <3>0, <4>3, StepNames, TwoStepsBefore
    <3> HIDE DEF last
    <3>4. /\ steps \in Seq(Step) /\ steps # <<>> /\ Head(steps) = "hang_up"
          /\ Tail(steps) = <<"destroy">> \o last
      <4>1. <<"destroy">> \o last \in Seq(Step)
        BY <3>1, StepNames, StepBefore
      <4> QED
        BY <3>3, <4>1, StepNames, StepBefore
    <3>5. Follows(t, "hang_up", <<"destroy">> \o last)
      BY <2>1, <3>2 DEF Follows, StepsOf
    <3> HIDE DEF steps
    <3> QED
      BY <3>4, <3>5 DEF Program, steps
  <2>3. DisconnectSteps \o <<>> = DisconnectSteps
    BY DEF DisconnectSteps
  <2> QED
    BY <2>2, <2>3, BackSteps
<1> QED
  BY <1>1, <1>2, <1>3, <1>4

-----------------------------------------------------------------------------
(***************************************************************************)
(* GInv is inductive.                                                      *)
(***************************************************************************)
LEMMA HereIsEnd ==
  ASSUME GInv, NEW t \in Threads, todo[t] # <<>>
  PROVE  /\ event_copy[t] \in Event /\ event_copy[t].conn \in Clients
         /\ Here(t) = <<t, event_copy[t].conn>> /\ Here(t) \in End
         /\ Here(t)[1] = t /\ Here(t)[2] = event_copy[t].conn
         /\ t # Server => t \in Clients /\ event_copy[t].conn = t
<1>1. event_copy[t] \in Event /\ event_copy[t].conn \in Threads
  BY DEF GInv, TypeOK, Event
<1>2. event_copy[t].conn \in Clients /\ (t # Server => t \in Clients /\ event_copy[t].conn = t)
  BY <1>1 DEF GInv, CopiesRight, Threads
<1> QED
  BY <1>1, <1>2 DEF Here, End

\* The next step of a thread that does one, or that stops.
LEMMA Moves ==
  ASSUME GInv, NEW t \in Threads, NEW rest, Program(t, rest), Proceed(t, rest),
         todo[t] # <<>> \/ rest = <<>>
  PROVE  /\ kind' = kind
         /\ todo' \in [Threads -> Seq(Step)] /\ event_copy' \in [Threads -> Event]
         /\ todo'[t] = rest
         /\ event_copy'[t] = IF rest = <<>> THEN NoEvent(t) ELSE event_copy[t]
         /\ \A u \in Threads : u # t => todo'[u] = todo[u] /\ event_copy'[u] = event_copy[u]
         /\ StepsFollow' /\ CopiesRight'
<1>1. todo \in [Threads -> Seq(Step)] /\ event_copy \in [Threads -> Event] /\ MaxMr \in Nat
  BY EventLoopAssumption DEF GInv, TypeOK
<1>2. NoEvent(t) \in Event /\ NoEvent(t).conn = t
  BY <1>1 DEF NoEvent, Event, EventType
<1>3. /\ kind' = kind /\ todo' = [todo EXCEPT ![t] = rest]
      /\ event_copy' = IF rest = <<>> THEN [event_copy EXCEPT ![t] = NoEvent(t)] ELSE event_copy
      /\ rest \in Seq(Step) /\ (rest # <<>> => Follows(t, Head(rest), Tail(rest)))
  BY DEF Proceed, Program
<1> HIDE DEF NoEvent
<1>4. /\ todo' \in [Threads -> Seq(Step)] /\ todo'[t] = rest
      /\ event_copy' \in [Threads -> Event]
      /\ event_copy'[t] = IF rest = <<>> THEN NoEvent(t) ELSE event_copy[t]
      /\ \A u \in Threads : u # t => todo'[u] = todo[u] /\ event_copy'[u] = event_copy[u]
  BY <1>1, <1>2, <1>3
<1>5. StepsFollow'
  <2> SUFFICES ASSUME NEW u \in Threads, todo'[u] # <<>>
               PROVE  Follows(u, Head(todo[u]), Tail(todo[u]))'
    BY DEF StepsFollow
  <2>1. Follows(u, Head(todo'[u]), Tail(todo'[u]))
    BY <1>3, <1>4 DEF GInv, StepsFollow
  <2>2. PICK s, r : s = Head(todo'[u]) /\ r = Tail(todo'[u])
    OBVIOUS
  <2>3. Follows(u, s, r)
    BY <2>1, <2>2
  <2>4. Follows(u, s, r)'
    BY <1>3, <2>3, SameKind
  <2> QED
    BY <2>2, <2>4
<1>6. CopiesRight'
  BY <1>2, <1>4, EventLoopAssumption DEF GInv, CopiesRight, Threads
<1> QED
  BY <1>3, <1>4, <1>5, <1>6

LEMMA DoesStep ==
  ASSUME GInv, NEW t \in Threads, NEW s, At(t, s)
  PROVE  /\ todo[t] # <<>> /\ Follows(t, s, Tail(todo[t])) /\ Program(t, Tail(todo[t]))
         /\ Here(t) \in End /\ Here(t)[1] = t
         /\ \A r : At(t, r) <=> r = s
<1>1. todo[t] # <<>> /\ Follows(t, s, Tail(todo[t])) /\ \A r : At(t, r) <=> r = s
  BY DEF At, GInv, StepsFollow
<1>2. Program(t, Tail(todo[t]))
  BY <1>1, EventLoopAssumption, Continues
<1> QED
  BY <1>1, <1>2, HereIsEnd

\* A message of an end goes to the other.
LEMMA Sent ==
  ASSUME GInv, NEW e \in End, NEW n \in 0 .. MaxMr,
         NEW type \in {"REQ", "REP", "RTU", "REJ", "LOST", "DREQ", "DREP"}
  PROVE  /\ From(e, type, n) \in Message
         /\ From(e, type, n).type = type /\ From(e, type, n).conn = e[2]
         /\ From(e, type, n).regions = n
         /\ From(e, type, n).to = IF e[1] = Server THEN e[2] ELSE Server
         /\ Addressed(From(e, type, n)) <=>
              /\ type = "REQ" => e[1] # Server /\ n = 0
              /\ type = "REP" => e[1] = Server
<1>1. e[1] \in Threads /\ e[2] \in Clients /\ e[2] \in Threads /\ Server \in Threads
      /\ e[2] # Server
  BY EventLoopAssumption DEF End, Threads
<1>2. /\ From(e, type, n).type = type /\ From(e, type, n).conn = e[2]
      /\ From(e, type, n).regions = n
      /\ From(e, type, n).to = IF e[1] = Server THEN e[2] ELSE Server
      /\ From(e, type, n) \in Message
  BY <1>1 DEF From, Message
<1> QED
  BY <1>1, <1>2 DEF Addressed

StateTypeOK ==
  /\ place \in [Threads -> {"new", "loop", "returned", "watched", "exited"}]
  /\ channels \subseteq Threads
  /\ ctx \in [End -> {"none", "TERMINATED", "READY", "freed"}]
  /\ built \in [End -> SUBSET {"qp", "mr", "ah"}]
  /\ num_local \in [End -> 0 .. MaxMr]
  /\ num_remote \in [End -> 0 .. MaxMr]
  /\ cm \in [End -> {"none", "resolving", "routing", "joining", "idle", "connecting",
                     "requested", "accepted", "failed", "connected",
                     "disconnecting", "closed"}]
  /\ net \subseteq Message

\* A thread's step as the invariant sees it.
LEMMA StepGInv ==
  ASSUME GInv, NEW t \in Threads, NEW rest, Program(t, rest), Proceed(t, rest),
         todo[t] # <<>> \/ rest = <<>>, StateTypeOK',
         events' \in [Threads -> Seq(Event)],
         \A u \in Threads : Thinned(events'[u], events[u]),
         \A m \in net' : m \in net \/ Addressed(m),
         \A e \in End : cm'[e] = cm[e] \/ cm'[e] \in CmOf(e[1])
  PROVE  GInv'
<1>1. /\ kind' = kind
      /\ todo' \in [Threads -> Seq(Step)] /\ event_copy' \in [Threads -> Event]
      /\ StepsFollow' /\ CopiesRight'
  BY Moves
<1>2. TypeOK'
  BY <1>1 DEF GInv, TypeOK, StateTypeOK
<1>3. EventsRight'
  <2> SUFFICES ASSUME NEW u \in Threads, NEW i \in 1 .. Len(events'[u])
               PROVE  Expected(u, events[u][i])'
    BY DEF EventsRight
  <2>0. Thinned(events'[u], events[u])
    OBVIOUS
  <2>1. PICK j \in 1 .. Len(events[u]) : events'[u][i] = events[u][j]
    BY <2>0, ThinnedPairs
  <2>2. Expected(u, events[u][j])
    BY DEF GInv, EventsRight
  <2>3. EventsOf(u)' = EventsOf(u)
    BY <1>1, SameKind
  <2> QED
    BY <2>1, <2>2, <2>3 DEF Expected
<1>4. MessagesRight'
  BY DEF GInv, MessagesRight, Addressed
<1>5. IdsRight'
  <2>1. \A e \in End : CmOf(e[1])' = CmOf(e[1])
    BY <1>1, SameKind
  <2> QED
    BY <2>1 DEF GInv, IdsRight
<1> QED
  BY <1>1, <1>2, <1>3, <1>4, <1>5 DEF GInv

\* The steps that leave the channels and the messages alone.
LEMMA LocalGInv ==
  ASSUME GInv, NEW t \in Threads,
         \/ Prepare(t) \/ Request(t) \/ AcceptConnection(t) \/ SetupRcParam(t)
         \/ CreateAh(t) \/ OnConnectReady(t) \/ Callback(t) \/ LeaveMulticast(t)
         \/ DestroyEventChannel(t) \/ LeaveLoop(t)
  PROVE  GInv'
<1>1. StateTypeOK /\ MaxMr \in Nat /\ \A e \in End : Asked(e) \subseteq Nat
  BY EventLoopAssumption DEF GInv, TypeOK, StateTypeOK, Asked, End
<1>2. events \in [Threads -> Seq(Event)] /\ \A u \in Threads : Thinned(events[u], events[u])
  BY Untouched DEF GInv, TypeOK
<1>3. \A s : At(t, s) => /\ todo[t] # <<>> /\ Program(t, Tail(todo[t])) /\ Here(t) \in End
                         /\ Here(t)[1] = t /\ Follows(t, s, Tail(todo[t]))
  BY DoesStep
<1>4. Program(t, <<"exit">>) /\ (Disconnects(t) => Program(t, DisconnectSteps \o Back(t)))
  BY EventLoopAssumption, Begins DEF GInv, TypeOK
<1>5. CASE Prepare(t)
  <2>1. PICK n \in Asked(Here(t)) :
          IF n > MaxMr
          THEN Proceed(t, <<"exit">>) /\ UNCHANGED <<num_local, built>>
          ELSE /\ Proceed(t, Tail(todo[t]))
               /\ num_local' = [num_local EXCEPT ![Here(t)] = n]
               /\ built' = [built EXCEPT ![Here(t)] = {"qp", "mr"}]
    BY <1>5 DEF Prepare
  <2>2. /\ At(t, "prepare")
        /\ UNCHANGED <<place, events, channels, ctx, num_remote, cm, net>>
    BY <1>5 DEF Prepare
  <2>3. StateTypeOK'
    BY <1>1, <2>1, <2>2 DEF StateTypeOK
  <2>4. PICK rest : Program(t, rest) /\ Proceed(t, rest)
    BY <1>3, <1>4, <2>1, <2>2
  <2> QED
    BY <1>2, <1>3, <2>2, <2>3, <2>4, StepGInv
<1>6. CASE Callback(t)
  <2>1. /\ At(t, "callback")
        /\ UNCHANGED <<place, events, channels, ctx, built, num_local, num_remote, cm, net>>
        /\ \/ Proceed(t, Tail(todo[t]))
           \/ Disconnects(t) /\ Proceed(t, DisconnectSteps \o Tail(todo[t]))
    BY <1>6 DEF Callback, Disconnects
  <2>2. Tail(todo[t]) = Back(t)
    BY <1>3, <2>1 DEF Follows
  <2>3. StateTypeOK'
    BY <1>1, <2>1 DEF StateTypeOK
  <2>4. PICK rest : Program(t, rest) /\ Proceed(t, rest)
    BY <1>3, <1>4, <2>1, <2>2
  <2> QED
    BY <1>2, <1>3, <2>1, <2>3, <2>4, StepGInv
<1>7. ASSUME NEW s \in Step, Does(t, s), StateTypeOK', UNCHANGED <<events, net>>,
             cm' = cm \/ \E v \in CmOf(t) : cm' = [cm EXCEPT ![Here(t)] = v]
      PROVE  GInv'
  <2>1. At(t, s) /\ Proceed(t, Tail(todo[t]))
    BY <1>7 DEF Does
  <2>2. \A e \in End : cm'[e] = cm[e] \/ cm'[e] \in CmOf(e[1])
    BY <1>1, <1>3, <1>7, <2>1 DEF StateTypeOK
  <2> QED
    BY <1>2, <1>3, <1>7, <2>1, <2>2, StepGInv
<1>8. CASE Request(t)
  <2>1. PICK s \in {"resolve_route", "join"}, v \in {"routing", "joining"} :
          /\ Does(t, s) /\ cm' = [cm EXCEPT ![Here(t)] = v]
          /\ (s = "join" <=> v = "joining")
          /\ UNCHANGED <<place, events, channels, ctx, built, num_local, num_remote, net>>
    BY <1>8 DEF Request
  <2>2. s \in StepsOf(t)
    BY <1>3, <2>1 DEF Does, Follows
  <2>3. v \in CmOf(t)
    BY <2>1, <2>2 DEF StepsOf, CmOf
  <2>4. StateTypeOK'
    BY <1>1, <2>1 DEF StateTypeOK
  <2> QED
    BY <1>7, <2>1, <2>3, <2>4, StepNames
<1>9. CASE AcceptConnection(t)
  <2>1. StateTypeOK' /\ Does(t, "init") /\ UNCHANGED <<events, net, cm>>
    BY <1>1, <1>9 DEF AcceptConnection, StateTypeOK
  <2> QED
    BY <1>7, <2>1, StepNames
<1>10. CASE SetupRcParam(t)
  <2>0. event_copy[t].regions \in 0 .. MaxMr
    BY DEF GInv, TypeOK, Event
  <2>1. StateTypeOK' /\ Does(t, "remote_mr") /\ UNCHANGED <<events, net, cm>>
    BY <1>1, <1>10, <2>0 DEF SetupRcParam, StateTypeOK
  <2> QED
    BY <1>7, <2>1, StepNames
<1>11. CASE CreateAh(t)
  <2>1. /\ UNCHANGED <<place, events, channels, ctx, num_local, num_remote, cm, net>>
        /\ built' \in {built, [built EXCEPT ![Here(t)] = @ \cup {"ah"}]}
        /\ Does(t, "create_ah")
    BY <1>11 DEF CreateAh
  <2>2. StateTypeOK'
    BY <1>1, <2>1 DEF StateTypeOK
  <2> QED
    BY <1>7, <2>1, <2>2, StepNames
<1>12. CASE OnConnectReady(t)
  <2>1. StateTypeOK' /\ Does(t, "ready") /\ UNCHANGED <<events, net, cm>>
    BY <1>1, <1>12 DEF OnConnectReady, StateTypeOK
  <2> QED
    BY <1>7, <2>1, StepNames
<1>13. CASE LeaveMulticast(t)
  <2>1. StateTypeOK' /\ Does(t, "leave") /\ UNCHANGED <<events, net>>
        /\ cm' = [cm EXCEPT ![Here(t)] = "closed"]
    BY <1>1, <1>13 DEF LeaveMulticast, StateTypeOK
  <2>2. "closed" \in CmOf(t)
    BY DEF CmOf
  <2> QED
    BY <1>7, <2>1, <2>2, StepNames
<1>14. CASE DestroyEventChannel(t)
  <2>1. StateTypeOK' /\ Does(t, "destroy_channel") /\ UNCHANGED <<events, net, cm>>
    BY <1>1, <1>14 DEF DestroyEventChannel, StateTypeOK
  <2> QED
    BY <1>7, <2>1, StepNames
<1>15. CASE LeaveLoop(t)
  <2>1. StateTypeOK' /\ Does(t, "return") /\ UNCHANGED <<events, net, cm>>
    BY <1>1, <1>15 DEF LeaveLoop, StateTypeOK
  <2> QED
    BY <1>7, <2>1, StepNames
<1> QED
  BY <1>5, <1>6, <1>8, <1>9, <1>10, <1>11, <1>12, <1>13, <1>14, <1>15

LEMMA ConnectGInv == ASSUME GInv, NEW t \in Threads, Connect(t) PROVE GInv'
<1>1. StateTypeOK /\ MaxMr \in Nat
  BY EventLoopAssumption DEF GInv, TypeOK, StateTypeOK
<1>2. \A u \in Threads : Thinned(events[u], events[u]) /\ events \in [Threads -> Seq(Event)]
  BY Untouched DEF GInv, TypeOK
<1>3. /\ At(t, "connect") /\ Proceed(t, Tail(todo[t]))
      /\ cm' = [cm EXCEPT ![Here(t)] = "connecting"]
      /\ net' = net \cup {From(Here(t), "REQ", 0)}
      /\ UNCHANGED <<place, events, channels, ctx, built, num_local, num_remote>>
  BY DEF Connect, Does
<1>4. /\ todo[t] # <<>> /\ Program(t, Tail(todo[t])) /\ Here(t) \in End /\ Here(t)[1] = t
      /\ "connect" \in StepsOf(t)
  BY <1>3, DoesStep DEF Follows
<1>5. t # Server /\ "connecting" \in CmOf(t)
  BY <1>4 DEF StepsOf, CmOf
<1>6. From(Here(t), "REQ", 0) \in Message /\ Addressed(From(Here(t), "REQ", 0))
  BY <1>1, <1>4, <1>5, Sent
<1>7. StateTypeOK'
  BY <1>1, <1>3, <1>6 DEF StateTypeOK
<1>8. \A e \in End : cm'[e] = cm[e] \/ cm'[e] \in CmOf(e[1])
  BY <1>1, <1>3, <1>4, <1>5 DEF StateTypeOK
<1> QED
  BY <1>2, <1>3, <1>4, <1>6, <1>7, <1>8, StepGInv

LEMMA AcceptGInv == ASSUME GInv, NEW t \in Threads, Accept(t) PROVE GInv'
<1>1. StateTypeOK /\ MaxMr \in Nat
  BY EventLoopAssumption DEF GInv, TypeOK, StateTypeOK
<1>2. \A u \in Threads : Thinned(events[u], events[u]) /\ events \in [Threads -> Seq(Event)]
  BY Untouched DEF GInv, TypeOK
<1>3. /\ At(t, "accept")
      /\ UNCHANGED <<place, events, channels, ctx, built, num_local, num_remote>>
  BY DEF Accept
<1>4. /\ todo[t] # <<>> /\ Program(t, Tail(todo[t])) /\ Here(t) \in End /\ Here(t)[1] = t
      /\ "accept" \in StepsOf(t)
  BY <1>3, DoesStep DEF Follows
<1>5. t = Server /\ "accepted" \in CmOf(t)
  BY <1>4 DEF StepsOf, CmOf
<1>6. CASE cm[Here(t)] = "requested"
  <2>1. PICK n \in PrivateData(num_local[Here(t)]) :
          net' = net \cup {From(Here(t), "REP", n)}
    BY <1>6 DEF Accept
  <2>2. Proceed(t, Tail(todo[t])) /\ cm' = [cm EXCEPT ![Here(t)] = "accepted"]
    BY <1>6 DEF Accept
  <2>3. n \in 0 .. MaxMr
    BY <1>1, <1>4 DEF PrivateData, StateTypeOK
  <2>4. From(Here(t), "REP", n) \in Message /\ Addressed(From(Here(t), "REP", n))
    BY <1>4, <1>5, <2>3, Sent
  <2>5. StateTypeOK'
    BY <1>1, <1>3, <2>1, <2>2, <2>4 DEF StateTypeOK
  <2>6. \A e \in End : cm'[e] = cm[e] \/ cm'[e] \in CmOf(e[1])
    BY <1>1, <1>4, <1>5, <2>2 DEF StateTypeOK
  <2> QED
    BY <1>2, <1>3, <1>4, <2>1, <2>2, <2>4, <2>5, <2>6, StepGInv
<1>7. CASE cm[Here(t)] # "requested"
  <2>1. Proceed(t, <<"exit">>) /\ UNCHANGED <<cm, net>>
    BY <1>7 DEF Accept
  <2>2. Program(t, <<"exit">>)
    BY EventLoopAssumption, Begins DEF GInv, TypeOK
  <2>3. StateTypeOK'
    BY <1>1, <1>3, <2>1 DEF StateTypeOK
  <2> QED
    BY <1>2, <1>3, <1>4, <2>1, <2>2, <2>3, StepGInv
<1> QED
  BY <1>6, <1>7

LEMMA HangUpGInv == ASSUME GInv, NEW t \in Threads, HangUp(t) PROVE GInv'
<1> DEFINE e == Here(t)
<1>1. StateTypeOK /\ 0 \in 0 .. MaxMr
  BY EventLoopAssumption DEF GInv, TypeOK, StateTypeOK
<1>2. \A u \in Threads : Thinned(events[u], events[u]) /\ events \in [Threads -> Seq(Event)]
  BY Untouched DEF GInv, TypeOK
<1>3. /\ At(t, "hang_up") /\ Proceed(t, Tail(todo[t]))
      /\ ctx' = [ctx EXCEPT ![e] = "TERMINATED"]
      /\ cm' = IF cm[e] = "connected" THEN [cm EXCEPT ![e] = "disconnecting"] ELSE cm
      /\ \E new \in SUBSET {From(e, "DREQ", 0), From(e, "DREP", 0)} : net' = net \cup new
      /\ UNCHANGED <<place, events, channels, built, num_local, num_remote>>
  <2>1. /\ net' = CASE cm[e] = "connected" -> net \cup {From(e, "DREQ", 0)}
                    [] cm[e] = "closed" -> net \cup {From(e, "DREP", 0)}
                    [] OTHER -> net
        /\ net \cup {} = net
    BY DEF HangUp
  <2>2. \E new \in SUBSET {From(e, "DREQ", 0), From(e, "DREP", 0)} : net' = net \cup new
    BY <2>1
  <2> QED
    BY <2>2 DEF HangUp, Does
<1>4. /\ todo[t] # <<>> /\ Program(t, Tail(todo[t])) /\ e \in End /\ e[1] = t
      /\ "hang_up" \in StepsOf(t)
  BY <1>3, DoesStep DEF Follows
<1>5. "disconnecting" \in CmOf(t)
  BY <1>4 DEF StepsOf, CmOf
<1>6. /\ From(e, "DREQ", 0) \in Message /\ Addressed(From(e, "DREQ", 0))
      /\ From(e, "DREP", 0) \in Message /\ Addressed(From(e, "DREP", 0))
  BY <1>1, <1>4, Sent
<1> HIDE DEF e
<1>7. StateTypeOK'
  BY <1>1, <1>3, <1>4, <1>6 DEF StateTypeOK
<1>8. \A x \in End : cm'[x] = cm[x] \/ cm'[x] \in CmOf(x[1])
  BY <1>1, <1>3, <1>4, <1>5 DEF StateTypeOK
<1>9. \A m \in net' : m \in net \/ Addressed(m)
  BY <1>3, <1>6
<1> QED
  BY <1>2, <1>3, <1>4, <1>7, <1>8, <1>9, StepGInv

LEMMA DestroyGInv == ASSUME GInv, NEW t \in Threads, DestroyConnection(t) PROVE GInv'
<1> DEFINE e == Here(t)
<1>1. StateTypeOK /\ 0 \in 0 .. MaxMr
  BY EventLoopAssumption DEF GInv, TypeOK, StateTypeOK
<1>2. events \in [Threads -> Seq(Event)] /\ \A u \in Threads : Thinned(events[u], events[u])
  BY Untouched DEF GInv, TypeOK
<1>3. At(t, "destroy") /\ UNCHANGED <<place, channels, net>>
  BY DEF DestroyConnection
<1>4. todo[t] # <<>> /\ Program(t, Tail(todo[t])) /\ e \in End /\ e[1] = t
  BY <1>3, DoesStep
<1>5. CASE ctx[e] = "READY"
  <2>1. /\ Proceed(t, <<"exit">>)
        /\ UNCHANGED <<ctx, built, num_local, num_remote, cm, events>>
    BY <1>5 DEF DestroyConnection
  <2>2. Program(t, <<"exit">>)
    BY EventLoopAssumption, Begins DEF GInv, TypeOK
  <2>3. StateTypeOK'
    BY <1>1, <1>3, <2>1 DEF StateTypeOK
  <2> QED
    BY <1>2, <1>3, <1>4, <2>1, <2>2, <2>3, StepGInv
<1>6. CASE ctx[e] # "READY"
  <2>1. /\ Proceed(t, Tail(todo[t]))
        /\ ctx' = [ctx EXCEPT ![e] = "freed"]
        /\ built' = [built EXCEPT ![e] = {}]
        /\ num_local' = [num_local EXCEPT ![e] = 0]
        /\ num_remote' = [num_remote EXCEPT ![e] = 0]
        /\ cm' = [cm EXCEPT ![e] = "none"]
        /\ events' = [events EXCEPT ![t] = Without(events[t], e[2])]
    BY <1>6 DEF DestroyConnection
  <2>2. "none" \in CmOf(t)
    BY DEF CmOf
  <2> HIDE DEF e
  <2>3. StateTypeOK'
    BY <1>1, <1>3, <2>1 DEF StateTypeOK
  <2>4. \A x \in End : cm'[x] = cm[x] \/ cm'[x] \in CmOf(x[1])
    BY <1>1, <1>4, <2>1, <2>2 DEF StateTypeOK
  <2>5. Thinned(Without(events[t], e[2]), events[t]) /\ Without(events[t], e[2]) \in Seq(Event)
    <3>1. events[t] \in Seq(Event)
      BY <1>2
    <3>2. Thinned(Without(events[t], e[2]), events[t])
      BY <3>1, WithoutThins
    <3> QED
      BY <3>2 DEF Thinned
  <2>6. events' \in [Threads -> Seq(Event)] /\ \A u \in Threads : Thinned(events'[u], events[u])
    BY <1>2, <2>1, <2>5
  <2> QED
    BY <1>3, <1>4, <2>1, <2>3, <2>4, <2>6, StepGInv
<1> QED
  BY <1>5, <1>6

LEMMA EndsGInv == ASSUME GInv, NEW t \in Threads, ProcessEnds(t) PROVE GInv'
<1>1. StateTypeOK /\ 0 \in 0 .. MaxMr /\ Program(t, <<>>)
  BY EventLoopAssumption, Begins DEF GInv, TypeOK, StateTypeOK
<1>2. events \in [Threads -> Seq(Event)] /\ \A u \in Threads : Thinned(events[u], events[u])
  BY Untouched DEF GInv, TypeOK
<1>3. /\ Proceed(t, <<>>) /\ place' = [place EXCEPT ![t] = "exited"]
      /\ events' = [events EXCEPT ![t] = <<>>] /\ channels' = channels \ {t}
      /\ ctx' = [e \in End |-> IF e[1] = t THEN "freed" ELSE ctx[e]]
      /\ built' = [e \in End |-> IF e[1] = t THEN {} ELSE built[e]]
      /\ num_local' = [e \in End |-> IF e[1] = t THEN 0 ELSE num_local[e]]
      /\ num_remote' = [e \in End |-> IF e[1] = t THEN 0 ELSE num_remote[e]]
      /\ cm' = [e \in End |-> IF e[1] = t THEN "none" ELSE cm[e]]
      /\ net' = net \cup UNION {Farewell(e) : e \in {e \in End : e[1] = t}}
  BY DEF ProcessEnds
<1>4. \A e \in End : \A m \in Farewell(e) : m \in Message /\ Addressed(m)
  <2> SUFFICES ASSUME NEW e \in End, NEW m \in Farewell(e)
               PROVE  m \in Message /\ Addressed(m)
    OBVIOUS
  <2>1. m \in {From(e, "REJ", 0), From(e, "DREQ", 0)}
    BY DEF Farewell
  <2> QED
    BY <1>1, <2>1, Sent
<1>5. \A m \in net' : m \in net \/ (m \in Message /\ Addressed(m))
  BY <1>3, <1>4
<1>6. StateTypeOK'
  BY <1>1, <1>3, <1>5 DEF StateTypeOK
<1>7. \A e \in End : cm'[e] = cm[e] \/ cm'[e] \in CmOf(e[1])
  BY <1>3 DEF CmOf
<1>8. events' \in [Threads -> Seq(Event)] /\ \A u \in Threads : Thinned(events'[u], events[u])
  <2>1. Thinned(<<>>, events[t]) /\ <<>> \in Seq(Event)
    BY <1>2, Emptied
  <2> QED
    BY <1>2, <1>3, <2>1
<1> QED
  BY <1>1, <1>3, <1>5, <1>6, <1>7, <1>8, StepGInv

\* A thread takes up a handler or a call.
LEMMA TakesUp ==
  ASSUME GInv, NEW t \in Threads, NEW steps, NEW copy \in Event,
         Program(t, steps), steps # <<>>, kind' = kind,
         todo' = [todo EXCEPT ![t] = steps], event_copy' = [event_copy EXCEPT ![t] = copy],
         copy.conn \in Clients, t # Server => copy.conn = t
  PROVE  /\ todo' \in [Threads -> Seq(Step)] /\ event_copy' \in [Threads -> Event]
         /\ todo'[t] = steps /\ event_copy'[t] = copy
         /\ \A u \in Threads : u # t => todo'[u] = todo[u] /\ event_copy'[u] = event_copy[u]
         /\ StepsFollow' /\ CopiesRight'
<1>1. todo \in [Threads -> Seq(Step)] /\ event_copy \in [Threads -> Event]
  BY DEF GInv, TypeOK
<1>2. steps \in Seq(Step) /\ Follows(t, Head(steps), Tail(steps))
  BY DEF Program
<1>3. /\ todo' \in [Threads -> Seq(Step)] /\ todo'[t] = steps
      /\ event_copy' \in [Threads -> Event] /\ event_copy'[t] = copy
      /\ \A u \in Threads : u # t => todo'[u] = todo[u] /\ event_copy'[u] = event_copy[u]
  BY <1>1, <1>2
<1>4. StepsFollow'
  <2> SUFFICES ASSUME NEW u \in Threads, todo'[u] # <<>>
               PROVE  Follows(u, Head(todo[u]), Tail(todo[u]))'
    BY DEF StepsFollow
  <2>1. Follows(u, Head(todo'[u]), Tail(todo'[u]))
    BY <1>2, <1>3 DEF GInv, StepsFollow
  <2>2. PICK s, r : s = Head(todo'[u]) /\ r = Tail(todo'[u])
    OBVIOUS
  <2>3. Follows(u, s, r)'
    BY <2>1, <2>2, SameKind
  <2> QED
    BY <2>2, <2>3
<1>5. CopiesRight'
  BY <1>3, EventLoopAssumption DEF GInv, CopiesRight, Threads
<1> QED
  BY <1>3, <1>4, <1>5

LEMMA GetsGInv == ASSUME GInv, NEW t \in Threads, GetEvent(t) PROVE GInv'
<1> DEFINE event == Head(events[t])
<1>1. StateTypeOK /\ events \in [Threads -> Seq(Event)] /\ kind \in [Clients -> Kinds]
  BY DEF GInv, TypeOK, StateTypeOK
<1>2. /\ events[t] # <<>>
      /\ event_copy' = [event_copy EXCEPT ![t] = event]
      /\ todo' = [todo EXCEPT ![t] = HandlerSteps(t, event)]
      /\ events' = [events EXCEPT ![t] = Tail(events[t])]
      /\ UNCHANGED <<kind, place, channels, ctx, built, num_local, num_remote, cm, net>>
  BY DEF GetEvent
<1>3. /\ event \in Event /\ event = events[t][1] /\ 1 \in 1 .. Len(events[t])
      /\ Tail(events[t]) \in Seq(Event)
  BY <1>1, <1>2
<1>4. Expected(t, event)
  BY <1>3 DEF GInv, EventsRight
<1>5. Thinned(Tail(events[t]), events[t])
  <2>1. events[t] \in Seq(Event)
    BY <1>1
  <2> QED
    BY <1>2, <2>1, Dequeued
<1> HIDE DEF event
<1>6. event.conn \in Clients /\ (t # Server => event.conn = t)
  BY <1>3, <1>4, EventLoopAssumption DEF Expected, End, Threads
<1>7. Program(t, HandlerSteps(t, event)) /\ HandlerSteps(t, event) # <<>>
  BY <1>1, <1>3, <1>4, EventLoopAssumption, Begins
<1>8. /\ todo' \in [Threads -> Seq(Step)] /\ event_copy' \in [Threads -> Event]
      /\ StepsFollow' /\ CopiesRight'
  <2> DEFINE steps == HandlerSteps(t, event)
  <2> HIDE DEF steps
  <2>1. /\ Program(t, steps) /\ steps # <<>>
        /\ todo' = [todo EXCEPT ![t] = steps] /\ kind' = kind
        /\ event_copy' = [event_copy EXCEPT ![t] = event]
    BY <1>2, <1>7 DEF steps
  <2> QED
    BY <1>3, <1>6, <2>1, TakesUp
<1>9. events' \in [Threads -> Seq(Event)] /\ \A u \in Threads : Thinned(events'[u], events[u])
  BY <1>1, <1>2, <1>3, <1>5, Untouched
<1>10. TypeOK' /\ MessagesRight'
  BY <1>2, <1>8, <1>9 DEF GInv, TypeOK, MessagesRight, Addressed
<1>11. EventsRight'
  <2> SUFFICES ASSUME NEW u \in Threads, NEW i \in 1 .. Len(events'[u])
               PROVE  Expected(u, events[u][i])'
    BY DEF EventsRight
  <2>0. Thinned(events'[u], events[u])
    BY <1>9
  <2>1. PICK j \in 1 .. Len(events[u]) : events'[u][i] = events[u][j]
    BY <2>0, ThinnedPairs
  <2>2. Expected(u, events[u][j])
    BY DEF GInv, EventsRight
  <2>3. EventsOf(u)' = EventsOf(u)
    BY <1>2, SameKind
  <2> QED
    BY <2>1, <2>2, <2>3 DEF Expected
<1>12. IdsRight'
  <2>1. \A e \in End : CmOf(e[1])' = CmOf(e[1])
    BY <1>2, SameKind
  <2> QED
    BY <1>2, <2>1 DEF GInv, IdsRight
<1> QED
  BY <1>8, <1>10, <1>11, <1>12 DEF GInv

\* What only a call of a client's application changes.
LEMMA CallGInv ==
  ASSUME GInv, NEW c \in Clients, AddConnection(c) \/ EndCall(c) \/ WatchChannel(c)
  PROVE  GInv'
<1>1. c \in Threads /\ c # Server /\ <<c, c>> \in End /\ StateTypeOK
      /\ kind \in [Clients -> Kinds]
  BY EventLoopAssumption DEF Threads, End, GInv, TypeOK, StateTypeOK
<1>2. /\ UNCHANGED <<kind, event_copy, events, net>>
      /\ EventsRight' /\ MessagesRight'
  <2>1. UNCHANGED <<kind, event_copy, events, net>>
    BY DEF AddConnection, EndCall, WatchChannel
  <2>2. \A u : EventsOf(u)' = EventsOf(u)
    BY <2>1, SameKind
  <2>3. EventsRight'
    BY <2>1, <2>2 DEF GInv, EventsRight, Expected
  <2> QED
    BY <2>1, <2>3 DEF GInv, MessagesRight, Addressed
<1>3. IdsRight'
  <2>1. \A e \in End : CmOf(e[1])' = CmOf(e[1])
    BY <1>2, SameKind
  <2>2. "resolving" \in CmOf(c)
    BY <1>1 DEF CmOf
  <2>3. cm' = cm \/ cm' = [cm EXCEPT ![<<c, c>>] = "resolving"]
    BY DEF AddConnection, EndCall, WatchChannel
  <2>4. \A e \in End : cm'[e] \in CmOf(e[1])
    BY <1>1, <2>2, <2>3 DEF GInv, IdsRight, StateTypeOK
  <2> QED
    BY <2>1, <2>4 DEF IdsRight
<1>4. StateTypeOK'
  BY <1>1 DEF AddConnection, EndCall, WatchChannel, StateTypeOK
<1>5. /\ todo' \in [Threads -> Seq(Step)] /\ StepsFollow' /\ CopiesRight'
  <2>1. CASE AddConnection(c) \/ WatchChannel(c)
    <3>1. todo' = todo
      BY <2>1 DEF AddConnection, WatchChannel
    <3>2. \A t, s, r : Follows(t, s, r) => Follows(t, s, r)'
      BY <1>2, SameKind
    <3>3. StepsFollow'
      <4> SUFFICES ASSUME NEW u \in Threads, todo'[u] # <<>>
                   PROVE  Follows(u, Head(todo[u]), Tail(todo[u]))'
        BY DEF StepsFollow
      <4>1. PICK s, r : s = Head(todo[u]) /\ r = Tail(todo[u])
        OBVIOUS
      <4>2. Follows(u, s, r)
        BY <3>1, <4>1 DEF GInv, StepsFollow
      <4> QED
        BY <3>1, <3>2, <4>1, <4>2
    <3> QED
      BY <1>2, <3>1, <3>3 DEF GInv, TypeOK, CopiesRight
  <2>2. CASE EndCall(c)
    <3>1. PICK steps : Program(c, steps) /\ steps # <<>> /\ todo' = [todo EXCEPT ![c] = steps]
      <4>1. CASE kind[c] \in {"receiver", "sender"}
        <5>1. todo' = [todo EXCEPT ![c] = LeaveSteps]
          BY <2>2, <4>1 DEF EndCall
        <5>2. Program(c, LeaveSteps) /\ LeaveSteps # <<>>
          BY <1>1, <4>1, EventLoopAssumption, Begins DEF Multicast
        <5> QED
          BY <5>1, <5>2
      <4>2. CASE kind[c] \notin {"receiver", "sender"}
        <5>1. todo' = [todo EXCEPT ![c] = DisconnectSteps] /\ Disconnects(c)
          BY <1>1, <2>2, <4>2 DEF EndCall, Disconnects
        <5>2. Program(c, DisconnectSteps) /\ DisconnectSteps # <<>>
          BY <1>1, <5>1, EventLoopAssumption, Begins
        <5> QED
          BY <5>1, <5>2
      <4> QED
        BY <4>1, <4>2
    <3>2. event_copy \in [Threads -> Event] /\ event_copy[c].conn = c
      BY DEF GInv, TypeOK, CopiesRight
    <3>3. PICK copy \in Event : copy = event_copy[c]
      BY <1>1, <3>2
    <3>4. event_copy' = [event_copy EXCEPT ![c] = copy]
      BY <1>2, <3>2, <3>3
    <3> QED
      BY <1>1, <1>2, <3>1, <3>2, <3>3, <3>4, TakesUp
  <2> QED
    BY <2>1, <2>2
<1>6. TypeOK'
  BY <1>2, <1>4, <1>5 DEF GInv, TypeOK, StateTypeOK
<1> QED
  BY <1>2, <1>3, <1>5, <1>6 DEF GInv

\* What the CM does: an event more for one process, or none.
LEMMA CmGInv ==
  ASSUME GInv, CmUnchanged, NEW t \in Threads, NEW event \in Event, Expected(t, event),
         events' \in {events, [events EXCEPT ![t] = Append(events[t], event)]},
         \A m \in net' : m \in net \/ (m \in Message /\ Addressed(m)),
         NEW e \in End, NEW next \in CmOf(e[1]), cm' \in {cm, [cm EXCEPT ![e] = next]}
  PROVE  GInv'
<1>1. /\ UNCHANGED <<kind, place, todo, event_copy, channels, ctx, built, num_local, num_remote>>
      /\ events \in [Threads -> Seq(Event)]
  BY DEF CmUnchanged, GInv, TypeOK
<1>2. events[t] \in Seq(Event)
  BY <1>1
<1>3. /\ Append(events[t], event) \in Seq(Event)
      /\ \A i \in 1 .. Len(Append(events[t], event)) :
           Append(events[t], event)[i] = event
           \/ \E j \in 1 .. Len(events[t]) : Append(events[t], event)[i] = events[t][j]
  BY <1>2, Appended
<1>4. events' \in [Threads -> Seq(Event)]
  BY <1>1, <1>3
<1>5. EventsRight'
  <2> SUFFICES ASSUME NEW u \in Threads, NEW i \in 1 .. Len(events'[u])
               PROVE  Expected(u, events[u][i])'
    BY DEF EventsRight
  <2>1. EventsOf(u)' = EventsOf(u)
    BY <1>1, SameKind
  <2>2. \/ u = t /\ events'[u][i] = event
        \/ \E j \in 1 .. Len(events[u]) : events'[u][i] = events[u][j]
    <3>1. CASE events' = events
      BY <3>1
    <3>2. CASE events' = [events EXCEPT ![t] = Append(events[t], event)]
      BY <1>1, <1>3, <3>2
    <3> QED
      BY <3>1, <3>2
  <2>3. Expected(u, events'[u][i])
    BY <2>2 DEF GInv, EventsRight
  <2> QED
    BY <2>1, <2>3 DEF Expected
<1>6. IdsRight'
  <2>1. \A x \in End : CmOf(x[1])' = CmOf(x[1])
    BY <1>1, SameKind
  <2>2. \A x \in End : cm'[x] \in CmOf(x[1])
    BY DEF GInv, TypeOK, IdsRight
  <2> QED
    BY <2>1, <2>2 DEF IdsRight
<1>7. StepsFollow' /\ CopiesRight'
  <2>1. StepsFollow'
    <3> SUFFICES ASSUME NEW u \in Threads, todo'[u] # <<>>
                 PROVE  Follows(u, Head(todo[u]), Tail(todo[u]))'
      BY DEF StepsFollow
    <3>1. PICK s, r : s = Head(todo[u]) /\ r = Tail(todo[u])
      OBVIOUS
    <3>2. Follows(u, s, r)
      BY <1>1, <3>1 DEF GInv, StepsFollow
    <3>3. Follows(u, s, r)'
      BY <1>1, <3>2, SameKind
    <3> QED
      BY <1>1, <3>1, <3>3
  <2> QED
    BY <1>1, <2>1 DEF GInv, CopiesRight
<1>8. cm' \in [End -> {"none", "resolving", "routing", "joining", "idle", "connecting",
                       "requested", "accepted", "failed", "connected",
                       "disconnecting", "closed"}]
  BY DEF CmOf, GInv, TypeOK
<1>9. TypeOK' /\ MessagesRight'
  BY <1>1, <1>4, <1>8 DEF GInv, TypeOK, MessagesRight, Addressed
<1> QED
  BY <1>5, <1>6, <1>7, <1>9 DEF GInv

LEMMA ResolveGInv == ASSUME GInv, NEW c \in Clients, Resolve(c) PROVE GInv'
<1>1. c \in Threads /\ c # Server /\ <<c, c>> \in End /\ 0 \in 0 .. MaxMr
  BY EventLoopAssumption DEF Threads, End
<1>2. PICK type \in {"ADDR_RESOLVED", "ADDR_ERROR", "ROUTE_RESOLVED", "ROUTE_ERROR",
                     "MULTICAST_JOIN", "MULTICAST_ERROR"} :
        /\ events' = [events EXCEPT ![c] =
                        Append(events[c], [type |-> type, conn |-> c, regions |-> 0])]
        /\ type \in {"ROUTE_RESOLVED", "ROUTE_ERROR"} => cm[<<c, c>>] = "routing"
        /\ type \in {"MULTICAST_JOIN", "MULTICAST_ERROR"} => cm[<<c, c>>] = "joining"
  BY DEF Resolve, Enqueue
<1>3. cm' = [cm EXCEPT ![<<c, c>>] = "idle"] /\ net' = net /\ CmUnchanged
  BY DEF Resolve
<1>4. cm[<<c, c>>] \in CmOf(c)
  BY <1>1 DEF GInv, IdsRight
<1>5. PICK event \in Event :
        event = [type |-> type, conn |-> c, regions |-> 0] /\ Expected(c, event)
  <2>1. [type |-> type, conn |-> c, regions |-> 0] \in Event
    BY <1>1 DEF Event, EventType
  <2>2. type \in EventsOf(c)
    BY <1>1, <1>2, <1>4 DEF CmOf, EventsOf
  <2> QED
    BY <1>1, <2>1, <2>2 DEF Expected
<1>6. "idle" \in CmOf(c)
  BY <1>1 DEF CmOf
<1> DEFINE e == <<c, c>>
<1>7. e \in End /\ e[1] = c /\ cm' = [cm EXCEPT ![e] = "idle"]
  BY <1>1, <1>3
<1> HIDE DEF e
<1>8. \A m \in net' : m \in net \/ (m \in Message /\ Addressed(m))
  BY <1>3
<1>9. events' = [events EXCEPT ![c] = Append(events[c], event)]
  BY <1>2, <1>5
<1> QED
  BY <1>1, <1>3, <1>5, <1>6, <1>7, <1>8, <1>9, CmGInv

\* The arrival of a message, as the invariant sees it.
Arrival(t, c) ==
  \E type \in EventsOf(t), n \in 0 .. MaxMr, next \in CmOf(t) :
    /\ events' \in {events, [events EXCEPT ![t] =
                               Append(events[t], [type |-> type, conn |-> c, regions |-> n])]}
    /\ cm' \in {cm, [cm EXCEPT ![<<t, c>>] = next]}

LEMMA ArrivalGInv ==
  ASSUME GInv, CmUnchanged, NEW t \in Threads, NEW c \in Clients, t \in {Server, c},
         Arrival(t, c),
         \A m \in net' : m \in net \/ (m \in Message /\ Addressed(m))
  PROVE  GInv'
<1>1. PICK type \in EventsOf(t), n \in 0 .. MaxMr, next \in CmOf(t) :
        /\ events' \in {events, [events EXCEPT ![t] =
                               Append(events[t], [type |-> type, conn |-> c, regions |-> n])]}
        /\ cm' \in {cm, [cm EXCEPT ![<<t, c>>] = next]}
  BY DEF Arrival
<1>2. PICK e \in End : e = <<t, c>> /\ e[1] = t
  <2>1. <<t, c>> \in Threads \X Clients /\ <<t, c>>[1] = t /\ <<t, c>>[2] = c
    OBVIOUS
  <2>2. <<t, c>> \in End
    BY <2>1 DEF End
  <2> QED
    BY <2>1, <2>2
<1>3. PICK event \in Event :
        event = [type |-> type, conn |-> c, regions |-> n] /\ Expected(t, event)
  <2>1. [type |-> type, conn |-> c, regions |-> n] \in Event
    BY DEF Event, EventType, EventsOf, Threads
  <2> QED
    BY <1>2, <2>1 DEF Expected
<1>4. next \in CmOf(e[1]) /\ cm' \in {cm, [cm EXCEPT ![e] = next]}
  BY <1>1, <1>2
<1>5. events' \in {events, [events EXCEPT ![t] = Append(events[t], event)]}
  BY <1>1, <1>3
<1> QED
  BY <1>2, <1>3, <1>4, <1>5, CmGInv

LEMMA ReceiveGInv == ASSUME GInv, Receive PROVE GInv'
<1>1. PICK m \in net : ReceiveReq(m) \/ ReceiveRep(m) \/ ReceiveOther(m)
  BY DEF Receive
<1> DEFINE e == <<m.to, m.conn>>
<1>2. /\ m.to \in Threads /\ m.conn \in Clients /\ m.to \in {Server, m.conn}
      /\ m.regions \in 0 .. MaxMr /\ 0 \in 0 .. MaxMr
      /\ m.type \in {"REQ", "REP", "RTU", "REJ", "LOST", "DREQ", "DREP"}
  BY EventLoopAssumption DEF GInv, TypeOK, Message, MessagesRight, Addressed
<1>3. /\ e \in End /\ e[1] = m.to /\ e[2] = m.conn /\ cm[e] \in CmOf(m.to)
      /\ <<Server, m.conn>> \in End
  BY <1>2 DEF End, Threads, GInv, IdsRight
<1> HIDE DEF e
<1>4. /\ m.type = "REQ" => m.to = Server
      /\ m.type = "REP" => m.to = m.conn /\ m.to # Server
      /\ CmUnchanged
  BY <1>1, <1>2, EventLoopAssumption
  DEF GInv, MessagesRight, Addressed, ReceiveReq, ReceiveRep, ReceiveOther, Threads
<1>5. \E type : type \in EventsOf(m.to)
  BY DEF EventsOf
<1>6. \E next : next \in CmOf(m.to)
  BY DEF CmOf
<1>7. CASE ReceiveReq(m)
  <2>1. Arrival(m.to, m.conn)
    <3>1. CASE place[Server] = "exited"
      BY <1>2, <1>5, <1>6, <1>7, <3>1 DEF ReceiveReq, Arrival
    <3>2. CASE place[Server] # "exited"
      <4>1. m.to = Server /\ "CONNECT_REQUEST" \in EventsOf(m.to) /\ "requested" \in CmOf(m.to)
        BY <1>4, <1>7 DEF ReceiveReq, EventsOf, CmOf
      <4> QED
        BY <1>2, <1>7, <3>2, <4>1 DEF ReceiveReq, Enqueue, Arrival
    <3> QED
      BY <3>1, <3>2
  <2>2. \A x \in net' : x \in net \/ (x \in Message /\ Addressed(x))
    <3>1. PICK r : r = From(<<Server, m.conn>>, "REJ", 0)
      OBVIOUS
    <3>2. r \in Message /\ Addressed(r)
      BY <1>2, <1>3, <3>1, Sent
    <3> QED
      BY <1>7, <3>1, <3>2 DEF ReceiveReq
  <2> QED
    BY <1>2, <1>4, <2>1, <2>2, ArrivalGInv
<1>8. CASE ReceiveRep(m)
  <2>1. Arrival(m.to, m.conn)
    <3>1. CASE cm[e] = "connecting"
      <4>1. "ESTABLISHED" \in EventsOf(m.to) /\ "connected" \in CmOf(m.to)
        BY <1>3, <3>1 DEF EventsOf, CmOf
      <4> QED
        BY <1>2, <1>8, <3>1, <4>1 DEF ReceiveRep, Enqueue, Arrival, e
    <3>2. CASE cm[e] # "connecting"
      BY <1>2, <1>5, <1>6, <1>8, <3>2 DEF ReceiveRep, Arrival, e
    <3> QED
      BY <3>1, <3>2
  <2>2. \A x \in net' : x \in net \/ (x \in Message /\ Addressed(x))
    <3>1. PICK r, l : r = From(e, "RTU", 0) /\ l = From(e, "LOST", 0)
      OBVIOUS
    <3>2. r \in Message /\ Addressed(r) /\ l \in Message /\ Addressed(l)
      BY <1>2, <1>3, <3>1, Sent
    <3> QED
      BY <1>8, <3>1, <3>2 DEF ReceiveRep, e
  <2> QED
    BY <1>2, <1>4, <2>1, <2>2, ArrivalGInv
<1>9. CASE ReceiveOther(m)
  <2>1. net' = net \ {m}
    BY <1>9 DEF ReceiveOther
  <2>2. /\ cm[e] \in {"accepted", "requested"} => m.to = Server
        /\ cm[e] \in {"connecting", "connected", "disconnecting"} =>
             m.to = Server \/ ~ Multicast(m.to)
    BY <1>3 DEF CmOf
  <2>3. Arrival(m.to, m.conn)
    <3>1. \/ /\ \E type \in {"ESTABLISHED", "REJECTED", "UNREACHABLE", "DISCONNECTED"},
                   next \in {"connected", "closed"} :
                  /\ type = "ESTABLISHED" => cm[e] = "accepted"
                  /\ type = "UNREACHABLE" => cm[e] = "accepted"
                  /\ next = "connected" => type = "ESTABLISHED"
                  /\ cm[e] \in {"connecting", "accepted", "connected", "disconnecting"}
                  /\ cm' = [cm EXCEPT ![e] = next]
                  /\ Enqueue(m.to, type, m.conn, 0)
          \/ cm[e] = "requested" /\ cm' = [cm EXCEPT ![e] = "failed"] /\ events' = events
          \/ cm' = cm /\ events' = events
      BY <1>9 DEF ReceiveOther, e
    <3>2. ASSUME NEW type \in {"ESTABLISHED", "REJECTED", "UNREACHABLE", "DISCONNECTED"},
                 NEW next \in {"connected", "closed"},
                 type = "ESTABLISHED" => cm[e] = "accepted",
                 type = "UNREACHABLE" => cm[e] = "accepted",
                 next = "connected" => type = "ESTABLISHED",
                 cm[e] \in {"connecting", "accepted", "connected", "disconnecting"},
                 cm' = [cm EXCEPT ![e] = next],
                 Enqueue(m.to, type, m.conn, 0)
          PROVE  Arrival(m.to, m.conn)
      <4>1. type \in EventsOf(m.to) /\ next \in CmOf(m.to)
        BY <1>2, <2>2, <3>2 DEF EventsOf, CmOf
      <4>2. events' = [events EXCEPT ![m.to] =
                         Append(events[m.to], [type |-> type, conn |-> m.conn, regions |-> 0])]
        BY <3>2 DEF Enqueue
      <4> QED
        BY <1>2, <3>2, <4>1, <4>2 DEF Arrival, e
    <3>3. CASE cm[e] = "requested" /\ cm' = [cm EXCEPT ![e] = "failed"] /\ events' = events
      <4>1. "failed" \in CmOf(m.to)
        BY <2>2, <3>3 DEF CmOf
      <4> QED
        BY <1>2, <1>5, <3>3, <4>1 DEF Arrival, e
    <3>4. CASE cm' = cm /\ events' = events
      BY <1>2, <1>5, <1>6, <3>4 DEF Arrival
    <3> QED
      BY <3>1, <3>2, <3>3, <3>4
  <2> QED
    BY <1>2, <1>4, <2>1, <2>3, ArrivalGInv
<1> QED
  BY <1>1, <1>7, <1>8, <1>9

LEMMA InitGInv == ASSUME EventLoopAssumption, Init PROVE GInv
<1>1. 0 \in 0 .. MaxMr /\ <<>> \in Seq(Step) /\ <<>> \in Seq(Event) /\ Len(<<>>) = 0
      /\ \A t \in Threads : NoEvent(t) \in Event /\ NoEvent(t).conn = t
  BY DEF EventLoopAssumption, NoEvent, Event, EventType
<1> HIDE DEF NoEvent
<1>2. TypeOK
  BY <1>1 DEF Init, TypeOK, Threads
<1>3. StepsFollow /\ CopiesRight /\ MessagesRight
  BY <1>1 DEF Init, StepsFollow, CopiesRight, MessagesRight, Threads, EventLoopAssumption
<1>4. EventsRight
  <2>1. \A t \in Threads : events[t] = <<>>
    BY DEF Init
  <2> QED
    BY <1>1, <2>1 DEF EventsRight
<1>5. IdsRight
  BY DEF Init, IdsRight, CmOf
<1> QED
  BY <1>2, <1>3, <1>4, <1>5 DEF GInv

LEMMA NextGInv == ASSUME GInv, [Next]_vars PROVE GInv'
<1>1. ASSUME NEW t \in Threads, ThreadStep(t) PROVE GInv'
  BY <1>1, GetsGInv, LocalGInv, ConnectGInv, AcceptGInv, HangUpGInv, DestroyGInv, EndsGInv
  DEF ThreadStep, Exit
<1>2. ASSUME NEW c \in Clients,
             \/ AddConnection(c) \/ EndCall(c) \/ WatchChannel(c)
             \/ ClientDies(c) \/ Resolve(c)
      PROVE  GInv'
  BY <1>2, CallGInv, EndsGInv, ResolveGInv DEF ClientDies, Threads
<1>3. CASE UNCHANGED vars
  <2>1. /\ UNCHANGED <<kind, place, todo, event_copy, events, channels, ctx, built, num_local,
                       num_remote, cm, net>>
        /\ \A t, s, r : Follows(t, s, r) => Follows(t, s, r)'
        /\ \A t : EventsOf(t)' = EventsOf(t) /\ CmOf(t)' = CmOf(t)
    BY <1>3, SameKind DEF vars
  <2>2. StepsFollow'
    <3> SUFFICES ASSUME NEW u \in Threads, todo'[u] # <<>>
                 PROVE  Follows(u, Head(todo[u]), Tail(todo[u]))'
      BY DEF StepsFollow
    <3>1. PICK s, r : s = Head(todo[u]) /\ r = Tail(todo[u])
      OBVIOUS
    <3>2. Follows(u, s, r)
      BY <2>1, <3>1 DEF GInv, StepsFollow
    <3>3. Follows(u, s, r)'
      BY <2>1, <3>2
    <3> QED
      BY <2>1, <3>1, <3>3
  <2>3. TypeOK' /\ MessagesRight' /\ CopiesRight'
    BY <2>1 DEF GInv, TypeOK, MessagesRight, CopiesRight, Addressed
  <2>4. EventsRight' /\ IdsRight'
    BY <2>1 DEF GInv, EventsRight, Expected, IdsRight
  <2> QED
    BY <2>2, <2>3, <2>4 DEF GInv
<1> QED
  BY <1>1, <1>2, <1>3, ReceiveGInv DEF Next

\* The state of every thread, channel, connection and message is of its type:
\* a handler is taken up for an event of a connection of the process, and has
\* its own steps left (rdma_event_loop, connection.c 223-358).
THEOREM TypeOKHolds == Spec => []TypeOK
<1>1. Init => GInv
  BY EventLoopAssumption, InitGInv
<1>2. GInv /\ [Next]_vars => GInv'
  BY NextGInv
<1>3. GInv => TypeOK
  BY DEF GInv
<1> QED
  BY <1>1, <1>2, <1>3, PTL DEF Spec

-----------------------------------------------------------------------------
(***************************************************************************)
(* LInv is inductive: the ends that are lost in a step, the work that      *)
(* remains and the events and ids that it leaves are all about others.     *)
(***************************************************************************)
Exempt == {"init", "destroy_channel", "return", "exit"}

LEMMA StaysLive ==
  ASSUME GInv, LInv, NEW lost,
         \A e \in End \ lost : Live(e) => Live(e)',
         \A e \in End : \/ cm'[e] \in {"none", "requested", "failed"}
                        \/ e \notin lost /\ cm'[e] = cm[e]
                        \/ Live(e)',
         \A u \in Threads : \A i \in 1 .. Len(events'[u]) :
           \/ events'[u][i].type = "CONNECT_REQUEST"
           \/ /\ <<u, events'[u][i].conn>> \in End \ lost
              /\ \E j \in 1 .. Len(events[u]) : events'[u][i] = events[u][j]
           \/ Live(<<u, events[u][i].conn>>)',
         \A u \in Threads :
           \/ todo'[u] = <<>> \/ Head(todo'[u]) \in Exempt
           \/ Here(u) \notin lost /\ todo'[u] = todo[u] /\ event_copy'[u] = event_copy[u]
           \/ Live(Here(u))'
  PROVE  LInv'
<1>1. WorksOnLive'
  <2> SUFFICES ASSUME NEW u \in Threads, todo'[u] # <<>>, Head(todo'[u]) \notin Exempt
               PROVE  Live(Here(u))'
    BY DEF WorksOnLive, Exempt
  <2>1. CASE Here(u) \notin lost /\ todo'[u] = todo[u] /\ event_copy'[u] = event_copy[u]
    <3>1. Here(u)' = Here(u) /\ Here(u) \in End
      BY <2>1, HereIsEnd DEF Here
    <3>2. PICK e \in End : e = Here(u)
      BY <3>1
    <3>3. Live(e)
      BY <2>1, <3>2 DEF LInv, WorksOnLive, Exempt
    <3>4. Live(e)'
      BY <2>1, <3>2, <3>3
    <3> QED
      BY <3>1, <3>2, <3>4 DEF Live
  <2> QED
    BY <2>1
<1>2. ASSUME NEW e \in End, cm'[e] \notin {"none", "requested", "failed"}
      PROVE  Live(e)'
  BY <1>2 DEF LInv, IdsLive
<1>3. ASSUME NEW u \in Threads, NEW i \in 1 .. Len(events'[u]),
             events'[u][i].type # "CONNECT_REQUEST"
      PROVE  Live(<<u, events[u][i].conn>>)'
  <2>1. CASE /\ <<u, events'[u][i].conn>> \in End \ lost
             /\ \E j \in 1 .. Len(events[u]) : events'[u][i] = events[u][j]
    <3>1. PICK j \in 1 .. Len(events[u]) : events'[u][i] = events[u][j]
      BY <2>1
    <3>2. PICK e \in End \ lost : e = <<u, events'[u][i].conn>>
      BY <2>1
    <3>3. Live(e)
      BY <1>3, <3>1, <3>2 DEF LInv, IdsLive
    <3>4. Live(e)'
      BY <3>3
    <3> QED
      BY <3>2, <3>4 DEF Live
  <2> QED
    BY <1>3, <2>1
<1> QED
  BY <1>1, <1>2, <1>3 DEF LInv, IdsLive

\* A step that leaves its end there.
LEMMA StepLInv ==
  ASSUME GInv, LInv, NEW t \in Threads, NEW rest, Program(t, rest), Proceed(t, rest),
         todo[t] # <<>>, events' = events,
         \A e \in End : e # Here(t) => ctx'[e] = ctx[e] /\ cm'[e] = cm[e],
         ctx'[Here(t)] \in {"TERMINATED", "READY"}
  PROVE  LInv'
<1>1. /\ \A u \in Threads : u # t => todo'[u] = todo[u] /\ event_copy'[u] = event_copy[u]
      /\ todo'[t] = rest
      /\ event_copy'[t] = IF rest = <<>> THEN NoEvent(t) ELSE event_copy[t]
  BY Moves
<1> DEFINE lost == {}
<1>2. \A e \in End \ lost : Live(e) => Live(e)'
  BY DEF Live
<1>3. \A e \in End : \/ cm'[e] \in {"none", "requested", "failed"}
                     \/ e \notin lost /\ cm'[e] = cm[e]
                     \/ Live(e)'
  BY DEF Live
<1>4. \A u \in Threads : \A i \in 1 .. Len(events'[u]) :
        \/ events'[u][i].type = "CONNECT_REQUEST"
        \/ /\ <<u, events'[u][i].conn>> \in End \ lost
           /\ \E j \in 1 .. Len(events[u]) : events'[u][i] = events[u][j]
        \/ Live(<<u, events[u][i].conn>>)'
  BY DEF GInv, EventsRight, Expected
<1>5. \A u \in Threads :
        \/ todo'[u] = <<>> \/ Head(todo'[u]) \in Exempt
        \/ Here(u) \notin lost /\ todo'[u] = todo[u] /\ event_copy'[u] = event_copy[u]
        \/ Live(Here(u))'
  <2> SUFFICES ASSUME rest # <<>> PROVE Live(Here(t))'
    BY <1>1
  <2>1. Here(t)' = Here(t)
    BY <1>1 DEF Here
  <2> QED
    BY <2>1 DEF Live
<1> HIDE DEF lost
<1> QED
  BY <1>2, <1>3, <1>4, <1>5, StaysLive

LEMMA WorkLInv ==
  ASSUME GInv, LInv, NEW t \in Threads,
         \/ Prepare(t) \/ Request(t) \/ Connect(t) \/ AcceptConnection(t) \/ Accept(t)
         \/ SetupRcParam(t) \/ CreateAh(t) \/ OnConnectReady(t) \/ Callback(t)
         \/ HangUp(t) \/ LeaveMulticast(t)
  PROVE  LInv'
<1>1. /\ ctx \in [End -> {"none", "TERMINATED", "READY", "freed"}]
      /\ DOMAIN cm = End
  BY DEF GInv, TypeOK
<1>2. PICK s : /\ At(t, s) /\ events' = events
               /\ s \notin {"destroy_channel", "return", "exit"}
               /\ \/ Proceed(t, Tail(todo[t])) \/ Proceed(t, <<"exit">>)
                  \/ /\ s = "callback" /\ Disconnects(t)
                     /\ Proceed(t, DisconnectSteps \o Tail(todo[t]))
               /\ \/ ctx' = ctx /\ s # "init"
                  \/ ctx' = [ctx EXCEPT ![Here(t)] = "TERMINATED"]
                  \/ ctx' = [ctx EXCEPT ![Here(t)] = "READY"]
               /\ \A e \in End : e # Here(t) => cm'[e] = cm[e]
  <2>1. CASE Prepare(t)
    BY <2>1 DEF Prepare
  <2>2. CASE Request(t)
    BY <1>1, <2>2 DEF Request, Does
  <2>3. CASE Connect(t)
    BY <1>1, <2>3 DEF Connect, Does
  <2>4. CASE AcceptConnection(t)
    BY <2>4 DEF AcceptConnection, Does
  <2>5. CASE Accept(t)
    BY <1>1, <2>5 DEF Accept
  <2>6. CASE SetupRcParam(t)
    BY <2>6 DEF SetupRcParam, Does
  <2>7. CASE CreateAh(t)
    BY <2>7 DEF CreateAh, Does
  <2>8. CASE OnConnectReady(t)
    BY <2>8 DEF OnConnectReady, Does
  <2>9. CASE Callback(t)
    BY <2>9 DEF Callback, Disconnects
  <2>10. CASE HangUp(t)
    BY <1>1, <2>10 DEF HangUp, Does
  <2>11. CASE LeaveMulticast(t)
    BY <1>1, <2>11 DEF LeaveMulticast, Does
  <2> QED
    BY <2>1, <2>2, <2>3, <2>4, <2>5, <2>6, <2>7, <2>8, <2>9, <2>10, <2>11
<1>3. /\ todo[t] # <<>> /\ Head(todo[t]) = s /\ Follows(t, s, Tail(todo[t]))
      /\ Program(t, Tail(todo[t])) /\ Here(t) \in End
  BY <1>2, DoesStep DEF At
<1>4. PICK rest : Program(t, rest) /\ Proceed(t, rest)
  <2>1. Program(t, <<"exit">>) /\ (Disconnects(t) => Program(t, DisconnectSteps \o Back(t)))
    BY EventLoopAssumption, Begins DEF GInv, TypeOK
  <2>2. s = "callback" => Tail(todo[t]) = Back(t)
    BY <1>3 DEF Follows
  <2> QED
    BY <1>2, <1>3, <2>1, <2>2
<1>5. s # "init" => Live(Here(t))
  BY <1>2, <1>3 DEF LInv, WorksOnLive
<1>6. /\ ctx'[Here(t)] \in {"TERMINATED", "READY"}
      /\ \A e \in End : e # Here(t) => ctx'[e] = ctx[e] /\ cm'[e] = cm[e]
  BY <1>1, <1>2, <1>3, <1>5 DEF Live
<1> QED
  BY <1>2, <1>3, <1>4, <1>6, StepLInv

\* The steps after the end is gone.
LEMMA AfterLInv ==
  ASSUME GInv, LInv, NEW t \in Threads, DestroyEventChannel(t) \/ LeaveLoop(t)
  PROVE  LInv'
<1>1. PICK s \in {"destroy_channel", "return"} :
        At(t, s) /\ Proceed(t, Tail(todo[t])) /\ UNCHANGED <<events, ctx, cm>>
  BY DEF DestroyEventChannel, LeaveLoop, Does
<1>2. /\ todo[t] # <<>> /\ Follows(t, s, Tail(todo[t])) /\ Program(t, Tail(todo[t]))
  BY <1>1, DoesStep
<1>3. Tail(todo[t]) \in {<<>>, <<"return">>}
  BY <1>1, <1>2 DEF Follows
<1>4. /\ \A u \in Threads : u # t => todo'[u] = todo[u] /\ event_copy'[u] = event_copy[u]
      /\ todo'[t] = Tail(todo[t])
  BY <1>1, <1>2, Moves
<1>5. todo'[t] = <<>> \/ Head(todo'[t]) \in Exempt
  BY <1>3, <1>4, StepNames, OneStep DEF Exempt
<1> DEFINE lost == {}
<1>6. /\ \A e \in End \ lost : Live(e) => Live(e)'
      /\ \A e \in End : e \notin lost /\ cm'[e] = cm[e]
      /\ \A u \in Threads : \A i \in 1 .. Len(events'[u]) :
           /\ <<u, events'[u][i].conn>> \in End \ lost
           /\ \E j \in 1 .. Len(events[u]) : events'[u][i] = events[u][j]
  BY <1>1 DEF Live, GInv, EventsRight, Expected
<1>7. \A u \in Threads :
        \/ todo'[u] = <<>> \/ Head(todo'[u]) \in Exempt
        \/ Here(u) \notin lost /\ todo'[u] = todo[u] /\ event_copy'[u] = event_copy[u]
        \/ Live(Here(u))'
  BY <1>4, <1>5
<1> HIDE DEF lost
<1>8. \A e \in End \ lost : Live(e) => Live(e)'
  BY <1>6
<1>9. \A e \in End : \/ cm'[e] \in {"none", "requested", "failed"}
                     \/ e \notin lost /\ cm'[e] = cm[e]
                     \/ Live(e)'
  BY <1>6
<1>10. \A u \in Threads : \A i \in 1 .. Len(events'[u]) :
         \/ events'[u][i].type = "CONNECT_REQUEST"
         \/ /\ <<u, events'[u][i].conn>> \in End \ lost
            /\ \E j \in 1 .. Len(events[u]) : events'[u][i] = events[u][j]
         \/ Live(<<u, events[u][i].conn>>)'
  BY <1>6
<1> QED
  BY <1>7, <1>8, <1>9, <1>10, StaysLive

\* A handler begins on the end of its event.
LEMMA GetsLInv == ASSUME GInv, LInv, NEW t \in Threads, GetEvent(t) PROVE LInv'
<1> DEFINE event == Head(events[t])
<1>1. /\ events \in [Threads -> Seq(Event)] /\ todo \in [Threads -> Seq(Step)]
      /\ event_copy \in [Threads -> Event] /\ kind \in [Clients -> Kinds]
  BY DEF GInv, TypeOK
<1>2. /\ events[t] # <<>>
      /\ event_copy' = [event_copy EXCEPT ![t] = event]
      /\ todo' = [todo EXCEPT ![t] = HandlerSteps(t, event)]
      /\ events' = [events EXCEPT ![t] = Tail(events[t])]
      /\ UNCHANGED <<ctx, cm>>
  BY DEF GetEvent
<1>3. event = events[t][1] /\ 1 \in 1 .. Len(events[t]) /\ event \in Event
  BY <1>1, <1>2
<1> HIDE DEF event
<1>4. \A u \in Threads : Thinned(events'[u], events[u])
  BY <1>1, <1>2, Dequeued, Untouched
<1>5. event.type = "CONNECT_REQUEST" => Head(HandlerSteps(t, event)) \in Exempt
  BY DEF HandlerSteps, RequestSteps, Exempt
<1>6. event.type # "CONNECT_REQUEST" => Live(<<t, event.conn>>)
  BY <1>3 DEF LInv, IdsLive
<1> DEFINE lost == {}
<1>7. /\ \A e \in End \ lost : Live(e) => Live(e)'
      /\ \A e \in End : e \notin lost /\ cm'[e] = cm[e]
  BY <1>2 DEF Live
<1>8. \A u \in Threads : \A i \in 1 .. Len(events'[u]) :
         /\ <<u, events'[u][i].conn>> \in End \ lost
         /\ \E j \in 1 .. Len(events[u]) : events'[u][i] = events[u][j]
  <2> SUFFICES ASSUME NEW u \in Threads, NEW i \in 1 .. Len(events'[u])
               PROVE  /\ <<u, events'[u][i].conn>> \in End
                      /\ \E j \in 1 .. Len(events[u]) : events'[u][i] = events[u][j]
    OBVIOUS
  <2>1. Thinned(events'[u], events[u])
    BY <1>4
  <2>2. PICK j \in 1 .. Len(events[u]) : events'[u][i] = events[u][j]
    BY <2>1, ThinnedPairs
  <2> QED
    BY <2>2 DEF GInv, EventsRight, Expected
<1>9. \A u \in Threads :
        \/ todo'[u] = <<>> \/ Head(todo'[u]) \in Exempt
        \/ Here(u) \notin lost /\ todo'[u] = todo[u] /\ event_copy'[u] = event_copy[u]
        \/ Live(Here(u))'
  <2>1. \A u \in Threads : u # t => todo'[u] = todo[u] /\ event_copy'[u] = event_copy[u]
    BY <1>1, <1>2
  <2>2. todo'[t] = HandlerSteps(t, event) /\ event_copy'[t] = event
    BY <1>1, <1>2
  <2>3. event.type # "CONNECT_REQUEST" => Live(Here(t))'
    BY <1>2, <1>6, <2>2 DEF Live, Here
  <2> QED
    BY <1>5, <2>1, <2>2, <2>3
<1> HIDE DEF lost
<1>10. \A e \in End \ lost : Live(e) => Live(e)'
  BY <1>7
<1>11. \A e \in End : \/ cm'[e] \in {"none", "requested", "failed"}
                      \/ e \notin lost /\ cm'[e] = cm[e]
                      \/ Live(e)'
  BY <1>7
<1>12. \A u \in Threads : \A i \in 1 .. Len(events'[u]) :
         \/ events'[u][i].type = "CONNECT_REQUEST"
         \/ /\ <<u, events'[u][i].conn>> \in End \ lost
            /\ \E j \in 1 .. Len(events[u]) : events'[u][i] = events[u][j]
         \/ Live(<<u, events[u][i].conn>>)'
  BY <1>8
<1> QED
  BY <1>9, <1>10, <1>11, <1>12, StaysLive

LEMMA DestroyLInv ==
  ASSUME GInv, LInv, NEW t \in Threads, DestroyConnection(t) PROVE LInv'
<1> DEFINE e == Here(t)
<1>1. /\ events \in [Threads -> Seq(Event)] /\ DOMAIN cm = End
      /\ ctx \in [End -> {"none", "TERMINATED", "READY", "freed"}]
  BY DEF GInv, TypeOK
<1>2. At(t, "destroy")
  BY DEF DestroyConnection
<1>3. /\ todo[t] # <<>> /\ Program(t, Tail(todo[t])) /\ Follows(t, "destroy", Tail(todo[t]))
      /\ e \in End /\ e = <<t, e[2]>> /\ e[1] = t
  BY <1>2, DoesStep, HereIsEnd
<1>4. CASE ctx[e] = "READY"
  <2>1. Proceed(t, <<"exit">>) /\ UNCHANGED <<ctx, cm, events>>
    BY <1>4 DEF DestroyConnection
  <2>2. Program(t, <<"exit">>)
    BY EventLoopAssumption, Begins DEF GInv, TypeOK
  <2> QED
    BY <1>3, <1>4, <2>1, <2>2, StepLInv
<1>5. CASE ctx[e] # "READY"
  <2>1. /\ Proceed(t, Tail(todo[t]))
        /\ ctx' = [ctx EXCEPT ![e] = "freed"] /\ cm' = [cm EXCEPT ![e] = "none"]
        /\ events' = [events EXCEPT ![t] = Without(events[t], e[2])]
    BY <1>5 DEF DestroyConnection
  <2>2. /\ todo'[t] = Tail(todo[t])
        /\ \A u \in Threads : u # t => todo'[u] = todo[u] /\ event_copy'[u] = event_copy[u]
    BY <1>3, <2>1, Moves
  <2>3. todo'[t] = <<>> \/ Head(todo'[t]) \in Exempt
    <3>1. /\ Tail(todo[t]) \in {<<>>, <<"return">>, <<"destroy_channel">>,
                                <<"destroy_channel", "return">>}
      BY <1>3 DEF Follows, Closing
    <3>2. /\ Head(<<"return">>) = "return" /\ Head(<<"destroy_channel">>) = "destroy_channel"
          /\ Head(<<"destroy_channel", "return">>) = "destroy_channel"
      OBVIOUS
    <3> QED
      BY <2>2, <3>1, <3>2 DEF Exempt
  <2> DEFINE lost == {e}
  <2> HIDE DEF e
  <2>4. \A x \in End \ lost : Live(x) => Live(x)'
    BY <1>1, <1>3, <2>1 DEF Live
  <2>5. \A x \in End : \/ cm'[x] \in {"none", "requested", "failed"}
                       \/ x \notin lost /\ cm'[x] = cm[x]
                       \/ Live(x)'
    BY <1>1, <1>3, <2>1
  <2>6. \A u \in Threads : \A i \in 1 .. Len(events'[u]) :
          \/ events'[u][i].type = "CONNECT_REQUEST"
          \/ /\ <<u, events'[u][i].conn>> \in End \ lost
             /\ \E j \in 1 .. Len(events[u]) : events'[u][i] = events[u][j]
          \/ Live(<<u, events[u][i].conn>>)'
    <3> SUFFICES ASSUME NEW u \in Threads, NEW i \in 1 .. Len(events'[u])
                 PROVE  /\ <<u, events'[u][i].conn>> \in End
                        /\ <<u, events'[u][i].conn>> # e
                        /\ \E j \in 1 .. Len(events[u]) : events'[u][i] = events[u][j]
      OBVIOUS
    <3>1. CASE u = t
      <4>1. events'[t] = Without(events[t], e[2]) /\ events[t] \in Seq(Event)
        BY <1>1, <2>1
      <4>2. /\ Thinned(Without(events[t], e[2]), events[t])
            /\ \A k \in 1 .. Len(Without(events[t], e[2])) :
                 Without(events[t], e[2])[k].conn # e[2]
        BY <4>1, WithoutThins
      <4>3. Thinned(events'[t], events[t])
        BY <4>1, <4>2
      <4>4. PICK j \in 1 .. Len(events[t]) : events'[t][i] = events[t][j]
        BY <3>1, <4>3, ThinnedPairs
      <4>5. events'[t][i].conn # e[2]
        BY <3>1, <4>1, <4>2
      <4>6. <<t, events'[t][i].conn>> # e
        BY <1>3, <4>5
      <4> QED
        BY <3>1, <4>4, <4>6 DEF GInv, EventsRight, Expected
    <3>2. CASE u # t
      <4>1. events'[u] = events[u]
        BY <1>1, <2>1, <3>2
      <4>2. <<u, events'[u][i].conn>>[1] = u
        OBVIOUS
      <4> QED
        BY <1>3, <3>2, <4>1, <4>2 DEF GInv, EventsRight, Expected
    <3> QED
      BY <3>1, <3>2
  <2>7. \A u \in Threads :
          \/ todo'[u] = <<>> \/ Head(todo'[u]) \in Exempt
          \/ Here(u) \notin lost /\ todo'[u] = todo[u] /\ event_copy'[u] = event_copy[u]
          \/ Live(Here(u))'
    <3>1. \A u : Here(u)[1] = u
      BY DEF Here
    <3>2. \A u \in Threads : u # t => Here(u) \notin lost
      BY <1>3, <3>1
    <3> QED
      BY <2>2, <2>3, <3>2
  <2> HIDE DEF lost
  <2> QED
    BY <2>4, <2>5, <2>6, <2>7, StaysLive
<1> QED
  BY <1>4, <1>5

LEMMA EndsLInv == ASSUME GInv, LInv, NEW t \in Threads, ProcessEnds(t) PROVE LInv'
<1>1. events \in [Threads -> Seq(Event)]
  BY DEF GInv, TypeOK
<1>2. /\ Proceed(t, <<>>) /\ events' = [events EXCEPT ![t] = <<>>]
      /\ ctx' = [e \in End |-> IF e[1] = t THEN "freed" ELSE ctx[e]]
      /\ cm' = [e \in End |-> IF e[1] = t THEN "none" ELSE cm[e]]
  BY DEF ProcessEnds
<1>3. /\ todo'[t] = <<>>
      /\ \A u \in Threads : u # t => todo'[u] = todo[u] /\ event_copy'[u] = event_copy[u]
  <2>1. Program(t, <<>>)
    BY EventLoopAssumption, Begins DEF GInv, TypeOK
  <2> QED
    BY <1>2, <2>1, Moves
<1> DEFINE lost == {e \in End : e[1] = t}
<1>4. \A e \in End \ lost : Live(e) => Live(e)'
  BY <1>2 DEF Live
<1>5. \A e \in End : \/ cm'[e] \in {"none", "requested", "failed"}
                     \/ e \notin lost /\ cm'[e] = cm[e]
                     \/ Live(e)'
  BY <1>2
<1>6. \A u \in Threads : \A i \in 1 .. Len(events'[u]) :
        \/ events'[u][i].type = "CONNECT_REQUEST"
        \/ /\ <<u, events'[u][i].conn>> \in End \ lost
           /\ \E j \in 1 .. Len(events[u]) : events'[u][i] = events[u][j]
        \/ Live(<<u, events[u][i].conn>>)'
  <2> SUFFICES ASSUME NEW u \in Threads, NEW i \in 1 .. Len(events'[u])
               PROVE  /\ <<u, events'[u][i].conn>> \in End \ lost
                      /\ \E j \in 1 .. Len(events[u]) : events'[u][i] = events[u][j]
    OBVIOUS
  <2>1. u # t
    BY <1>1, <1>2
  <2>2. events'[u] = events[u]
    BY <1>1, <1>2, <2>1
  <2>3. <<u, events'[u][i].conn>> \in End
    BY <2>2 DEF GInv, EventsRight, Expected
  <2>4. <<u, events'[u][i].conn>>[1] = u
    OBVIOUS
  <2> QED
    BY <2>1, <2>2, <2>3, <2>4
<1>7. \A u \in Threads :
        \/ todo'[u] = <<>> \/ Head(todo'[u]) \in Exempt
        \/ Here(u) \notin lost /\ todo'[u] = todo[u] /\ event_copy'[u] = event_copy[u]
        \/ Live(Here(u))'
  <2>1. \A u : Here(u)[1] = u
    BY DEF Here
  <2> QED
    BY <1>3, <2>1
<1> HIDE DEF lost
<1> QED
  BY <1>4, <1>5, <1>6, <1>7, StaysLive

\* The steps of the applications and of the CM, which lose no end.
LEMMA NoneLost ==
  ASSUME GInv, LInv, NEW t \in Threads,
         \A e \in End : Live(e) => Live(e)',
         \A e \in End : \/ cm'[e] \in {"none", "requested", "failed"}
                        \/ cm'[e] = cm[e] \/ Live(e)',
         \A u \in Threads : \A i \in 1 .. Len(events'[u]) :
           \/ events'[u][i].type = "CONNECT_REQUEST"
           \/ \E j \in 1 .. Len(events[u]) : events'[u][i] = events[u][j]
           \/ Live(<<u, events[u][i].conn>>)',
         event_copy' = event_copy,
         \A u \in Threads : todo'[u] # todo[u] => Here(u) \in End /\ Live(Here(u))
  PROVE  LInv'
<1> DEFINE lost == {}
<1>1. \A e \in End \ lost : Live(e) => Live(e)'
  OBVIOUS
<1>2. \A e \in End : \/ cm'[e] \in {"none", "requested", "failed"}
                     \/ e \notin lost /\ cm'[e] = cm[e]
                     \/ Live(e)'
  OBVIOUS
<1>3. \A u \in Threads : \A i \in 1 .. Len(events'[u]) :
        \/ events'[u][i].type = "CONNECT_REQUEST"
        \/ /\ <<u, events'[u][i].conn>> \in End \ lost
           /\ \E j \in 1 .. Len(events[u]) : events'[u][i] = events[u][j]
        \/ Live(<<u, events[u][i].conn>>)'
  <2>1. \A u \in Threads : \A j \in 1 .. Len(events[u]) : <<u, events[u][j].conn>> \in End
    BY DEF GInv, EventsRight, Expected
  <2> QED
    BY <2>1
<1>4. \A u \in Threads :
        \/ todo'[u] = <<>> \/ Head(todo'[u]) \in Exempt
        \/ Here(u) \notin lost /\ todo'[u] = todo[u] /\ event_copy'[u] = event_copy[u]
        \/ Live(Here(u))'
  <2> SUFFICES ASSUME NEW u \in Threads, todo'[u] # todo[u] PROVE Live(Here(u))'
    OBVIOUS
  <2>1. PICK e \in End : e = Here(u)
    OBVIOUS
  <2>2. Live(e)
    BY <2>1
  <2>3. Live(e)' /\ Here(u)' = e
    BY <2>1, <2>2 DEF Here
  <2> QED
    BY <2>3 DEF Live
<1> HIDE DEF lost
<1> QED
  BY <1>1, <1>2, <1>3, <1>4, StaysLive

LEMMA CallLInv ==
  ASSUME GInv, LInv, NEW c \in Clients, AddConnection(c) \/ EndCall(c) \/ WatchChannel(c)
  PROVE  LInv'
<1>1. /\ c \in Threads /\ <<c, c>> \in End /\ Here(c) = <<c, c>>
      /\ todo \in [Threads -> Seq(Step)] /\ DOMAIN cm = End
      /\ ctx \in [End -> {"none", "TERMINATED", "READY", "freed"}]
  BY EventLoopAssumption DEF Threads, End, Here, GInv, TypeOK, CopiesRight
<1>2. \A e \in End : Live(e) => Live(e)'
  BY <1>1 DEF AddConnection, EndCall, WatchChannel, Live
<1>3. \A e \in End : \/ cm'[e] \in {"none", "requested", "failed"}
                     \/ cm'[e] = cm[e] \/ Live(e)'
  <2>1. CASE AddConnection(c)
    BY <1>1, <2>1 DEF AddConnection, Live
  <2>2. CASE EndCall(c) \/ WatchChannel(c)
    BY <2>2 DEF EndCall, WatchChannel
  <2> QED
    BY <2>1, <2>2
<1>4. events' = events /\ event_copy' = event_copy
  BY DEF AddConnection, EndCall, WatchChannel
<1>5. \A u \in Threads : todo'[u] # todo[u] => Here(u) \in End /\ Live(Here(u))
  <2>1. CASE AddConnection(c) \/ WatchChannel(c)
    BY <2>1 DEF AddConnection, WatchChannel
  <2>2. CASE EndCall(c)
    <3>1. \A u \in Threads : todo'[u] # todo[u] => u = c
      BY <1>1, <2>2 DEF EndCall
    <3>2. Live(<<c, c>>)
      BY <2>2 DEF EndCall
    <3> QED
      BY <1>1, <3>1, <3>2
  <2> QED
    BY <2>1, <2>2
<1>6. \A u \in Threads : \A i \in 1 .. Len(events'[u]) :
        \/ events'[u][i].type = "CONNECT_REQUEST"
        \/ \E j \in 1 .. Len(events[u]) : events'[u][i] = events[u][j]
        \/ Live(<<u, events[u][i].conn>>)'
  BY <1>4
<1> QED
  BY <1>1, <1>2, <1>3, <1>4, <1>5, <1>6, NoneLost

\* The CM raises an event for an id that is at work, or a request.
LEMMA CmLInv ==
  ASSUME GInv, LInv, CmUnchanged, NEW t \in Threads, NEW c \in Clients,
         NEW type, NEW n, NEW next,
         <<t, c>> \in End,
         events' \in {events, [events EXCEPT ![t] =
                        Append(events[t], [type |-> type, conn |-> c, regions |-> n])]},
         [type |-> type, conn |-> c, regions |-> n] \in Event,
         cm' \in {cm, [cm EXCEPT ![<<t, c>>] = next]},
         \/ Live(<<t, c>>)
         \/ type = "CONNECT_REQUEST" /\ next \in {"requested", "failed"}
         \/ events' = events /\ next \in {"requested", "failed"}
         \/ events' = events /\ cm' = cm
  PROVE  LInv'
<1>1. /\ UNCHANGED <<ctx, todo, event_copy>> /\ DOMAIN cm = End
      /\ events \in [Threads -> Seq(Event)]
  BY DEF CmUnchanged, GInv, TypeOK
<1> DEFINE e == <<t, c>>
<1>2. e \in End /\ cm' \in {cm, [cm EXCEPT ![e] = next]} /\ e = <<t, c>>
      /\ (\/ Live(e)
          \/ type = "CONNECT_REQUEST" /\ next \in {"requested", "failed"}
          \/ events' = events /\ next \in {"requested", "failed"}
          \/ events' = events /\ cm' = cm)
  OBVIOUS
<1> HIDE DEF e
<1>3. \A x \in End : Live(x) => Live(x)'
  BY <1>1 DEF Live
<1>4. \A x \in End : \/ cm'[x] \in {"none", "requested", "failed"}
                     \/ cm'[x] = cm[x] \/ Live(x)'
  BY <1>1, <1>2, <1>3
<1>5. \A u \in Threads : \A i \in 1 .. Len(events'[u]) :
        \/ events'[u][i].type = "CONNECT_REQUEST"
        \/ \E j \in 1 .. Len(events[u]) : events'[u][i] = events[u][j]
        \/ Live(<<u, events[u][i].conn>>)'
  <2> SUFFICES ASSUME NEW u \in Threads, NEW i \in 1 .. Len(events'[u]),
                      ~ \E j \in 1 .. Len(events[u]) : events'[u][i] = events[u][j]
               PROVE  \/ events'[u][i].type = "CONNECT_REQUEST"
                      \/ Live(<<u, events[u][i].conn>>)'
    OBVIOUS
  <2> DEFINE event == [type |-> type, conn |-> c, regions |-> n]
  <2>1. event \in Event /\ event.type = type /\ event.conn = c
    OBVIOUS
  <2>2. events' # events
    OBVIOUS
  <2>3. events' = [events EXCEPT ![t] = Append(events[t], event)]
    BY <2>2
  <2> HIDE DEF event
  <2>4. events[t] \in Seq(Event)
    BY <1>1
  <2>5. /\ \A k \in 1 .. Len(Append(events[t], event)) :
             Append(events[t], event)[k] = event
             \/ \E j \in 1 .. Len(events[t]) : Append(events[t], event)[k] = events[t][j]
    BY <2>1, <2>4, Appended
  <2>6. u = t /\ events'[u][i] = event
    BY <1>1, <2>3, <2>5
  <2>7. CASE type = "CONNECT_REQUEST"
    BY <2>1, <2>6, <2>7
  <2>8. CASE Live(e)
    <3>1. <<u, events'[u][i].conn>> = e /\ Live(e)'
      BY <1>2, <1>3, <2>1, <2>6, <2>8
    <3> QED
      BY <3>1 DEF Live
  <2> QED
    BY <1>2, <2>2, <2>7, <2>8
<1>6. \A u \in Threads : todo'[u] # todo[u] => Here(u) \in End /\ Live(Here(u))
  BY <1>1
<1> QED
  BY <1>1, <1>3, <1>4, <1>5, <1>6, NoneLost

LEMMA ResolveLInv == ASSUME GInv, LInv, NEW c \in Clients, Resolve(c) PROVE LInv'
<1>1. c \in Threads /\ <<c, c>> \in End /\ 0 \in 0 .. MaxMr
  BY EventLoopAssumption DEF Threads, End
<1>2. PICK type \in EventType :
        events' = [events EXCEPT ![c] =
                     Append(events[c], [type |-> type, conn |-> c, regions |-> 0])]
  BY DEF Resolve, Enqueue, EventType
<1>3. /\ cm' = [cm EXCEPT ![<<c, c>>] = "idle"] /\ CmUnchanged
      /\ cm[<<c, c>>] \in {"resolving", "routing", "joining"}
  BY DEF Resolve
<1>4. Live(<<c, c>>)
  BY <1>1, <1>3 DEF LInv, IdsLive
<1>5. [type |-> type, conn |-> c, regions |-> 0] \in Event
  BY <1>1 DEF Event
<1> DEFINE e == <<c, c>>
<1>6. e \in End /\ Live(e) /\ cm' \in {cm, [cm EXCEPT ![e] = "idle"]}
  BY <1>1, <1>3, <1>4
<1> QED
  BY <1>1, <1>2, <1>3, <1>5, <1>6, CmLInv

LEMMA ReceiveLInv == ASSUME GInv, LInv, Receive PROVE LInv'
<1>1. PICK m \in net : ReceiveReq(m) \/ ReceiveRep(m) \/ ReceiveOther(m)
  BY DEF Receive
<1>2. /\ m.to \in Threads /\ m.conn \in Clients /\ Server \in Threads
      /\ m.regions \in 0 .. MaxMr /\ 0 \in 0 .. MaxMr
      /\ <<m.to, m.conn>> \in End /\ <<Server, m.conn>> \in End
  BY EventLoopAssumption DEF GInv, TypeOK, Message, MessagesRight, Addressed, End, Threads
<1>3. CmUnchanged
  BY <1>1 DEF ReceiveReq, ReceiveRep, ReceiveOther
<1> DEFINE Raise(t, type, n) ==
             [events EXCEPT ![t] =
                Append(events[t], [type |-> type, conn |-> m.conn, regions |-> n])]
           Turn(t, next) == [cm EXCEPT ![<<t, m.conn>>] = next]
<1>4. ASSUME NEW t \in {m.to, Server}, NEW type \in EventType, NEW n \in 0 .. MaxMr, NEW next,
             events' \in {events, Raise(t, type, n)}, cm' \in {cm, Turn(t, next)},
             \/ Live(<<t, m.conn>>)
             \/ type = "CONNECT_REQUEST" /\ next \in {"requested", "failed"}
             \/ events' = events /\ next \in {"requested", "failed"}
             \/ events' = events /\ cm' = cm
      PROVE  LInv'
  <2>1. [type |-> type, conn |-> m.conn, regions |-> n] \in Event
    BY <1>2, <1>4 DEF Event, Threads
  <2>2. t \in Threads /\ <<t, m.conn>> \in End
    BY <1>2, <1>4
  <2> QED
    BY <1>2, <1>3, <1>4, <2>1, <2>2, CmLInv
<1> HIDE DEF Raise, Turn
<1>5. {"CONNECT_REQUEST", "ESTABLISHED", "REJECTED", "UNREACHABLE", "DISCONNECTED"}
      \subseteq EventType
  BY DEF EventType
<1>6. CASE events' = events /\ cm' = cm
  BY <1>2, <1>4, <1>5, <1>6
<1>7. CASE ReceiveReq(m) /\ ~ (events' = events /\ cm' = cm)
  <2>1. events' = Raise(Server, "CONNECT_REQUEST", 0) /\ cm' = Turn(Server, "requested")
    BY <1>7 DEF ReceiveReq, Enqueue, Raise, Turn
  <2> QED
    BY <1>2, <1>4, <1>5, <2>1
<1>8. CASE ReceiveRep(m) /\ ~ (events' = events /\ cm' = cm)
  <2>1. /\ events' = Raise(m.to, "ESTABLISHED", m.regions) /\ cm' = Turn(m.to, "connected")
        /\ cm[<<m.to, m.conn>>] = "connecting"
    BY <1>8 DEF ReceiveRep, Enqueue, Raise, Turn
  <2>2. Live(<<m.to, m.conn>>)
    BY <1>2, <2>1 DEF LInv, IdsLive
  <2> QED
    BY <1>2, <1>4, <1>5, <2>1, <2>2
<1>9. CASE ReceiveOther(m) /\ ~ (events' = events /\ cm' = cm)
  <2>1. \/ \E type \in {"ESTABLISHED", "REJECTED", "UNREACHABLE", "DISCONNECTED"},
              next \in {"connected", "closed"} :
             /\ cm[<<m.to, m.conn>>] \in {"connecting", "accepted", "connected", "disconnecting"}
             /\ cm' = Turn(m.to, next) /\ events' = Raise(m.to, type, 0)
        \/ cm' = Turn(m.to, "failed") /\ events' = events
    BY <1>9 DEF ReceiveOther, Enqueue, Raise, Turn
  <2>2. ASSUME NEW type \in {"ESTABLISHED", "REJECTED", "UNREACHABLE", "DISCONNECTED"},
               NEW next \in {"connected", "closed"},
               cm[<<m.to, m.conn>>] \in {"connecting", "accepted", "connected", "disconnecting"},
               cm' = Turn(m.to, next), events' = Raise(m.to, type, 0)
        PROVE  LInv'
    <3>1. Live(<<m.to, m.conn>>)
      BY <1>2, <2>2 DEF LInv, IdsLive
    <3> QED
      BY <1>2, <1>4, <1>5, <2>2, <3>1
  <2>3. CASE cm' = Turn(m.to, "failed") /\ events' = events
    BY <1>2, <1>4, <1>5, <2>3, SMTT(30)
  <2> QED
    BY <2>1, <2>2, <2>3
<1> QED
  BY <1>1, <1>6, <1>7, <1>8, <1>9

LEMMA InitLInv == ASSUME EventLoopAssumption, Init PROVE LInv
<1>1. \A t \in Threads : todo[t] = <<>> /\ events[t] = <<>>
  BY DEF Init
<1>2. \A e \in End : cm[e] = "none"
  BY DEF Init
<1>3. Len(<<>>) = 0
  OBVIOUS
<1> QED
  BY <1>1, <1>2, <1>3 DEF LInv, WorksOnLive, IdsLive

LEMMA NextLInv == ASSUME GInv, LInv, [Next]_vars PROVE LInv'
<1>1. ASSUME NEW t \in Threads, ThreadStep(t) PROVE LInv'
  BY <1>1, GetsLInv, WorkLInv, AfterLInv, DestroyLInv, EndsLInv DEF ThreadStep, Exit
<1>2. ASSUME NEW c \in Clients,
             \/ AddConnection(c) \/ EndCall(c) \/ WatchChannel(c)
             \/ ClientDies(c) \/ Resolve(c)
      PROVE  LInv'
  BY <1>2, CallLInv, EndsLInv, ResolveLInv DEF ClientDies, Threads
<1>3. CASE UNCHANGED vars
  BY <1>3 DEF vars, LInv, WorksOnLive, IdsLive, Live, Here
<1> QED
  BY <1>1, <1>2, <1>3, ReceiveLInv DEF Next

-----------------------------------------------------------------------------
(***************************************************************************)
(* ChannelKept is inductive.                                               *)
(***************************************************************************)
LEMMA LastStays ==
  ASSUME NEW q \in Seq(Step), q # <<>>, Tail(q) # <<>>
  PROVE  Last(Tail(q)) = Last(q)
<1>1. PICK n \in Nat : /\ Len(q) = n + 1 /\ Len(Tail(q)) = n
                      /\ \A i \in 1 .. n : Tail(q)[i] = q[i + 1]
  BY Shorter
<1>2. n # 0
  <2>1. Tail(q) \in Seq(Step)
    BY Shorter
  <2> QED
    BY <1>1, <2>1
<1>3. n \in 1 .. n
  BY <1>2
<1>4. Tail(q)[n] = q[n + 1]
  BY <1>1, <1>3
<1> QED
  BY <1>1, <1>4, Zenon DEF Last

LEMMA LastOfBoth ==
  ASSUME NEW q \in Seq(Step), NEW r \in Seq(Step)
  PROVE  /\ q \o r \in Seq(Step)
         /\ Last(q \o r) = IF r = <<>> THEN Last(q) ELSE Last(r)
         /\ r # <<>> => q \o r # <<>>
<1>1. PICK n \in Nat, k \in Nat : n = Len(q) /\ k = Len(r)
  OBVIOUS
<1>2. /\ q \o r \in Seq(Step) /\ Len(q \o r) = n + k
      /\ \A i \in 1 .. n : (q \o r)[i] = q[i]
      /\ \A i \in n + 1 .. n + k : (q \o r)[i] = r[i - n]
  BY <1>1
<1>3. k = 0 <=> r = <<>>
  BY <1>1
<1>4. CASE k = 0
  <2>1. q \o r = q
    BY <1>3, <1>4
  <2> QED
    BY <1>2, <1>3, <1>4, <2>1
<1>5. CASE k # 0
  <2>1. n + k \in n + 1 .. n + k /\ (n + k) - n = k
    BY <1>5
  <2>2. (q \o r)[n + k] = r[k]
    BY <1>2, <2>1
  <2> QED
    BY <1>1, <1>2, <1>3, <1>5, <2>2 DEF Last
<1> QED
  BY <1>4, <1>5

\* No handler ends with the channel, nor does a callback's disconnect.
LEMMA HandlersEnd ==
  ASSUME EventLoopAssumption, NEW t
  PROVE  /\ \A event : Last(HandlerSteps(t, event)) # "destroy_channel"
         /\ Last(LeaveSteps) # "destroy_channel"
         /\ Last(DisconnectSteps \o <<"return">>) # "destroy_channel"
<1> DEFINE Ends(q) == q \in Seq(Step) /\ q # <<>> /\ Last(q) # "destroy_channel"
<1>1. ASSUME NEW q \in Seq(Step), NEW r, (r = <<>> /\ Ends(q)) \/ Ends(r)
      PROVE  Last(q \o r) # "destroy_channel" /\ (Ends(r) => Ends(q \o r))
  <2>1. r \in Seq(Step)
    BY <1>1, StepNames
  <2> QED
    BY <1>1, <2>1, LastOfBoth
<1>2. /\ Ends(<<"return">>) /\ Ends(<<"exit">>) /\ Ends(<<"resolve_route">>)
      /\ Ends(<<"prepare", "join">>) /\ Ends(<<"prepare", "connect">>)
      /\ Ends(<<"init", "prepare", "accept">>)
      /\ Ends(<<"ready", "callback">>) /\ Ends(<<"create_ah">>) /\ Ends(<<"remote_mr">>)
      /\ Ends(<<"hang_up", "destroy">>) /\ Ends(<<"leave", "destroy">>)
      /\ DisconnectSteps \in Seq(Step)
  BY StepNames DEF DisconnectSteps, Last
<1>3. Ends(<<"ready", "callback">> \o Back(t))
  <2>1. <<"ready", "callback">> \o <<>> = <<"ready", "callback">>
    OBVIOUS
  <2>2. <<"ready", "callback">> \in Seq(Step)
    BY <1>2
  <2>3. Ends(<<"ready", "callback">> \o <<"return">>)
    BY <1>1, <1>2, <2>2
  <2>4. Back(t) = <<>> \/ Back(t) = <<"return">>
    BY BackSteps
  <2> HIDE DEF Ends
  <2> QED
    BY <1>2, <2>1, <2>3, <2>4
<1>4. /\ <<"create_ah">> \in Seq(Step) /\ <<"remote_mr">> \in Seq(Step)
      /\ <<"hang_up", "destroy">> \in Seq(Step)
  BY <1>2
<1>5. /\ Last(<<"create_ah">> \o (<<"ready", "callback">> \o Back(t))) # "destroy_channel"
      /\ Last(<<"remote_mr">> \o (<<"ready", "callback">> \o Back(t))) # "destroy_channel"
      /\ Last(<<"hang_up", "destroy">> \o <<>>) # "destroy_channel"
      /\ Last(<<"hang_up", "destroy">> \o <<"return">>) # "destroy_channel"
      /\ Last(DisconnectSteps \o <<"return">>) # "destroy_channel"
  <2> HIDE DEF Ends
  <2> QED
    BY <1>1, <1>2, <1>3, <1>4
<1>6. /\ Last(<<"exit">>) # "destroy_channel" /\ Last(<<"resolve_route">>) # "destroy_channel"
      /\ Last(<<"prepare", "join">>) # "destroy_channel"
      /\ Last(<<"prepare", "connect">>) # "destroy_channel"
      /\ Last(<<"init", "prepare", "accept">>) # "destroy_channel"
      /\ Last(<<"leave", "destroy">>) # "destroy_channel"
  BY <1>2
<1>7. ASSUME NEW event PROVE Last(HandlerSteps(t, event)) # "destroy_channel"
  <2>1. \/ HandlerSteps(t, event) = <<"prepare", "join">>
        \/ HandlerSteps(t, event) = <<"resolve_route">>
        \/ HandlerSteps(t, event) = <<"prepare", "connect">>
        \/ HandlerSteps(t, event) = <<"init", "prepare", "accept">>
        \/ HandlerSteps(t, event) = <<"exit">>
        \/ HandlerSteps(t, event) = <<"create_ah">> \o (<<"ready", "callback">> \o Back(t))
        \/ HandlerSteps(t, event) = <<"remote_mr">> \o (<<"ready", "callback">> \o Back(t))
        \/ HandlerSteps(t, event) = <<"hang_up", "destroy">> \o <<>>
        \/ HandlerSteps(t, event) = <<"hang_up", "destroy">> \o <<"return">>
    BY DEF HandlerSteps, RequestSteps, OnConnect, Back
  <2> QED
    BY <1>5, <1>6, <2>1, Zenon
<1> QED
  BY <1>5, <1>6, <1>7 DEF LeaveSteps

\* A step that is not the return, by a thread that keeps its channel.
LEMMA KeepsChannel ==
  ASSUME GInv, ChannelKept, NEW t \in Threads, NEW rest, Program(t, rest), Proceed(t, rest),
         todo[t] # <<>>, ~ At(t, "return"), place' = place, channels' = channels,
         rest # <<>> /\ place[t] # "returned" => Last(rest) # "destroy_channel"
  PROVE  ChannelKept'
<1>1. /\ kind' = kind /\ todo'[t] = rest
      /\ \A u \in Threads : u # t => todo'[u] = todo[u]
  BY Moves
<1> SUFFICES ASSUME NEW u \in Threads
             PROVE  (/\ u \notin channels =>
                          \/ place[u] \in {"new", "exited"}
                          \/ /\ kind[u] = "connect" /\ u # Server
                             /\ place[u] = "returned" \/ (place[u] = "loop" /\ At(u, "return"))
                     /\ place[u] = "watched" => u # Server /\ kind[u] = "reactor"
                     /\ place[u] # "returned" /\ todo[u] # <<>> =>
                          Last(todo[u]) # "destroy_channel"
                     /\ place[u] \in {"new", "exited"} => todo[u] = <<>>)'
  BY DEF ChannelKept
<1>2. CASE u # t
  BY <1>1, <1>2 DEF ChannelKept, At, Last
<1>3. CASE u = t
  BY <1>1, <1>3 DEF ChannelKept, Last
<1> QED
  BY <1>2, <1>3

LEMMA WorkKeepsChannel ==
  ASSUME GInv, ChannelKept, LoopsStay, NEW t \in Threads,
         \/ Prepare(t) \/ Request(t) \/ Connect(t) \/ AcceptConnection(t) \/ Accept(t)
         \/ SetupRcParam(t) \/ CreateAh(t) \/ OnConnectReady(t) \/ Callback(t)
         \/ HangUp(t) \/ LeaveMulticast(t) \/ DestroyConnection(t)
  PROVE  ChannelKept'
<1>1. PICK s : /\ At(t, s) /\ place' = place /\ channels' = channels
               /\ s # "return"
               /\ \/ Proceed(t, Tail(todo[t])) \/ Proceed(t, <<"exit">>)
                  \/ /\ s = "callback" /\ Disconnects(t)
                     /\ Proceed(t, DisconnectSteps \o Tail(todo[t]))
  <2>1. CASE Prepare(t) \/ Accept(t) \/ DestroyConnection(t)
    BY <2>1 DEF Prepare, Accept, DestroyConnection
  <2>2. CASE \/ Request(t) \/ Connect(t) \/ AcceptConnection(t) \/ SetupRcParam(t)
             \/ CreateAh(t) \/ OnConnectReady(t) \/ HangUp(t) \/ LeaveMulticast(t)
    BY <2>2 DEF Request, Connect, AcceptConnection, SetupRcParam, CreateAh, OnConnectReady,
                HangUp, LeaveMulticast, Does
  <2>3. CASE Callback(t)
    BY <2>3 DEF Callback, Disconnects
  <2> QED
    BY <2>1, <2>2, <2>3
<1>2. /\ todo[t] # <<>> /\ ~ At(t, "return") /\ Follows(t, s, Tail(todo[t]))
      /\ Program(t, Tail(todo[t]))
  BY <1>1, DoesStep
<1>3. Program(t, <<"exit">>) /\ (Disconnects(t) => Program(t, DisconnectSteps \o Back(t)))
  BY EventLoopAssumption, Begins DEF GInv, TypeOK
<1>4. CASE Proceed(t, Tail(todo[t]))
  <2>1. Tail(todo[t]) # <<>> => Last(Tail(todo[t])) = Last(todo[t])
    BY <1>2, LastStays DEF GInv, TypeOK
  <2>2. Tail(todo[t]) # <<>> /\ place[t] # "returned" => Last(Tail(todo[t])) # "destroy_channel"
    BY <1>2, <2>1 DEF ChannelKept
  <2> QED
    BY <1>1, <1>2, <1>4, <2>2, KeepsChannel
<1>5. CASE Proceed(t, <<"exit">>)
  <2>1. Last(<<"exit">>) # "destroy_channel"
    BY DEF Last
  <2> QED
    BY <1>1, <1>2, <1>3, <1>5, <2>1, KeepsChannel
<1>6. CASE /\ s = "callback" /\ Disconnects(t)
           /\ Proceed(t, DisconnectSteps \o Tail(todo[t]))
  <2>1. Tail(todo[t]) = Back(t)
    BY <1>2, <1>6 DEF Follows
  <2>2. Back(t) = <<"return">>
    BY <1>6, EventLoopAssumption DEF LoopsStay, Disconnects, Back, ExitOnConnect
  <2>3. Last(DisconnectSteps \o Back(t)) # "destroy_channel"
    <3>1. <<"return">> \in Seq(Step) /\ <<"return">> # <<>> /\ Last(<<"return">>) = "return"
      BY StepNames, OneStep DEF Last
    <3> QED
      BY <2>2, <3>1, EventLoopAssumption, HandlersEnd
  <2> QED
    BY <1>1, <1>2, <1>3, <1>6, <2>1, <2>3, KeepsChannel
<1> QED
  BY <1>1, <1>4, <1>5, <1>6

\* The channel of a thread as ChannelKept describes it.
KeptFor(u) ==
  /\ u \notin channels =>
       \/ place[u] \in {"new", "exited"}
       \/ /\ kind[u] = "connect" /\ u # Server
          /\ place[u] = "returned" \/ (place[u] = "loop" /\ At(u, "return"))
  /\ place[u] = "watched" => u # Server /\ kind[u] = "reactor"
  /\ place[u] # "returned" /\ todo[u] # <<>> => Last(todo[u]) # "destroy_channel"
  /\ place[u] \in {"new", "exited"} => todo[u] = <<>>

\* A step of one thread leaves the others where they are.
LEMMA OthersKeep ==
  ASSUME ChannelKept, NEW t \in Threads, kind' = kind,
         \A u \in Threads \ {t} : /\ place'[u] = place[u] /\ todo'[u] = todo[u]
                                  /\ u \in channels' <=> u \in channels,
         KeptFor(t)'
  PROVE  ChannelKept'
<1> SUFFICES ASSUME NEW u \in Threads PROVE KeptFor(u)'
  BY DEF ChannelKept, KeptFor
<1>1. CASE u # t
  BY <1>1 DEF ChannelKept, KeptFor, At, Last
<1> QED
  BY <1>1

LEMMA GetsKeepChannel ==
  ASSUME GInv, ChannelKept, NEW t \in Threads, GetEvent(t) PROVE ChannelKept'
<1>1. /\ todo' = [todo EXCEPT ![t] = HandlerSteps(t, Head(events[t]))]
      /\ place[t] \in {"loop", "watched"} /\ t \in channels
      /\ UNCHANGED <<kind, place, channels>> /\ DOMAIN todo = Threads
  BY DEF GetEvent, GInv, TypeOK
<1>2. Last(todo'[t]) # "destroy_channel"
  BY <1>1, EventLoopAssumption, HandlersEnd
<1>3. KeptFor(t)'
  BY <1>1, <1>2 DEF KeptFor, ChannelKept, Last
<1> QED
  BY <1>1, <1>3, OthersKeep

\* disconnect destroys the channel last, if the loop has returned, or before
\* the return; then the thread has left its loop.
LEMMA AfterKeepsChannel ==
  ASSUME GInv, ChannelKept, LoopsStay, NEW t \in Threads,
         DestroyEventChannel(t) \/ LeaveLoop(t)
  PROVE  ChannelKept'
<1>1. PICK s \in {"destroy_channel", "return"} :
        /\ At(t, s) /\ Proceed(t, Tail(todo[t]))
        /\ s = "destroy_channel" => place' = place /\ channels' = channels \ {t}
        /\ s = "return" => place' = [place EXCEPT ![t] = "returned"] /\ channels' = channels
  BY DEF DestroyEventChannel, LeaveLoop, Does
<1>2. /\ todo[t] # <<>> /\ Head(todo[t]) = s /\ Follows(t, s, Tail(todo[t]))
      /\ Program(t, Tail(todo[t]))
  BY <1>1, DoesStep DEF At
<1>3. /\ kind' = kind /\ todo'[t] = Tail(todo[t])
      /\ \A u \in Threads : u # t => todo'[u] = todo[u]
  BY <1>1, <1>2, Moves
<1>4. todo[t] \in Seq(Step) /\ DOMAIN place = Threads
  BY DEF GInv, TypeOK
<1>5. place[t] \notin {"new", "exited"}
  BY <1>2 DEF ChannelKept
<1>6. CASE s = "return"
  <2>1. todo'[t] = <<>> /\ place'[t] = "returned"
    BY <1>1, <1>2, <1>3, <1>4, <1>6 DEF Follows
  <2>2. t \notin channels => kind[t] = "connect" /\ t # Server
    BY <1>5 DEF ChannelKept
  <2>3. KeptFor(t)'
    BY <1>1, <1>3, <1>6, <2>1, <2>2 DEF KeptFor
  <2> QED
    BY <1>1, <1>3, <1>4, <1>6, <2>3, OthersKeep
<1>7. CASE s = "destroy_channel"
  <2>1. /\ t # Server /\ kind[t] = "connect"
        /\ Tail(todo[t]) \in {<<>>, <<"return">>}
    BY <1>2, <1>7, EventLoopAssumption DEF Follows, Disconnects, LoopsStay
  <2>2. place[t] \in {"loop", "returned"}
    BY <1>5, <2>1 DEF ChannelKept, GInv, TypeOK
  <2>3. CASE Tail(todo[t]) = <<>>
    <3>1. Len(todo[t]) = 1 /\ todo[t][1] = s
      <4>1. Len(todo[t]) \in Nat /\ Len(Tail(todo[t])) = Len(todo[t]) - 1
        BY <1>2, <1>4
      <4>2. Len(<<>>) = 0
        OBVIOUS
      <4>3. Len(Tail(todo[t])) = 0
        BY <2>3, <4>2
      <4>4. todo[t] \in Seq(Step) /\ todo[t] # <<>>
        BY <1>2, <1>4
      <4>5. Len(todo[t]) = 1
        BY <4>1, <4>3
      <4> QED
        BY <1>2, <4>4, <4>5
    <3>2. Last(todo[t]) = "destroy_channel"
      BY <1>7, <3>1 DEF Last
    <3>3. place[t] = "returned"
      BY <1>2, <3>2 DEF ChannelKept
    <3>4. KeptFor(t)'
      BY <1>1, <1>3, <1>7, <2>1, <2>3, <3>3 DEF KeptFor
    <3> QED
      BY <1>1, <1>3, <1>7, <3>4, OthersKeep
  <2>4. CASE Tail(todo[t]) = <<"return">>
    <3>1. todo'[t] # <<>> /\ Head(todo'[t]) = "return" /\ Last(todo'[t]) = "return"
      <4>1. /\ <<"return">> # <<>> /\ Head(<<"return">>) = "return"
            /\ <<"return">>[Len(<<"return">>)] = "return"
        OBVIOUS
      <4>2. todo'[t] = <<"return">>
        BY <1>3, <2>4
      <4> QED
        BY <4>1, <4>2 DEF Last
    <3>2. At(t, "return")' /\ Last(todo[t])' = "return"
      BY <3>1 DEF At, Last
    <3>3. KeptFor(t)'
      BY <1>1, <1>3, <1>7, <2>1, <2>2, <3>2 DEF KeptFor
    <3> QED
      BY <1>1, <1>3, <1>7, <3>3, OthersKeep
  <2> QED
    BY <2>1, <2>3, <2>4
<1> QED
  BY <1>6, <1>7

LEMMA EndsKeepChannel ==
  ASSUME GInv, ChannelKept, NEW t \in Threads, ProcessEnds(t) PROVE ChannelKept'
<1>1. /\ Proceed(t, <<>>) /\ place' = [place EXCEPT ![t] = "exited"]
      /\ channels' = channels \ {t} /\ DOMAIN place = Threads
  BY DEF ProcessEnds, GInv, TypeOK
<1>2. Program(t, <<>>)
  BY EventLoopAssumption, Begins DEF GInv, TypeOK
<1>3. /\ kind' = kind /\ todo'[t] = <<>>
      /\ \A u \in Threads : u # t => todo'[u] = todo[u]
  BY <1>1, <1>2, Moves
<1>4. KeptFor(t)'
  BY <1>1, <1>3 DEF KeptFor
<1> QED
  BY <1>1, <1>3, <1>4, OthersKeep

LEMMA CallKeepsChannel ==
  ASSUME GInv, ChannelKept, NEW c \in Clients,
         AddConnection(c) \/ EndCall(c) \/ WatchChannel(c)
  PROVE  ChannelKept'
<1>1. c \in Threads /\ c # Server /\ DOMAIN place = Threads /\ DOMAIN todo = Threads
  BY EventLoopAssumption DEF Threads, GInv, TypeOK
<1>2. CASE AddConnection(c)
  <2>1. /\ place[c] = "new" /\ place' = [place EXCEPT ![c] = "loop"]
        /\ channels' = channels \cup {c} /\ UNCHANGED <<kind, todo>>
    BY <1>2 DEF AddConnection
  <2>2. KeptFor(c)'
    BY <1>1, <2>1 DEF KeptFor, ChannelKept
  <2> QED
    BY <1>1, <2>1, <2>2, OthersKeep
<1>3. CASE EndCall(c)
  <2>1. /\ place[c] = "returned" /\ \E steps : todo' = [todo EXCEPT ![c] = steps]
        /\ UNCHANGED <<kind, place, channels>>
    BY <1>3 DEF EndCall
  <2>2. KeptFor(c)'
    BY <1>1, <2>1 DEF KeptFor, ChannelKept
  <2> QED
    BY <1>1, <2>1, <2>2, OthersKeep
<1>4. CASE WatchChannel(c)
  <2>1. /\ place[c] = "returned" /\ kind[c] = "reactor" /\ todo[c] = <<>>
        /\ place' = [place EXCEPT ![c] = "watched"] /\ UNCHANGED <<kind, todo, channels>>
    BY <1>4 DEF WatchChannel
  <2>2. KeptFor(c)'
    BY <1>1, <2>1 DEF KeptFor, ChannelKept
  <2> QED
    BY <1>1, <2>1, <2>2, OthersKeep
<1> QED
  BY <1>2, <1>3, <1>4

LEMMA NextKeepsChannel ==
  ASSUME GInv, ChannelKept, LoopsStay, [Next]_vars PROVE ChannelKept'
<1>1. ASSUME NEW t \in Threads, ThreadStep(t) PROVE ChannelKept'
  BY <1>1, GetsKeepChannel, WorkKeepsChannel, AfterKeepsChannel, EndsKeepChannel
  DEF ThreadStep, Exit
<1>2. ASSUME UNCHANGED <<kind, place, todo, channels>> PROVE ChannelKept'
  BY <1>2 DEF ChannelKept, At, Last
<1>3. ASSUME NEW c \in Clients,
             \/ AddConnection(c) \/ EndCall(c) \/ WatchChannel(c)
             \/ ClientDies(c) \/ Resolve(c)
      PROVE  ChannelKept'
  BY <1>2, <1>3, CallKeepsChannel, EndsKeepChannel DEF ClientDies, Threads, Resolve, CmUnchanged
<1>4. CASE Receive
  BY <1>2, <1>4 DEF Receive, ReceiveReq, ReceiveRep, ReceiveOther, CmUnchanged
<1>5. CASE UNCHANGED vars
  BY <1>2, <1>5 DEF vars
<1> QED
  BY <1>1, <1>3, <1>4, <1>5 DEF Next

\* If an application that called disconnect does not go back to its loop, no
\* handler and no call works on a context that was freed, by itself, by the
\* loop's handling of the peer's disconnection or by a callback, and no
\* thread waits on a channel that disconnect destroyed (connection.c 223-358,
\* agent.c 277-323).
THEOREM ThreadsUseLiveHolds == ASSUME LoopsStay PROVE Spec => []ThreadsUseLive
<1> DEFINE Inv == GInv /\ LInv /\ ChannelKept
<1>1. Init => Inv
  <2> SUFFICES ASSUME Init PROVE ChannelKept
    BY EventLoopAssumption, InitGInv, InitLInv
  <2> QED
    BY DEF Init, ChannelKept
<1>2. Inv /\ [Next]_vars => Inv'
  BY NextGInv, NextLInv, NextKeepsChannel
<1>3. Inv => ThreadsUseLive
  <2> SUFFICES ASSUME Inv, NEW t \in Threads
               PROVE  /\ (/\ todo[t] # <<>>
                          /\ Head(todo[t]) \notin {"init", "destroy_channel", "return", "exit"})
                         => Live(Here(t))
                      /\ place[t] \in {"loop", "watched"} /\ todo[t] = <<>> => t \in channels
    BY DEF ThreadsUseLive
  <2> QED
    BY DEF LInv, WorksOnLive, ChannelKept, At
<1> HIDE DEF Inv
<1> QED
  BY <1>1, <1>2, <1>3, PTL DEF Spec

-----------------------------------------------------------------------------
(***************************************************************************)
(* PInv is inductive.  First, what a step leaves alone.                    *)
(***************************************************************************)
Works(t) ==
  \/ Prepare(t) \/ Request(t) \/ Connect(t) \/ AcceptConnection(t) \/ Accept(t)
  \/ SetupRcParam(t) \/ CreateAh(t) \/ OnConnectReady(t) \/ Callback(t)
  \/ HangUp(t) \/ LeaveMulticast(t) \/ DestroyConnection(t)
  \/ DestroyEventChannel(t) \/ LeaveLoop(t)

EndsSame(x) ==
  /\ ctx'[x] = ctx[x] /\ built'[x] = built[x] /\ num_local'[x] = num_local[x]
  /\ num_remote'[x] = num_remote[x] /\ cm'[x] = cm[x]

LEMMA Effects ==
  ASSUME GInv, NEW t \in Threads, Works(t)
  PROVE  /\ kind' = kind /\ todo[t] # <<>>
         /\ \A u \in Threads : u # t => /\ todo'[u] = todo[u] /\ event_copy'[u] = event_copy[u]
                                        /\ events'[u] = events[u] /\ place'[u] = place[u]
         /\ event_copy'[t] \in {event_copy[t], NoEvent(t)}
         /\ Thinned(events'[t], events[t])
         /\ \A x \in End : x # Here(t) => EndsSame(x)
         /\ \A m \in net' : m \in net \/ m.conn = event_copy[t].conn
<1>1. /\ events \in [Threads -> Seq(Event)] /\ DOMAIN place = Threads
      /\ DOMAIN ctx = End /\ DOMAIN built = End /\ DOMAIN num_local = End
      /\ DOMAIN num_remote = End /\ DOMAIN cm = End
  BY DEF GInv, TypeOK
<1>2. PICK s : At(t, s) /\ \E rest : Proceed(t, rest)
  BY DEF Works, Prepare, Request, Connect, AcceptConnection, Accept, SetupRcParam, CreateAh,
         OnConnectReady, Callback, HangUp, LeaveMulticast, DestroyConnection,
         DestroyEventChannel, LeaveLoop, Does
<1>3. Here(t) \in End /\ todo[t] # <<>> /\ Here(t)[2] = event_copy[t].conn
  BY <1>2, DoesStep, HereIsEnd
<1>4. /\ kind' = kind /\ event_copy'[t] \in {event_copy[t], NoEvent(t)}
      /\ \A u \in Threads : u # t => todo'[u] = todo[u] /\ event_copy'[u] = event_copy[u]
  <2>1. DOMAIN todo = Threads /\ DOMAIN event_copy = Threads
    BY DEF GInv, TypeOK
  <2> HIDE DEF NoEvent
  <2> QED
    BY <1>2, <2>1 DEF Proceed
<1>5. \A u \in Threads : u # t => place'[u] = place[u]
  BY <1>1 DEF Works, Prepare, Request, Connect, AcceptConnection, Accept, SetupRcParam, CreateAh,
         OnConnectReady, Callback, HangUp, LeaveMulticast, DestroyConnection,
         DestroyEventChannel, LeaveLoop
<1>6. /\ \A u \in Threads : u # t => events'[u] = events[u]
      /\ Thinned(events'[t], events[t])
  <2>1. events[t] \in Seq(Event)
    BY <1>1
  <2>2. CASE events' = events
    BY <2>1, <2>2, Untouched
  <2>3. CASE \E c : events' = [events EXCEPT ![t] = Without(events[t], c)]
    BY <1>1, <2>1, <2>3, WithoutThins
  <2> QED
    BY <2>2, <2>3
    DEF Works, Prepare, Request, Connect, AcceptConnection, Accept, SetupRcParam, CreateAh,
        OnConnectReady, Callback, HangUp, LeaveMulticast, DestroyConnection,
        DestroyEventChannel, LeaveLoop
<1>7. ASSUME NEW x \in End, x # Here(t) PROVE EndsSame(x)
  <2>1. CASE \/ Prepare(t) \/ Request(t) \/ Connect(t) \/ AcceptConnection(t) \/ Accept(t)
    BY <1>1, <1>3, <1>7, <2>1
    DEF EndsSame, Prepare, Request, Connect, AcceptConnection, Accept
  <2>2. CASE \/ SetupRcParam(t) \/ CreateAh(t) \/ OnConnectReady(t) \/ Callback(t)
             \/ LeaveMulticast(t) \/ DestroyEventChannel(t) \/ LeaveLoop(t)
    BY <1>1, <1>3, <1>7, <2>2
    DEF EndsSame, SetupRcParam, CreateAh, OnConnectReady, Callback, LeaveMulticast,
        DestroyEventChannel, LeaveLoop
  <2>3. CASE HangUp(t) \/ DestroyConnection(t)
    BY <1>1, <1>3, <1>7, <2>3 DEF EndsSame, HangUp, DestroyConnection
  <2> QED
    BY <2>1, <2>2, <2>3 DEF Works
<1>8. ASSUME NEW m \in net' PROVE m \in net \/ m.conn = event_copy[t].conn
  <2>1. \A type, n : From(Here(t), type, n).conn = event_copy[t].conn
    BY <1>3 DEF From
  <2>2. net' = net \/ \E type, n : net' = net \cup {From(Here(t), type, n)}
    <3>1. HangUp(t) => net' = net \/ \E type : net' = net \cup {From(Here(t), type, 0)}
      BY DEF HangUp
    <3> QED
      BY <3>1
      DEF Works, Prepare, Request, Connect, AcceptConnection, Accept, SetupRcParam, CreateAh,
          OnConnectReady, Callback, LeaveMulticast, DestroyConnection,
          DestroyEventChannel, LeaveLoop
  <2> QED
    BY <1>8, <2>1, <2>2
<1> QED
  BY <1>3, <1>4, <1>5, <1>6, <1>7, <1>8

\* A step that is not about a client's connection.
SameView(c) ==
  /\ kind' = kind /\ place'[c] = place[c] /\ todo'[c] = todo[c]
  /\ events'[c] = events[c] /\ event_copy'[c] = event_copy[c]
  /\ EndsSame(Mine(c)) /\ EndsSame(Peer(c))
  /\ \A m \in net' : m \in net \/ m.conn # c
  /\ \/ event_copy'[Server].conn # c
     \/ todo'[Server] = todo[Server] /\ event_copy'[Server] = event_copy[Server]

\* Events of c in the server's channel were there before.
NoNewFor(c) ==
  \A i, k : ServerEvent(i, c)' /\ ServerEvent(k, c)' =>
    \E a, b : /\ ServerEvent(a, c) /\ events'[Server][i] = events[Server][a]
              /\ ServerEvent(b, c) /\ events'[Server][k] = events[Server][b]
              /\ a = b => i = k

LEMMA SameViewKeeps ==
  ASSUME NEW c \in Clients, ClientInv(c), SameView(c), NoNewFor(c) PROVE ClientInv(c)'
<1>1. /\ \A s : At(c, s)' <=> At(c, s)
      /\ Mine(c)' = Mine(c) /\ Peer(c)' = Peer(c)
  BY DEF SameView, At, Mine, Peer
<1>2. /\ Prepared(Mine(c))' = Prepared(Mine(c)) /\ Prepared(Peer(c))' = Prepared(Peer(c))
      /\ Live(Peer(c))' = Live(Peer(c))
      /\ Multicast(c)' = Multicast(c) /\ Early(c)' = Early(c)
      /\ EarlyId(c)' = EarlyId(c) /\ HasEarlyEvent(c)' = HasEarlyEvent(c)
      /\ AtEarlyStep(c)' = AtEarlyStep(c) /\ OnTheWay(c)' = OnTheWay(c)
  BY <1>1 DEF SameView, EndsSame, Prepared, Live, Multicast, Early, EarlyId, HasEarlyEvent,
              AtEarlyStep, OnTheWay
<1>3. NotAsked(c)' = NotAsked(c)
  BY <1>2 DEF SameView, NotAsked
<1>4. /\ \A s : Serves(c, s)' => Serves(c, s)
      /\ event_copy[Server].conn # c => event_copy'[Server].conn # c
  BY DEF SameView, Serves, At
<1>5. /\ \A i : RequestAt(i, c)' => \E a : RequestAt(a, c)
      /\ (\A i : ~ ServerEvent(i, c)) => (\A i : ~ ServerEvent(i, c))'
  BY DEF NoNewFor, RequestAt
<1>6. Unknown(c) => Unknown(c)'
  BY <1>1, <1>2, <1>4, <1>5 DEF Unknown, SameView, EndsSame
<1>7. /\ Requested(c)' => Requested(c)
      /\ NoMessages(c) => NoMessages(c)'
      /\ \A n : Answer(c, n)' => Answer(c, n)
  BY <1>1 DEF SameView, EndsSame, Requested, NoMessages, Answer
<1>8. Asking(c)' => Asking(c)
  BY <1>4, <1>5, <1>7 DEF Asking, RequestHandled
<1>9. MinePrepared(c)' /\ PeerPrepared(c)' /\ OneAfterAnother(c)'
  BY <1>1, <1>2, <1>4 DEF ClientInv, MinePrepared, PeerPrepared, OneAfterAnother, SameView,
                          EndsSame
<1>10. UnknownBefore(c)' /\ NoAnswerYet(c)'
  BY <1>3, <1>6, <1>7, <1>8 DEF ClientInv, UnknownBefore, NoAnswerYet
<1>11. AnswersAgree(c)'
  BY <1>1, <1>2, <1>7 DEF ClientInv, AnswersAgree, SameView, EndsSame
<1>12. RequestOnce(c)'
  <2>1. (Requested(c) => Unknown(c))'
    BY <1>6, <1>7 DEF ClientInv, RequestOnce
  <2>2. ASSUME NEW i, RequestAt(i, c)'
        PROVE  (/\ \A j : ServerEvent(j, c) => i = j
                /\ event_copy[Server].conn # c /\ cm[Peer(c)] \in {"requested", "failed"})'
    <3>1. PICK a : RequestAt(a, c) /\ events'[Server][i] = events[Server][a]
      BY <2>2 DEF NoNewFor, RequestAt
    <3>2. event_copy'[Server].conn # c /\ cm'[Peer(c)] \in {"requested", "failed"}
      BY <1>4, <3>1 DEF ClientInv, RequestOnce, SameView, EndsSame
    <3>3. ASSUME NEW j, ServerEvent(j, c)' PROVE i = j
      <4>1. ServerEvent(i, c)'
        BY <2>2 DEF RequestAt
      <4>2. PICK x, y : /\ ServerEvent(x, c) /\ events'[Server][i] = events[Server][x]
                        /\ ServerEvent(y, c)
                        /\ x = y => i = j
        BY <3>3, <4>1 DEF NoNewFor
      <4>3. RequestAt(x, c)
        BY <2>2, <4>2 DEF RequestAt
      <4> QED
        BY <4>2, <4>3 DEF ClientInv, RequestOnce
    <3> QED
      BY <1>1, <3>2, <3>3
  <2> QED
    BY <2>1, <2>2 DEF RequestOnce
<1> QED
  BY <1>9, <1>10, <1>11, <1>12 DEF ClientInv

\* A step that the server does not see.
ServerSideSame(c) ==
  /\ kind' = kind /\ events'[Server] = events[Server]
  /\ todo'[Server] = todo[Server] /\ event_copy'[Server] = event_copy[Server]
  /\ EndsSame(Peer(c))

LEMMA OwnStepKeeps ==
  ASSUME NEW c \in Clients, ClientInv(c), ServerSideSame(c),
         MinePrepared(c)', OneAfterAnother(c)',
         NotAsked(c)' => NotAsked(c) /\ NoMessages(c)',
         \A n \in 0 .. MaxMr : Answer(c, n)' => Answer(c, n) \/ Multicast(c),
         Requested(c)' => \/ Requested(c)
                          \/ NotAsked(c) /\ \A n \in 0 .. MaxMr : ~ Answer(c, n)'
  PROVE  ClientInv(c)'
<1>1. /\ \A s : Serves(c, s)' <=> Serves(c, s)
      /\ Prepared(Peer(c))' = Prepared(Peer(c)) /\ Live(Peer(c))' = Live(Peer(c))
      /\ num_local[Peer(c)]' = num_local[Peer(c)] /\ cm[Peer(c)]' = cm[Peer(c)]
      /\ Multicast(c)' = Multicast(c)
  BY DEF ServerSideSame, EndsSame, Serves, At, Prepared, Live, Peer, Multicast
<1>2. /\ \A i : ServerEvent(i, c)' <=> ServerEvent(i, c)
      /\ \A i : RequestAt(i, c)' <=> RequestAt(i, c)
  BY DEF ServerSideSame, ServerEvent, RequestAt
<1>3. Unknown(c)' <=> Unknown(c)
  BY <1>1, <1>2 DEF Unknown, ServerSideSame
<1>4. PeerPrepared(c)'
  BY <1>1 DEF ClientInv, PeerPrepared
<1>5. UnknownBefore(c)'
  BY <1>3 DEF ClientInv, UnknownBefore
<1>6. RequestOnce(c)'
  <2>1. (Requested(c) => Unknown(c))'
    BY <1>3 DEF ClientInv, RequestOnce, UnknownBefore
  <2>2. \A i : RequestAt(i, c)' =>
          (/\ \A j : ServerEvent(j, c) => i = j
           /\ event_copy[Server].conn # c /\ cm[Peer(c)] \in {"requested", "failed"})'
    BY <1>1, <1>2 DEF ClientInv, RequestOnce, ServerSideSame
  <2> QED
    BY <2>1, <2>2 DEF RequestOnce
<1>7. Multicast(c) => ~ Asking(c)' /\ ~ Live(Peer(c))'
  <2>1. Multicast(c) => Unknown(c)' /\ NoMessages(c)'
    BY <1>1, <1>5 DEF UnknownBefore, NotAsked
  <2> QED
    BY <2>1 DEF Unknown, NoMessages, Asking, Requested, RequestAt, RequestHandled, Serves
<1>8. NoAnswerYet(c)'
  <2> SUFFICES ASSUME Asking(c)', NEW n \in 0 .. MaxMr, Answer(c, n)' PROVE FALSE
    BY DEF NoAnswerYet
  <2>1. Answer(c, n)
    BY <1>7
  <2>2. Asking(c)
    BY <1>1, <1>2 DEF Asking, RequestHandled
  <2> QED
    BY <2>1, <2>2 DEF ClientInv, NoAnswerYet
<1>9. AnswersAgree(c)'
  <2> SUFFICES ASSUME NEW n \in 0 .. MaxMr, Answer(c, n)', Live(Peer(c))'
               PROVE  Prepared(Peer(c))' /\ num_local[Peer(c)]' = n
    BY DEF AnswersAgree, Peer
  <2> QED
    BY <1>1, <1>7 DEF ClientInv, AnswersAgree
<1> QED
  BY <1>4, <1>5, <1>6, <1>8, <1>9 DEF ClientInv

\* Which step is next.
LEMMA NextStep ==
  ASSUME NEW t, NEW s, NEW rest, Follows(t, s, rest), NEW r, rest # <<>>, Head(rest) = r
  PROVE  /\ r \in {"prepare", "accept", "join", "connect", "ready", "callback", "destroy",
                   "destroy_channel", "return"}
         /\ r = "prepare" => s = "init"
         /\ r \in {"accept", "join", "connect"} => s = "prepare" /\ r = Asks(t)
         /\ r = "ready" => s \in {"remote_mr", "create_ah"}
<1>1. s \in Step /\ Asks(t) \in Step /\ Asks(t) \in {"accept", "join", "connect"}
  BY StepNames DEF Follows, StepsOf, Step, Asks
<1>2. Back(t) \in Seq(Step) /\ Back(t) \in {<<>>, <<"return">>}
  BY BackSteps
<1>3. CASE s = "init"
  <2>1. Head(<<"prepare", "accept">>) = "prepare"
    OBVIOUS
  <2> QED
    BY <1>3, <2>1 DEF Follows
<1>4. CASE s = "prepare"
  <2>1. Head(<<Asks(t)>>) = Asks(t)
    BY <1>1, OneStep
  <2> QED
    BY <1>1, <1>4, <2>1 DEF Follows
<1>5. CASE s \in {"remote_mr", "create_ah"}
  <2>1. rest = <<"ready", "callback">> \o Back(t)
    BY <1>5 DEF Follows
  <2>2. Head(rest) = "ready"
    <3>1. rest = <<"ready">> \o (<<"callback">> \o Back(t))
          /\ <<"callback">> \o Back(t) \in Seq(Step)
      BY <1>2, <2>1, StepNames, TwoStepsBefore, StepBefore
    <3> QED
      BY <3>1, StepNames, StepBefore
  <2> QED
    BY <1>5, <2>2
<1>6. CASE s = "ready"
  <2>1. rest = <<"callback">> \o Back(t)
    BY <1>6 DEF Follows
  <2>2. Head(rest) = "callback"
    BY <1>2, <2>1, StepNames, StepBefore
  <2> QED
    BY <2>2
<1>7. CASE s \in {"callback", "destroy_channel"}
  <2>1. rest = <<"return">>
    BY <1>2, <1>7 DEF Follows
  <2>2. Head(rest) = "return"
    BY <2>1
  <2> QED
    BY <2>2
<1>8. CASE s = "hang_up"
  <2>1. PICK q \in Closing(t) : rest = <<"destroy">> \o q
    BY <1>8 DEF Follows
  <2>2. q \in Seq(Step)
    <3>1. /\ <<"return">> \in Seq(Step) /\ <<"destroy_channel">> \in Seq(Step)
          /\ <<"destroy_channel", "return">> \in Seq(Step) /\ <<>> \in Seq(Step)
      BY StepNames
    <3> QED
      BY <3>1 DEF Closing
  <2>3. Head(rest) = "destroy"
    BY <2>1, <2>2, StepNames, StepBefore
  <2> QED
    BY <2>3
<1>9. CASE s = "leave"
  <2>1. Head(<<"destroy">>) = "destroy"
    OBVIOUS
  <2> QED
    BY <1>9, <2>1 DEF Follows
<1>10. CASE s = "destroy"
  <2>1. rest \in {<<"return">>, <<"destroy_channel">>, <<"destroy_channel", "return">>}
    BY <1>10 DEF Follows, Closing
  <2>2. /\ Head(<<"return">>) = "return" /\ Head(<<"destroy_channel">>) = "destroy_channel"
        /\ Head(<<"destroy_channel", "return">>) = "destroy_channel"
    OBVIOUS
  <2> QED
    BY <2>1, <2>2
<1>11. s \notin {"resolve_route", "connect", "join", "accept", "return", "exit"}
  BY DEF Follows
<1> QED
  BY <1>1, <1>3, <1>4, <1>5, <1>6, <1>7, <1>8, <1>9, <1>10, <1>11 DEF Step

\* A client and its two ends.
LEMMA OwnEnds ==
  ASSUME GInv, NEW c \in Clients
  PROVE  /\ c \in Threads /\ Server \in Threads /\ c # Server
         /\ Mine(c) \in End /\ Peer(c) \in End /\ Mine(c) # Peer(c)
         /\ Mine(c)' = Mine(c) /\ Peer(c)' = Peer(c)
         /\ Here(c) = Mine(c)
         /\ \A i \in 1 .. Len(events[c]) : events[c][i].conn = c
<1>1. c \in Threads /\ Server \in Threads /\ c # Server
  BY EventLoopAssumption DEF Threads
<1>2. Mine(c) \in End /\ Peer(c) \in End
  BY <1>1 DEF End, Mine, Peer
<1>3. Mine(c)[1] = c /\ Peer(c)[1] = Server
  BY DEF Mine, Peer
<1>4. event_copy[c].conn = c
  BY DEF GInv, CopiesRight
<1>5. \A i \in 1 .. Len(events[c]) : events[c][i].conn = c
  <2> SUFFICES ASSUME NEW i \in 1 .. Len(events[c]) PROVE events[c][i].conn = c
    OBVIOUS
  <2>1. <<c, events[c][i].conn>> \in End
    BY <1>1 DEF GInv, EventsRight, Expected
  <2>2. <<c, events[c][i].conn>>[1] = c /\ <<c, events[c][i].conn>>[2] = events[c][i].conn
    OBVIOUS
  <2> QED
    BY <1>1, <2>1, <2>2 DEF End
<1> QED
  BY <1>1, <1>2, <1>3, <1>4, <1>5 DEF Here, Mine, Peer

LEMMA OwnServerSide ==
  ASSUME GInv, NEW c \in Clients, Works(c) PROVE ServerSideSame(c)
BY OwnEnds, Effects DEF ServerSideSame

\* A client at work has no early id or event.
LEMMA AtWork ==
  ASSUME GInv, NEW c \in Clients, ClientInv(c), todo[c] # <<>>
  PROVE  ~ EarlyId(c) /\ ~ HasEarlyEvent(c) /\ place[c] # "new"
BY DEF ClientInv, OneAfterAnother

\* The way to the request: Prepare, Request, Connect.
LEMMA EarlyWork ==
  ASSUME GInv, NEW c \in Clients, ClientInv(c), Prepare(c) \/ Request(c) \/ Connect(c)
  PROVE  ClientInv(c)'
<1>1. /\ c \in Threads /\ Here(c) = Mine(c) /\ Mine(c) \in End /\ Mine(c)' = Mine(c)
      /\ ServerSideSame(c)
  BY OwnEnds, OwnServerSide DEF Works
<1>2. PICK s \in {"prepare", "resolve_route", "join", "connect"} :
        /\ At(c, s) /\ UNCHANGED <<events, place, ctx>>
        /\ \/ Proceed(c, Tail(todo[c]))
           \/ s = "prepare" /\ Proceed(c, <<"exit">>)
  BY DEF Prepare, Request, Connect, Does
<1>3. /\ events[c] = <<>> /\ cm[Mine(c)] = "idle" /\ place[c] = "loop"
      /\ ctx[Mine(c)] = "TERMINATED" /\ Early(c) /\ NotAsked(c)
      /\ Unknown(c) /\ NoMessages(c)
  BY <1>2 DEF ClientInv, OneAfterAnother, AtEarlyStep, Early, NotAsked, UnknownBefore
<1>4. /\ Follows(c, s, Tail(todo[c])) /\ Program(c, Tail(todo[c])) /\ todo[c] # <<>>
      /\ \A r : At(c, r) <=> r = s
  BY <1>1, <1>2, DoesStep
<1>5. Program(c, <<"exit">>)
  BY <1>1, EventLoopAssumption, Begins DEF GInv, TypeOK
<1>6. kind' = kind /\ (todo'[c] = Tail(todo[c]) \/ todo'[c] = <<"exit">>)
  BY <1>1, <1>2, <1>4, <1>5, Moves
<1>7. /\ s # "prepare" => todo'[c] = <<>>
      /\ \A r : At(c, r)' => r = "exit" \/ r = Asks(c)
      /\ Asks(c) \in {"join", "connect"}
  <2>1. Head(<<"exit">>) = "exit"
    OBVIOUS
  <2>2. Asks(c) \in {"join", "connect"}
    BY OwnEnds DEF Asks
  <2>3. s # "prepare" => todo'[c] = <<>>
    <3>1. s # "prepare" => Proceed(c, Tail(todo[c])) /\ Tail(todo[c]) = <<>>
      BY <1>2, <1>4 DEF Follows
    <3> QED
      BY <1>1, <1>4, <3>1, Moves
  <2>4. ASSUME NEW r, At(c, r)' PROVE r = "exit" \/ r = Asks(c)
    <3>1. todo'[c] # <<>> /\ Head(todo'[c]) = r
      BY <2>4 DEF At
    <3>2. CASE todo'[c] = Tail(todo[c])
      <4>1. Tail(todo[c]) # <<>> /\ Head(Tail(todo[c])) = r /\ s = "prepare"
        BY <2>3, <3>1, <3>2
      <4>2. Tail(todo[c]) = <<Asks(c)>>
        BY <1>4, <4>1 DEF Follows
      <4>3. Head(<<Asks(c)>>) = Asks(c)
        OBVIOUS
      <4> QED
        BY <4>1, <4>2, <4>3
    <3> QED
      BY <1>6, <2>1, <3>1, <3>2
  <2> QED
    BY <2>2, <2>3, <2>4
<1>8. /\ \/ s = "prepare" /\ cm' = cm
         \/ s = "resolve_route" /\ cm' = [cm EXCEPT ![Mine(c)] = "routing"]
         \/ s = "join" /\ cm' = [cm EXCEPT ![Mine(c)] = "joining"]
         \/ s = "connect" /\ cm' = [cm EXCEPT ![Mine(c)] = "connecting"]
      /\ DOMAIN cm = End
  <2>1. CASE Prepare(c)
    BY <1>4, <2>1 DEF Prepare, GInv, TypeOK
  <2>2. CASE Request(c)
    BY <1>1, <1>4, <2>2 DEF Request, Does, GInv, TypeOK
  <2>3. CASE Connect(c)
    BY <1>1, <1>4, <2>3 DEF Connect, Does, GInv, TypeOK
  <2> QED
    BY <2>1, <2>2, <2>3
<1>9. /\ s # "connect" => net' = net
      /\ s = "connect" => net' = net \cup {From(Mine(c), "REQ", 0)}
  BY <1>1, <1>2, <1>4 DEF Prepare, Request, Connect, Does
<1>10. Len(<<>>) = 0
  OBVIOUS
<1>11. MinePrepared(c)'
  <2>1. s \in {"join", "connect"} => Prepared(Mine(c)) /\ built' = built
    <3>1. s \in {"join", "connect"} => OnTheWay(c)
      BY <1>2 DEF OnTheWay
    <3>2. s # "prepare" => built' = built
      BY <1>4 DEF Prepare, Request, Connect, Does
    <3> QED
      BY <3>1, <3>2 DEF ClientInv, MinePrepared
  <2>2. s = "prepare" => \/ Prepared(Mine(c))'
                         \/ todo'[c] = <<"exit">>
    <3>1. DOMAIN built = End
      BY DEF GInv, TypeOK
    <3>2. Prepare(c) => \/ built' = [built EXCEPT ![Mine(c)] = {"qp", "mr"}]
                        \/ Proceed(c, <<"exit">>)
      BY <1>1 DEF Prepare
    <3>3. Proceed(c, <<"exit">>) => todo'[c] = <<"exit">>
      BY <1>1, <1>4, <1>5, Moves
    <3>4. s = "prepare" => Prepare(c)
      BY <1>4 DEF Request, Connect, Does
    <3> QED
      BY <1>1, <3>1, <3>2, <3>3, <3>4 DEF Prepared
  <2>3. OnTheWay(c)' => Prepared(Mine(c))'
    <3>1. CASE s = "prepare"
      <4>1. cm'[Mine(c)] = "idle"
        BY <1>1, <1>3, <1>8, <3>1
      <4>2. todo'[c] = <<"exit">> => ~ OnTheWay(c)'
        <5>1. Head(<<"exit">>) = "exit"
          OBVIOUS
        <5> QED
          BY <1>1, <1>2, <1>3, <1>10, <4>1, <5>1 DEF OnTheWay, At
      <4> QED
        BY <2>2, <3>1, <4>2
    <3>2. CASE s = "resolve_route"
      <4>1. ~ OnTheWay(c)'
        BY <1>1, <1>2, <1>3, <1>7, <1>8, <1>10, <3>2 DEF OnTheWay, At
      <4> QED
        BY <4>1
    <3>3. CASE s \in {"join", "connect"}
      BY <1>1, <2>1, <3>3 DEF Prepared
    <3> QED
      BY <3>1, <3>2, <3>3
  <2> QED
    BY <1>1, <1>2, <1>3, <1>7, <2>3 DEF MinePrepared
<1>12. OneAfterAnother(c)'
  <2>1. EarlyId(c)' => todo'[c] = <<>>
    BY <1>1, <1>3, <1>7, <1>8 DEF EarlyId
  <2>2. AtEarlyStep(c)' => s = "prepare"
    BY <1>7 DEF AtEarlyStep, At
  <2>3. s = "prepare" => cm'[Mine(c)] = "idle"
    BY <1>3, <1>8
  <2> QED
    BY <1>1, <1>2, <1>3, <1>10, <2>1, <2>2, <2>3
    DEF OneAfterAnother, EarlyId, HasEarlyEvent, AtEarlyStep, Early
<1>13. NotAsked(c)' => NotAsked(c) /\ NoMessages(c)'
  <2>1. CASE s = "connect"
    <3>1. ~ Multicast(c)' /\ ~ Early(c)' /\ place'[c] # "new"
      <4>1. ~ Multicast(c)
        BY <1>4, <2>1, OwnEnds DEF Follows, StepsOf
      <4>2. cm'[Mine(c)] \in {"idle", "connecting"}
        BY <1>1, <1>3, <1>8, <2>1
      <4>3. ~ Early(c)'
        BY <1>1, <1>2, <1>3, <1>7, <1>10, <2>1, <4>2
        DEF Early, EarlyId, HasEarlyEvent, AtEarlyStep, At
      <4> QED
        BY <1>2, <1>3, <1>6, <4>1, <4>3 DEF Multicast
    <3> QED
      BY <3>1 DEF NotAsked
  <2>2. CASE s # "connect"
    BY <1>3, <1>9, <2>2 DEF NoMessages
  <2> QED
    BY <2>1, <2>2
<1>14. \A n \in 0 .. MaxMr : ~ Answer(c, n)'
  <2>1. \A m \in net' : m.conn = c => m.type # "REP"
    BY <1>3, <1>9 DEF NoMessages, From
  <2>2. ~ At(c, "remote_mr")' /\ ~ At(c, "ready")'
    BY <1>7
  <2> QED
    BY <1>1, <1>2, <1>3, <1>10, <2>1, <2>2 DEF Answer
<1> QED
  BY <1>1, <1>3, <1>11, <1>12, <1>13, <1>14, OwnStepKeeps

\* The way to READY: SetupRcParam, CreateAh, OnConnectReady, Callback.
LEMMA ReadyWork ==
  ASSUME GInv, NEW c \in Clients, ClientInv(c),
         SetupRcParam(c) \/ CreateAh(c) \/ OnConnectReady(c) \/ Callback(c)
  PROVE  ClientInv(c)'
<1>1. /\ c \in Threads /\ Here(c) = Mine(c) /\ Mine(c) \in End /\ Mine(c)' = Mine(c)
      /\ ServerSideSame(c) /\ c # Server
  BY OwnEnds, OwnServerSide DEF Works
<1>2. PICK s \in {"remote_mr", "create_ah", "ready", "callback"} :
        /\ At(c, s) /\ UNCHANGED <<events, place, cm, net>>
        /\ \/ Proceed(c, Tail(todo[c]))
           \/ /\ s = "callback" /\ Disconnects(c)
              /\ Proceed(c, DisconnectSteps \o Tail(todo[c]))
  BY DEF SetupRcParam, CreateAh, OnConnectReady, Callback, Does, Disconnects
<1>3. /\ Follows(c, s, Tail(todo[c])) /\ Program(c, Tail(todo[c])) /\ todo[c] # <<>>
      /\ \A r : At(c, r) <=> r = s
  BY <1>1, <1>2, DoesStep
<1>4. /\ ~ EarlyId(c) /\ ~ HasEarlyEvent(c) /\ place[c] # "new" /\ ~ AtEarlyStep(c)
  BY <1>2, <1>3, AtWork DEF AtEarlyStep
<1>5. /\ kind' = kind
      /\ \A r : At(c, r)' => /\ r \in {"ready", "callback", "hang_up", "return"}
                             /\ r = "ready" => s \in {"remote_mr", "create_ah"}
  <2>1. CASE Proceed(c, Tail(todo[c]))
    <3>1. kind' = kind /\ todo'[c] = Tail(todo[c])
      BY <1>1, <1>3, <2>1, Moves
    <3>2. ASSUME NEW r, At(c, r)'
          PROVE  /\ r \in {"ready", "callback", "hang_up", "return"}
                 /\ r = "ready" => s \in {"remote_mr", "create_ah"}
      <4>1. Tail(todo[c]) # <<>> /\ Head(Tail(todo[c])) = r
        BY <3>1, <3>2 DEF At
      <4>2. /\ r \in {"ready", "callback", "destroy", "destroy_channel", "return"}
            /\ r = "ready" => s \in {"remote_mr", "create_ah"}
        <5>1. PICK rest : rest = Tail(todo[c])
          OBVIOUS
        <5>2. Follows(c, s, rest) /\ rest # <<>> /\ Head(rest) = r
          BY <1>3, <4>1, <5>1
        <5>3. /\ r \in {"prepare", "accept", "join", "connect", "ready", "callback", "destroy",
                        "destroy_channel", "return"}
              /\ r = "prepare" => s = "init"
              /\ r \in {"accept", "join", "connect"} => s = "prepare"
              /\ r = "ready" => s \in {"remote_mr", "create_ah"}
          BY <5>2, NextStep
        <5> QED
          BY <1>2, <5>3
      <4>3. r \notin {"destroy", "destroy_channel"}
        <5>1. Back(c) \in {<<>>, <<"return">>} /\ Back(c) \in Seq(Step)
          BY BackSteps
        <5>2. s = "callback" => r = "return"
          <6>1. Head(<<"return">>) = "return"
            OBVIOUS
          <6> QED
            BY <1>3, <4>1, <5>1, <6>1 DEF Follows
        <5>3. s = "ready" => r = "callback"
          BY <1>3, <4>1, <5>1, StepNames, StepBefore DEF Follows
        <5>4. s \in {"remote_mr", "create_ah"} => r = "ready"
          <6>1. /\ <<"ready", "callback">> \o Back(c) = <<"ready">> \o (<<"callback">> \o Back(c))
                /\ <<"callback">> \o Back(c) \in Seq(Step)
            BY <5>1, StepNames, TwoStepsBefore, StepBefore
          <6>2. Head(<<"ready", "callback">> \o Back(c)) = "ready"
            BY <6>1, StepNames, StepBefore
          <6> QED
            BY <1>3, <4>1, <6>2 DEF Follows
        <5> QED
          BY <1>2, <5>2, <5>3, <5>4
      <4> QED
        BY <4>2, <4>3
    <3> QED
      BY <3>1, <3>2
  <2>2. CASE /\ s = "callback" /\ Disconnects(c)
             /\ Proceed(c, DisconnectSteps \o Tail(todo[c]))
    <3>1. Tail(todo[c]) = Back(c)
      BY <1>3, <2>2 DEF Follows
    <3>2. Program(c, DisconnectSteps \o Back(c))
      BY <1>1, <2>2, EventLoopAssumption, Begins DEF GInv, TypeOK
    <3>3. kind' = kind /\ todo'[c] = DisconnectSteps \o Back(c)
      BY <1>1, <1>3, <2>2, <3>1, <3>2, Moves
    <3>4. Head(DisconnectSteps \o Back(c)) = "hang_up"
      <4>1. Back(c) = <<>> \/ Back(c) = <<"return">>
        BY BackSteps
      <4>2. /\ Head(<<"hang_up", "destroy", "destroy_channel">> \o <<>>) = "hang_up"
            /\ Head(<<"hang_up", "destroy", "destroy_channel">> \o <<"return">>) = "hang_up"
        OBVIOUS
      <4> QED
        BY <4>1, <4>2 DEF DisconnectSteps
    <3> QED
      BY <3>3, <3>4 DEF At
  <2> QED
    BY <1>2, <2>1, <2>2
<1> DEFINE Raised == s = "ready" /\ ctx'[Mine(c)] = "READY"
           Learned == s = "remote_mr" /\ num_remote'[Mine(c)] = event_copy[c].regions
           Handled == s = "create_ah" /\ kind[c] = "sender"
<1>6. /\ ctx'[Mine(c)] = ctx[Mine(c)] \/ Raised
      /\ built[Mine(c)] \subseteq built'[Mine(c)]
      /\ Handled => "ah" \in built'[Mine(c)]
      /\ num_remote'[Mine(c)] = num_remote[Mine(c)] \/ Learned
  <2>1. DOMAIN ctx = End /\ DOMAIN built = End /\ DOMAIN num_remote = End
    BY DEF GInv, TypeOK
  <2>2. CASE SetupRcParam(c)
    <3>1. /\ At(c, "remote_mr") /\ ctx' = ctx /\ built' = built
          /\ num_remote' = [num_remote EXCEPT ![Mine(c)] = event_copy[c].regions]
      BY <1>1, <2>2 DEF SetupRcParam, Does
    <3>2. s = "remote_mr"
      BY <1>3, <3>1
    <3>3. num_remote'[Mine(c)] = event_copy[c].regions
      BY <1>1, <2>1, <3>1
    <3>4. Learned /\ ~ Handled
      BY <3>2, <3>3
    <3> QED
      BY <3>1, <3>4
  <2>3. CASE CreateAh(c)
    <3>1. /\ At(c, "create_ah") /\ ctx' = ctx /\ num_remote' = num_remote
          /\ built' = IF kind[c] = "sender"
                      THEN [built EXCEPT ![Mine(c)] = built[Mine(c)] \cup {"ah"}] ELSE built
      BY <1>1, <2>3 DEF CreateAh, Does
    <3>2. built[Mine(c)] \subseteq built'[Mine(c)]
      BY <1>1, <2>1, <3>1
    <3>3. kind[c] = "sender" => "ah" \in built'[Mine(c)]
      BY <1>1, <2>1, <3>1
    <3> QED
      BY <3>1, <3>2, <3>3
  <2>4. CASE OnConnectReady(c)
    <3>1. /\ At(c, "ready") /\ ctx' = [ctx EXCEPT ![Mine(c)] = "READY"]
          /\ UNCHANGED <<built, num_remote>>
      BY <1>1, <2>4 DEF OnConnectReady, Does
    <3>2. s = "ready"
      BY <1>3, <3>1
    <3>3. ctx'[Mine(c)] = "READY"
      BY <1>1, <2>1, <3>1
    <3>4. Raised /\ ~ Handled
      BY <3>2, <3>3
    <3> QED
      BY <3>1, <3>4
  <2>5. CASE Callback(c)
    <3>1. At(c, "callback") /\ UNCHANGED <<ctx, built, num_remote>>
      BY <2>5 DEF Callback
    <3>2. s = "callback"
      BY <1>3, <3>1
    <3>3. ~ Handled
      BY <3>2
    <3> QED
      BY <3>1, <3>3
  <2> QED
    BY <2>2, <2>3, <2>4, <2>5
<1>7. ~ EarlyId(c)' /\ ~ HasEarlyEvent(c)' /\ ~ AtEarlyStep(c)' /\ place'[c] # "new"
  BY <1>1, <1>2, <1>4, <1>5 DEF EarlyId, HasEarlyEvent, AtEarlyStep
<1>8. MinePrepared(c)'
  <2>1. OnTheWay(c)' => OnTheWay(c)
    BY <1>1, <1>2, <1>5, <1>6 DEF OnTheWay
  <2>2. Prepared(Mine(c)) => Prepared(Mine(c))'
    BY <1>1, <1>6 DEF Prepared
  <2>3. ASSUME kind'[c] = "sender", At(c, "ready")' \/ ctx'[Mine(c)] = "READY"
        PROVE  "ah" \in built'[Mine(c)]
    <3>1. CASE At(c, "ready")'
      <4>1. s = "create_ah"
        BY <1>1, <1>3, <1>5, <2>3, <3>1 DEF Follows, StepsOf, Multicast
      <4> QED
        BY <1>5, <1>6, <2>3, <4>1
    <3>2. CASE ctx'[Mine(c)] = "READY"
      <4>1. At(c, "ready") \/ ctx[Mine(c)] = "READY"
        BY <1>2, <1>6, <3>2
      <4> QED
        BY <1>5, <1>6, <2>3, <4>1 DEF ClientInv, MinePrepared
    <3> QED
      BY <2>3, <3>1, <3>2
  <2> QED
    BY <1>1, <2>1, <2>2, <2>3 DEF ClientInv, MinePrepared
<1>9. OneAfterAnother(c)'
  BY <1>7 DEF OneAfterAnother, Early
<1>10. NotAsked(c)' => NotAsked(c) /\ NoMessages(c)'
  BY <1>2, <1>5, <1>7 DEF NotAsked, Early, Multicast, ClientInv, UnknownBefore, NoMessages
<1>11. ASSUME NEW n \in 0 .. MaxMr, Answer(c, n)' PROVE Answer(c, n) \/ Multicast(c)
  <2>1. CASE s = "create_ah"
    BY <1>1, <1>3, <2>1 DEF Follows, StepsOf
  <2>2. CASE s # "create_ah"
    <3>1. CASE (At(c, "ready")' \/ ctx'[Mine(c)] = "READY") /\ num_remote'[Mine(c)] = n
      <4>1. CASE Learned
        BY <1>2, <3>1, <4>1 DEF Answer
      <4>2. CASE num_remote'[Mine(c)] = num_remote[Mine(c)] /\ s # "remote_mr"
        <5>1. At(c, "ready") \/ ctx[Mine(c)] = "READY"
          BY <1>2, <1>5, <1>6, <2>2, <3>1, <4>2
        <5> QED
          BY <3>1, <4>2, <5>1 DEF Answer
      <4>3. CASE s = "remote_mr" /\ ~ Learned
        <5>1. SetupRcParam(c)
          BY <1>3, <4>3 DEF CreateAh, OnConnectReady, Callback, Does
        <5>2. num_remote' = [num_remote EXCEPT ![Mine(c)] = event_copy[c].regions]
          BY <1>1, <5>1 DEF SetupRcParam
        <5>3. DOMAIN num_remote = End
          BY DEF GInv, TypeOK
        <5> QED
          BY <1>1, <4>3, <5>2, <5>3
      <4> QED
        BY <1>6, <4>1, <4>2, <4>3
    <3>2. CASE ~ ((At(c, "ready")' \/ ctx'[Mine(c)] = "READY") /\ num_remote'[Mine(c)] = n)
      <4>1. ~ At(c, "remote_mr")'
        BY <1>5
      <4> QED
        BY <1>1, <1>2, <1>11, <3>2, <4>1 DEF Answer
    <3> QED
      BY <3>1, <3>2
  <2> QED
    BY <2>1, <2>2
<1>12. Requested(c)' => Requested(c)
  BY <1>2 DEF Requested
<1> QED
  BY <1>1, <1>8, <1>9, <1>10, <1>11, <1>12, OwnStepKeeps

\* The way out: HangUp, LeaveMulticast, DestroyConnection and what follows.
LEMMA ClosingWork ==
  ASSUME GInv, NEW c \in Clients, ClientInv(c),
         \/ HangUp(c) \/ LeaveMulticast(c) \/ DestroyConnection(c)
         \/ DestroyEventChannel(c) \/ LeaveLoop(c)
  PROVE  ClientInv(c)'
<1>1. /\ c \in Threads /\ Here(c) = Mine(c) /\ Mine(c) \in End /\ Mine(c)' = Mine(c)
      /\ ServerSideSame(c) /\ c # Server /\ Mine(c)[2] = c
      /\ DOMAIN ctx = End /\ DOMAIN cm = End /\ DOMAIN place = Threads
      /\ events \in [Threads -> Seq(Event)]
  BY OwnEnds, OwnServerSide DEF Works, GInv, TypeOK, Mine
<1>2. PICK s \in {"hang_up", "leave", "destroy", "destroy_channel", "return"} :
        /\ At(c, s)
        /\ \/ Proceed(c, Tail(todo[c]))
           \/ s = "destroy" /\ Proceed(c, <<"exit">>)
  BY DEF HangUp, LeaveMulticast, DestroyConnection, DestroyEventChannel, LeaveLoop, Does
<1>3. /\ Follows(c, s, Tail(todo[c])) /\ Program(c, Tail(todo[c])) /\ todo[c] # <<>>
      /\ \A r : At(c, r) <=> r = s
  BY <1>1, <1>2, DoesStep
<1>4. /\ ~ EarlyId(c) /\ ~ HasEarlyEvent(c) /\ place[c] # "new"
  BY <1>3, AtWork
<1>5. /\ kind' = kind
      /\ \A r : At(c, r)' => r \in {"destroy", "destroy_channel", "return", "callback", "exit"}
  <2>1. Program(c, <<"exit">>) /\ Head(<<"exit">>) = "exit"
    BY <1>1, EventLoopAssumption, Begins DEF GInv, TypeOK
  <2>2. kind' = kind /\ (todo'[c] = Tail(todo[c]) \/ todo'[c] = <<"exit">>)
    BY <1>1, <1>2, <1>3, <2>1, Moves
  <2>3. ASSUME NEW r, At(c, r)'
        PROVE  r \in {"destroy", "destroy_channel", "return", "callback", "exit"}
    <3>1. todo'[c] # <<>> /\ Head(todo'[c]) = r
      BY <2>3 DEF At
    <3>2. CASE todo'[c] = Tail(todo[c])
      <4>1. /\ r \in {"prepare", "accept", "join", "connect", "ready", "callback", "destroy",
                      "destroy_channel", "return"}
            /\ r = "prepare" => s = "init"
            /\ r \in {"accept", "join", "connect"} => s = "prepare"
            /\ r = "ready" => s \in {"remote_mr", "create_ah"}
        <5>1. PICK rest : rest = Tail(todo[c])
          OBVIOUS
        <5>2. Follows(c, s, rest) /\ rest # <<>> /\ Head(rest) = r
          BY <1>3, <3>1, <3>2, <5>1
        <5> QED
          BY <5>2, NextStep
      <4> QED
        BY <1>2, <4>1
    <3> QED
      BY <2>1, <2>2, <3>1, <3>2
  <2> QED
    BY <2>2, <2>3
<1>6. /\ ctx'[Mine(c)] = ctx[Mine(c)] \/ ctx'[Mine(c)] \in {"TERMINATED", "freed"}
      /\ cm'[Mine(c)] = cm[Mine(c)] \/ cm'[Mine(c)] \in {"disconnecting", "closed", "none"}
      /\ place'[c] \in {place[c], "returned"}
  <2>1. CASE HangUp(c) \/ LeaveMulticast(c)
    BY <1>1, <2>1 DEF HangUp, LeaveMulticast
  <2>2. CASE DestroyConnection(c) \/ DestroyEventChannel(c) \/ LeaveLoop(c)
    BY <1>1, <2>2 DEF DestroyConnection, DestroyEventChannel, LeaveLoop
  <2> QED
    BY <2>1, <2>2
<1>7. \/ /\ cm'[Mine(c)] = "none" /\ ctx'[Mine(c)] = "freed" /\ Len(events'[c]) = 0
      \/ /\ events'[c] = events[c] /\ built'[Mine(c)] = built[Mine(c)]
         /\ num_remote'[Mine(c)] = num_remote[Mine(c)]
  <2>1. CASE events' = events /\ built' = built /\ num_remote' = num_remote
    BY <2>1
  <2>2. CASE ~ (events' = events /\ built' = built /\ num_remote' = num_remote)
    <3>1. /\ cm' = [cm EXCEPT ![Mine(c)] = "none"] /\ ctx' = [ctx EXCEPT ![Mine(c)] = "freed"]
          /\ events' = [events EXCEPT ![c] = Without(events[c], c)]
      BY <1>1, <2>2
      DEF HangUp, LeaveMulticast, DestroyConnection, DestroyEventChannel, LeaveLoop
    <3>2. events'[c] = Without(events[c], c) /\ events[c] \in Seq(Event)
      BY <1>1, <3>1
    <3>3. /\ Thinned(Without(events[c], c), events[c])
          /\ \A i \in 1 .. Len(Without(events[c], c)) : Without(events[c], c)[i].conn # c
      BY <3>2, WithoutThins
    <3>4. PICK q : q = Without(events[c], c)
      OBVIOUS
    <3>5. Thinned(q, events[c]) /\ \A i \in 1 .. Len(q) : q[i].conn # c
      BY <3>3, <3>4
    <3>6. ASSUME NEW i \in 1 .. Len(q) PROVE FALSE
      <4>1. PICK j \in 1 .. Len(events[c]) : q[i] = events[c][j]
        BY <3>5, ThinnedPairs
      <4> QED
        BY <3>5, <4>1, OwnEnds
    <3>7. Len(q) = 0
      <4>1. q \in Seq(Event)
        BY <3>5 DEF Thinned
      <4>2. Len(q) \in Nat
        BY <4>1
      <4> QED
        BY <3>6, <4>2
    <3> QED
      BY <1>1, <3>1, <3>2, <3>4, <3>7
  <2> QED
    BY <2>1, <2>2
<1>8. ~ EarlyId(c)' /\ ~ HasEarlyEvent(c)' /\ ~ AtEarlyStep(c)' /\ place'[c] # "new"
  <2>1. ~ EarlyId(c)'
    BY <1>1, <1>4, <1>6 DEF EarlyId
  <2>2. ~ HasEarlyEvent(c)'
    <3>1. CASE Len(events'[c]) = 0
      BY <3>1 DEF HasEarlyEvent
    <3>2. CASE events'[c] = events[c]
      BY <1>4, <3>2 DEF HasEarlyEvent
    <3> QED
      BY <1>7, <3>1, <3>2
  <2>3. ~ AtEarlyStep(c)'
    BY <1>5 DEF AtEarlyStep
  <2> QED
    BY <1>4, <1>6, <2>1, <2>2, <2>3
<1>9. MinePrepared(c)'
  <2>1. ~ At(c, "ready")'
    BY <1>5
  <2>2. CASE cm'[Mine(c)] = "none" /\ ctx'[Mine(c)] = "freed" /\ Len(events'[c]) = 0
    <3>1. /\ cm'[Mine(c)] \notin {"joining", "connecting", "connected"}
          /\ ctx'[Mine(c)] # "READY" /\ 1 .. Len(events'[c]) = {}
      BY <2>2
    <3>2. \A x \in {"connect", "join", "create_ah", "remote_mr", "ready"} : ~ At(c, x)'
      BY <1>5
    <3>3. ~ OnTheWay(c)'
      BY <1>1, <3>1, <3>2 DEF OnTheWay
    <3> QED
      BY <1>1, <2>1, <3>1, <3>3 DEF MinePrepared
  <2>3. CASE events'[c] = events[c] /\ built'[Mine(c)] = built[Mine(c)]
    <3>1. OnTheWay(c)' => OnTheWay(c)
      BY <1>1, <1>5, <1>6, <2>3 DEF OnTheWay
    <3> QED
      BY <1>1, <1>5, <1>6, <2>1, <2>3, <3>1 DEF ClientInv, MinePrepared, Prepared
  <2> QED
    BY <1>7, <2>2, <2>3
<1>10. OneAfterAnother(c)'
  BY <1>8 DEF OneAfterAnother, Early
<1>11. /\ Multicast(c) => net' = net
       /\ \A m \in net' : m \in net \/ m.type \in {"DREQ", "DREP"}
  <2>1. CASE HangUp(c)
    <3>1. ~ Multicast(c)
      BY <1>1, <1>3, <2>1 DEF HangUp, Does, Follows, StepsOf
    <3>2. \/ net' = net \/ net' = net \cup {From(Here(c), "DREQ", 0)}
          \/ net' = net \cup {From(Here(c), "DREP", 0)}
      BY <2>1 DEF HangUp
    <3> QED
      BY <3>1, <3>2 DEF From
  <2>2. CASE ~ HangUp(c)
    BY <2>2 DEF LeaveMulticast, DestroyConnection, DestroyEventChannel, LeaveLoop
  <2> QED
    BY <2>1, <2>2
<1>12. NotAsked(c)' => NotAsked(c) /\ NoMessages(c)'
  BY <1>5, <1>8, <1>11 DEF NotAsked, Early, Multicast, ClientInv, UnknownBefore, NoMessages
<1>13. ASSUME NEW n \in 0 .. MaxMr, Answer(c, n)' PROVE Answer(c, n)
  <2>1. /\ ~ At(c, "remote_mr")' /\ ~ At(c, "ready")'
        /\ \A m \in net' : m.type = "REP" => m \in net
    BY <1>5, <1>11
  <2>2. CASE ctx'[Mine(c)] = "freed" /\ Len(events'[c]) = 0
    BY <1>1, <1>13, <2>1, <2>2 DEF Answer
  <2>3. CASE events'[c] = events[c] /\ num_remote'[Mine(c)] = num_remote[Mine(c)]
    BY <1>1, <1>6, <1>13, <2>1, <2>3 DEF Answer
  <2> QED
    BY <1>7, <2>2, <2>3
<1>14. Requested(c)' => Requested(c)
  BY <1>11 DEF Requested
<1> QED
  BY <1>1, <1>9, <1>10, <1>12, <1>13, <1>14, OwnStepKeeps

\* The step a handler begins with.
LEMMA HandlerHead ==
  ASSUME EventLoopAssumption, NEW t \in Threads, NEW event \in Event, Expected(t, event),
         NEW first, first = Head(HandlerSteps(t, event))
  PROVE  /\ first \in {"prepare", "resolve_route", "create_ah", "init", "remote_mr",
                       "hang_up", "exit"}
         /\ first = "prepare" => event.type \in {"ADDR_RESOLVED", "ROUTE_RESOLVED"}
         /\ first = "resolve_route" => event.type = "ADDR_RESOLVED"
         /\ first = "create_ah" => event.type = "MULTICAST_JOIN"
         /\ first = "init" => event.type = "CONNECT_REQUEST"
         /\ first = "remote_mr" => event.type = "ESTABLISHED"
<1> DEFINE steps == HandlerSteps(t, event)
<1>1. OnConnect(t) \in Seq(Step)
  <2>1. /\ <<"ready", "callback">> \in Seq(Step) /\ <<"return">> \in Seq(Step)
        /\ <<>> \in Seq(Step)
    BY StepNames
  <2> QED
    BY <2>1 DEF OnConnect
<1>2. CASE event.type = "ADDR_RESOLVED"
  <2>1. steps \in {<<"prepare", "join">>, <<"resolve_route">>}
    BY <1>2 DEF HandlerSteps
  <2>2. Head(<<"prepare", "join">>) = "prepare" /\ Head(<<"resolve_route">>) = "resolve_route"
    OBVIOUS
  <2> HIDE DEF steps
  <2>3. Head(steps) \in {"prepare", "resolve_route"}
    BY <2>1, <2>2
  <2> QED
    BY <1>2, <2>3 DEF steps
<1>3. CASE event.type = "MULTICAST_JOIN"
  <2>1. steps = <<"create_ah">> \o OnConnect(t)
    BY <1>3 DEF HandlerSteps
  <2>2. Head(<<"create_ah">> \o OnConnect(t)) = "create_ah"
    BY <1>1, StepNames, StepBefore
  <2> HIDE DEF steps
  <2>3. Head(steps) = "create_ah"
    BY <2>1, <2>2
  <2> QED
    BY <1>3, <2>3 DEF steps
<1>4. CASE event.type = "ROUTE_RESOLVED"
  <2>1. steps = <<"prepare", "connect">>
    BY <1>4 DEF HandlerSteps
  <2>2. Head(<<"prepare", "connect">>) = "prepare"
    OBVIOUS
  <2> HIDE DEF steps
  <2>3. Head(steps) = "prepare"
    BY <2>1, <2>2
  <2> QED
    BY <1>4, <2>3 DEF steps
<1>5. CASE event.type = "CONNECT_REQUEST"
  <2>1. steps = <<"init", "prepare", "accept">>
    BY <1>5 DEF HandlerSteps, RequestSteps
  <2>2. Head(<<"init", "prepare", "accept">>) = "init"
    OBVIOUS
  <2> HIDE DEF steps
  <2>3. Head(steps) = "init"
    BY <2>1, <2>2
  <2> QED
    BY <1>5, <2>3 DEF steps
<1>6. CASE event.type = "ESTABLISHED"
  <2>1. steps = <<"remote_mr">> \o OnConnect(t)
    BY <1>6 DEF HandlerSteps
  <2>2. Head(<<"remote_mr">> \o OnConnect(t)) = "remote_mr"
    BY <1>1, StepNames, StepBefore
  <2> HIDE DEF steps
  <2>3. Head(steps) = "remote_mr"
    BY <2>1, <2>2
  <2> QED
    BY <1>6, <2>3 DEF steps
<1>7. CASE event.type = "DISCONNECTED"
  <2>1. PICK q \in {<<>>, <<"return">>} : steps = <<"hang_up", "destroy">> \o q
    BY <1>7 DEF HandlerSteps
  <2>2. /\ Head(<<"hang_up", "destroy">> \o <<>>) = "hang_up"
        /\ Head(<<"hang_up", "destroy">> \o <<"return">>) = "hang_up"
    OBVIOUS
  <2> HIDE DEF steps
  <2>3. Head(steps) = "hang_up"
    BY <2>1, <2>2
  <2> QED
    BY <2>3 DEF steps
<1>8. CASE event.type \in {"ADDR_ERROR", "ROUTE_ERROR", "MULTICAST_ERROR", "REJECTED",
                           "UNREACHABLE"}
  <2>1. steps = <<"exit">>
    BY <1>8 DEF HandlerSteps
  <2>2. Head(<<"exit">>) = "exit"
    OBVIOUS
  <2> HIDE DEF steps
  <2>3. Head(steps) = "exit"
    BY <2>1, <2>2
  <2> QED
    BY <2>3 DEF steps
<1>9. event.type \in {"ADDR_RESOLVED", "MULTICAST_JOIN", "ROUTE_RESOLVED", "CONNECT_REQUEST",
                      "ESTABLISHED", "DISCONNECTED", "ADDR_ERROR", "ROUTE_ERROR",
                      "MULTICAST_ERROR", "REJECTED", "UNREACHABLE"}
  BY DEF Expected, EventsOf
<1> QED
  BY <1>2, <1>3, <1>4, <1>5, <1>6, <1>7, <1>8, <1>9, Zenon

\* What taking an event does.
LEMMA Takes ==
  ASSUME GInv, NEW t \in Threads, GetEvent(t)
  PROVE  /\ kind' = kind /\ place' = place /\ net' = net /\ \A x \in End : EndsSame(x)
         /\ todo[t] = <<>> /\ place[t] \in {"loop", "watched"}
         /\ events[t] \in Seq(Event) /\ events[t] # <<>> /\ 1 \in 1 .. Len(events[t])
         /\ events'[t] = Tail(events[t])
         /\ event_copy'[t] = events[t][1] /\ Expected(t, events[t][1])
         /\ events[t][1] \in Event
         /\ todo'[t] = HandlerSteps(t, events[t][1])
         /\ \A u \in Threads : u # t => /\ events'[u] = events[u] /\ todo'[u] = todo[u]
                                        /\ event_copy'[u] = event_copy[u]
<1>1. /\ todo \in [Threads -> Seq(Step)] /\ event_copy \in [Threads -> Event]
      /\ events \in [Threads -> Seq(Event)]
  BY DEF GInv, TypeOK
<1>2. /\ events[t] # <<>> /\ todo[t] = <<>> /\ place[t] \in {"loop", "watched"}
      /\ event_copy' = [event_copy EXCEPT ![t] = Head(events[t])]
      /\ todo' = [todo EXCEPT ![t] = HandlerSteps(t, Head(events[t]))]
      /\ events' = [events EXCEPT ![t] = Tail(events[t])]
      /\ UNCHANGED <<kind, place, channels, ctx, built, num_local, num_remote, cm, net>>
  BY DEF GetEvent
<1>3. events[t] \in Seq(Event)
  BY <1>1
<1>4. PICK event : event = Head(events[t])
  OBVIOUS
<1>5. event \in Event /\ event = events[t][1] /\ 1 \in 1 .. Len(events[t])
  BY <1>2, <1>3, <1>4
<1>6. Expected(t, events[t][1])
  BY <1>5 DEF GInv, EventsRight
<1>7. \A x \in End : EndsSame(x)
  BY <1>2 DEF EndsSame
<1>8. PICK steps : steps = HandlerSteps(t, event)
  OBVIOUS
<1>9. /\ todo' = [todo EXCEPT ![t] = steps]
      /\ event_copy' = [event_copy EXCEPT ![t] = event]
  BY <1>2, <1>4, <1>8
<1>10. /\ todo'[t] = steps /\ event_copy'[t] = event /\ events'[t] = Tail(events[t])
       /\ \A u \in Threads : u # t => /\ events'[u] = events[u] /\ todo'[u] = todo[u]
                                      /\ event_copy'[u] = event_copy[u]
  BY <1>1, <1>2, <1>9
<1> QED
  BY <1>2, <1>3, <1>5, <1>6, <1>7, <1>8, <1>10

\* A client takes up a handler.
LEMMA OwnEvent ==
  ASSUME GInv, NEW c \in Clients, ClientInv(c), GetEvent(c) PROVE ClientInv(c)'
<1>1. /\ c \in Threads /\ Server \in Threads /\ c # Server /\ Mine(c)' = Mine(c)
      /\ Mine(c) \in End /\ Peer(c) \in End
  BY OwnEnds
<1>2. PICK event \in Event : event = events[c][1] /\ Expected(c, event)
  BY <1>1, Takes
<1>3. /\ kind' = kind /\ place' = place /\ net' = net /\ EndsSame(Mine(c))
      /\ ServerSideSame(c)
      /\ todo[c] = <<>> /\ place[c] # "new" /\ events[c] # <<>>
      /\ event_copy'[c] = event
  BY <1>1, <1>2, Takes DEF ServerSideSame
<1>4. PICK n \in Nat : /\ Len(events[c]) = n + 1 /\ Len(events'[c]) = n
                       /\ \A i \in 1 .. n : events'[c][i] = events[c][i + 1]
                       /\ \A i \in 1 .. n : i + 1 \in 1 .. n + 1
                       /\ 1 \in 1 .. n + 1
  <2>1. PICK q \in Seq(Event) : q = events[c] /\ q # <<>> /\ events'[c] = Tail(q)
    BY <1>1, Takes
  <2>2. PICK k \in Nat : /\ Len(q) = k + 1 /\ Len(Tail(q)) = k
                        /\ \A i \in 1 .. k : Tail(q)[i] = q[i + 1] /\ i + 1 \in 1 .. k + 1
    BY <2>1, Shorter
  <2>3. 1 \in 1 .. k + 1
    OBVIOUS
  <2> QED
    BY <2>1, <2>2, <2>3, Zenon
<1>5. PICK first : first = Head(HandlerSteps(c, event))
  OBVIOUS
<1>6. /\ \A s : At(c, s)' => s = first
      /\ \A s : ~ At(c, s)
  BY <1>1, <1>2, <1>3, <1>5, Takes DEF At
<1>7. /\ first \in {"prepare", "resolve_route", "create_ah", "init", "remote_mr", "hang_up",
                    "exit"}
      /\ first \in {"prepare", "resolve_route"} => event.type \in EarlyEvent
      /\ first = "create_ah" => event.type = "MULTICAST_JOIN"
      /\ first = "remote_mr" => event.type = "ESTABLISHED"
  BY <1>1, <1>2, <1>5, EventLoopAssumption, HandlerHead DEF EarlyEvent
<1>8. /\ ~ EarlyId(c)'
      /\ ~ HasEarlyEvent(c)'
      /\ AtEarlyStep(c)' => Early(c) /\ Len(events'[c]) = 0 /\ cm'[Mine(c)] = "idle"
  <2>1. ~ EarlyId(c)'
    BY <1>1, <1>3 DEF ClientInv, OneAfterAnother, EarlyId, EndsSame
  <2>2. ~ HasEarlyEvent(c)'
    <3> SUFFICES ASSUME NEW i \in 1 .. n, events'[c][i].type \in EarlyEvent PROVE FALSE
      BY <1>4 DEF HasEarlyEvent
    <3>1. HasEarlyEvent(c)
      BY <1>4 DEF HasEarlyEvent
    <3>2. n + 1 = 1
      BY <1>4, <3>1 DEF ClientInv, OneAfterAnother
    <3> QED
      BY <3>2
  <2>3. ASSUME AtEarlyStep(c)'
        PROVE  Early(c) /\ Len(events'[c]) = 0 /\ cm'[Mine(c)] = "idle"
    <3>1. event.type \in EarlyEvent
      BY <1>6, <1>7, <2>3 DEF AtEarlyStep
    <3>2. HasEarlyEvent(c)
      BY <1>2, <1>4, <3>1 DEF HasEarlyEvent
    <3>3. n + 1 = 1 /\ cm[Mine(c)] = "idle"
      BY <1>4, <3>2 DEF ClientInv, OneAfterAnother
    <3>4. n = 0
      BY <3>3
    <3> QED
      BY <1>1, <1>3, <1>4, <3>2, <3>3, <3>4 DEF Early, EndsSame
  <2> QED
    BY <2>1, <2>2, <2>3
<1>9. MinePrepared(c)'
  <2>1. OnTheWay(c)' => OnTheWay(c)
    <3>1. ASSUME NEW i \in 1 .. n, events'[c][i].type \in {"ESTABLISHED", "MULTICAST_JOIN"}
          PROVE  OnTheWay(c)
      BY <1>4, <3>1 DEF OnTheWay
    <3>2. ASSUME NEW s \in {"connect", "join", "create_ah", "remote_mr", "ready"}, At(c, s)'
          PROVE  OnTheWay(c)
      BY <1>2, <1>4, <1>6, <1>7, <3>2 DEF OnTheWay
    <3> QED
      BY <1>1, <1>3, <1>4, <3>1, <3>2 DEF OnTheWay, EndsSame
  <2>2. ~ At(c, "ready")'
    BY <1>6, <1>7
  <2> QED
    BY <1>1, <1>3, <2>1, <2>2 DEF ClientInv, MinePrepared, Prepared, EndsSame
<1>10. OneAfterAnother(c)'
  <2>1. Early(c)' => Early(c)
    BY <1>8 DEF Early
  <2>2. events'[c] \in Seq(Event)
    <3>1. PICK q \in Seq(Event) : q = events[c] /\ q # <<>> /\ events'[c] = Tail(q)
      BY <1>1, Takes
    <3> QED
      BY <3>1
  <2>3. Len(events'[c]) = 0 => events'[c] = <<>>
    BY <2>2
  <2> QED
    BY <1>1, <1>3, <1>8, <2>1, <2>3 DEF ClientInv, OneAfterAnother, EndsSame
<1>11. NotAsked(c)' => NotAsked(c) /\ NoMessages(c)'
  BY <1>3, <1>8 DEF NotAsked, Early, Multicast, ClientInv, UnknownBefore, NoMessages
<1>12. ASSUME NEW k \in 0 .. MaxMr, Answer(c, k)' PROVE Answer(c, k)
  <2>1. ASSUME NEW i \in 1 .. n, events'[c][i].type = "ESTABLISHED", events'[c][i].regions = k
        PROVE  Answer(c, k)
    BY <1>4, <2>1 DEF Answer
  <2>2. ASSUME At(c, "remote_mr")', event.regions = k PROVE Answer(c, k)
    BY <1>2, <1>4, <1>6, <1>7, <2>2 DEF Answer
  <2>3. ~ At(c, "ready")'
    BY <1>6, <1>7
  <2> QED
    BY <1>1, <1>3, <1>4, <1>12, <2>1, <2>2, <2>3 DEF Answer, EndsSame
<1>13. Requested(c)' => Requested(c)
  BY <1>3 DEF Requested
<1> QED
  BY <1>3, <1>9, <1>10, <1>11, <1>12, <1>13, OwnStepKeeps

\* A client's application calls: nothing is on its way, or the connection was
\* made before.
LEMMA OwnCall ==
  ASSUME GInv, NEW c \in Clients, ClientInv(c),
         AddConnection(c) \/ EndCall(c) \/ WatchChannel(c)
  PROVE  ClientInv(c)'
<1>1. /\ c \in Threads /\ Server \in Threads /\ c # Server /\ Mine(c)' = Mine(c)
      /\ Mine(c) \in End /\ Peer(c) \in End /\ Mine(c) # Peer(c) /\ Mine(c) = <<c, c>>
      /\ DOMAIN ctx = End /\ DOMAIN cm = End /\ DOMAIN place = Threads /\ DOMAIN todo = Threads
  BY OwnEnds DEF GInv, TypeOK, Mine
<1>2. /\ UNCHANGED <<kind, event_copy, events, built, num_local, num_remote, net>>
      /\ \A t \in Threads : t # c => todo'[t] = todo[t]
      /\ \A e \in End : e # Mine(c) => ctx'[e] = ctx[e] /\ cm'[e] = cm[e]
  BY <1>1 DEF AddConnection, EndCall, WatchChannel
<1>3. ServerSideSame(c)
  BY <1>1, <1>2 DEF ServerSideSame, EndsSame
<1>4. Requested(c)' => Requested(c)
  BY <1>2 DEF Requested
<1>5. CASE AddConnection(c)
  <2>1. /\ todo' = todo /\ place[c] = "new" /\ place'[c] = "loop"
        /\ ctx'[Mine(c)] = "TERMINATED" /\ cm'[Mine(c)] = "resolving"
    BY <1>1, <1>5 DEF AddConnection
  <2>2. /\ events[c] = <<>> /\ todo[c] = <<>> /\ NotAsked(c) /\ NoMessages(c)
    BY <2>1 DEF ClientInv, OneAfterAnother, UnknownBefore, NotAsked
  <2>3. (\A s : ~ At(c, s)') /\ Len(events'[c]) = 0
    <3>1. Len(<<>>) = 0
      OBVIOUS
    <3> QED
      BY <1>2, <2>1, <2>2, <3>1 DEF At
  <2>4. MinePrepared(c)'
    BY <1>1, <2>1, <2>3 DEF MinePrepared, OnTheWay
  <2>5. OneAfterAnother(c)'
    BY <1>1, <1>2, <2>1, <2>2, <2>3
    DEF OneAfterAnother, Early, EarlyId, HasEarlyEvent, AtEarlyStep
  <2>6. \A n \in 0 .. MaxMr : ~ Answer(c, n)'
    BY <1>1, <1>2, <2>1, <2>2, <2>3 DEF Answer, NoMessages
  <2>7. NotAsked(c)' => NotAsked(c) /\ NoMessages(c)'
    BY <1>2, <2>2 DEF NoMessages
  <2> QED
    BY <1>3, <1>4, <2>4, <2>5, <2>6, <2>7, OwnStepKeeps
<1>6. CASE EndCall(c) \/ WatchChannel(c)
  <2>1. /\ ctx' = ctx /\ cm' = cm /\ place[c] = "returned" /\ place'[c] # "new"
        /\ todo[c] = <<>>
    BY <1>1, <1>6 DEF EndCall, WatchChannel
  <2>2. \A s : ~ At(c, s) /\ (At(c, s)' => s \in {"leave", "hang_up"})
    <3>1. CASE EndCall(c)
      <4>1. todo'[c] \in {LeaveSteps, DisconnectSteps}
        BY <1>1, <3>1 DEF EndCall
      <4>2. /\ Head(<<"leave", "destroy">>) = "leave"
            /\ Head(<<"hang_up", "destroy", "destroy_channel">>) = "hang_up"
        OBVIOUS
      <4> QED
        BY <2>1, <4>1, <4>2 DEF At, LeaveSteps, DisconnectSteps
    <3>2. CASE WatchChannel(c)
      BY <2>1, <3>2 DEF At, WatchChannel
    <3> QED
      BY <1>6, <3>1, <3>2
  <2>3. ~ EarlyId(c) /\ ~ HasEarlyEvent(c)
    BY <2>1 DEF ClientInv, OneAfterAnother, Early
  <2>4. ~ EarlyId(c)' /\ ~ HasEarlyEvent(c)' /\ ~ AtEarlyStep(c)'
    BY <1>1, <1>2, <2>1, <2>2, <2>3 DEF EarlyId, HasEarlyEvent, AtEarlyStep
  <2>5. MinePrepared(c)'
    <3>1. OnTheWay(c)' => OnTheWay(c)
      BY <1>1, <1>2, <2>1, <2>2 DEF OnTheWay
    <3> QED
      BY <1>1, <1>2, <2>1, <2>2, <3>1 DEF ClientInv, MinePrepared, Prepared
  <2>6. OneAfterAnother(c)'
    BY <2>1, <2>4 DEF OneAfterAnother, Early
  <2>7. NotAsked(c)' => NotAsked(c) /\ NoMessages(c)'
    BY <1>2, <2>1, <2>4 DEF NotAsked, Early, Multicast, ClientInv, UnknownBefore, NoMessages
  <2>8. \A n \in 0 .. MaxMr : Answer(c, n)' => Answer(c, n)
    BY <1>1, <1>2, <2>1, <2>2 DEF Answer
  <2> QED
    BY <1>3, <1>4, <2>5, <2>6, <2>7, <2>8, OwnStepKeeps
<1> QED
  BY <1>5, <1>6

\* The CM answers a client's request.
LEMMA OwnResolve ==
  ASSUME GInv, NEW c \in Clients, ClientInv(c), Resolve(c) PROVE ClientInv(c)'
<1>1. /\ c \in Threads /\ Server \in Threads /\ c # Server /\ Mine(c)' = Mine(c)
      /\ Mine(c) \in End /\ Peer(c) \in End /\ Mine(c) # Peer(c) /\ Mine(c) = <<c, c>>
      /\ DOMAIN cm = End /\ events \in [Threads -> Seq(Event)] /\ 0 \in 0 .. MaxMr
  BY OwnEnds, EventLoopAssumption DEF GInv, TypeOK, Mine
<1>2. /\ cm[Mine(c)] \in {"resolving", "routing", "joining"}
      /\ cm' = [cm EXCEPT ![Mine(c)] = "idle"] /\ net' = net
      /\ UNCHANGED <<kind, place, todo, event_copy, channels, ctx, built, num_local,
                     num_remote>>
  BY <1>1 DEF Resolve, CmUnchanged
<1>3. PICK type \in EarlyEvent :
        /\ events' = [events EXCEPT ![c] =
                        Append(events[c], [type |-> type, conn |-> c, regions |-> 0])]
        /\ type = "MULTICAST_JOIN" => cm[Mine(c)] = "joining"
  BY <1>1 DEF Resolve, Enqueue, EarlyEvent
<1>4. /\ EarlyId(c) /\ Early(c) /\ NotAsked(c) /\ NoMessages(c) /\ events[c] = <<>>
      /\ todo[c] = <<>> /\ place[c] = "loop" /\ ctx[Mine(c)] = "TERMINATED"
  BY <1>2 DEF EarlyId, Early, NotAsked, ClientInv, OneAfterAnother, UnknownBefore
<1>5. PICK event \in Event : /\ event = [type |-> type, conn |-> c, regions |-> 0]
                             /\ event.type = type
  <2>1. [type |-> type, conn |-> c, regions |-> 0] \in Event
    BY <1>1 DEF Event, EventType, EarlyEvent
  <2> QED
    BY <2>1
<1>6. Len(events'[c]) = 1 /\ \A i \in 1 .. 1 : events'[c][i] = event
  <2>1. events'[c] = Append(<<>>, event)
    BY <1>1, <1>3, <1>4, <1>5
  <2>2. Len(Append(<<>>, event)) = 1 /\ Append(<<>>, event)[1] = event
    OBVIOUS
  <2>3. \A i \in 1 .. 1 : i = 1
    OBVIOUS
  <2> QED
    BY <2>1, <2>2, <2>3
<1>7. cm'[Mine(c)] = "idle"
  BY <1>1, <1>2
<1>8. ServerSideSame(c)
  BY <1>1, <1>2, <1>3 DEF ServerSideSame, EndsSame
<1>9. \A s : ~ At(c, s)'
  BY <1>2, <1>4 DEF At
<1>10. MinePrepared(c)'
  <2>1. OnTheWay(c)' => OnTheWay(c)
    <3>1. OnTheWay(c)' => type = "MULTICAST_JOIN"
      BY <1>1, <1>2, <1>4, <1>5, <1>6, <1>7, <1>9 DEF OnTheWay, EarlyEvent
    <3> QED
      BY <1>3, <3>1 DEF OnTheWay
  <2> QED
    BY <1>1, <1>2, <1>4, <1>9, <2>1 DEF ClientInv, MinePrepared, Prepared
<1>11. OneAfterAnother(c)'
  BY <1>1, <1>2, <1>4, <1>6, <1>7, <1>9
  DEF OneAfterAnother, Early, EarlyId, HasEarlyEvent, AtEarlyStep
<1>12. \A n \in 0 .. MaxMr : ~ Answer(c, n)'
  BY <1>1, <1>2, <1>4, <1>5, <1>6, <1>9 DEF Answer, NoMessages, EarlyEvent
<1>13. NoMessages(c)' /\ (Requested(c)' => Requested(c))
  BY <1>2, <1>4 DEF NoMessages, Requested
<1> QED
  BY <1>4, <1>8, <1>10, <1>11, <1>12, <1>13, OwnStepKeeps

\* A client's process ends.
LEMMA OwnEnd ==
  ASSUME GInv, NEW c \in Clients, ClientInv(c), ProcessEnds(c) PROVE ClientInv(c)'
<1>1. /\ c \in Threads /\ Server \in Threads /\ c # Server /\ Mine(c)' = Mine(c)
      /\ Mine(c) \in End /\ Peer(c) \in End /\ Mine(c) # Peer(c)
      /\ Mine(c)[1] = c /\ Peer(c)[1] = Server
      /\ DOMAIN place = Threads /\ DOMAIN events = Threads
  BY OwnEnds DEF GInv, TypeOK, Mine, Peer
<1>2. Program(c, <<>>)
  BY <1>1, EventLoopAssumption, Begins DEF GInv, TypeOK
<1>3. /\ kind' = kind /\ todo'[c] = <<>>
      /\ todo'[Server] = todo[Server] /\ event_copy'[Server] = event_copy[Server]
  <2>1. Proceed(c, <<>>)
    BY DEF ProcessEnds
  <2> QED
    BY <1>1, <1>2, <2>1, Moves
<1>4. /\ place'[c] = "exited" /\ events'[c] = <<>> /\ events'[Server] = events[Server]
      /\ ctx'[Mine(c)] = "freed" /\ cm'[Mine(c)] = "none"
      /\ EndsSame(Peer(c))
  BY <1>1 DEF ProcessEnds, EndsSame
<1>5. /\ \A m \in net' : m \in net \/ m.type \in {"REJ", "DREQ"}
      /\ Multicast(c) => net' = net
  <2>1. net' = net \cup UNION {Farewell(e) : e \in {e \in End : e[1] = c}}
    BY DEF ProcessEnds
  <2>2. \A e \in End : \A m \in Farewell(e) : m.type \in {"REJ", "DREQ"}
    BY DEF Farewell, From
  <2>3. ASSUME Multicast(c), NEW e \in End, e[1] = c PROVE Farewell(e) = {}
    <3>1. cm[e] \in {"none", "closed", "resolving", "idle", "joining"}
      BY <1>1, <2>3 DEF GInv, IdsRight, CmOf
    <3> QED
      BY <3>1 DEF Farewell
  <2> QED
    BY <2>1, <2>2, <2>3
<1>6. (\A s : ~ At(c, s)') /\ Len(events'[c]) = 0
  <2>1. Len(<<>>) = 0
    OBVIOUS
  <2> QED
    BY <1>3, <1>4, <2>1 DEF At
<1>7. ServerSideSame(c)
  BY <1>3, <1>4 DEF ServerSideSame
<1>8. ~ EarlyId(c)' /\ ~ HasEarlyEvent(c)' /\ ~ AtEarlyStep(c)'
  BY <1>1, <1>4, <1>6 DEF EarlyId, HasEarlyEvent, AtEarlyStep
<1>9. MinePrepared(c)' /\ OneAfterAnother(c)'
  BY <1>1, <1>4, <1>6, <1>8 DEF MinePrepared, OnTheWay, OneAfterAnother, Early
<1>10. NotAsked(c)' => NotAsked(c) /\ NoMessages(c)'
  BY <1>3, <1>4, <1>5, <1>8
  DEF NotAsked, Early, Multicast, ClientInv, UnknownBefore, NoMessages
<1>11. ASSUME NEW n \in 0 .. MaxMr, Answer(c, n)' PROVE Answer(c, n)
  BY <1>1, <1>4, <1>5, <1>6, <1>11 DEF Answer
<1>12. Requested(c)' => Requested(c)
  BY <1>5 DEF Requested
<1> QED
  BY <1>7, <1>9, <1>10, <1>11, <1>12, OwnStepKeeps

\* A message arrives at a client, or finds no listener.
LEMMA OwnArrival ==
  ASSUME GInv, NEW c \in Clients, ClientInv(c), CmUnchanged, NEW m \in net, m.conn = c,
         events'[Server] = events[Server], cm'[Peer(c)] = cm[Peer(c)],
         \A x \in net' : x \in net \/ x.type \in {"RTU", "LOST", "REJ"},
         \/ events'[c] = events[c] /\ cm'[Mine(c)] = cm[Mine(c)]
         \/ \E event \in Event :
              /\ events'[c] = Append(events[c], event)
              /\ \/ /\ event.type = "ESTABLISHED" /\ m.type = "REP"
                    /\ event.regions = m.regions
                    /\ cm[Mine(c)] = "connecting" /\ cm'[Mine(c)] = "connected"
                 \/ event.type \in {"REJECTED", "DISCONNECTED"} /\ cm'[Mine(c)] = "closed"
  PROVE  ClientInv(c)'
<1>1. /\ c \in Threads /\ Mine(c)' = Mine(c)
      /\ UNCHANGED <<kind, place, todo, event_copy, channels, ctx, built, num_local,
                     num_remote>>
      /\ events[c] \in Seq(Event)
  BY OwnEnds DEF CmUnchanged, GInv, TypeOK
<1>2. ServerSideSame(c)
  BY <1>1 DEF ServerSideSame, EndsSame
<1>3. ~ NotAsked(c)
  BY DEF ClientInv, UnknownBefore, NoMessages
<1>4. /\ ~ EarlyId(c) /\ ~ HasEarlyEvent(c) /\ ~ AtEarlyStep(c) /\ place[c] # "new"
      /\ ~ Multicast(c)
  BY <1>3 DEF NotAsked, Early
<1>5. Requested(c)' => Requested(c)
  BY DEF Requested
<1>6. \A s : At(c, s)' <=> At(c, s)
  BY <1>1 DEF At
<1>7. CASE events'[c] = events[c] /\ cm'[Mine(c)] = cm[Mine(c)]
  <2>1. ~ EarlyId(c)' /\ ~ HasEarlyEvent(c)' /\ ~ AtEarlyStep(c)'
    BY <1>1, <1>4, <1>6, <1>7 DEF EarlyId, HasEarlyEvent, AtEarlyStep
  <2>2. MinePrepared(c)' /\ OneAfterAnother(c)'
    <3>1. OnTheWay(c)' => OnTheWay(c)
      BY <1>1, <1>6, <1>7 DEF OnTheWay
    <3> QED
      BY <1>1, <1>4, <1>6, <2>1, <3>1
      DEF ClientInv, MinePrepared, Prepared, OneAfterAnother, Early
  <2>3. ~ NotAsked(c)'
    BY <1>1, <1>4, <2>1 DEF NotAsked, Early, Multicast
  <2>4. \A n \in 0 .. MaxMr : Answer(c, n)' => Answer(c, n)
    BY <1>1, <1>6, <1>7 DEF Answer
  <2> QED
    BY <1>2, <1>5, <2>2, <2>3, <2>4, OwnStepKeeps
<1>8. ASSUME NEW event \in Event, events'[c] = Append(events[c], event),
             \/ /\ event.type = "ESTABLISHED" /\ m.type = "REP"
                /\ event.regions = m.regions
                /\ cm[Mine(c)] = "connecting" /\ cm'[Mine(c)] = "connected"
             \/ event.type \in {"REJECTED", "DISCONNECTED"} /\ cm'[Mine(c)] = "closed"
      PROVE  ClientInv(c)'
  <2>1. PICK n \in Nat : /\ Len(events[c]) = n /\ Len(events'[c]) = n + 1
                         /\ events'[c][n + 1] = event
                         /\ \A i \in 1 .. n : events'[c][i] = events[c][i]
    BY <1>1, <1>8, Appended
  <2>2. \A i \in 1 .. n + 1 : i \in 1 .. n \/ i = n + 1
    BY <2>1
  <2>3. ~ EarlyId(c)' /\ ~ AtEarlyStep(c)'
    BY <1>1, <1>4, <1>6, <1>8 DEF EarlyId, AtEarlyStep
  <2>4. ~ HasEarlyEvent(c)'
    <3> SUFFICES ASSUME NEW i \in 1 .. n + 1, events'[c][i].type \in EarlyEvent PROVE FALSE
      BY <2>1 DEF HasEarlyEvent
    <3>1. event.type \notin EarlyEvent
      BY <1>8 DEF EarlyEvent
    <3>2. i \in 1 .. n
      BY <2>1, <2>2, <3>1
    <3> QED
      BY <1>4, <2>1, <3>2 DEF HasEarlyEvent
  <2>5. MinePrepared(c)'
    <3>1. OnTheWay(c)' => OnTheWay(c)
      <4>1. CASE cm[Mine(c)] = "connecting"
        BY <4>1 DEF OnTheWay
      <4>2. CASE cm[Mine(c)] # "connecting"
        <5>1. event.type \in {"REJECTED", "DISCONNECTED"} /\ cm'[Mine(c)] = "closed"
          BY <1>8, <4>2
        <5>2. ASSUME NEW i \in 1 .. n + 1,
                     events'[c][i].type \in {"ESTABLISHED", "MULTICAST_JOIN"}
              PROVE  OnTheWay(c)
          <6>1. i \in 1 .. n
            BY <2>1, <2>2, <5>1, <5>2
          <6> QED
            BY <2>1, <5>2, <6>1 DEF OnTheWay
        <5> QED
          BY <1>1, <1>6, <2>1, <5>1, <5>2 DEF OnTheWay
      <4> QED
        BY <4>1, <4>2
    <3> QED
      BY <1>1, <1>6, <3>1 DEF ClientInv, MinePrepared, Prepared
  <2>6. OneAfterAnother(c)'
    BY <1>1, <1>4, <2>3, <2>4 DEF OneAfterAnother, Early
  <2>7. ~ NotAsked(c)'
    BY <1>1, <1>4, <2>3, <2>4 DEF NotAsked, Early, Multicast
  <2>8. ASSUME NEW k \in 0 .. MaxMr, Answer(c, k)' PROVE Answer(c, k)
    <3>1. ASSUME NEW i \in 1 .. n + 1, events'[c][i].type = "ESTABLISHED",
                 events'[c][i].regions = k
          PROVE  Answer(c, k)
      <4>1. CASE i \in 1 .. n
        BY <2>1, <3>1, <4>1 DEF Answer
      <4>2. CASE i = n + 1
        <5>1. m.type = "REP" /\ m.regions = k
          BY <1>8, <2>1, <3>1, <4>2
        <5> QED
          BY <5>1 DEF Answer
      <4> QED
        BY <2>2, <4>1, <4>2
    <3>2. \A x \in net' : x.type = "REP" => x \in net
      OBVIOUS
    <3> QED
      BY <1>1, <1>6, <2>1, <2>8, <3>1, <3>2 DEF Answer
  <2> QED
    BY <1>2, <1>5, <2>5, <2>6, <2>7, <2>8, OwnStepKeeps
<1> QED
  BY <1>7, <1>8

\* A step that the client does not see.
OwnSideSame(c) ==
  /\ kind' = kind /\ place'[c] = place[c] /\ todo'[c] = todo[c]
  /\ events'[c] = events[c] /\ event_copy'[c] = event_copy[c]
  /\ EndsSame(Mine(c))

LEMMA OwnSideKeeps ==
  ASSUME NEW c \in Clients, ClientInv(c), OwnSideSame(c)
  PROVE  /\ MinePrepared(c)' /\ OneAfterAnother(c)' /\ NotAsked(c)' = NotAsked(c)
         /\ \A n \in 0 .. MaxMr :
              Answer(c, n)' =>
                \/ Answer(c, n)
                \/ \E m \in net' : m.type = "REP" /\ m.conn = c /\ m.regions = n
<1>1. (\A s : At(c, s)' <=> At(c, s)) /\ Mine(c)' = Mine(c)
  BY DEF OwnSideSame, At, Mine
<1>2. /\ Prepared(Mine(c))' = Prepared(Mine(c)) /\ Multicast(c)' = Multicast(c)
      /\ Early(c)' = Early(c) /\ EarlyId(c)' = EarlyId(c)
      /\ HasEarlyEvent(c)' = HasEarlyEvent(c) /\ AtEarlyStep(c)' = AtEarlyStep(c)
      /\ OnTheWay(c)' = OnTheWay(c)
  BY <1>1 DEF OwnSideSame, EndsSame, Prepared, Multicast, Early, EarlyId, HasEarlyEvent,
              AtEarlyStep, OnTheWay
<1>3. NotAsked(c)' = NotAsked(c)
  BY <1>2 DEF OwnSideSame, NotAsked
<1>4. MinePrepared(c)' /\ OneAfterAnother(c)'
  BY <1>1, <1>2 DEF ClientInv, MinePrepared, OneAfterAnother, OwnSideSame, EndsSame
<1>5. \A n \in 0 .. MaxMr :
        Answer(c, n)' =>
          \/ Answer(c, n)
          \/ \E m \in net' : m.type = "REP" /\ m.conn = c /\ m.regions = n
  BY <1>1 DEF Answer, OwnSideSame, EndsSame
<1> QED
  BY <1>3, <1>4, <1>5

\* A client's request arrives in the server's channel.
LEMMA RequestArrives ==
  ASSUME GInv, NEW c \in Clients, ClientInv(c), NEW m \in net, m.conn = c,
         ReceiveReq(m), place[Server] # "exited"
  PROVE  ClientInv(c)'
<1>1. /\ c \in Threads /\ Server \in Threads /\ c # Server /\ Peer(c)' = Peer(c)
      /\ Mine(c) \in End /\ Peer(c) \in End /\ Mine(c) # Peer(c) /\ Peer(c) = <<Server, c>>
      /\ DOMAIN cm = End /\ events \in [Threads -> Seq(Event)] /\ 0 \in 0 .. MaxMr
  <2>1. 0 \in 0 .. MaxMr
    BY EventLoopAssumption
  <2>2. DOMAIN cm = End /\ events \in [Threads -> Seq(Event)]
    BY DEF GInv, TypeOK
  <2>3. Peer(c) = <<Server, c>>
    BY DEF Peer
  <2> QED
    BY <2>1, <2>2, <2>3, OwnEnds
<1>2. /\ m.type = "REQ" /\ net' = net \ {m} /\ cm' = [cm EXCEPT ![Peer(c)] = "requested"]
      /\ UNCHANGED <<kind, place, todo, event_copy, channels, ctx, built, num_local,
                     num_remote>>
      /\ events' = [events EXCEPT ![Server] =
                      Append(events[Server],
                             [type |-> "CONNECT_REQUEST", conn |-> c, regions |-> 0])]
  BY <1>1 DEF ReceiveReq, Enqueue, CmUnchanged
<1>3. PICK event \in Event : /\ event = [type |-> "CONNECT_REQUEST", conn |-> c, regions |-> 0]
                             /\ event.conn = c
  <2>1. [type |-> "CONNECT_REQUEST", conn |-> c, regions |-> 0] \in Event
    BY <1>1 DEF Event, EventType
  <2> QED
    BY <2>1
<1>4. /\ events'[c] = events[c]
      /\ events'[Server] = Append(events[Server], event) /\ events[Server] \in Seq(Event)
  BY <1>1, <1>2, <1>3
<1>5. PICK n \in Nat : /\ Len(events[Server]) = n /\ Len(events'[Server]) = n + 1
                       /\ events'[Server][n + 1] = event
                       /\ \A i \in 1 .. n : events'[Server][i] = events[Server][i]
                       /\ \A i \in 1 .. n + 1 : i \in 1 .. n \/ i = n + 1
  <2>1. PICK q \in Seq(Event) : q = events[Server] /\ events'[Server] = Append(q, event)
    BY <1>4
  <2>2. PICK n \in Nat : Len(q) = n
    BY <2>1
  <2>3. \A i \in 1 .. n + 1 : i \in 1 .. n \/ i = n + 1
    OBVIOUS
  <2> QED
    BY <2>1, <2>2, <2>3, Appended
<1>6. OwnSideSame(c)
  BY <1>1, <1>2, <1>4 DEF OwnSideSame, EndsSame
<1>7. Requested(c) /\ Unknown(c) /\ ~ NotAsked(c)
  BY <1>2 DEF Requested, ClientInv, RequestOnce, UnknownBefore, NoMessages
<1>8. ~ Requested(c)'
  <2> SUFFICES ASSUME NEW x \in net, x # m, x.type = "REQ", x.conn = c PROVE FALSE
    BY <1>2 DEF Requested
  <2>1. x \in Message /\ m \in Message /\ x.to = m.to /\ x.regions = m.regions
    BY <1>2 DEF GInv, TypeOK, MessagesRight, Addressed
  <2> QED
    BY <1>2, <2>1 DEF Message
<1>9. \A i : ServerEvent(i, c)' <=> i = n + 1
  <2>1. ASSUME NEW i, ServerEvent(i, c)' PROVE i = n + 1
    <3>1. i \in 1 .. n => ServerEvent(i, c)
      BY <1>5, <2>1 DEF ServerEvent
    <3>2. i \in 1 .. n + 1
      BY <1>5, <2>1 DEF ServerEvent
    <3> QED
      BY <1>5, <1>7, <3>1, <3>2 DEF Unknown
  <2>2. ServerEvent(n + 1, c)'
    BY <1>3, <1>5 DEF ServerEvent
  <2> QED
    BY <2>1, <2>2
<1>10. RequestOnce(c)'
  <2>1. \A i, j : RequestAt(i, c)' /\ ServerEvent(j, c)' => i = j
    BY <1>9 DEF RequestAt
  <2>2. event_copy'[Server].conn # c /\ cm'[Peer(c)] = "requested"
    BY <1>1, <1>2, <1>7 DEF Unknown
  <2> QED
    BY <1>1, <1>8, <2>1, <2>2 DEF RequestOnce
<1>11. \A k \in 0 .. MaxMr : ~ Answer(c, k)'
  <2>1. \A k \in 0 .. MaxMr : ~ Answer(c, k)
    BY <1>7 DEF Asking, ClientInv, NoAnswerYet
  <2> QED
    BY <1>2, <1>6, <2>1, OwnSideKeeps DEF Answer
<1>12. PeerPrepared(c)'
  BY <1>1, <1>2 DEF ClientInv, PeerPrepared, Serves, At, Prepared
<1>13. MinePrepared(c)' /\ OneAfterAnother(c)' /\ UnknownBefore(c)'
  BY <1>6, <1>7, OwnSideKeeps DEF UnknownBefore
<1> QED
  BY <1>10, <1>11, <1>12, <1>13 DEF ClientInv, NoAnswerYet, AnswersAgree

\* What the CM then tells the server of the connection.
LEMMA NewsArrives ==
  ASSUME GInv, NEW c \in Clients, ClientInv(c), NEW m \in net, m.conn = c, m.to = Server,
         ReceiveOther(m)
  PROVE  ClientInv(c)'
<1>1. /\ c \in Threads /\ Server \in Threads /\ c # Server /\ Peer(c)' = Peer(c)
      /\ Mine(c) \in End /\ Peer(c) \in End /\ Mine(c) # Peer(c) /\ Peer(c) = <<Server, c>>
      /\ DOMAIN cm = End /\ events \in [Threads -> Seq(Event)] /\ 0 \in 0 .. MaxMr
  <2>1. 0 \in 0 .. MaxMr
    BY EventLoopAssumption
  <2>2. DOMAIN cm = End /\ events \in [Threads -> Seq(Event)]
    BY DEF GInv, TypeOK
  <2>3. Peer(c) = <<Server, c>>
    BY DEF Peer
  <2> QED
    BY <2>1, <2>2, <2>3, OwnEnds
<1>2. /\ net' = net \ {m}
      /\ UNCHANGED <<kind, place, todo, event_copy, channels, ctx, built, num_local,
                     num_remote>>
  BY DEF ReceiveOther, CmUnchanged
<1>3. \/ UNCHANGED <<cm, events>>
      \/ /\ cm[Peer(c)] = "requested" /\ events' = events
         /\ cm' = [cm EXCEPT ![Peer(c)] = "failed"]
      \/ /\ cm[Peer(c)] \in {"connecting", "accepted", "connected", "disconnecting"}
         /\ \E next \in {"connected", "closed"} : cm' = [cm EXCEPT ![Peer(c)] = next]
         /\ \E type \in {"ESTABLISHED", "REJECTED", "UNREACHABLE", "DISCONNECTED"} :
              events' = [events EXCEPT ![Server] =
                           Append(events[Server], [type |-> type, conn |-> c, regions |-> 0])]
  BY <1>1 DEF ReceiveOther, Enqueue
<1>4. OwnSideSame(c)
  BY <1>1, <1>2, <1>3 DEF OwnSideSame, EndsSame
<1>5. ~ NotAsked(c)
  BY DEF ClientInv, UnknownBefore, NoMessages
<1>6. \A i : RequestAt(i, c)' => RequestAt(i, c)
  <2>1. CASE events' = events
    BY <2>1 DEF RequestAt, ServerEvent
  <2>2. ASSUME NEW type \in {"ESTABLISHED", "REJECTED", "UNREACHABLE", "DISCONNECTED"},
               events' = [events EXCEPT ![Server] =
                            Append(events[Server], [type |-> type, conn |-> c, regions |-> 0])],
               NEW i, RequestAt(i, c)'
        PROVE  RequestAt(i, c)
    <3>1. PICK event \in Event : /\ event = [type |-> type, conn |-> c, regions |-> 0]
                                 /\ event.type = type
      <4>1. [type |-> type, conn |-> c, regions |-> 0] \in Event
        BY <1>1 DEF Event, EventType
      <4> QED
        BY <4>1
    <3>2. events'[Server] = Append(events[Server], event) /\ events[Server] \in Seq(Event)
      BY <1>1, <2>2, <3>1
    <3>3. /\ Len(events[Server]) \in Nat
          /\ Len(events'[Server]) = Len(events[Server]) + 1
          /\ events'[Server][Len(events[Server]) + 1] = event
          /\ \A k \in 1 .. Len(events[Server]) : events'[Server][k] = events[Server][k]
      BY <3>2, Appended
    <3>4. i \in 1 .. Len(events[Server])
      BY <2>2, <3>1, <3>3 DEF RequestAt, ServerEvent
    <3> QED
      BY <2>2, <3>3, <3>4 DEF RequestAt, ServerEvent
  <2> QED
    BY <1>3, <2>1, <2>2
<1>7. (\A s : Serves(c, s)' <=> Serves(c, s)) /\ (Requested(c)' => Requested(c))
  BY <1>2 DEF Serves, At, Requested
<1>8. RequestOnce(c)'
  <2>1. CASE UNCHANGED <<cm, events>>
    BY <1>1, <1>2, <1>7, <2>1
    DEF ClientInv, RequestOnce, Unknown, RequestAt, ServerEvent, Live
  <2>2. CASE cm[Peer(c)] = "requested" /\ events' = events
             /\ cm' = [cm EXCEPT ![Peer(c)] = "failed"]
    <3>1. ~ Requested(c)'
      BY <1>7, <2>2 DEF ClientInv, RequestOnce, Unknown
    <3>2. cm'[Peer(c)] = "failed"
      BY <1>1, <2>2
    <3> QED
      BY <1>1, <1>2, <2>2, <3>1, <3>2 DEF ClientInv, RequestOnce, RequestAt, ServerEvent
  <2>3. CASE cm[Peer(c)] \in {"connecting", "accepted", "connected", "disconnecting"}
    <3>1. ~ Requested(c)' /\ \A i : ~ RequestAt(i, c)'
      BY <1>6, <1>7, <2>3 DEF ClientInv, RequestOnce, Unknown
    <3> QED
      BY <3>1 DEF RequestOnce
  <2> QED
    BY <1>3, <2>1, <2>2, <2>3
<1>9. \A n \in 0 .. MaxMr : Answer(c, n)' => Answer(c, n)
  BY <1>2, <1>4, OwnSideKeeps DEF Answer
<1>10. Asking(c)' => Asking(c)
  BY <1>6, <1>7 DEF Asking, RequestHandled
<1>11. NoAnswerYet(c)' /\ AnswersAgree(c)' /\ PeerPrepared(c)'
  BY <1>1, <1>2, <1>7, <1>9, <1>10
  DEF ClientInv, NoAnswerYet, AnswersAgree, PeerPrepared, Prepared, Live
<1>12. MinePrepared(c)' /\ OneAfterAnother(c)' /\ UnknownBefore(c)'
  BY <1>4, <1>5, OwnSideKeeps DEF UnknownBefore
<1> QED
  BY <1>8, <1>11, <1>12 DEF ClientInv

\* The server handles an event of a client's connection.
LEMMA ServerWork ==
  ASSUME RegionsFit, GInv, LInv, NEW c \in Clients, ClientInv(c), Works(Server),
         event_copy[Server].conn = c
  PROVE  ClientInv(c)'
<1>1. /\ c \in Threads /\ Server \in Threads /\ c # Server /\ Peer(c)' = Peer(c)
      /\ Mine(c) \in End /\ Peer(c) \in End /\ Mine(c) # Peer(c)
  BY OwnEnds
<1>2. /\ DOMAIN ctx = End /\ DOMAIN built = End /\ DOMAIN num_local = End
      /\ num_local[Peer(c)] \in Nat /\ MaxMr \in Nat /\ DataRoom \in Nat
      /\ ServerAsks[c] \subseteq Nat
  <2>1. MaxMr \in Nat /\ DataRoom \in Nat /\ ServerAsks[c] \subseteq Nat
    BY EventLoopAssumption
  <2>2. DOMAIN ctx = End /\ DOMAIN built = End /\ num_local \in [End -> 0 .. MaxMr]
    BY DEF GInv, TypeOK
  <2> QED
    BY <1>1, <2>1, <2>2
<1>3. Here(Server) = Peer(c)
  BY DEF Here, Peer
<1>4. OwnSideSame(c)
  BY <1>1, <1>3, Effects DEF OwnSideSame
<1>5. /\ ~ NotAsked(c) /\ ~ Requested(c) /\ \A i : ~ RequestAt(i, c)
  BY DEF ClientInv, UnknownBefore, Unknown, RequestOnce
<1>6. \A i : ~ RequestAt(i, c)'
  <2> SUFFICES ASSUME NEW i, RequestAt(i, c)' PROVE FALSE
    OBVIOUS
  <2>1. PICK q : q = events'[Server]
    OBVIOUS
  <2>2. Thinned(q, events[Server])
    BY <1>1, <2>1, Effects
  <2>3. PICK j \in 1 .. Len(events[Server]) : q[i] = events[Server][j]
    <3>1. i \in 1 .. Len(q)
      BY <2>1 DEF RequestAt, ServerEvent
    <3> QED
      BY <2>2, <3>1, ThinnedPairs
  <2>4. RequestAt(j, c)
    BY <2>1, <2>3 DEF RequestAt, ServerEvent
  <2> QED
    BY <1>5, <2>4
<1>7. PICK s : /\ At(Server, s)
               /\ \/ Proceed(Server, Tail(todo[Server]))
                  \/ Proceed(Server, <<"exit">>)
  <2>1. ~ (Server # Server /\ kind[Server] \in Disconnecting)
    OBVIOUS
  <2> QED
    BY <2>1
    DEF Works, Prepare, Request, Connect, AcceptConnection, Accept, SetupRcParam, CreateAh,
        OnConnectReady, Callback, HangUp, LeaveMulticast, DestroyConnection,
        DestroyEventChannel, LeaveLoop, Does
<1>8. /\ Follows(Server, s, Tail(todo[Server])) /\ Program(Server, Tail(todo[Server]))
      /\ todo[Server] # <<>>
      /\ \A r : At(Server, r) <=> r = s
      /\ s \in {"ready", "callback", "destroy", "return", "exit", "init", "prepare", "accept",
                "remote_mr", "hang_up"}
  <2>1. /\ Follows(Server, s, Tail(todo[Server])) /\ Program(Server, Tail(todo[Server]))
        /\ todo[Server] # <<>>
        /\ \A r : At(Server, r) <=> r = s
    BY <1>1, <1>7, DoesStep
  <2> QED
    BY <2>1 DEF Follows, StepsOf
<1>9. ~ Request(Server) /\ ~ Connect(Server) /\ ~ CreateAh(Server) /\ ~ LeaveMulticast(Server)
      /\ ~ DestroyEventChannel(Server)
  BY <1>8 DEF Request, Connect, CreateAh, LeaveMulticast, DestroyEventChannel, Does
<1>10. /\ Program(Server, <<"exit">>) /\ Head(<<"exit">>) = "exit"
       /\ Proceed(Server, <<"exit">>) => todo'[Server] = <<"exit">>
       /\ todo'[Server] = Tail(todo[Server]) \/ todo'[Server] = <<"exit">>
  <2>1. Program(Server, <<"exit">>) /\ Head(<<"exit">>) = "exit"
    BY <1>1, EventLoopAssumption, Begins DEF GInv, TypeOK
  <2>2. Proceed(Server, <<"exit">>) => todo'[Server] = <<"exit">>
    BY <1>1, <1>8, <2>1, Moves
  <2>3. Proceed(Server, Tail(todo[Server])) => todo'[Server] = Tail(todo[Server])
    BY <1>1, <1>8, Moves
  <2> QED
    BY <1>7, <2>1, <2>2, <2>3
<1>11. ASSUME NEW r, At(Server, r)'
       PROVE  r # "init" /\ (r = "prepare" => s = "init") /\ (r = "accept" => s = "prepare")
  <2>1. todo'[Server] # <<>> /\ Head(todo'[Server]) = r
    BY <1>11 DEF At
  <2>2. CASE todo'[Server] = Tail(todo[Server])
    <3>1. PICK rest : rest = Tail(todo[Server])
      OBVIOUS
    <3>2. Follows(Server, s, rest) /\ rest # <<>> /\ Head(rest) = r
      BY <1>8, <2>1, <2>2, <3>1
    <3>3. /\ r \in {"prepare", "accept", "join", "connect", "ready", "callback", "destroy",
                    "destroy_channel", "return"}
          /\ r = "prepare" => s = "init"
          /\ r \in {"accept", "join", "connect"} => s = "prepare"
      BY <3>2, NextStep
    <3> QED
      BY <3>3
  <2> QED
    BY <1>10, <2>1, <2>2
<1>12. Asking(c)' => s \in {"init", "prepare"}
  <2>1. ~ Requested(c)'
    <3>1. \A m \in net' : m.type = "REQ" => m \in net
      BY <1>9 DEF Works, Prepare, AcceptConnection, Accept, SetupRcParam, OnConnectReady,
                  Callback, HangUp, DestroyConnection, LeaveLoop, From
    <3> QED
      BY <1>5, <3>1 DEF Requested
  <2> QED
    BY <1>6, <1>11, <2>1 DEF Asking, RequestHandled, Serves
<1>13. s \in {"init", "prepare", "accept"} => \A n \in 0 .. MaxMr : ~ Answer(c, n)
  BY <1>7 DEF Asking, RequestHandled, Serves, ClientInv, NoAnswerYet
<1>14. ASSUME NEW m \in net', m.type = "REP", m \notin net
       PROVE  /\ s = "accept" /\ m.regions = num_local[Peer(c)]
              /\ num_local' = num_local /\ built' = built
  <2>1. Accept(Server)
    BY <1>9, <1>14 DEF Works, Prepare, AcceptConnection, SetupRcParam, OnConnectReady,
                       Callback, HangUp, DestroyConnection, LeaveLoop, From
  <2>2. /\ At(Server, "accept") /\ num_local' = num_local /\ built' = built
        /\ \E n \in PrivateData(num_local[Peer(c)]) : m = From(Peer(c), "REP", n)
    BY <1>3, <1>14, <2>1 DEF Accept
  <2>3. PrivateData(num_local[Peer(c)]) = {num_local[Peer(c)]}
    BY DEF PrivateData, ClientInv, PeerPrepared
  <2> QED
    BY <1>8, <2>2, <2>3 DEF From
<1>15. RequestOnce(c)'
  <2>1. ~ Requested(c)'
    <3>1. \A m \in net' : m.type = "REQ" => m \in net
      BY <1>9 DEF Works, Prepare, AcceptConnection, Accept, SetupRcParam, OnConnectReady,
                  Callback, HangUp, DestroyConnection, LeaveLoop, From
    <3> QED
      BY <1>5, <3>1 DEF Requested
  <2> QED
    BY <1>6, <2>1 DEF RequestOnce
<1>16. /\ num_local'[Peer(c)] <= DataRoom
       /\ s \notin {"init", "prepare", "accept"} /\ Live(Peer(c))' =>
            /\ Live(Peer(c)) /\ num_local'[Peer(c)] = num_local[Peer(c)]
            /\ built'[Peer(c)] = built[Peer(c)]
  <2>1. num_local[Peer(c)] <= DataRoom
    BY DEF ClientInv, PeerPrepared
  <2>2. CASE Prepare(Server)
    <3>1. s = "prepare"
      BY <1>8, <2>2 DEF Prepare
    <3>2. Asked(Here(Server)) = ServerAsks[c]
      BY <1>3 DEF Asked, Peer
    <3>3. PICK n \in ServerAsks[c] :
            \/ num_local' = num_local
            \/ n <= MaxMr /\ num_local' = [num_local EXCEPT ![Peer(c)] = n]
      BY <1>2, <1>3, <2>2, <3>2 DEF Prepare
    <3>4. n <= MaxMr => n <= DataRoom
      BY DEF RegionsFit
    <3>5. num_local'[Peer(c)] <= DataRoom
      BY <1>1, <1>2, <2>1, <3>3, <3>4
    <3> QED
      BY <3>1, <3>5
  <2>3. CASE AcceptConnection(Server) \/ Accept(Server)
    <3>1. num_local' = num_local /\ s \in {"init", "accept"}
      BY <1>8, <2>3 DEF AcceptConnection, Accept, Does
    <3> QED
      BY <2>1, <3>1
  <2>4. CASE SetupRcParam(Server) \/ Callback(Server) \/ LeaveLoop(Server)
    <3>1. UNCHANGED <<ctx, num_local, built>>
      BY <2>4 DEF SetupRcParam, Callback, LeaveLoop
    <3> QED
      BY <1>1, <2>1, <3>1 DEF Live
  <2>5. CASE OnConnectReady(Server) \/ HangUp(Server)
    <3>1. UNCHANGED <<num_local, built>> /\ s \in {"ready", "hang_up"}
      BY <1>8, <2>5 DEF OnConnectReady, HangUp, Does
    <3>2. Live(Peer(c))
      BY <1>1, <1>3, <1>7, <3>1 DEF LInv, WorksOnLive, At
    <3> QED
      BY <2>1, <3>1, <3>2
  <2>6. CASE DestroyConnection(Server)
    <3>1. CASE UNCHANGED <<ctx, num_local, built>>
      BY <1>1, <2>1, <3>1 DEF Live
    <3>2. CASE /\ ctx' = [ctx EXCEPT ![Peer(c)] = "freed"]
               /\ num_local' = [num_local EXCEPT ![Peer(c)] = 0]
      <4>1. ctx'[Peer(c)] = "freed" /\ num_local'[Peer(c)] = 0 /\ 0 <= DataRoom
        BY <1>1, <1>2, <3>2
      <4> QED
        BY <1>1, <4>1 DEF Live
    <3> QED
      BY <1>3, <2>6, <3>1, <3>2 DEF DestroyConnection
  <2> QED
    BY <1>9, <2>2, <2>3, <2>4, <2>5, <2>6 DEF Works
<1>17. Serves(c, "accept")' => Prepared(Peer(c))'
  <2> SUFFICES ASSUME At(Server, "accept")' PROVE Prepared(Peer(c))'
    BY DEF Serves
  <2>1. s = "prepare" /\ todo'[Server] # <<"exit">>
    <3>1. todo'[Server] = <<"exit">> => ~ At(Server, "accept")'
      BY <1>10 DEF At
    <3> QED
      BY <1>11, <3>1
  <2>2. Prepare(Server)
    BY <1>8, <2>1 DEF Works, Request, Connect, AcceptConnection, Accept, SetupRcParam, CreateAh,
        OnConnectReady, Callback, HangUp, LeaveMulticast, DestroyConnection,
        DestroyEventChannel, LeaveLoop, Does
  <2>3. built' = [built EXCEPT ![Peer(c)] = {"qp", "mr"}]
    BY <1>3, <1>10, <2>1, <2>2 DEF Prepare
  <2> QED
    BY <1>1, <1>2, <2>3 DEF Prepared
<1>18. NoAnswerYet(c)'
  <2> SUFFICES ASSUME Asking(c)', NEW n \in 0 .. MaxMr, Answer(c, n)' PROVE FALSE
    BY DEF NoAnswerYet
  <2>1. s \in {"init", "prepare"}
    BY <1>12
  <2>2. ~ Answer(c, n)
    BY <1>13, <2>1
  <2>3. PICK m \in net' : m.type = "REP" /\ m.conn = c /\ m.regions = n
    BY <1>4, <2>2, OwnSideKeeps
  <2>4. m \in net
    BY <1>14, <2>1, <2>3
  <2> QED
    BY <2>2, <2>3, <2>4 DEF Answer
<1>19. AnswersAgree(c)'
  <2> SUFFICES ASSUME NEW n \in 0 .. MaxMr, Answer(c, n)', Live(Peer(c))'
               PROVE  Prepared(Peer(c))' /\ num_local'[Peer(c)] = n
    BY <1>1 DEF AnswersAgree
  <2>1. CASE Answer(c, n)
    <3>1. s \notin {"init", "prepare", "accept"}
      BY <1>13, <2>1
    <3>2. /\ Live(Peer(c)) /\ num_local'[Peer(c)] = num_local[Peer(c)]
          /\ built'[Peer(c)] = built[Peer(c)]
      BY <1>16, <3>1
    <3>3. Prepared(Peer(c)) /\ num_local[Peer(c)] = n
      BY <2>1, <3>2 DEF ClientInv, AnswersAgree
    <3> QED
      BY <1>1, <3>2, <3>3 DEF Prepared
  <2>2. CASE ~ Answer(c, n)
    <3>1. PICK m \in net' : m.type = "REP" /\ m.conn = c /\ m.regions = n
      BY <1>4, <2>2, OwnSideKeeps
    <3>2. m \notin net
      BY <2>2, <3>1 DEF Answer
    <3>3. /\ s = "accept" /\ num_local[Peer(c)] = n
          /\ num_local' = num_local /\ built' = built
      BY <1>14, <3>1, <3>2
    <3>4. Prepared(Peer(c))
      BY <1>7, <3>3 DEF ClientInv, PeerPrepared, Serves
    <3> QED
      BY <1>1, <3>3, <3>4 DEF Prepared
  <2> QED
    BY <2>1, <2>2
<1>20. PeerPrepared(c)'
  BY <1>1, <1>16, <1>17 DEF PeerPrepared
<1>21. MinePrepared(c)' /\ OneAfterAnother(c)' /\ UnknownBefore(c)'
  BY <1>4, <1>5, OwnSideKeeps DEF UnknownBefore
<1> QED
  BY <1>15, <1>18, <1>19, <1>20, <1>21 DEF ClientInv

\* The server takes up an event of a client's connection.
LEMMA ServerEventTaken ==
  ASSUME GInv, NEW c \in Clients, ClientInv(c), GetEvent(Server), events[Server][1].conn = c
  PROVE  ClientInv(c)'
<1>1. /\ c \in Threads /\ Server \in Threads /\ c # Server /\ Peer(c)' = Peer(c)
      /\ Mine(c) \in End /\ Peer(c) \in End
  BY OwnEnds
<1>2. PICK event \in Event : event = events[Server][1] /\ Expected(Server, event)
  BY <1>1, Takes
<1>3. PICK q \in Seq(Event) : q = events[Server] /\ q # <<>> /\ events'[Server] = Tail(q)
                              /\ 1 \in 1 .. Len(q)
  BY <1>1, Takes
<1>4. OwnSideSame(c) /\ EndsSame(Peer(c)) /\ net' = net /\ kind' = kind
  BY <1>1, Takes DEF OwnSideSame
<1>5. ServerEvent(1, c)
  BY <1>3 DEF ServerEvent
<1>6. ~ NotAsked(c) /\ ~ Requested(c)
  BY <1>5 DEF ClientInv, UnknownBefore, Unknown, RequestOnce
<1>7. \A i : ~ RequestAt(i, c)'
  <2> SUFFICES ASSUME NEW i, RequestAt(i, c)' PROVE FALSE
    OBVIOUS
  <2>1. PICK n \in Nat : /\ Len(q) = n + 1 /\ Len(Tail(q)) = n
                        /\ \A k \in 1 .. n : Tail(q)[k] = q[k + 1] /\ k + 1 \in 1 .. n + 1
    BY <1>3, Shorter
  <2>2. i \in 1 .. n
    BY <1>3, <2>1 DEF RequestAt, ServerEvent
  <2>3. Tail(q)[i] = q[i + 1] /\ i + 1 \in 1 .. n + 1 /\ i + 1 # 1
    BY <2>1, <2>2
  <2>4. RequestAt(i + 1, c)
    BY <1>3, <2>1, <2>3 DEF RequestAt, ServerEvent
  <2>5. i + 1 = 1
    BY <1>5, <2>4 DEF ClientInv, RequestOnce
  <2> QED
    BY <2>3, <2>5
<1>8. PICK first : first = Head(HandlerSteps(Server, event))
  OBVIOUS
<1>9. /\ \A s : At(Server, s)' => s = first
      /\ first \in {"init", "remote_mr", "hang_up", "exit"}
      /\ first = "init" => event.type = "CONNECT_REQUEST"
  <2>1. /\ first \in {"prepare", "resolve_route", "create_ah", "init", "remote_mr",
                      "hang_up", "exit"}
        /\ first = "prepare" => event.type \in {"ADDR_RESOLVED", "ROUTE_RESOLVED"}
        /\ first = "resolve_route" => event.type = "ADDR_RESOLVED"
        /\ first = "create_ah" => event.type = "MULTICAST_JOIN"
        /\ first = "init" => event.type = "CONNECT_REQUEST"
    BY <1>1, <1>2, <1>8, EventLoopAssumption, HandlerHead
  <2>2. event.type \in {"CONNECT_REQUEST", "ESTABLISHED", "DISCONNECTED", "REJECTED",
                        "UNREACHABLE"}
    BY <1>2 DEF Expected, EventsOf
  <2>3. \A s : At(Server, s)' => s = first
    BY <1>1, <1>2, <1>8, Takes DEF At
  <2> QED
    BY <2>1, <2>2, <2>3
<1>10. Asking(c)' => Asking(c)
  <2>1. Requested(c)' => Requested(c)
    BY <1>4 DEF Requested
  <2>2. RequestHandled(c)' => RequestAt(1, c)
    BY <1>2, <1>5, <1>9 DEF RequestHandled, Serves, RequestAt
  <2> QED
    BY <1>7, <2>1, <2>2 DEF Asking
<1>11. \A n \in 0 .. MaxMr : Answer(c, n)' => Answer(c, n)
  BY <1>4, OwnSideKeeps DEF Answer
<1>12. /\ Live(Peer(c))' = Live(Peer(c)) /\ Prepared(Peer(c))' = Prepared(Peer(c))
       /\ num_local'[Peer(c)] = num_local[Peer(c)]
  BY <1>1, <1>4 DEF EndsSame, Live, Prepared
<1>13. NoAnswerYet(c)' /\ AnswersAgree(c)'
  BY <1>1, <1>10, <1>11, <1>12 DEF ClientInv, NoAnswerYet, AnswersAgree
<1>14. PeerPrepared(c)'
  BY <1>1, <1>9, <1>12 DEF ClientInv, PeerPrepared, Serves
<1>15. RequestOnce(c)'
  BY <1>4, <1>6, <1>7 DEF RequestOnce, Requested
<1>16. MinePrepared(c)' /\ OneAfterAnother(c)' /\ UnknownBefore(c)'
  BY <1>4, <1>6, OwnSideKeeps DEF UnknownBefore
<1> QED
  BY <1>13, <1>14, <1>15, <1>16 DEF ClientInv

\* The server's process ends.
LEMMA ServerEnd ==
  ASSUME GInv, NEW c \in Clients, ClientInv(c), ProcessEnds(Server) PROVE ClientInv(c)'
<1>1. /\ c \in Threads /\ Server \in Threads /\ c # Server /\ Peer(c)' = Peer(c)
      /\ Mine(c) \in End /\ Peer(c) \in End /\ Mine(c)[1] = c /\ Peer(c)[1] = Server
      /\ DOMAIN place = Threads /\ DOMAIN events = Threads
  BY OwnEnds DEF GInv, TypeOK, Mine, Peer
<1>2. /\ kind' = kind /\ todo'[Server] = <<>> /\ event_copy'[Server].conn = Server
      /\ todo'[c] = todo[c] /\ event_copy'[c] = event_copy[c]
  <2>1. Program(Server, <<>>)
    BY <1>1, EventLoopAssumption, Begins DEF GInv, TypeOK
  <2>2. Proceed(Server, <<>>)
    BY DEF ProcessEnds
  <2>3. NoEvent(Server).conn = Server
    BY DEF NoEvent
  <2> HIDE DEF NoEvent
  <2> QED
    BY <1>1, <2>1, <2>2, <2>3, Moves
<1>3. /\ place'[c] = place[c] /\ events'[c] = events[c] /\ events'[Server] = <<>>
      /\ EndsSame(Mine(c))
  BY <1>1 DEF ProcessEnds, EndsSame
<1>4. ctx'[Peer(c)] = "freed" /\ cm'[Peer(c)] = "none" /\ num_local'[Peer(c)] = 0
  BY <1>1 DEF ProcessEnds
<1>5. OwnSideSame(c)
  BY <1>2, <1>3 DEF OwnSideSame
<1>6. ASSUME NEW m \in net', m \notin net
      PROVE  /\ m.type \in {"REJ", "DREQ"}
             /\ m.conn = c => cm[Peer(c)] # "none"
  <2>1. net' = net \cup UNION {Farewell(e) : e \in {e \in End : e[1] = Server}}
    BY DEF ProcessEnds
  <2>2. PICK e \in End : e[1] = Server /\ m \in Farewell(e)
    BY <1>6, <2>1
  <2>3. m.type \in {"REJ", "DREQ"} /\ m.conn = e[2] /\ cm[e] # "none"
    BY <2>2 DEF Farewell, From
  <2>4. e[2] = c => e = Peer(c)
    BY <2>2 DEF End, Peer
  <2> QED
    BY <2>3, <2>4
<1>7. Len(events'[Server]) = 0 /\ \A i : ~ ServerEvent(i, c)'
  <2>1. Len(<<>>) = 0
    OBVIOUS
  <2> QED
    BY <1>3, <2>1 DEF ServerEvent
<1>8. Unknown(c)'
  BY <1>1, <1>2, <1>4, <1>7 DEF Unknown, Live
<1>9. NotAsked(c)' => NoMessages(c)'
  <2>1. NotAsked(c)' => Unknown(c) /\ NoMessages(c)
    BY <1>5, OwnSideKeeps DEF ClientInv, UnknownBefore
  <2> QED
    BY <1>6, <2>1 DEF Unknown, NoMessages
<1>10. Requested(c)' => Requested(c)
  BY <1>6 DEF Requested
<1>11. \A s : ~ Serves(c, s)'
  BY <1>1, <1>2 DEF Serves
<1>12. Asking(c)' => Asking(c)
  BY <1>7, <1>10, <1>11 DEF Asking, RequestHandled, RequestAt
<1>13. \A n \in 0 .. MaxMr : Answer(c, n)' => Answer(c, n)
  BY <1>5, <1>6, OwnSideKeeps DEF Answer
<1>14. NoAnswerYet(c)'
  BY <1>12, <1>13 DEF ClientInv, NoAnswerYet
<1>15. AnswersAgree(c)'
  BY <1>1, <1>4 DEF AnswersAgree, Live
<1>16. PeerPrepared(c)'
  BY <1>1, <1>4, <1>11, EventLoopAssumption DEF PeerPrepared
<1>17. RequestOnce(c)'
  BY <1>7, <1>8 DEF RequestOnce, RequestAt
<1>18. MinePrepared(c)' /\ OneAfterAnother(c)' /\ UnknownBefore(c)'
  BY <1>5, <1>8, <1>9, OwnSideKeeps DEF UnknownBefore
<1> QED
  BY <1>14, <1>15, <1>16, <1>17, <1>18 DEF ClientInv

\* A thinned channel of the server has no new events.
LEMMA ThinnedNoNew ==
  ASSUME NEW c, Thinned(events'[Server], events[Server]) PROVE NoNewFor(c)
<1> SUFFICES ASSUME NEW i, NEW k, ServerEvent(i, c)', ServerEvent(k, c)'
             PROVE  \E a, b : /\ ServerEvent(a, c) /\ events'[Server][i] = events[Server][a]
                              /\ ServerEvent(b, c) /\ events'[Server][k] = events[Server][b]
                              /\ a = b => i = k
  BY DEF NoNewFor
<1>1. PICK new, old : new = events'[Server] /\ old = events[Server]
  OBVIOUS
<1>2. Thinned(new, old)
  BY <1>1
<1>3. i \in 1 .. Len(new) /\ k \in 1 .. Len(new) /\ new[i].conn = c /\ new[k].conn = c
  BY <1>1 DEF ServerEvent
<1>4. PICK a, b \in 1 .. Len(old) : new[i] = old[a] /\ new[k] = old[b] /\ (a = b => i = k)
  BY <1>2, <1>3, ThinnedPairs
<1>5. ServerEvent(a, c) /\ ServerEvent(b, c)
  BY <1>1, <1>3, <1>4 DEF ServerEvent
<1> QED
  BY <1>1, <1>4, <1>5

\* A thread's step that is about another connection.
LEMMA ForeignWork ==
  ASSUME GInv, NEW c \in Clients, ClientInv(c), NEW t \in Threads, t # c,
         t = Server => event_copy[Server].conn # c, Works(t)
  PROVE  ClientInv(c)'
<1>1. /\ c \in Threads /\ Server \in Threads /\ c # Server
      /\ Mine(c) \in End /\ Peer(c) \in End
  BY OwnEnds
<1>2. Mine(c) # Here(t) /\ Peer(c) # Here(t) /\ event_copy[t].conn # c
  <2>1. todo[t] # <<>>
    BY Effects
  <2>2. t # Server => event_copy[t].conn = t
    BY <2>1, HereIsEnd
  <2>3. /\ Mine(c)[1] = c /\ Peer(c)[1] = Server /\ Peer(c)[2] = c /\ Here(t)[1] = t
        /\ Here(t)[2] = event_copy[t].conn
    BY DEF Mine, Peer, Here
  <2> QED
    BY <2>2, <2>3
<1>3. SameView(c)
  <2>1. /\ kind' = kind /\ place'[c] = place[c] /\ todo'[c] = todo[c]
        /\ events'[c] = events[c] /\ event_copy'[c] = event_copy[c]
        /\ EndsSame(Mine(c)) /\ EndsSame(Peer(c))
        /\ \A m \in net' : m \in net \/ m.conn # c
    BY <1>1, <1>2, Effects
  <2>2. \/ event_copy'[Server].conn # c
        \/ todo'[Server] = todo[Server] /\ event_copy'[Server] = event_copy[Server]
    <3>1. CASE t = Server
      <4>1. event_copy'[Server] \in {event_copy[Server], NoEvent(Server)}
        BY <3>1, Effects
      <4>2. NoEvent(Server).conn = Server
        BY DEF NoEvent
      <4> HIDE DEF NoEvent
      <4> QED
        BY <1>1, <1>2, <3>1, <4>1, <4>2
    <3>2. CASE t # Server
      BY <1>1, <3>2, Effects
    <3> QED
      BY <3>1, <3>2
  <2> QED
    BY <2>1, <2>2 DEF SameView
<1>4. Thinned(events'[Server], events[Server])
  <2>1. events[Server] \in Seq(Event)
    BY <1>1 DEF GInv, TypeOK
  <2>2. CASE t = Server
    BY <2>2, Effects
  <2>3. CASE t # Server
    <3>1. events'[Server] = events[Server]
      BY <1>1, <2>3, Effects
    <3> QED
      BY <2>1, <3>1, Untouched
  <2> QED
    BY <2>2, <2>3
<1> QED
  BY <1>3, <1>4, ThinnedNoNew, SameViewKeeps

LEMMA ForeignEvent ==
  ASSUME GInv, NEW c \in Clients, ClientInv(c), NEW t \in Threads, t # c, GetEvent(t),
         t = Server => events[Server][1].conn # c
  PROVE  ClientInv(c)'
<1>1. /\ c \in Threads /\ Server \in Threads /\ c # Server
      /\ Mine(c) \in End /\ Peer(c) \in End
  BY OwnEnds
<1>2. SameView(c)
  <2>1. /\ kind' = kind /\ place' = place /\ net' = net
        /\ EndsSame(Mine(c)) /\ EndsSame(Peer(c))
        /\ events'[c] = events[c] /\ todo'[c] = todo[c] /\ event_copy'[c] = event_copy[c]
    BY <1>1, Takes
  <2>2. CASE t = Server
    <3>1. event_copy'[Server].conn # c
      BY <2>2, Takes
    <3> QED
      BY <2>1, <3>1 DEF SameView
  <2>3. CASE t # Server
    <3>1. todo'[Server] = todo[Server] /\ event_copy'[Server] = event_copy[Server]
      BY <1>1, <2>3, Takes
    <3> QED
      BY <2>1, <3>1 DEF SameView
  <2> QED
    BY <2>2, <2>3
<1>3. Thinned(events'[Server], events[Server])
  <2>1. events[Server] \in Seq(Event)
    BY <1>1 DEF GInv, TypeOK
  <2>2. CASE t = Server
    <3>1. PICK q \in Seq(Event) : q = events[Server] /\ q # <<>> /\ events'[Server] = Tail(q)
      BY <2>2, Takes
    <3>2. Thinned(Tail(q), q)
      BY <3>1, Dequeued
    <3> QED
      BY <3>1, <3>2
  <2>3. CASE t # Server
    <3>1. events'[Server] = events[Server]
      BY <1>1, <2>3, Takes
    <3> QED
      BY <2>1, <3>1, Untouched
  <2> QED
    BY <2>2, <2>3
<1> QED
  BY <1>2, <1>3, ThinnedNoNew, SameViewKeeps

\* Another client's call, request to the CM or end.
LEMMA ForeignCall ==
  ASSUME GInv, NEW c \in Clients, ClientInv(c), NEW d \in Clients, d # c,
         \/ AddConnection(d) \/ EndCall(d) \/ WatchChannel(d) \/ Resolve(d) \/ ProcessEnds(d)
  PROVE  ClientInv(c)'
<1>1. /\ c \in Threads /\ Server \in Threads /\ c # Server /\ d \in Threads /\ d # Server
      /\ Mine(c) \in End /\ Peer(c) \in End /\ Mine(c) # <<d, d>> /\ Peer(c) # <<d, d>>
      /\ Mine(c)[1] = c /\ Peer(c)[1] = Server
  BY OwnEnds DEF Mine, Peer
<1>2. /\ DOMAIN place = Threads /\ DOMAIN events = Threads /\ DOMAIN todo = Threads
      /\ DOMAIN ctx = End /\ DOMAIN cm = End /\ events[Server] \in Seq(Event)
      /\ DOMAIN event_copy = Threads
  BY <1>1 DEF GInv, TypeOK
<1>3. /\ kind' = kind /\ place'[c] = place[c] /\ events'[c] = events[c]
      /\ events'[Server] = events[Server]
      /\ \A u \in {c, Server} : todo'[u] = todo[u] /\ event_copy'[u] = event_copy[u]
  <2>1. CASE AddConnection(d) \/ EndCall(d) \/ WatchChannel(d)
    BY <1>1, <1>2, <2>1 DEF AddConnection, EndCall, WatchChannel
  <2>2. CASE Resolve(d)
    <3>1. UNCHANGED <<kind, place, todo, event_copy>>
      BY <2>2 DEF Resolve, CmUnchanged
    <3>2. \E type : Enqueue(d, type, d, 0)
      BY <2>2 DEF Resolve
    <3> QED
      BY <1>1, <1>2, <3>1, <3>2 DEF Enqueue
  <2>3. CASE ProcessEnds(d)
    <3>1. Program(d, <<>>) /\ Proceed(d, <<>>)
      BY <1>1, <2>3, EventLoopAssumption, Begins DEF GInv, TypeOK, ProcessEnds
    <3>2. /\ kind' = kind
          /\ \A u \in {c, Server} : todo'[u] = todo[u] /\ event_copy'[u] = event_copy[u]
      BY <1>1, <3>1, Moves
    <3> QED
      BY <1>1, <1>2, <2>3, <3>2 DEF ProcessEnds
  <2> QED
    BY <2>1, <2>2, <2>3
<1>4. EndsSame(Mine(c)) /\ EndsSame(Peer(c))
  <2>1. CASE AddConnection(d) \/ EndCall(d) \/ WatchChannel(d)
    BY <1>1, <1>2, <2>1 DEF AddConnection, EndCall, WatchChannel, EndsSame
  <2>2. CASE Resolve(d)
    BY <1>1, <1>2, <2>2 DEF Resolve, CmUnchanged, EndsSame
  <2>3. CASE ProcessEnds(d)
    BY <1>1, <2>3 DEF ProcessEnds, EndsSame
  <2> QED
    BY <2>1, <2>2, <2>3
<1>5. \A m \in net' : m \in net \/ m.conn # c
  <2>1. CASE AddConnection(d) \/ EndCall(d) \/ WatchChannel(d) \/ Resolve(d)
    BY <2>1 DEF AddConnection, EndCall, WatchChannel, Resolve
  <2>2. CASE ProcessEnds(d)
    <3>1. net' = net \cup UNION {Farewell(e) : e \in {e \in End : e[1] = d}}
      BY <2>2 DEF ProcessEnds
    <3>2. ASSUME NEW e \in End, e[1] = d, NEW m \in Farewell(e) PROVE m.conn # c
      <4>1. m.conn = e[2] /\ e[2] = d
        BY <1>1, <3>2 DEF Farewell, From, End
      <4> QED
        BY <4>1
    <3> QED
      BY <3>1, <3>2
  <2> QED
    BY <2>1, <2>2
<1>6. SameView(c)
  BY <1>3, <1>4, <1>5 DEF SameView
<1>7. Thinned(events'[Server], events[Server])
  BY <1>2, <1>3, Untouched
<1> QED
  BY <1>6, <1>7, ThinnedNoNew, SameViewKeeps

\* What only the server does for a connection.
LEMMA ClientServes ==
  ASSUME GInv, NEW c \in Clients PROVE ~ AcceptConnection(c) /\ ~ Accept(c)
<1>1. ASSUME NEW s \in {"init", "accept"}, At(c, s) PROVE FALSE
  <2>1. c \in Threads /\ c # Server
    BY OwnEnds
  <2>2. Follows(c, s, Tail(todo[c]))
    BY <1>1, <2>1, DoesStep
  <2> QED
    BY <2>1, <2>2 DEF Follows, StepsOf
<1> QED
  BY <1>1 DEF AcceptConnection, Accept, Does

\* A message of another connection arrives.
LEMMA ForeignArrival ==
  ASSUME GInv, NEW c \in Clients, ClientInv(c), NEW m \in net, m.conn # c,
         ReceiveReq(m) \/ ReceiveRep(m) \/ ReceiveOther(m)
  PROVE  ClientInv(c)'
<1>1. /\ c \in Threads /\ Server \in Threads /\ c # Server
      /\ Mine(c) \in End /\ Peer(c) \in End /\ Mine(c)[2] = c /\ Peer(c)[2] = c
  BY OwnEnds DEF Mine, Peer
<1>2. /\ m.to \in {Server, m.conn} /\ m.regions \in 0 .. MaxMr /\ 0 \in 0 .. MaxMr
      /\ m.conn \in Threads /\ m.to \in Threads
      /\ m.type = "REQ" => m.to = Server
  <2>1. m.to \in {Server, m.conn} /\ (m.type = "REQ" => m.to = Server)
    BY DEF GInv, MessagesRight, Addressed
  <2>2. m \in Message
    BY DEF GInv, TypeOK
  <2>3. m.regions \in 0 .. MaxMr /\ m.conn \in Clients /\ 0 \in 0 .. MaxMr
    BY <2>2, EventLoopAssumption DEF Message
  <2> QED
    BY <1>1, <2>1, <2>3 DEF Threads
<1>3. /\ UNCHANGED <<kind, place, todo, event_copy, channels, ctx, built, num_local,
                     num_remote>>
  BY DEF ReceiveReq, ReceiveRep, ReceiveOther, CmUnchanged
<1>4. DOMAIN cm = End /\ DOMAIN events = Threads /\ events[Server] \in Seq(Event)
  BY <1>1 DEF GInv, TypeOK
<1>5. cm'[Mine(c)] = cm[Mine(c)] /\ cm'[Peer(c)] = cm[Peer(c)]
  <2>1. cm' = cm \/ \E t, next : cm' = [cm EXCEPT ![<<t, m.conn>>] = next]
    <3>1. CASE ReceiveReq(m)
      BY <3>1 DEF ReceiveReq
    <3>2. CASE ReceiveRep(m)
      BY <3>2 DEF ReceiveRep
    <3>3. CASE ReceiveOther(m)
      BY <3>3 DEF ReceiveOther
    <3> QED
      BY <3>1, <3>2, <3>3
  <2>2. \A t : <<t, m.conn>> # Mine(c) /\ <<t, m.conn>> # Peer(c)
    BY <1>1
  <2> QED
    BY <1>1, <1>4, <2>1, <2>2
<1>6. \/ events' = events
      \/ \E event \in Event : /\ event.conn = m.conn
                              /\ events' = [events EXCEPT ![m.to] = Append(events[m.to], event)]
  <2>1. ASSUME NEW type \in {"CONNECT_REQUEST", "ESTABLISHED", "REJECTED", "UNREACHABLE",
                             "DISCONNECTED"}, NEW n \in 0 .. MaxMr,
               Enqueue(m.to, type, m.conn, n)
        PROVE  \E event \in Event :
                 /\ event.conn = m.conn
                 /\ events' = [events EXCEPT ![m.to] = Append(events[m.to], event)]
    <3>1. PICK event : event = [type |-> type, conn |-> m.conn, regions |-> n]
      OBVIOUS
    <3>2. event \in Event /\ event.conn = m.conn
      BY <1>2, <3>1 DEF Event, EventType
    <3>3. events' = [events EXCEPT ![m.to] = Append(events[m.to], event)]
      BY <2>1, <3>1 DEF Enqueue
    <3> QED
      BY <3>2, <3>3
  <2>2. \/ events' = events
        \/ \E type \in {"CONNECT_REQUEST", "ESTABLISHED", "REJECTED", "UNREACHABLE",
                        "DISCONNECTED"}, n \in {0, m.regions} :
             Enqueue(m.to, type, m.conn, n)
    <3>1. CASE ReceiveReq(m)
      BY <1>2, <3>1 DEF ReceiveReq
    <3>2. CASE ReceiveRep(m)
      BY <3>2 DEF ReceiveRep
    <3>3. CASE ReceiveOther(m)
      BY <3>3 DEF ReceiveOther
    <3> QED
      BY <3>1, <3>2, <3>3
  <2> QED
    BY <1>2, <2>1, <2>2
<1>7. ASSUME NEW x \in net', x \notin net PROVE x.conn # c
  <2>1. \E e, type : x = From(e, type, 0) /\ e[2] = m.conn
    <3>1. CASE ReceiveReq(m)
      <4>1. x = From(<<Server, m.conn>>, "REJ", 0)
        BY <1>7, <3>1 DEF ReceiveReq
      <4>2. <<Server, m.conn>>[2] = m.conn
        OBVIOUS
      <4> QED
        BY <4>1, <4>2
    <3>2. CASE ReceiveRep(m)
      <4>1. \E type : x = From(<<m.to, m.conn>>, type, 0)
        BY <1>7, <3>2 DEF ReceiveRep
      <4>2. <<m.to, m.conn>>[2] = m.conn
        OBVIOUS
      <4> QED
        BY <4>1, <4>2
    <3>3. CASE ReceiveOther(m)
      BY <1>7, <3>3 DEF ReceiveOther
    <3> QED
      BY <3>1, <3>2, <3>3
  <2> QED
    BY <2>1 DEF From
<1>8. events'[c] = events[c]
  BY <1>1, <1>2, <1>4, <1>6
<1>9. SameView(c)
  BY <1>3, <1>5, <1>7, <1>8 DEF SameView, EndsSame
<1>10. NoNewFor(c)
  <2>1. CASE events'[Server] = events[Server]
    BY <2>1 DEF NoNewFor, ServerEvent
  <2>2. CASE events'[Server] # events[Server]
    <3>1. PICK event \in Event :
            event.conn = m.conn /\ events'[Server] = Append(events[Server], event)
      BY <1>1, <1>4, <1>6, <2>2
    <3>2. /\ Len(events[Server]) \in Nat
          /\ Len(events'[Server]) = Len(events[Server]) + 1
          /\ events'[Server][Len(events[Server]) + 1] = event
          /\ \A k \in 1 .. Len(events[Server]) : events'[Server][k] = events[Server][k]
      BY <1>4, <3>1, Appended
    <3>3. ASSUME NEW i, ServerEvent(i, c)'
          PROVE  ServerEvent(i, c) /\ events'[Server][i] = events[Server][i]
      <4>1. i \in 1 .. Len(events[Server])
        BY <3>1, <3>2, <3>3 DEF ServerEvent
      <4> QED
        BY <3>2, <3>3, <4>1 DEF ServerEvent
    <3> QED
      BY <3>3 DEF NoNewFor
  <2> QED
    BY <2>1, <2>2
<1> QED
  BY <1>9, <1>10, SameViewKeeps

\* A message of the client's connection arrives.
LEMMA OwnMessage ==
  ASSUME GInv, NEW c \in Clients, ClientInv(c), NEW m \in net, m.conn = c,
         ReceiveReq(m) \/ ReceiveRep(m) \/ ReceiveOther(m)
  PROVE  ClientInv(c)'
<1>1. /\ c \in Threads /\ Server \in Threads /\ c # Server
      /\ Mine(c) \in End /\ Peer(c) \in End /\ Mine(c) # Peer(c)
      /\ Mine(c) = <<c, c>> /\ Mine(c)[1] = c
  BY OwnEnds DEF Mine
<1>2. /\ DOMAIN cm = End /\ DOMAIN events = Threads /\ cm[Mine(c)] \in CmOf(c)
      /\ m \in Message /\ CmUnchanged
      /\ m.to \in {Server, c} /\ (m.type = "REP" => m.to = c)
  <2>1. cm[Mine(c)] \in CmOf(c)
    BY <1>1 DEF GInv, IdsRight
  <2>2. m.to \in {Server, c} /\ (m.type = "REP" => m.to = c)
    BY DEF GInv, MessagesRight, Addressed
  <2>3. CmUnchanged
    BY DEF ReceiveReq, ReceiveRep, ReceiveOther
  <2> QED
    BY <1>1, <2>1, <2>2, <2>3 DEF GInv, TypeOK
<1>3. CASE ReceiveReq(m)
  <2>1. CASE place[Server] = "exited"
    <3>1. /\ net' = (net \ {m}) \cup {From(<<Server, m.conn>>, "REJ", 0)}
          /\ UNCHANGED <<cm, events>>
      BY <1>3, <2>1 DEF ReceiveReq
    <3>2. From(<<Server, m.conn>>, "REJ", 0).type = "REJ"
      BY DEF From
    <3>3. \A x \in net' : x \in net \/ x.type \in {"RTU", "LOST", "REJ"}
      BY <3>1, <3>2
    <3> QED
      BY <1>2, <3>1, <3>3, OwnArrival
  <2> QED
    BY <1>3, <2>1, RequestArrives
<1>4. CASE ReceiveRep(m)
  <2>1. m.type = "REP" /\ m.to = c
    BY <1>2, <1>4 DEF ReceiveRep
  <2>2. \A x \in net' : x \in net \/ x.type \in {"RTU", "LOST", "REJ"}
    BY <1>4 DEF ReceiveRep, From
  <2>3. CASE cm[Mine(c)] = "connecting"
    <3>1. /\ cm' = [cm EXCEPT ![Mine(c)] = "connected"]
          /\ events' = [events EXCEPT ![c] =
                          Append(events[c],
                                 [type |-> "ESTABLISHED", conn |-> c, regions |-> m.regions])]
      BY <1>1, <1>4, <2>1, <2>3 DEF ReceiveRep, Enqueue
    <3>2. PICK event :
            event = [type |-> "ESTABLISHED", conn |-> c, regions |-> m.regions]
      OBVIOUS
    <3>3. event \in Event /\ event.type = "ESTABLISHED" /\ event.regions = m.regions
      BY <1>1, <1>2, <3>2 DEF Event, EventType, Message
    <3>4. /\ events'[c] = Append(events[c], event) /\ events'[Server] = events[Server]
          /\ cm'[Mine(c)] = "connected" /\ cm'[Peer(c)] = cm[Peer(c)]
      BY <1>1, <1>2, <3>1, <3>2
    <3> QED
      BY <1>2, <2>1, <2>2, <2>3, <3>3, <3>4, OwnArrival
  <2>4. CASE cm[Mine(c)] # "connecting"
    <3>1. UNCHANGED <<cm, events>>
      BY <1>1, <1>4, <2>1, <2>4 DEF ReceiveRep
    <3> QED
      BY <1>2, <2>2, <3>1, OwnArrival
  <2> QED
    BY <2>3, <2>4
<1>5. CASE ReceiveOther(m) /\ m.to = c
  <2>1. net' = net \ {m}
    BY <1>5 DEF ReceiveOther
  <2>2. cm[Mine(c)] \notin {"accepted", "requested"}
    BY <1>1, <1>2 DEF CmOf
  <2>3. \/ UNCHANGED <<cm, events>>
        \/ /\ cm' = [cm EXCEPT ![Mine(c)] = "closed"]
           /\ \E type \in {"REJECTED", "DISCONNECTED"} :
                events' = [events EXCEPT ![c] =
                             Append(events[c], [type |-> type, conn |-> c, regions |-> 0])]
    BY <1>1, <1>5, <2>2 DEF ReceiveOther, Enqueue
  <2>4. CASE UNCHANGED <<cm, events>>
    BY <1>2, <2>1, <2>4, OwnArrival
  <2>5. ASSUME NEW type \in {"REJECTED", "DISCONNECTED"},
               cm' = [cm EXCEPT ![Mine(c)] = "closed"],
               events' = [events EXCEPT ![c] =
                            Append(events[c], [type |-> type, conn |-> c, regions |-> 0])]
        PROVE  ClientInv(c)'
    <3>1. PICK event : event = [type |-> type, conn |-> c, regions |-> 0]
      OBVIOUS
    <3>2. 0 \in 0 .. MaxMr
      BY EventLoopAssumption
    <3>3. event \in Event /\ event.type \in {"REJECTED", "DISCONNECTED"}
      BY <1>1, <3>1, <3>2 DEF Event, EventType
    <3>4. /\ events'[c] = Append(events[c], event) /\ events'[Server] = events[Server]
          /\ cm'[Mine(c)] = "closed" /\ cm'[Peer(c)] = cm[Peer(c)]
      BY <1>1, <1>2, <2>5, <3>1
    <3> QED
      BY <1>2, <2>1, <3>3, <3>4, OwnArrival
  <2> QED
    BY <2>3, <2>4, <2>5
<1>6. CASE ReceiveOther(m) /\ m.to = Server
  BY <1>6, NewsArrives
<1> QED
  BY <1>2, <1>3, <1>4, <1>5, <1>6

LEMMA InitPInv == ASSUME EventLoopAssumption, Init PROVE PInv
<1> SUFFICES ASSUME NEW c \in Clients PROVE ClientInv(c)
  BY DEF PInv
<1>1. /\ c \in Threads /\ Server \in Threads /\ c # Server
      /\ Mine(c) \in End /\ Peer(c) \in End
  BY OwnEnds, InitGInv
<1>2. Len(<<>>) = 0
  OBVIOUS
<1>3. NoEvent(Server).conn = Server
  BY DEF NoEvent
<1> HIDE DEF NoEvent
<1>4. /\ place[c] = "new" /\ todo[c] = <<>> /\ todo[Server] = <<>>
      /\ event_copy[Server].conn = Server
      /\ events[c] = <<>> /\ events[Server] = <<>> /\ net = {}
      /\ ctx[Mine(c)] = "none" /\ ctx[Peer(c)] = "none"
      /\ cm[Mine(c)] = "none" /\ cm[Peer(c)] = "none" /\ num_local[Peer(c)] = 0
  BY <1>1, <1>3 DEF Init
<1>5. (\A s : ~ At(c, s) /\ ~ Serves(c, s)) /\ \A i : ~ ServerEvent(i, c)
  BY <1>2, <1>4 DEF At, Serves, ServerEvent
<1>6. MinePrepared(c)
  BY <1>2, <1>4, <1>5 DEF MinePrepared, OnTheWay
<1>7. PeerPrepared(c)
  BY <1>4, <1>5, EventLoopAssumption DEF PeerPrepared
<1>8. OneAfterAnother(c)
  BY <1>2, <1>4, <1>5 DEF OneAfterAnother, Early, EarlyId, HasEarlyEvent, AtEarlyStep
<1>9. Unknown(c) /\ NoMessages(c)
  BY <1>1, <1>4, <1>5 DEF Unknown, NoMessages, Live
<1>10. UnknownBefore(c) /\ RequestOnce(c)
  BY <1>5, <1>9 DEF UnknownBefore, RequestOnce, RequestAt
<1>11. NoAnswerYet(c) /\ AnswersAgree(c)
  BY <1>2, <1>4, <1>5 DEF NoAnswerYet, AnswersAgree, Answer
<1> QED
  BY <1>6, <1>7, <1>8, <1>10, <1>11 DEF ClientInv

LEMMA NextPInv == ASSUME RegionsFit, GInv, LInv, PInv, [Next]_vars PROVE PInv'
<1> SUFFICES ASSUME NEW c \in Clients PROVE ClientInv(c)'
  BY DEF PInv
<1>1. ClientInv(c) /\ c \in Threads /\ Server \in Threads /\ c # Server
  BY OwnEnds DEF PInv
<1>2. ASSUME NEW t \in Threads, Works(t) PROVE ClientInv(c)'
  <2>1. CASE t = c
    BY <1>1, <1>2, <2>1, EarlyWork, ReadyWork, ClosingWork, ClientServes DEF Works
  <2>2. CASE t = Server /\ event_copy[Server].conn = c
    BY <1>1, <1>2, <2>2, ServerWork
  <2>3. CASE t # c /\ (t = Server => event_copy[Server].conn # c)
    BY <1>1, <1>2, <2>3, ForeignWork
  <2> QED
    BY <2>1, <2>2, <2>3
<1>3. ASSUME NEW t \in Threads, GetEvent(t) PROVE ClientInv(c)'
  <2>1. CASE t = c
    BY <1>1, <1>3, <2>1, OwnEvent
  <2>2. CASE t = Server /\ events[Server][1].conn = c
    BY <1>1, <1>3, <2>2, ServerEventTaken
  <2>3. CASE t # c /\ (t = Server => events[Server][1].conn # c)
    BY <1>1, <1>3, <2>3, ForeignEvent
  <2> QED
    BY <2>1, <2>2, <2>3
<1>4. ASSUME NEW t \in Threads, ProcessEnds(t) PROVE ClientInv(c)'
  <2>1. t = c \/ t = Server \/ (t \in Clients /\ t # c)
    BY DEF Threads
  <2> QED
    BY <1>1, <1>4, <2>1, OwnEnd, ServerEnd, ForeignCall
<1>5. ASSUME NEW d \in Clients,
             AddConnection(d) \/ EndCall(d) \/ WatchChannel(d) \/ Resolve(d)
      PROVE  ClientInv(c)'
  BY <1>1, <1>5, OwnCall, OwnResolve, ForeignCall
<1>6. CASE Receive
  BY <1>1, <1>6, OwnMessage, ForeignArrival DEF Receive
<1>7. CASE UNCHANGED vars
  <2>1. UNCHANGED <<kind, place, todo, event_copy, events, channels, ctx, built, num_local,
                    num_remote, cm, net>>
    BY <1>7 DEF vars
  <2>2. SameView(c) /\ NoNewFor(c)
    BY <2>1 DEF SameView, EndsSame, NoNewFor, ServerEvent
  <2> QED
    BY <1>1, <2>2, SameViewKeeps
<1>8. CASE \E t \in Threads : ThreadStep(t)
  BY <1>2, <1>3, <1>4, <1>8 DEF ThreadStep, Works, Exit
<1>9. CASE \E d \in Clients : \/ AddConnection(d) \/ EndCall(d) \/ WatchChannel(d)
                              \/ ClientDies(d) \/ Resolve(d)
  BY <1>4, <1>5, <1>9 DEF ClientDies, Threads
<1> QED
  BY <1>6, <1>7, <1>8, <1>9 DEF Next

\* Both ends of a connection that is ready have their queue pair and memory,
\* a sender its address handle, and the client knows the number of regions
\* that the server registered, however connections, failures and ends of the
\* other clients are interleaved (connection.c 266-276, 303-322), as long as
\* the regions fit the private data.
THEOREM ReadyMeansPreparedHolds == ASSUME RegionsFit PROVE Spec => []ReadyMeansPrepared
<1> DEFINE Inv == GInv /\ LInv /\ PInv
<1>1. Init => Inv
  BY EventLoopAssumption, InitGInv, InitLInv, InitPInv
<1>2. Inv /\ [Next]_vars => Inv'
  BY NextGInv, NextLInv, NextPInv
<1>3. Inv => ReadyMeansPrepared
  <2> SUFFICES ASSUME Inv, NEW c \in Clients, ctx[Mine(c)] = "READY"
               PROVE  /\ {"qp", "mr"} \subseteq built[Mine(c)]
                      /\ kind[c] = "sender" => "ah" \in built[Mine(c)]
                      /\ Live(Peer(c)) => /\ {"qp", "mr"} \subseteq built[Peer(c)]
                                          /\ num_remote[Mine(c)] = num_local[Peer(c)]
    BY DEF ReadyMeansPrepared, Mine, Peer
  <2>1. MinePrepared(c) /\ AnswersAgree(c)
    BY DEF PInv, ClientInv
  <2>2. OnTheWay(c)
    BY DEF OnTheWay
  <2>3. Mine(c) \in End /\ num_remote \in [End -> 0 .. MaxMr]
    BY OwnEnds DEF GInv, TypeOK
  <2>4. PICK n \in 0 .. MaxMr : n = num_remote[Mine(c)]
    BY <2>3
  <2>5. Answer(c, n)
    BY <2>4 DEF Answer
  <2>6. Live(Peer(c)) => Prepared(Peer(c)) /\ num_local[Peer(c)] = n
    BY <2>1, <2>5 DEF AnswersAgree
  <2> QED
    BY <2>1, <2>2, <2>4, <2>6 DEF MinePrepared, Prepared
<1> HIDE DEF Inv
<1> QED
  BY <1>1, <1>2, <1>3, PTL DEF Spec

=============================================================================
