---------------------------- MODULE ReactorProofs ----------------------------
(***************************************************************************)
(* Theorems about Reactor, for every number of connections, slots and      *)
(* requests.  The table of event_data objects is sound, and what           *)
(* epoll_wait returns exists, whenever connections and the agent are       *)
(* ended; that no counter leaves its range needs an application that ends  *)
(* them while the thread is idle.                                          *)
(***************************************************************************)
EXTENDS Reactor, BitmapsProofs, FiniteSetTheorems

\* The assumption of the theorem about the thread: a connection is ended when
\* its work is done and its channel is empty and not in the batch, the agent
\* while the thread sleeps.
EndsIdle == Ending = "idle"

-----------------------------------------------------------------------------
(***************************************************************************)
(* The inductive invariant of the table.  WatchedAreStored alone is not    *)
(* inductive: that store_event finds a slot rests on EVENT_SIZE and on     *)
(* every taken slot standing for a connection on its way, and that         *)
(* del_event_fd frees the right event_data on no two chunks holding the    *)
(* same connection's.                                                      *)
(***************************************************************************)
\* From store_event to free_event a connection has an entry.
Entered == {"stored", "open", "flushing", "noqp", "nocq", "unwatched"}

TableTypeOK ==
  /\ event_bitmap \in [Slots -> {0, 1}]
  /\ event_map \in [Slots -> Chunks \cup {None}]
  /\ data \in [Chunks -> Conns \cup {None}]
  /\ watched \subseteq Conns
  /\ pc \in [Conns -> Phase]
  /\ agent \in {"live", "stopping", "gone"}
  /\ exited \in BOOLEAN

BitMeansEntry == \A i \in Slots : event_bitmap[i] = 1 <=> event_map[i] # None

\* A connection on its way has one event_data at most, the others have none.
DataOwned ==
  /\ \A m \in Chunks : data[m] # None => pc[data[m]] \in Entered
  /\ \A m, n \in Chunks : data[m] # None /\ data[m] = data[n] => m = n

\* A connection that will be looked for in the table is there.
DataKept ==
  /\ \A c \in watched : pc[c] \in {"open", "flushing", "noqp", "nocq"}
  /\ \A c \in Conns :
       \/ pc[c] = "stored" \/ c \in watched
       \/ pc[c] = "unwatched" /\ ~ exited
       => Entries(c) # {}

Taken == {i \in Slots : event_map[i] # None}

SlotsCounted == Cardinality(Taken) = Cardinality(OnTheirWay)

\* Only a registration that failed leaves an entry without an event_data of its
\* own.
Clean ==
  /\ \A i \in Taken : data[event_map[i]] # None
  /\ \A i, j \in Taken : event_map[i] = event_map[j] => i = j

CleanUnlessFailed == exited \/ AddFailed \/ Clean

\* The agent is destroyed after its connections.
AgentLast == agent # "live" => \A c \in Conns : pc[c] = "new"

TInv ==
  /\ TableTypeOK /\ BitMeansEntry /\ DataOwned /\ DataKept /\ SlotsCounted
  /\ CleanUnlessFailed /\ AgentLast

-----------------------------------------------------------------------------
(***************************************************************************)
(* The inductive invariant of what is behind a destroyed queue pair and    *)
(* CQ, whenever connections end.                                           *)
(***************************************************************************)
Drained ==
  /\ posted \in [Conns -> Int] /\ events \in [Conns -> Int]
  /\ \A c \in Conns : pc[c] \in {"noqp", "nocq", "unwatched"} => posted[c] = 0
  /\ \A c \in Conns : pc[c] \in {"nocq", "unwatched"} => events[c] = 0

-----------------------------------------------------------------------------
(***************************************************************************)
(* The inductive invariant of the thread.                                  *)
(***************************************************************************)
WorkTypeOK ==
  /\ left \in [Conns -> Nat] /\ posted \in [Conns -> Nat] /\ cqes \in [Conns -> Nat]
  /\ armed \in [Conns -> BOOLEAN] /\ events \in [Conns -> {0, 1}]
  /\ thread \in Step /\ batch \in Seq(Conns) /\ stop \in BOOLEAN

\* A connection posts at most MaxPosts requests in its life.
Budget == \A c \in Conns : left[c] + posted[c] + cqes[c] <= MaxPosts

\* A connection that is not open has no work, no event and no place in the batch.
QuietEnd ==
  \A c \in Conns :
    /\ pc[c] \notin {"built", "stored", "open"} =>
         posted[c] = 0 /\ cqes[c] = 0 /\ events[c] = 0
    /\ armed[c] => events[c] = 0

\* The thread holds a batch exactly while it handles one: distinct channels of
\* open connections, each with its event until the handler has taken it.
BatchWaits ==
  /\ thread \in {"start", "wait", "test", "ended"} <=> batch = <<>>
  /\ \A i \in 1 .. Len(batch) :
       /\ batch[i] \in watched /\ pc[batch[i]] = "open"
       /\ i > 1 \/ thread \in {"handle", "get"} => events[batch[i]] = 1
       /\ \A j \in 1 .. Len(batch) : batch[i] = batch[j] => i = j
  /\ thread \in {"ack", "arm"} => events[batch[1]] = 0 /\ ~ armed[batch[1]]

\* The thread that outlives the agent sleeps.
AgentIdle == agent # "live" => thread = "wait"

WInv == WorkTypeOK /\ Budget /\ QuietEnd /\ BatchWaits /\ AgentIdle

IInv == TInv /\ WInv
-----------------------------------------------------------------------------
LEMMA CountsFinite ==
  /\ IsFiniteSet(Slots) /\ Cardinality(Slots) = EventSize
  /\ IsFiniteSet(Taken) /\ Taken \subseteq Slots /\ Cardinality(Taken) \in Nat
  /\ IsFiniteSet(OnTheirWay) /\ OnTheirWay \subseteq Conns
  /\ Cardinality(OnTheirWay) \in Nat /\ Cardinality(OnTheirWay) <= EventSize
<1>1. EventSize \in Nat /\ Slots = 0 .. EventSize - 1
  BY ReactorAssumption DEF Slots
<1>2. IsFiniteSet(Slots) /\ Cardinality(Slots) = EventSize
  BY <1>1, FS_Interval
<1>3. Taken \subseteq Slots /\ OnTheirWay \subseteq Conns
  BY DEF Taken, OnTheirWay
<1>4. /\ IsFiniteSet(Taken) /\ IsFiniteSet(OnTheirWay)
      /\ Cardinality(OnTheirWay) <= Cardinality(Conns)
  BY <1>2, <1>3, ReactorAssumption, FS_Subset
<1> QED
  BY <1>1, <1>2, <1>3, <1>4, ReactorAssumption, FS_CardinalityType

\* store_event finds a slot: the connections in the table are fewer than the
\* slots as long as one is missing.
LEMMA FreeSlot ==
  ASSUME TInv, NEW c \in Conns, pc[c] \notin Entered,
         NEW index, index = find_first_empty_bit(event_bitmap)
  PROVE  index \in Slots /\ event_map[index] = None
<1>1. /\ event_bitmap \in [0 .. EventSize - 1 -> {0, 1}] /\ EventSize \in Nat
      /\ Slots = 0 .. EventSize - 1
  BY ReactorAssumption DEF TInv, TableTypeOK, Slots
<1>2. CASE \A i \in Slots : event_bitmap[i] = 1
  <2>1. Taken = Slots
    BY <1>2 DEF TInv, BitMeansEntry, Taken
  <2>2. OnTheirWay \subseteq Conns \ {c}
    BY DEF OnTheirWay, Entered
  <2>3. /\ IsFiniteSet(Conns \ {c}) /\ Cardinality(Conns \ {c}) = Cardinality(Conns) - 1
        /\ Cardinality(Conns) \in Nat /\ Cardinality(Conns) <= EventSize
    BY ReactorAssumption, FS_RemoveElement, FS_CardinalityType
  <2>4. Cardinality(OnTheirWay) <= Cardinality(Conns \ {c})
    BY <2>2, <2>3, FS_Subset
  <2>5. Cardinality(OnTheirWay) = EventSize
    BY <2>1, CountsFinite DEF TInv, SlotsCounted
  <2> QED
    BY <1>1, <2>3, <2>4, <2>5
<1>3. CASE \E i \in Slots : event_bitmap[i] # 1
  <2>1. index \in Slots /\ event_bitmap[index] = 0
    BY <1>1, <1>3, FirstEmptyBit
  <2> QED
    BY <2>1 DEF TInv, TableTypeOK, BitMeansEntry
<1> QED
  BY <1>2, <1>3

LEMMA InitTInv == Init => TInv
<1> SUFFICES ASSUME Init PROVE TInv
  OBVIOUS
<1>1. /\ event_bitmap = [i \in Slots |-> 0] /\ event_map = [i \in Slots |-> None]
      /\ data = [m \in Chunks |-> None] /\ watched = {} /\ pc = [c \in Conns |-> "new"]
      /\ agent = "live" /\ exited = FALSE
  BY DEF Init
<1>2. TableTypeOK
  BY <1>1 DEF TableTypeOK, Phase
<1>3. BitMeansEntry /\ DataOwned /\ DataKept /\ AgentLast
  BY <1>1 DEF BitMeansEntry, DataOwned, DataKept, AgentLast
<1>4. Taken = {} /\ OnTheirWay = {}
  BY <1>1 DEF Taken, OnTheirWay
<1>5. SlotsCounted /\ CleanUnlessFailed
  BY <1>4 DEF SlotsCounted, CleanUnlessFailed, Clean
<1> QED
  BY <1>2, <1>3, <1>5 DEF TInv

LEMMA StoreEventTInv ==
  ASSUME TInv, NEW c \in Conns, StoreEvent(c)
  PROVE  TInv'
<1> DEFINE index == find_first_empty_bit(event_bitmap)
<1>1. PICK m \in Chunks :
        /\ data[m] = None /\ data' = [data EXCEPT ![m] = c]
        /\ event_map' = [event_map EXCEPT ![index] = m]
  BY DEF StoreEvent
<1>2. /\ pc[c] = "built" /\ pc' = [pc EXCEPT ![c] = "stored"] /\ agent = "live"
      /\ event_bitmap' = [event_bitmap EXCEPT ![index] = 1]
      /\ UNCHANGED <<watched, agent, exited>>
  BY DEF StoreEvent, Owner, threadVars
<1>3. index \in Slots /\ event_map[index] = None
  BY <1>2, FreeSlot DEF Entered
<1> HIDE DEF index
<1>4. c # None /\ m # None
  BY ReactorAssumption
<1>5. TableTypeOK'
  BY <1>1, <1>2, <1>3 DEF TInv, TableTypeOK, Phase
<1>6. \A i \in Slots : event_map'[i] = IF i = index THEN m ELSE event_map[i]
  BY <1>1 DEF TInv, TableTypeOK
<1>7. \A n \in Chunks : data'[n] = IF n = m THEN c ELSE data[n]
  BY <1>1 DEF TInv, TableTypeOK
<1>8. \A d \in Conns : pc'[d] = IF d = c THEN "stored" ELSE pc[d]
  BY <1>2 DEF TInv, TableTypeOK
<1>9. BitMeansEntry'
  BY <1>2, <1>3, <1>4, <1>6 DEF TInv, TableTypeOK, BitMeansEntry
<1>10. \A n \in Chunks : data[n] # c
  BY <1>2, <1>4 DEF TInv, DataOwned, Entered
<1>11. DataOwned'
  <2>1. \A n \in Chunks : data[n] \in Conns \cup {None}
    BY DEF TInv, TableTypeOK
  <2> QED
    BY <1>4, <1>7, <1>8, <1>10, <2>1 DEF TInv, DataOwned, Entered
<1>12. \A d \in Conns : d # c => Entries(d)' = Entries(d)
  <2> SUFFICES ASSUME NEW d \in Conns, d # c, NEW i \in Slots
               PROVE  event_map'[i] # None /\ data'[event_map'[i]] = d
                        <=> event_map[i] # None /\ data[event_map[i]] = d
    BY DEF Entries
  <2>1. d # None /\ event_map[i] \in Chunks \cup {None}
    BY ReactorAssumption DEF TInv, TableTypeOK
  <2>2. CASE i = index
    BY <1>3, <1>4, <1>6, <1>7, <2>2
  <2>3. CASE i # index
    BY <1>1, <1>4, <1>6, <1>7, <2>1, <2>3
  <2> QED
    BY <2>2, <2>3
<1>13. index \in Entries(c)'
  BY <1>3, <1>4, <1>6, <1>7 DEF Entries
<1>14. DataKept'
  BY <1>2, <1>8, <1>12, <1>13 DEF TInv, DataKept
<1>15. SlotsCounted'
  <2>1. Taken' = Taken \cup {index} /\ index \notin Taken
    BY <1>3, <1>4, <1>6 DEF Taken
  <2>2. OnTheirWay' = OnTheirWay \cup {c} /\ c \notin OnTheirWay
    BY <1>2, <1>8 DEF OnTheirWay
  <2>3. /\ Cardinality(Taken') = Cardinality(Taken) + 1
        /\ Cardinality(OnTheirWay') = Cardinality(OnTheirWay) + 1
    BY <2>1, <2>2, CountsFinite, FS_AddElement
  <2> QED
    BY <2>3 DEF TInv, SlotsCounted
<1>16. CleanUnlessFailed'
  <2>1. AddFailed => AddFailed'
    BY <1>2, <1>8 DEF AddFailed
  <2>2. Clean => Clean'
    <3> SUFFICES ASSUME Clean PROVE Clean'
      OBVIOUS
    <3>1. \A i \in Taken : event_map[i] \in Chunks /\ event_map[i] # m
      BY <1>1 DEF Clean, Taken, TInv, TableTypeOK
    <3>2. \A i \in Taken' : i = index \/ (i \in Taken /\ event_map'[i] = event_map[i])
      BY <1>6 DEF Taken
    <3> QED
      BY <1>3, <1>4, <1>6, <1>7, <3>1, <3>2 DEF Clean
  <2> QED
    BY <1>2, <2>1, <2>2 DEF TInv, CleanUnlessFailed
<1>17. AgentLast'
  BY <1>2 DEF AgentLast
<1> QED
  BY <1>5, <1>9, <1>11, <1>14, <1>15, <1>16, <1>17 DEF TInv

\* What freeing the event_data of c leaves.
LEMMA FreedData ==
  ASSUME TInv, NEW c \in Conns
  PROVE  /\ Freed(c) \in [Chunks -> Conns \cup {None}]
         /\ \A m \in Chunks : Freed(c)[m] = IF data[m] = c THEN None ELSE data[m]
BY DEF Freed, TInv, TableTypeOK

\* The steps of an owner between the two that change the table.
LEMMA OwnerMovesTInv ==
  ASSUME TInv, NEW c \in Conns,
         \/ BuildCqChannel(c) \/ EpollAdd(c) \/ Disconnect(c)
         \/ DestroyQp(c) \/ DestroyCq(c) \/ EpollDel(c)
  PROVE  TInv'
<1>1. PICK from, to \in Phase :
        /\ pc[c] = from /\ pc' = [pc EXCEPT ![c] = to]
        /\ from \in Entered <=> to \in Entered
        /\ to # "new" /\ to # "stored"
  BY DEF BuildCqChannel, EpollAdd, Disconnect, DestroyQp, DestroyCq, EpollDel,
         Owner, Phase, Entered
<1>2. /\ agent = "live" /\ UNCHANGED <<event_bitmap, event_map, data, agent>>
      /\ exited' \in BOOLEAN
  BY DEF BuildCqChannel, EpollAdd, Disconnect, DestroyQp, DestroyCq, EpollDel,
         Owner, threadVars, tableVars, TInv, TableTypeOK
<1>3. TableTypeOK'
  <2>1. watched' \subseteq Conns
    BY DEF BuildCqChannel, EpollAdd, Disconnect, DestroyQp, DestroyCq,
           EpollDel, tableVars, TInv, TableTypeOK
  <2> QED
    BY <1>1, <1>2, <2>1 DEF TInv, TableTypeOK
<1>4. \A d \in Conns : pc'[d] = IF d = c THEN to ELSE pc[d]
  BY <1>1 DEF TInv, TableTypeOK
<1>5. BitMeansEntry' /\ AgentLast'
  BY <1>2 DEF TInv, BitMeansEntry, AgentLast
<1>6. DataOwned'
  BY <1>1, <1>2, <1>4 DEF TInv, TableTypeOK, DataOwned
<1>7. SlotsCounted'
  <2>1. Taken' = Taken
    BY <1>2 DEF Taken
  <2>2. OnTheirWay' = OnTheirWay
    BY <1>1, <1>4 DEF OnTheirWay, Entered
  <2> QED
    BY <2>1, <2>2 DEF TInv, SlotsCounted
<1>8. /\ \A d \in Conns : Entries(d)' = Entries(d)
      /\ Clean' <=> Clean
  BY <1>2 DEF Entries, Clean, Taken
<1>9. DataKept' /\ CleanUnlessFailed'
  <2>1. CASE EpollAdd(c)
    <3>1. /\ pc[c] = "stored" /\ to = "open" /\ watched' = watched \cup {c}
          /\ exited' = exited
      BY <1>1, <1>4, <2>1 DEF EpollAdd, Owner, TInv, TableTypeOK
    <3>2. DataKept'
      BY <1>4, <1>8, <3>1 DEF TInv, TableTypeOK, DataKept
    <3>3. AddFailed => AddFailed'
      BY <1>4, <3>1 DEF AddFailed
    <3> QED
      BY <1>8, <3>1, <3>2, <3>3 DEF TInv, CleanUnlessFailed
  <2>2. CASE EpollDel(c)
    <3>1. /\ pc[c] = "nocq" /\ to = "unwatched" /\ watched' = watched \ {c}
          /\ exited' = (c \notin watched) /\ ~ exited
      BY <1>1, <1>4, <2>2 DEF EpollDel, Owner, TInv, TableTypeOK
    <3>2. DataKept'
      BY <1>4, <1>8, <3>1 DEF TInv, TableTypeOK, DataKept
    <3>3. AddFailed => AddFailed' \/ exited'
      BY <1>4, <3>1 DEF AddFailed
    <3> QED
      BY <1>8, <3>1, <3>2, <3>3 DEF TInv, CleanUnlessFailed
  <2>3. CASE BuildCqChannel(c) \/ Disconnect(c) \/ DestroyQp(c) \/ DestroyCq(c)
    <3>1. /\ watched' = watched /\ exited' = exited
          /\ \/ pc[c] = "new" /\ to = "built"
             \/ pc[c] \in {"open", "flushing", "noqp"} /\ to \in {"flushing", "noqp", "nocq"}
      BY <1>1, <1>4, <2>3 DEF BuildCqChannel, Disconnect, DestroyQp, DestroyCq, Owner,
           tableVars, TInv, TableTypeOK
    <3>2. DataKept'
      BY <1>4, <1>8, <3>1 DEF TInv, TableTypeOK, DataKept
    <3>3. AddFailed => AddFailed'
      BY <1>4, <3>1 DEF AddFailed
    <3> QED
      BY <1>8, <3>1, <3>2, <3>3 DEF TInv, CleanUnlessFailed
  <2> QED
    BY <2>1, <2>2, <2>3
<1> QED
  BY <1>3, <1>5, <1>6, <1>7, <1>9 DEF TInv

\* A registration that fails leaves its entry.
LEMMA EpollAddFailsTInv ==
  ASSUME TInv, NEW c \in Conns, EpollAddFails(c)
  PROVE  TInv'
<1>1. /\ pc[c] = "stored" /\ pc' = [pc EXCEPT ![c] = "open"] /\ data' = Freed(c)
      /\ UNCHANGED <<event_bitmap, event_map, watched, agent, exited>>
  BY DEF EpollAddFails, Owner, threadVars
<1>2. \A d \in Conns : pc'[d] = IF d = c THEN "open" ELSE pc[d]
  BY <1>1 DEF TInv, TableTypeOK
<1>3. /\ data' \in [Chunks -> Conns \cup {None}]
      /\ \A m \in Chunks : data'[m] = IF data[m] = c THEN None ELSE data[m]
  BY <1>1, FreedData
<1>4. c \notin watched /\ c # None
  BY <1>1, ReactorAssumption DEF TInv, DataKept
<1>5. TableTypeOK' /\ BitMeansEntry' /\ AgentLast'
  BY <1>1, <1>3 DEF TInv, TableTypeOK, BitMeansEntry, AgentLast, Phase
<1>6. DataOwned'
  BY <1>2, <1>3 DEF TInv, TableTypeOK, DataOwned
<1>7. \A d \in Conns : d # c => Entries(d)' = Entries(d)
  BY <1>1, <1>3, ReactorAssumption DEF Entries, TInv, TableTypeOK
<1>8. DataKept'
  BY <1>1, <1>2, <1>4, <1>7 DEF TInv, TableTypeOK, DataKept
<1>9. SlotsCounted'
  <2>1. Taken' = Taken /\ OnTheirWay' = OnTheirWay
    BY <1>1, <1>2 DEF Taken, OnTheirWay
  <2> QED
    BY <2>1 DEF TInv, SlotsCounted
<1>10. AddFailed'
  BY <1>1, <1>2, <1>4 DEF AddFailed
<1> QED
  BY <1>5, <1>6, <1>8, <1>9, <1>10 DEF TInv, CleanUnlessFailed

LEMMA FreeEventTInv ==
  ASSUME TInv, NEW c \in Conns, FreeEvent(c)
  PROVE  TInv'
<1> DEFINE index == LowestOf(Entries(c))
<1>1. /\ pc[c] = "unwatched" /\ pc' = [pc EXCEPT ![c] = "new"] /\ agent = "live"
      /\ ~ exited
      /\ data' = Freed(c)
      /\ event_bitmap' = [event_bitmap EXCEPT ![index] = 0]
      /\ event_map' = [event_map EXCEPT ![index] = None]
      /\ UNCHANGED <<watched, agent, exited>>
  BY DEF FreeEvent, Owner, threadVars
<1>2. index \in Slots /\ event_map[index] # None /\ data[event_map[index]] = c
  <2>1. Entries(c) \subseteq Nat /\ Entries(c) # {}
    BY <1>1 DEF TInv, DataKept, Entries, Slots
  <2>2. index \in Entries(c)
    BY <2>1, LowestOfSet
  <2> QED
    BY <2>2 DEF Entries
<1> HIDE DEF index
<1>3. c # None /\ c \notin watched
  BY <1>1, ReactorAssumption DEF TInv, DataKept
<1>4. /\ data' \in [Chunks -> Conns \cup {None}]
      /\ \A m \in Chunks : data'[m] = IF data[m] = c THEN None ELSE data[m]
  BY <1>1, FreedData
<1>5. \A i \in Slots : event_map'[i] = IF i = index THEN None ELSE event_map[i]
  BY <1>1 DEF TInv, TableTypeOK
<1>6. \A d \in Conns : pc'[d] = IF d = c THEN "new" ELSE pc[d]
  BY <1>1 DEF TInv, TableTypeOK
<1>7. TableTypeOK' /\ AgentLast'
  BY <1>1, <1>2, <1>4 DEF TInv, TableTypeOK, Phase, AgentLast
<1>8. BitMeansEntry'
  BY <1>1, <1>2, <1>5 DEF TInv, TableTypeOK, BitMeansEntry
<1>9. DataOwned'
  BY <1>4, <1>6 DEF TInv, TableTypeOK, DataOwned
<1>10. \A d \in Conns : d # c => Entries(d)' = Entries(d)
  <2> SUFFICES ASSUME NEW d \in Conns, d # c, NEW i \in Slots
               PROVE  event_map'[i] # None /\ data'[event_map'[i]] = d
                        <=> event_map[i] # None /\ data[event_map[i]] = d
    BY DEF Entries
  <2>1. d # None /\ event_map[i] \in Chunks \cup {None}
    BY ReactorAssumption DEF TInv, TableTypeOK
  <2> QED
    BY <1>2, <1>4, <1>5, <2>1
<1>11. DataKept'
  BY <1>1, <1>3, <1>6, <1>10 DEF TInv, TableTypeOK, DataKept
<1>12. SlotsCounted'
  <2>1. Taken' = Taken \ {index} /\ index \in Taken
    BY <1>2, <1>5 DEF Taken
  <2>2. OnTheirWay' = OnTheirWay \ {c} /\ c \in OnTheirWay
    BY <1>1, <1>6 DEF OnTheirWay
  <2>3. /\ Cardinality(Taken') = Cardinality(Taken) - 1
        /\ Cardinality(OnTheirWay') = Cardinality(OnTheirWay) - 1
    BY <2>1, <2>2, CountsFinite, FS_RemoveElement
  <2> QED
    BY <2>3 DEF TInv, SlotsCounted
<1>13. CleanUnlessFailed'
  <2>1. AddFailed => AddFailed'
    BY <1>1, <1>6 DEF AddFailed
  <2>2. Clean => Clean'
    <3> SUFFICES ASSUME Clean PROVE Clean'
      OBVIOUS
    <3>1. \A i \in Taken' : i # index /\ i \in Taken /\ event_map'[i] = event_map[i]
      BY <1>5 DEF Taken
    <3>2. \A i \in Taken : event_map[i] \in Chunks
      BY DEF Taken, TInv, TableTypeOK
    <3>3. \A i \in Taken : data[event_map[i]] = c => i = index
      BY <1>2, <1>3, <3>2 DEF Clean, Taken, TInv, DataOwned
    <3> QED
      BY <1>4, <3>1, <3>2, <3>3 DEF Clean
  <2> QED
    BY <1>1, <2>1, <2>2 DEF TInv, CleanUnlessFailed
<1> QED
  BY <1>7, <1>8, <1>9, <1>11, <1>12, <1>13 DEF TInv

LEMMA UnchangedTInv ==
  ASSUME TInv, UNCHANGED <<tableVars, pc, agent, exited>>
  PROVE  TInv'
<1>1. UNCHANGED <<event_bitmap, event_map, data, watched, pc, agent, exited>>
  BY DEF tableVars
<1>2. \A c : Entries(c)' = Entries(c)
  BY <1>1 DEF Entries
<1>3. Taken' = Taken /\ OnTheirWay' = OnTheirWay /\ AddFailed' = AddFailed
  BY <1>1 DEF Taken, OnTheirWay, AddFailed
<1> QED
  BY <1>1, <1>2, <1>3
     DEF TInv, TableTypeOK, BitMeansEntry, DataOwned, DataKept, SlotsCounted,
         CleanUnlessFailed, Clean, AgentLast

\* destroy_reactor finds the table of an agent without connections empty.
LEMMA EndTInv ==
  ASSUME TInv, StopReactor \/ FreeReactor
  PROVE  TInv'
<1>1. /\ UNCHANGED <<event_bitmap, event_map, watched, pc, exited>>
      /\ agent' \in {"stopping", "gone"}
      /\ \A c \in Conns : pc[c] = "new"
  BY DEF StopReactor, FreeReactor, tableVars, TInv, AgentLast
<1>2. \A m \in Chunks : data[m] = None
  BY <1>1 DEF TInv, TableTypeOK, DataOwned, Entered
<1>3. data' = data
  <2>1. CASE StopReactor
    BY <2>1 DEF StopReactor, tableVars
  <2>2. CASE FreeReactor
    <3>1. data' = [m \in Chunks |-> None]
      BY <1>2, <2>2 DEF FreeReactor
    <3> QED
      BY <1>2, <3>1 DEF TInv, TableTypeOK
  <2> QED
    BY <2>1, <2>2
<1>4. \A c : Entries(c)' = Entries(c)
  BY <1>1, <1>3 DEF Entries
<1>5. Taken' = Taken /\ OnTheirWay' = OnTheirWay /\ AddFailed' = AddFailed
  BY <1>1 DEF Taken, OnTheirWay, AddFailed
<1> QED
  BY <1>1, <1>3, <1>4, <1>5
     DEF TInv, TableTypeOK, BitMeansEntry, DataOwned, DataKept, SlotsCounted,
         CleanUnlessFailed, Clean, AgentLast

\* Requests and the thread leave the table alone.
LEMMA WorkLeavesTable ==
  ASSUME (\E c \in Conns : Post(c) \/ HcaCompletes(c)) \/ RunReactor
  PROVE  UNCHANGED <<tableVars, pc, agent, exited>>
BY DEF Post, HcaCompletes, RunReactor, Running, EpollWait, Handle, GetCqEvent, AckCqEvent,
       ReqNotify, PollCompletion, PollEmpty, TestStop, Completed, Thread, threadVars

LEMMA NextTInv == TInv /\ [Next]_vars => TInv'
<1> SUFFICES ASSUME TInv, [Next]_vars PROVE TInv'
  OBVIOUS
<1>1. ASSUME NEW c \in Conns, OwnerStep(c) PROVE TInv'
  BY <1>1, StoreEventTInv, OwnerMovesTInv, EpollAddFailsTInv, FreeEventTInv DEF OwnerStep
<1>2. CASE (\E c \in Conns : Post(c) \/ HcaCompletes(c)) \/ RunReactor
  BY <1>2, WorkLeavesTable, UnchangedTInv
<1>3. CASE StopReactor \/ FreeReactor
  BY <1>3, EndTInv
<1>4. CASE UNCHANGED vars
  BY <1>4, UnchangedTInv DEF vars, threadVars
<1> QED
  BY <1>1, <1>2, <1>3, <1>4 DEF Next

\* The table's invariant holds, whenever connections and the agent are ended.
THEOREM TInvHolds == Spec => []TInv
BY InitTInv, NextTInv, PTL DEF Spec

\* Every watched channel has an entry with a live event_data, and no slot is
\* lost, whatever the order of registrations, failures and removals.
THEOREM WatchedAreStoredHolds == Spec => []WatchedAreStored
<1>1. TInv => WatchedAreStored
  <2> SUFFICES ASSUME TInv PROVE WatchedAreStored
    OBVIOUS
  <2>1. \A c \in watched : Entries(c) # {}
    BY DEF TInv, TableTypeOK, DataKept
  <2>2. ASSUME ~ exited, ~ AddFailed, NEW c \in OnTheirWay
        PROVE  Cardinality(Entries(c)) = 1
    <3>1. c \in Conns /\ Clean
      BY <2>2 DEF TInv, CleanUnlessFailed, OnTheirWay
    <3>2. Entries(c) # {}
      BY <2>2 DEF OnTheirWay, AddFailed, TInv, DataKept
    <3>3. PICK i : i \in Entries(c)
      BY <3>2
    <3>4. ASSUME NEW j \in Entries(c) PROVE j = i
      <4>1. /\ i \in Taken /\ j \in Taken
            /\ event_map[i] \in Chunks /\ event_map[j] \in Chunks
            /\ data[event_map[i]] = c /\ data[event_map[j]] = c
        BY <3>3 DEF Entries, Taken, TInv, TableTypeOK
      <4>2. event_map[i] = event_map[j]
        BY <3>1, <4>1, ReactorAssumption DEF TInv, DataOwned
      <4> QED
        BY <3>1, <4>1, <4>2 DEF Clean
    <3>5. Entries(c) = {i}
      BY <3>3, <3>4
    <3> QED
      BY <3>5, FS_Singleton
  <2> QED
    BY <2>1, <2>2 DEF TInv, BitMeansEntry, SlotsCounted, Taken, WatchedAreStored
<1> QED
  BY <1>1, TInvHolds, PTL
-----------------------------------------------------------------------------
\* Nothing is posted on a queue pair that is gone, and no event comes from a CQ
\* that is.
LEMMA NextDrained == TInv /\ Drained /\ [Next]_vars => Drained'
<1> SUFFICES ASSUME TInv, Drained, [Next]_vars PROVE Drained'
  OBVIOUS
<1>1. ASSUME NEW c \in Conns, OwnerStep(c) PROVE Drained'
  <2>1. CASE DestroyQp(c)
    BY <2>1 DEF DestroyQp, Owner, Drained, TInv, TableTypeOK
  <2>2. CASE DestroyCq(c)
    BY <2>2 DEF DestroyCq, Owner, Drained, TInv, TableTypeOK
  <2>3. CASE BuildCqChannel(c) \/ StoreEvent(c) \/ EpollAdd(c) \/ EpollAddFails(c)
             \/ Disconnect(c) \/ EpollDel(c) \/ FreeEvent(c)
    BY <2>3 DEF BuildCqChannel, StoreEvent, EpollAdd, EpollAddFails, Disconnect, EpollDel,
         FreeEvent, Owner, workVars, Drained, TInv, TableTypeOK
  <2> QED
    BY <1>1, <2>1, <2>2, <2>3 DEF OwnerStep
<1>2. ASSUME NEW c \in Conns, Post(c) PROVE Drained'
  BY <1>2 DEF Post, Drained
<1>3. ASSUME NEW c \in Conns, HcaCompletes(c) PROVE Drained'
  BY <1>3 DEF HcaCompletes, Drained
<1>4. CASE RunReactor
  <2>1. UNCHANGED <<pc, posted>>
    BY <1>4 DEF RunReactor, Running, EpollWait, Handle, GetCqEvent, AckCqEvent,
         ReqNotify, PollCompletion, PollEmpty, TestStop, Completed, Thread
  <2>2. \/ events' = events
        \/ events[Head(batch)] > 0 /\ events' = [events EXCEPT ![Head(batch)] = @ - 1]
    BY <1>4 DEF RunReactor, Running, EpollWait, Handle, GetCqEvent, AckCqEvent,
         ReqNotify, PollCompletion, PollEmpty, TestStop
  <2> QED
    BY <2>1, <2>2 DEF Drained
<1>5. CASE StopReactor \/ FreeReactor \/ UNCHANGED vars
  BY <1>5 DEF StopReactor, FreeReactor, vars, workVars, Drained
<1> QED
  BY <1>1, <1>2, <1>3, <1>4, <1>5 DEF Next

\* What epoll_wait returns is a connection whose CQ and event_data are there,
\* whenever connections and the agent are ended.
THEOREM BatchBeginsLiveHolds == Spec => BatchBeginsLive
<1>1. Init => Drained
  BY DEF Init, Drained
<1>2. TInv /\ Drained /\ [Next]_vars =>
        [thread = "wait" /\ thread' = "handle" =>
           \A c \in ToSet(batch') :
             HasData(c) /\ pc[c] \in {"open", "flushing", "noqp"}]_vars
  <2> SUFFICES ASSUME TInv, Drained, [Next]_vars, thread = "wait", thread' = "handle",
                      NEW c \in ToSet(batch')
               PROVE  HasData(c) /\ pc[c] \in {"open", "flushing", "noqp"}
    OBVIOUS
  <2>1. EpollWait
    <3>1. ~ UNCHANGED vars
      BY DEF vars, threadVars
    <3>2. ASSUME NEW d \in Conns PROVE ~ (OwnerStep(d) \/ Post(d) \/ HcaCompletes(d))
      BY DEF OwnerStep, BuildCqChannel, StoreEvent, EpollAdd, EpollAddFails, Disconnect,
             DestroyQp, DestroyCq, EpollDel, FreeEvent, Post, HcaCompletes, threadVars
    <3>3. ~ (StopReactor \/ FreeReactor)
      BY DEF StopReactor, FreeReactor
    <3>4. RunReactor
      BY <3>1, <3>2, <3>3 DEF Next
    <3> QED
      BY <3>4 DEF RunReactor, Running, Handle, GetCqEvent, AckCqEvent, ReqNotify,
         PollCompletion, PollEmpty, TestStop, Completed, Thread
  <2>2. c \in Ready
    <3>1. batch' \in SetToSeqs(Ready)
      BY <2>1 DEF EpollWait
    <3>2. batch' \in [1 .. Cardinality(Ready) -> Ready]
      BY <3>1 DEF SetToSeqs
    <3> QED
      BY <3>2 DEF ToSet
  <2>3. c \in watched /\ c \in Conns /\ events[c] > 0
    BY <2>2 DEF Ready, TInv, TableTypeOK
  <2>4. pc[c] \in {"open", "flushing", "noqp"}
    BY <2>3 DEF TInv, DataKept, Drained
  <2>5. PICK i : i \in Entries(c)
    BY <2>3 DEF TInv, DataKept
  <2>6. event_map[i] \in Chunks /\ data[event_map[i]] = c
    BY <2>5 DEF Entries, TInv, TableTypeOK
  <2> QED
    BY <2>4, <2>6 DEF HasData
<1> QED
  BY <1>1, <1>2, NextDrained, TInvHolds, PTL DEF Spec, BatchBeginsLive
-----------------------------------------------------------------------------
\* comp_channel_handler, step by step.
LEMMA HandlerOrder ==
  /\ Completed("get") =>
       /\ Thread("get", "ack") /\ batch' = batch /\ stop' = stop
  /\ Completed("ack") =>
       /\ Thread("ack", "arm") /\ batch' = batch /\ stop' = stop
  /\ Completed("arm") =>
       /\ Thread("arm", "drain") /\ batch' = batch /\ stop' = stop
  /\ Completed("drain") =>
       /\ Thread("drain", IF Len(batch) = 1 THEN "test" ELSE "handle")
       /\ batch' = Tail(batch) /\ stop' = stop
<1>1. DOMAIN HandlerSteps = 1 .. 4 /\ Last(HandlerSteps) = "drain"
  BY DEF HandlerSteps, Last
<1>2. /\ HandlerSteps[1] = "get" /\ HandlerSteps[2] = "ack"
      /\ HandlerSteps[3] = "arm" /\ HandlerSteps[4] = "drain"
  BY DEF HandlerSteps
<1> HIDE DEF HandlerSteps
<1>3. /\ (CHOOSE i \in DOMAIN HandlerSteps : HandlerSteps[i] = "get") = 1
      /\ (CHOOSE i \in DOMAIN HandlerSteps : HandlerSteps[i] = "ack") = 2
      /\ (CHOOSE i \in DOMAIN HandlerSteps : HandlerSteps[i] = "arm") = 3
  BY <1>1, <1>2
<1>4. Completed("get") => Thread("get", "ack") /\ batch' = batch /\ stop' = stop
  BY <1>1, <1>2, <1>3 DEF Completed
<1>5. Completed("ack") => Thread("ack", "arm") /\ batch' = batch /\ stop' = stop
  BY <1>1, <1>2, <1>3 DEF Completed
<1>6. Completed("arm") => Thread("arm", "drain") /\ batch' = batch /\ stop' = stop
  BY <1>1, <1>2, <1>3 DEF Completed
<1>7. Completed("drain") =>
        /\ Thread("drain", IF Len(batch) = 1 THEN "test" ELSE "handle")
        /\ batch' = Tail(batch) /\ stop' = stop
  BY <1>1 DEF Completed
<1> QED
  BY <1>4, <1>5, <1>6, <1>7

\* epoll_wait returns distinct channels that are watched and have an event.
LEMMA ReadyBatch ==
  ASSUME NEW S, IsFiniteSet(S), NEW s \in SetToSeqs(S)
  PROVE  /\ s \in Seq(S) /\ Len(s) = Cardinality(S)
         /\ \A i, j \in 1 .. Len(s) : s[i] = s[j] => i = j
<1>1. Cardinality(S) \in Nat
  BY FS_CardinalityType
<1>2. /\ s \in [1 .. Cardinality(S) -> S]
      /\ \A i, j \in 1 .. Cardinality(S) : i # j => s[i] # s[j]
  BY DEF SetToSeqs
<1>3. s \in Seq(S) /\ Len(s) = Cardinality(S)
  BY <1>1, <1>2
<1> QED
  BY <1>2, <1>3


-----------------------------------------------------------------------------
LEMMA InitWInv == Init => WInv
<1> SUFFICES ASSUME Init PROVE WInv
  OBVIOUS
<1>1. /\ left = [c \in Conns |-> MaxPosts]
      /\ posted = [c \in Conns |-> 0] /\ cqes = [c \in Conns |-> 0]
      /\ armed = [c \in Conns |-> FALSE] /\ events = [c \in Conns |-> 0]
      /\ thread = "start" /\ batch = <<>> /\ stop \in BOOLEAN
      /\ agent = "live" /\ MaxPosts \in Nat
  BY ReactorAssumption DEF Init
<1>2. WorkTypeOK
  BY <1>1 DEF WorkTypeOK, Step
<1>3. Budget /\ QuietEnd
  BY <1>1 DEF Budget, QuietEnd
<1>4. BatchWaits /\ AgentIdle
  BY <1>1 DEF BatchWaits, AgentIdle
<1> QED
  BY <1>2, <1>3, <1>4 DEF WInv

\* A step of an owner that leaves the requests alone.
LEMMA OwnerMovesWInv ==
  ASSUME IInv, EndsIdle, NEW c \in Conns,
         StoreEvent(c) \/ EpollAdd(c) \/ EpollAddFails(c) \/ Disconnect(c) \/ EpollDel(c)
         \/ FreeEvent(c)
  PROVE  WInv'
<1>1. PICK to \in Phase :
        /\ pc' = [pc EXCEPT ![c] = to]
        /\ (pc[c] = "open" \/ to \notin {"stored", "open"}) =>
             posted[c] = 0 /\ cqes[c] = 0 /\ events[c] = 0
        /\ pc[c] = "open" => \A i \in 1 .. Len(batch) : batch[i] # c
  <2>1. CASE Disconnect(c)
    <3>1. \A i \in 1 .. Len(batch) : batch[i] # c
      BY <2>1 DEF Disconnect, EndsIdle, Contains
    <3> QED
      BY <2>1, <3>1 DEF Disconnect, EndsIdle, Owner, Phase
  <2>2. CASE StoreEvent(c) \/ EpollAdd(c) \/ EpollAddFails(c)
    BY <2>2 DEF StoreEvent, EpollAdd, EpollAddFails, Owner, Phase
  <2>3. CASE EpollDel(c) \/ FreeEvent(c)
    BY <2>3 DEF EpollDel, FreeEvent, Owner, Phase, IInv, WInv, QuietEnd
  <2> QED
    BY <2>1, <2>2, <2>3
<1>2. UNCHANGED <<left, posted, cqes, armed, events, thread, batch, stop, agent>>
  BY DEF StoreEvent, EpollAdd, EpollAddFails, Disconnect, EpollDel, FreeEvent, tableVars,
         workVars, threadVars
<1>3. agent = "live" /\ \A d \in watched : d \in watched' \/ pc[d] = "nocq"
  BY DEF StoreEvent, EpollAdd, EpollAddFails, Disconnect, EpollDel, FreeEvent, Owner,
         tableVars
<1>4. WorkTypeOK' /\ Budget' /\ AgentIdle'
  BY <1>2 DEF IInv, WInv, WorkTypeOK, Budget, AgentIdle
<1>5. QuietEnd'
  BY <1>1, <1>2 DEF IInv, TInv, TableTypeOK, WInv, QuietEnd
<1>6. BatchWaits'
  <2>1. batch \in Seq(Conns) /\ Len(batch) \in Nat
    BY DEF IInv, WInv, WorkTypeOK
  <2>2. \A i \in 1 .. Len(batch) : batch[i] \in watched' /\ pc'[batch[i]] = "open"
    BY <1>1, <1>3, <2>1 DEF IInv, TInv, TableTypeOK, WInv, BatchWaits
  <2> QED
    BY <1>2, <2>1, <2>2 DEF IInv, WInv, BatchWaits
<1> QED
  BY <1>4, <1>5, <1>6 DEF WInv

\* The owner's steps that make or destroy what the requests use.
LEMMA OwnerWorkWInv ==
  ASSUME IInv, NEW c \in Conns, BuildCqChannel(c) \/ DestroyQp(c) \/ DestroyCq(c)
  PROVE  WInv'
<1>1. /\ posted[c] = 0 /\ cqes[c] = 0 /\ events[c] = 0
      /\ posted' = posted /\ cqes' = cqes /\ events' = events
      /\ \A i \in 1 .. Len(batch) : batch[i] # c
  <2>1. pc[c] \in {"new", "flushing", "noqp"}
    BY DEF BuildCqChannel, DestroyQp, DestroyCq, Owner
  <2>2. posted[c] = 0 /\ cqes[c] = 0 /\ events[c] = 0
    BY <2>1 DEF IInv, WInv, QuietEnd
  <2>3. posted' = posted /\ cqes' = cqes /\ events' = events
    BY <2>2 DEF BuildCqChannel, DestroyQp, DestroyCq, IInv, WInv, WorkTypeOK
  <2> QED
    BY <2>1, <2>2, <2>3 DEF IInv, WInv, BatchWaits
<1>2. PICK to \in Phase, a \in BOOLEAN :
        /\ pc' = [pc EXCEPT ![c] = to] /\ to # "open"
        /\ armed' = [armed EXCEPT ![c] = a]
  <2>1. armed \in [Conns -> BOOLEAN]
    BY DEF IInv, WInv, WorkTypeOK
  <2>2. armed = [armed EXCEPT ![c] = armed[c]] /\ armed[c] \in BOOLEAN
    BY <2>1
  <2> QED
    BY <2>2, Zenon DEF BuildCqChannel, DestroyQp, DestroyCq, Owner, Phase
<1>3. /\ left' \in [Conns -> Nat]
      /\ \A d \in Conns : left'[d] = left[d] \/ (d = c /\ left'[d] = MaxPosts)
  BY ReactorAssumption
     DEF BuildCqChannel, DestroyQp, DestroyCq, IInv, WInv, WorkTypeOK
<1>4. agent = "live" /\ UNCHANGED <<watched, thread, batch, stop, agent>>
  BY DEF BuildCqChannel, DestroyQp, DestroyCq, Owner, tableVars, threadVars
<1>5. WorkTypeOK' /\ AgentIdle'
  BY <1>1, <1>2, <1>3, <1>4 DEF IInv, WInv, WorkTypeOK, AgentIdle
<1>6. Budget'
  <2> SUFFICES ASSUME NEW d \in Conns
               PROVE  left'[d] + posted'[d] + cqes'[d] <= MaxPosts
    BY DEF Budget
  <2>2. /\ left[d] + posted[d] + cqes[d] <= MaxPosts
        /\ left[d] \in Nat /\ posted[d] \in Nat /\ cqes[d] \in Nat /\ MaxPosts \in Nat
    BY ReactorAssumption DEF IInv, WInv, WorkTypeOK, Budget
  <2>3. posted'[d] = posted[d] /\ cqes'[d] = cqes[d]
    BY <1>1
  <2>4. CASE left'[d] = left[d]
    BY <2>2, <2>3, <2>4
  <2>5. CASE d = c /\ left'[d] = MaxPosts
    BY <1>1, <2>2, <2>3, <2>5
  <2> QED
    BY <1>3, <2>4, <2>5
<1>7. QuietEnd'
  BY <1>1, <1>2 DEF IInv, TInv, TableTypeOK, WInv, WorkTypeOK, QuietEnd
<1>8. BatchWaits'
  <2>1. batch \in Seq(Conns) /\ Len(batch) \in Nat
    BY DEF IInv, WInv, WorkTypeOK
  <2>2. \A i \in 1 .. Len(batch) : pc'[batch[i]] = "open" /\ armed'[batch[i]] = armed[batch[i]]
    BY <1>1, <1>2, <2>1 DEF IInv, TInv, TableTypeOK, WInv, BatchWaits, WorkTypeOK
  <2>3. batch # <<>> => 1 \in 1 .. Len(batch)
    BY <2>1
  <2> QED
    BY <1>1, <1>4, <2>1, <2>2, <2>3 DEF IInv, WInv, BatchWaits
<1> QED
  BY <1>5, <1>6, <1>7, <1>8 DEF WInv

LEMMA PostWInv ==
  ASSUME IInv, NEW c \in Conns, Post(c)
  PROVE  WInv'
<1>1. /\ pc[c] \in {"built", "stored", "open"} /\ left[c] > 0
      /\ left' = [left EXCEPT ![c] = @ - 1]
      /\ posted' = [posted EXCEPT ![c] = @ + 1]
      /\ UNCHANGED <<watched, pc, cqes, armed, events, thread, batch, stop, agent>>
  BY DEF Post, tableVars, threadVars
<1>2. WorkTypeOK' /\ Budget' /\ AgentIdle'
  BY <1>1 DEF IInv, WInv, WorkTypeOK, Budget, AgentIdle
<1>3. QuietEnd' /\ BatchWaits'
  BY <1>1, SMTT(30) DEF IInv, WInv, WorkTypeOK, QuietEnd, BatchWaits
<1> QED
  BY <1>2, <1>3 DEF WInv

LEMMA HcaCompletesWInv ==
  ASSUME IInv, NEW c \in Conns, HcaCompletes(c)
  PROVE  WInv'
<1>1. /\ posted[c] > 0
      /\ posted' = [posted EXCEPT ![c] = @ - 1]
      /\ cqes' = [cqes EXCEPT ![c] = @ + 1]
      /\ events' = [events EXCEPT ![c] = IF armed[c] THEN @ + 1 ELSE @]
      /\ armed' = [armed EXCEPT ![c] = FALSE]
      /\ UNCHANGED <<watched, pc, left, thread, batch, stop, agent>>
  BY DEF HcaCompletes, tableVars, threadVars
<1>2. /\ armed[c] => events[c] = 0
      /\ pc[c] \in {"built", "stored", "open"}
  BY <1>1 DEF IInv, WInv, QuietEnd
<1>3. /\ \A d \in Conns : d # c => events'[d] = events[d] /\ armed'[d] = armed[d]
      /\ ~ armed'[c] /\ events'[c] = IF armed[c] THEN 1 ELSE events[c]
      /\ events' \in [Conns -> {0, 1}] /\ armed' \in [Conns -> BOOLEAN]
  BY <1>1, <1>2 DEF IInv, WInv, WorkTypeOK
<1>4. WorkTypeOK' /\ Budget' /\ AgentIdle'
  <2>1. /\ left \in [Conns -> Nat] /\ posted \in [Conns -> Nat] /\ cqes \in [Conns -> Nat]
        /\ \A d \in Conns : left[d] + posted[d] + cqes[d] <= MaxPosts
    BY DEF IInv, WInv, WorkTypeOK, Budget
  <2>2. Budget' /\ posted' \in [Conns -> Nat] /\ cqes' \in [Conns -> Nat]
    <3>1. /\ \A d \in Conns : d # c => posted'[d] = posted[d] /\ cqes'[d] = cqes[d]
          /\ posted'[c] = posted[c] - 1 /\ cqes'[c] = cqes[c] + 1
          /\ posted' \in [Conns -> Nat] /\ cqes' \in [Conns -> Nat]
          /\ left' = left
      BY <1>1, <2>1
    <3>2. \A d \in Conns : left'[d] + posted'[d] + cqes'[d] <= MaxPosts
      <4> SUFFICES ASSUME NEW d \in Conns
                   PROVE  left'[d] + posted'[d] + cqes'[d] = left[d] + posted[d] + cqes[d]
        BY <2>1
      <4> QED
        BY <2>1, <3>1
    <3> QED
      BY <3>1, <3>2 DEF Budget
  <2>3. UNCHANGED <<left, thread, batch, stop, agent>>
    BY <1>1
  <2>4. WorkTypeOK'
    BY <1>3, <2>2, <2>3 DEF IInv, WInv, WorkTypeOK
  <2> QED
    BY <2>2, <2>3, <2>4 DEF IInv, WInv, AgentIdle
<1>5. QuietEnd'
  BY <1>1, <1>2, <1>3 DEF IInv, WInv, WorkTypeOK, QuietEnd
<1>6. BatchWaits'
  <2>1. batch \in Seq(Conns) /\ Len(batch) \in Nat
    BY DEF IInv, WInv, WorkTypeOK
  <2>2. \A d \in Conns : /\ events[d] = 1 => events'[d] = 1
                         /\ events[d] = 0 /\ ~ armed[d] => events'[d] = 0 /\ ~ armed'[d]
    BY <1>2, <1>3
  <2>3. batch # <<>> => 1 \in 1 .. Len(batch) /\ batch[1] \in Conns
    BY <2>1
  <2>4. \A i \in 1 .. Len(batch) : batch[i] \in Conns
    BY <2>1
  <2> QED
    BY <1>1, <2>1, <2>2, <2>3, <2>4 DEF IInv, WInv, BatchWaits
<1> QED
  BY <1>4, <1>5, <1>6 DEF WInv

-----------------------------------------------------------------------------
(***************************************************************************)
(* The thread's steps.  Each leaves watched, pc, left, posted and agent    *)
(* alone and needs the agent alive: a thread that outlives the agent       *)
(* sleeps, and no channel is left that could wake it.                      *)
(***************************************************************************)
LEMMA ThreadKeeps ==
  ASSUME IInv, NEW from, NEW to \in Step, Thread(from, to), thread # "wait"
  PROVE  /\ UNCHANGED <<watched, pc, left, posted, agent>>
         /\ thread = from /\ thread' = to /\ agent = "live"
BY DEF Thread, tableVars, IInv, WInv, AgentIdle

LEMMA RunningWInv ==
  ASSUME IInv, Running
  PROVE  WInv'
<1>1. /\ UNCHANGED <<watched, pc, left, posted, agent>>
      /\ thread = "start" /\ thread' = "wait" /\ agent = "live"
  BY ThreadKeeps DEF Running, Thread, Step
<1>2. UNCHANGED <<batch, cqes, armed, events>> /\ stop' = FALSE
  BY DEF Running
<1> QED
  BY <1>1, <1>2, ZenonT(30)
     DEF IInv, WInv, WorkTypeOK, Budget, QuietEnd, BatchWaits, AgentIdle, Step

LEMMA EpollWaitWInv ==
  ASSUME IInv, EpollWait
  PROVE  WInv'
<1>1. /\ UNCHANGED <<watched, pc, left, posted, agent>>
      /\ thread = "wait" /\ thread' = "handle"
      /\ UNCHANGED <<stop, cqes, armed, events>>
      /\ batch' \in SetToSeqs(Ready) /\ Ready # {}
  BY DEF EpollWait, Thread, tableVars
<1>2. \A c \in Ready : c \in Conns /\ c \in watched /\ events[c] = 1 /\ pc[c] = "open"
  <2> SUFFICES ASSUME NEW c \in Ready
               PROVE  c \in Conns /\ c \in watched /\ events[c] = 1 /\ pc[c] = "open"
    OBVIOUS
  <2>1. c \in Conns /\ c \in watched /\ events[c] > 0
    BY DEF Ready, IInv, TInv, TableTypeOK
  <2>2. events[c] = 1
    BY <2>1 DEF IInv, WInv, WorkTypeOK
  <2>3. pc[c] \in {"open", "flushing", "noqp", "nocq"}
    BY <2>1 DEF IInv, TInv, DataKept
  <2> QED
    BY <2>1, <2>2, <2>3 DEF IInv, WInv, QuietEnd
<1>3. IsFiniteSet(Ready) /\ Cardinality(Ready) # 0
  <2>1. IsFiniteSet(Ready)
    BY <1>2, ReactorAssumption, FS_Subset
  <2> QED
    BY <1>1, <2>1, FS_EmptySet
<1>4. /\ batch' \in Seq(Ready) /\ Len(batch') = Cardinality(Ready)
      /\ \A i, j \in 1 .. Len(batch') : batch'[i] = batch'[j] => i = j
  <2>1. \A s \in SetToSeqs(Ready) :
          /\ s \in Seq(Ready) /\ Len(s) = Cardinality(Ready)
          /\ \A i, j \in 1 .. Len(s) : s[i] = s[j] => i = j
    BY <1>3, ReadyBatch
  <2> QED
    BY <1>1, <2>1
<1>5. agent = "live"
  BY <1>1, <1>2 DEF IInv, TInv, AgentLast
<1>6. WorkTypeOK'
  <2>1. batch' \in Seq(Conns)
    BY <1>2, <1>4
  <2> QED
    BY <1>1, <2>1 DEF IInv, WInv, WorkTypeOK, Step
<1>7. Budget' /\ QuietEnd' /\ AgentIdle'
  BY <1>1, <1>5 DEF IInv, WInv, Budget, QuietEnd, AgentIdle
<1>8. BatchWaits'
  <2>1. batch' # <<>>
    BY <1>3, <1>4
  <2>2. \A i \in 1 .. Len(batch') : batch'[i] \in Ready
    BY <1>4
  <2> QED
    BY <1>1, <1>2, <1>4, <2>1, <2>2 DEF BatchWaits
<1> QED
  BY <1>6, <1>7, <1>8 DEF WInv

\* The connection the handler is at.
LEMMA Handled ==
  ASSUME IInv, thread \notin {"start", "wait", "test", "ended"}
  PROVE  /\ batch \in Seq(Conns) /\ batch # <<>> /\ Len(batch) \in Nat \ {0}
         /\ Head(batch) = batch[1] /\ batch[1] \in Conns /\ 1 \in 1 .. Len(batch)
         /\ pc[batch[1]] = "open" /\ batch[1] \in watched
<1>1. batch \in Seq(Conns) /\ batch # <<>>
  BY DEF IInv, WInv, WorkTypeOK, BatchWaits
<1>2. Len(batch) \in Nat \ {0} /\ Head(batch) = batch[1] /\ batch[1] \in Conns
  BY <1>1
<1> QED
  BY <1>1, <1>2 DEF IInv, WInv, BatchWaits

\* A step between two handlers, or in one, that changes no count.
LEMMA HandlerMovesWInv ==
  ASSUME IInv, Handle \/ AckCqEvent \/ TestStop
  PROVE  WInv'
<1>1. /\ UNCHANGED <<watched, pc, left, posted, agent>>
      /\ UNCHANGED <<stop, batch, cqes, armed, events>>
      /\ agent = "live"
      /\ \/ thread = "handle" /\ thread' = "get"
         \/ thread = "ack" /\ thread' = "arm"
         \/ thread = "test" /\ thread' \in {"wait", "ended"}
  <2>1. CASE Handle
    BY <2>1 DEF Handle, Thread, HandlerSteps, tableVars, IInv, WInv, AgentIdle
  <2>2. CASE AckCqEvent
    BY <2>2, HandlerOrder DEF AckCqEvent, Thread, tableVars, IInv, WInv, AgentIdle
  <2>3. CASE TestStop
    BY <2>3 DEF TestStop, Thread, tableVars, IInv, WInv, AgentIdle
  <2> QED
    BY <2>1, <2>2, <2>3
<1>2. WorkTypeOK' /\ Budget' /\ QuietEnd' /\ AgentIdle'
  BY <1>1 DEF IInv, WInv, WorkTypeOK, Budget, QuietEnd, AgentIdle, Step
<1>3. BatchWaits'
  BY <1>1 DEF IInv, WInv, BatchWaits
<1> QED
  BY <1>2, <1>3 DEF WInv

LEMMA GetCqEventWInv ==
  ASSUME IInv, GetCqEvent
  PROVE  WInv'
<1> DEFINE c == batch[1]
<1>1. /\ thread = "get" /\ thread' = "ack" /\ agent = "live"
      /\ UNCHANGED <<watched, pc, left, posted, agent, batch, stop, cqes, armed>>
      /\ events' = [events EXCEPT ![Head(batch)] = @ - 1]
  BY HandlerOrder DEF GetCqEvent, Thread, tableVars, IInv, WInv, AgentIdle
<1>2. /\ c \in Conns /\ 1 \in 1 .. Len(batch) /\ Head(batch) = c /\ batch # <<>>
      /\ batch \in Seq(Conns)
  BY <1>1, Handled
<1>3. events[c] = 1 /\ ~ armed[c]
  BY <1>1, <1>2 DEF IInv, WInv, BatchWaits, QuietEnd
<1>4. /\ events' \in [Conns -> {0, 1}] /\ events'[c] = 0
      /\ \A d \in Conns : d # c => events'[d] = events[d]
  BY <1>1, <1>2, <1>3 DEF IInv, WInv, WorkTypeOK
<1>5. WorkTypeOK' /\ Budget' /\ AgentIdle'
  BY <1>1, <1>4 DEF IInv, WInv, WorkTypeOK, Budget, AgentIdle, Step
<1>6. QuietEnd'
  BY <1>1, <1>2, <1>4 DEF IInv, WInv, QuietEnd
<1>7. BatchWaits'
  <2>1. \A i \in 1 .. Len(batch) :
          i > 1 => batch[i] \in Conns /\ batch[i] # c /\ events'[batch[i]] = 1
    BY <1>1, <1>2, <1>4 DEF IInv, WInv, BatchWaits
  <2> QED
    BY <1>1, <1>2, <1>3, <1>4, <2>1 DEF IInv, WInv, BatchWaits
<1> QED
  BY <1>5, <1>6, <1>7 DEF WInv

LEMMA ReqNotifyWInv ==
  ASSUME IInv, ReqNotify
  PROVE  WInv'
<1> DEFINE c == batch[1]
<1>1. /\ thread = "arm" /\ thread' = "drain" /\ agent = "live"
      /\ UNCHANGED <<watched, pc, left, posted, agent, batch, stop, cqes, events>>
      /\ armed' = [armed EXCEPT ![Head(batch)] = TRUE]
  BY HandlerOrder DEF ReqNotify, Thread, tableVars, IInv, WInv, AgentIdle
<1>2. c \in Conns /\ Head(batch) = c /\ events[c] = 0
  BY <1>1, Handled DEF IInv, WInv, BatchWaits
<1>3. /\ armed' \in [Conns -> BOOLEAN]
      /\ \A d \in Conns : d # c => armed'[d] = armed[d]
  BY <1>1, <1>2 DEF IInv, WInv, WorkTypeOK
<1>4. WorkTypeOK' /\ Budget' /\ AgentIdle'
  BY <1>1, <1>3 DEF IInv, WInv, WorkTypeOK, Budget, AgentIdle, Step
<1>5. QuietEnd'
  BY <1>1, <1>2, <1>3 DEF IInv, WInv, QuietEnd
<1>6. BatchWaits'
  BY <1>1 DEF IInv, WInv, BatchWaits
<1> QED
  BY <1>4, <1>5, <1>6 DEF WInv

LEMMA PollCompletionWInv ==
  ASSUME IInv, PollCompletion
  PROVE  WInv'
<1> DEFINE c == batch[1]
<1>1. /\ thread = "drain" /\ thread' = "drain" /\ agent = "live"
      /\ UNCHANGED <<watched, pc, left, posted, agent, batch, stop, armed, events>>
      /\ cqes[Head(batch)] > 0 /\ cqes' = [cqes EXCEPT ![Head(batch)] = @ - 1]
  BY DEF PollCompletion, Thread, tableVars, IInv, WInv, AgentIdle
<1>2. c \in Conns /\ Head(batch) = c /\ pc[c] = "open"
  BY <1>1, Handled
<1>3. /\ cqes' \in [Conns -> Nat]
      /\ \A d \in Conns : cqes'[d] <= cqes[d] /\ (d # c => cqes'[d] = cqes[d])
  BY <1>1, <1>2 DEF IInv, WInv, WorkTypeOK
<1>4. WorkTypeOK' /\ AgentIdle'
  BY <1>1, <1>3 DEF IInv, WInv, WorkTypeOK, AgentIdle
<1>5. Budget'
  <2> SUFFICES ASSUME NEW d \in Conns
               PROVE  left'[d] + posted'[d] + cqes'[d] <= MaxPosts
    BY DEF Budget
  <2>1. /\ left[d] + posted[d] + cqes[d] <= MaxPosts /\ cqes'[d] <= cqes[d]
        /\ left[d] \in Nat /\ posted[d] \in Nat /\ cqes[d] \in Nat /\ MaxPosts \in Nat
        /\ cqes'[d] \in Nat
    BY <1>3, ReactorAssumption DEF IInv, WInv, WorkTypeOK, Budget
  <2> QED
    BY <1>1, <2>1
<1>6. QuietEnd' /\ BatchWaits'
  BY <1>1, <1>2, <1>3 DEF IInv, WInv, QuietEnd, BatchWaits
<1> QED
  BY <1>4, <1>5, <1>6 DEF WInv

\* The handler returns; the event of the next one in the batch is still there.
LEMMA PollEmptyWInv ==
  ASSUME IInv, PollEmpty
  PROVE  WInv'
<1>1. /\ thread = "drain" /\ agent = "live"
      /\ thread' = IF Len(batch) = 1 THEN "test" ELSE "handle"
      /\ batch' = Tail(batch)
      /\ UNCHANGED <<watched, pc, left, posted, agent, stop, cqes, armed, events>>
  BY HandlerOrder DEF PollEmpty, Thread, tableVars, IInv, WInv, AgentIdle
<1>2. batch \in Seq(Conns) /\ batch # <<>> /\ Len(batch) \in Nat \ {0}
  BY <1>1, Handled
<1>3. /\ batch' \in Seq(Conns) /\ Len(batch') = Len(batch) - 1
      /\ \A i \in 1 .. Len(batch') : batch'[i] = batch[i + 1] /\ i + 1 \in 1 .. Len(batch)
      /\ batch' = <<>> <=> Len(batch) = 1
  <2>1. /\ batch' \in Seq(Conns) /\ Len(batch') = Len(batch) - 1
        /\ \A i \in 1 .. Len(batch) - 1 : batch'[i] = batch[i + 1]
    BY <1>1, <1>2
  <2>2. batch' = <<>> <=> Len(batch') = 0
    BY <2>1
  <2> QED
    BY <1>2, <2>1, <2>2
<1>4. WorkTypeOK' /\ Budget' /\ QuietEnd' /\ AgentIdle'
  BY <1>1, <1>3 DEF IInv, WInv, WorkTypeOK, Budget, QuietEnd, AgentIdle, Step
<1>5. BatchWaits'
  <2>1. \A i \in 1 .. Len(batch') :
          batch'[i] \in watched' /\ pc'[batch'[i]] = "open" /\ events'[batch'[i]] = 1
    BY <1>1, <1>2, <1>3 DEF IInv, WInv, BatchWaits
  <2>2. \A i, j \in 1 .. Len(batch') : batch'[i] = batch'[j] => i = j
    BY <1>2, <1>3 DEF IInv, WInv, BatchWaits
  <2> QED
    BY <1>1, <1>3, <2>1, <2>2 DEF BatchWaits
<1> QED
  BY <1>4, <1>5 DEF WInv

\* destroy_agent finds the thread asleep.
LEMMA EndWInv ==
  ASSUME IInv, EndsIdle, StopReactor \/ FreeReactor
  PROVE  WInv'
<1>1. /\ UNCHANGED <<watched, pc, left, posted, cqes, armed, events, thread, batch>>
      /\ thread = "wait" /\ stop' \in BOOLEAN
  BY DEF StopReactor, FreeReactor, EndsIdle, tableVars, workVars, IInv, WInv, WorkTypeOK,
         AgentIdle
<1> QED
  BY <1>1 DEF IInv, WInv, WorkTypeOK, Budget, QuietEnd, BatchWaits, AgentIdle

LEMMA UnchangedWInv ==
  ASSUME WInv, UNCHANGED vars
  PROVE  WInv'
BY DEF vars, tableVars, workVars, threadVars, WInv, WorkTypeOK, Budget, QuietEnd,
       BatchWaits, AgentIdle

LEMMA NextIInv ==
  ASSUME EndsIdle
  PROVE  IInv /\ [Next]_vars => IInv'
<1> SUFFICES ASSUME IInv, [Next]_vars PROVE WInv'
  BY NextTInv DEF IInv
<1>1. ASSUME NEW c \in Conns, OwnerStep(c) PROVE WInv'
  BY <1>1, OwnerMovesWInv, OwnerWorkWInv DEF OwnerStep
<1>2. ASSUME NEW c \in Conns, Post(c) \/ HcaCompletes(c) PROVE WInv'
  BY <1>2, PostWInv, HcaCompletesWInv
<1>3. CASE RunReactor
  BY <1>3, RunningWInv, EpollWaitWInv, HandlerMovesWInv, GetCqEventWInv, ReqNotifyWInv,
     PollCompletionWInv, PollEmptyWInv DEF RunReactor
<1>4. CASE StopReactor \/ FreeReactor
  BY <1>4, EndWInv
<1>5. CASE UNCHANGED vars
  BY <1>5, UnchangedWInv DEF IInv
<1> QED
  BY <1>1, <1>2, <1>3, <1>4, <1>5 DEF Next

\* The invariant of the thread holds when connections and agent are ended while
\* it has nothing to do with them.
THEOREM IInvHolds ==
  ASSUME EndsIdle
  PROVE  Spec => []IInv
BY InitTInv, InitWInv, NextIInv, PTL DEF Spec, IInv

\* Every variable keeps its type: in particular no counter exceeds the requests
\* of a connection's life, and no channel holds two events.
THEOREM TypeOKHolds ==
  ASSUME EndsIdle
  PROVE  Spec => []TypeOK
<1>1. IInv => TypeOK
  <2> SUFFICES ASSUME IInv PROVE TypeOK
    OBVIOUS
  <2>1. \A c \in Conns : /\ left[c] \in 0 .. MaxPosts
                         /\ posted[c] \in 0 .. MaxPosts
                         /\ cqes[c] \in 0 .. MaxPosts
    <3> SUFFICES ASSUME NEW c \in Conns
                 PROVE  /\ left[c] \in 0 .. MaxPosts /\ posted[c] \in 0 .. MaxPosts
                        /\ cqes[c] \in 0 .. MaxPosts
      OBVIOUS
    <3>1. /\ left[c] \in Nat /\ posted[c] \in Nat /\ cqes[c] \in Nat /\ MaxPosts \in Nat
          /\ left[c] + posted[c] + cqes[c] <= MaxPosts
      BY ReactorAssumption DEF IInv, WInv, WorkTypeOK, Budget
    <3> QED
      BY <3>1
  <2>2. {left[c] : c \in Conns} \cup {posted[c] : c \in Conns}
          \cup {cqes[c] : c \in Conns} \subseteq 0 .. MaxPosts
    BY <2>1
  <2> QED
    BY <2>2, Zenon DEF IInv, TInv, TableTypeOK, WInv, WorkTypeOK, TypeOK
<1> QED
  BY <1>1, IInvHolds, PTL
=============================================================================
