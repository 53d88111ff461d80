--------------------------- MODULE MediaIntakeProofs ---------------------------
(***************************************************************************)
(* Proofs about MediaIntake, for any capacity and any number of chunks:    *)
(* what a full queue drops is the oldest, whatever the task, the deadlines *)
(* and the owner do, and nothing is handed over twice or out of order.     *)
(***************************************************************************)
EXTENDS MediaIntake, SequenceTheorems, TLAPS

(* The types of the flags, and of the rest.                                *)
Flags == {keepalive, idle, stopping, overdue, ended} \subseteq BOOLEAN
Data ==
    /\ queue \in Seq(0..MaxFed) /\ Len(queue) <= MaxChunks /\ dropped \in 0..MaxFed
    /\ task \in {"none"} \cup Awaiting \cup Done /\ fed \in 0..MaxFed /\ handled \in Seq(1..MaxFed)

USE CapacityAssumption, SwitchAssumption
-----------------------------------------------------------------------------
(* Room for one more item: all but the oldest, if the queue is full.       *)
Room == IF full THEN Tail(queue) ELSE queue
Lost == IF full THEN 1 ELSE 0

LEMMA RoomFacts ==
  ASSUME Data
  PROVE  /\ Room \in Seq(0..MaxFed) /\ Lost \in {0, 1}
         /\ Len(queue) \in Nat /\ Len(Room) \in Nat
         /\ Len(Room) = Len(queue) - Lost /\ Len(Room) < MaxChunks
         /\ \A k \in 1..Len(Room) : Room[k] = queue[k + Lost] /\ k + Lost \in 1..Len(queue)
<1>1. queue \in Seq(0..MaxFed) /\ Len(queue) \in Nat /\ Len(queue) <= MaxChunks
  BY DEF Data
<1>2. CASE full
  <2>1. queue # <<>> /\ Len(queue) = MaxChunks
    BY <1>1, <1>2 DEF full
  <2>2. /\ Tail(queue) \in Seq(0..MaxFed) /\ Len(Tail(queue)) = Len(queue) - 1
        /\ \A k \in 1..(Len(queue) - 1) : Tail(queue)[k] = queue[k + 1]
    BY <1>1, <2>1
  <2>3. Room = Tail(queue) /\ Lost = 1
    BY <1>2 DEF Room, Lost
  <2> QED BY <1>1, <2>1, <2>2, <2>3
<1>3. CASE ~full
  <2>1. Room = queue /\ Lost = 0
    BY <1>3 DEF Room, Lost
  <2>2. Len(queue) < MaxChunks
    BY <1>1, <1>3 DEF full
  <2>3. \A k \in 1..Len(queue) : k + 0 = k
    BY <1>1
  <2> QED BY <1>1, <2>1, <2>2, <2>3
<1> QED BY <1>2, <1>3

(* Every chunk fed was handed over, waits or was dropped, when one more is *)
(* fed, when the oldest makes room, and when the oldest is handed over.    *)
LEMMA Count ==
  ASSUME NEW h \in Nat, NEW w \in Nat, NEW d \in Nat, NEW f \in Nat, NEW l \in {0, 1},
         h + w + d = f
  PROVE  /\ h + (w - l + 1) + (d + l) = f + 1
         /\ h + (w - l) + (d + l) = f
         /\ h + 1 + (w - 1) + d = f
  OBVIOUS

LEMMA DroppedWereFed ==
  ASSUME NEW h \in Nat, NEW w \in Nat, NEW d \in Nat, NEW f \in 0..MaxFed, h + w + d = f
  PROVE  d \in 0..MaxFed
  OBVIOUS

(* What enqueuing leaves: the room's items, and the new one last.          *)
LEMMA EnqueueFacts ==
  ASSUME Data, NEW item \in 0..MaxFed, Enqueue(item)
  PROVE  /\ queue' \in Seq(0..MaxFed) /\ Len(queue') <= MaxChunks /\ queue' # <<>>
         /\ Len(queue') = Len(queue) - Lost + 1 /\ Len(queue) \in Nat
         /\ queue'[Len(queue')] = item
         /\ \A k \in 1..(Len(queue) - Lost) :
               queue'[k] = queue[k + Lost] /\ k + Lost \in 1..Len(queue)
         /\ dropped' = dropped + Lost
<1>1. queue' = Append(Room, item) /\ dropped' = dropped + Lost
  BY DEF Enqueue, Room, Lost, Data
<1>2. /\ Room \in Seq(0..MaxFed) /\ Lost \in {0, 1}
      /\ Len(queue) \in Nat /\ Len(Room) \in Nat
      /\ Len(Room) = Len(queue) - Lost /\ Len(Room) < MaxChunks
      /\ \A k \in 1..Len(Room) : Room[k] = queue[k + Lost] /\ k + Lost \in 1..Len(queue)
  BY RoomFacts
<1>3. /\ Append(Room, item) \in Seq(0..MaxFed)
      /\ Len(Append(Room, item)) = Len(Room) + 1
      /\ Append(Room, item)[Len(Room) + 1] = item
      /\ \A k \in 1..Len(Room) : Append(Room, item)[k] = Room[k]
      /\ Append(Room, item) # <<>>
  BY <1>2, AppendProperties
<1>4. Len(Room) + 1 <= MaxChunks
  BY <1>2
<1> QED BY <1>1, <1>2, <1>3, <1>4

(* The chunks that wait: all of the queue but an end.                      *)
LEMMA ChunksFacts ==
  ASSUME NEW q \in Seq(0..MaxFed)
  PROVE  /\ Len(q) \in Nat /\ Len(Chunks(q)) \in Nat
         /\ DOMAIN Chunks(q) = 1..Len(Chunks(q))
         /\ Len(Chunks(q)) = IF EndQueued(q) THEN Len(q) - 1 ELSE Len(q)
         /\ \A k \in 1..Len(Chunks(q)) : Chunks(q)[k] = q[k]
<1>1. CASE EndQueued(q)
  <2>1. Len(q) \in Nat /\ Len(q) >= 1
    BY <1>1 DEF EndQueued
  <2>2. /\ SubSeq(q, 1, Len(q) - 1) \in Seq(0..MaxFed)
        /\ Len(SubSeq(q, 1, Len(q) - 1)) = Len(q) - 1
        /\ \A k \in 1..(Len(q) - 1) : SubSeq(q, 1, Len(q) - 1)[k] = q[k]
    <3>1. /\ 1 \in Int /\ Len(q) - 1 \in Int /\ Len(q) - 1 - 1 + 1 = Len(q) - 1
          /\ \A i \in 1..(Len(q) - 1) : q[i] \in 0..MaxFed /\ 1 + i - 1 = i
      BY <2>1
    <3>2. /\ SubSeq(q, 1, Len(q) - 1) \in Seq(0..MaxFed)
          /\ Len(SubSeq(q, 1, Len(q) - 1)) =
                 IF 1 <= Len(q) - 1 THEN Len(q) - 1 - 1 + 1 ELSE 0
          /\ \A i \in 1..(Len(q) - 1 - 1 + 1) : SubSeq(q, 1, Len(q) - 1)[i] = q[1 + i - 1]
      BY <3>1, SubSeqProperties
    <3> QED BY <2>1, <3>1, <3>2
  <2>3. Chunks(q) = SubSeq(q, 1, Len(q) - 1)
    BY <1>1 DEF Chunks
  <2> QED BY <1>1, <2>1, <2>2, <2>3
<1>2. CASE ~EndQueued(q)
  <2>1. Chunks(q) = q
    BY <1>2 DEF Chunks
  <2> QED BY <1>2, <2>1
<1> QED BY <1>1, <1>2

(* KeepsNewest without sequences: w chunks wait, the k-th of them the last *)
(* fed but w - k.                                                          *)
waiting == Len(Chunks(queue))
Newest ==
    /\ waiting \in Nat /\ waiting = IF EndQueued(queue) THEN Len(queue) - 1 ELSE Len(queue)
    /\ \A k \in 1..waiting : queue[k] = fed - waiting + k
    /\ Len(handled) + waiting + dropped = fed
    /\ \A j, k \in DOMAIN handled : j < k => handled[j] < handled[k]
    /\ \A k \in DOMAIN handled : handled[k] <= fed - waiting

(* The inductive invariant: the types, what waits, and no end in the queue *)
(* that the owner did not call.                                            *)
IInv == Data /\ Newest /\ (EndQueued(queue) => ended)

LEMMA KeepsNewestIsNewest ==
  ASSUME Data
  PROVE  KeepsNewest <=> Newest
<1>1. queue \in Seq(0..MaxFed)
  BY DEF Data
<1> QED BY <1>1, ChunksFacts DEF KeepsNewest, Newest, waiting

-----------------------------------------------------------------------------
(* A step leaves the flags flags.                                          *)
LEMMA FlagsKept == Flags /\ [Next]_vars => Flags'
<1> SUFFICES ASSUME Flags, [Next]_vars PROVE Flags'
  OBVIOUS
<1>1. /\ keepalive' = keepalive /\ idle' = idle
      /\ stopping' = stopping \/ stopping' = TRUE \/ stopping' = FALSE
      /\ overdue' = overdue \/ overdue' = TRUE \/ overdue' = FALSE
      /\ ended' = ended \/ ended' = TRUE
  BY DEF Next, Start, Feed, EndFeed, Get, TimesOut, IdlePasses, Returns, Fails, Stop, Cancelled,
         vars, settings
<1> QED BY <1>1 DEF Flags

LEMMA Types == TypeOK <=> Flags /\ Data
  BY DEF TypeOK, Flags, Data

(* A new queue has lost nothing.                                           *)
LEMMA InitIInv == Init => IInv
<1> SUFFICES ASSUME Init PROVE IInv
  OBVIOUS
<1>1. Data
  BY DEF Init, Data, Awaiting, Done
<1>2. ~EndQueued(queue)
  BY DEF Init, EndQueued
<1>3. Newest
  BY <1>2, ChunksFacts DEF Init, Data, Newest, waiting, Chunks
<1> QED BY <1>1, <1>2, <1>3 DEF IInv

(* Feeding makes room by dropping the oldest, and the new chunk is the     *)
(* newest of all.                                                          *)
LEMMA FeedIInv == ASSUME IInv, Feed PROVE IInv'
<1>1. Data /\ Newest /\ ~EndQueued(queue) /\ ~ended
  BY DEF IInv, Feed
<1>2. /\ fed \in Nat /\ fed + 1 \in 1..MaxFed /\ fed' = fed + 1 /\ Enqueue(fed + 1)
      /\ task' = task /\ ended' = ended /\ handled' = handled
  BY <1>1 DEF Feed, Data
<1>3. Len(queue) \in Nat /\ Len(handled) \in Nat /\ dropped \in Nat
      /\ waiting = Len(queue) /\ handled \in Seq(1..MaxFed)
  BY <1>1 DEF Data, Newest
<1>0. Len(handled) + Len(queue) + dropped = fed
  BY <1>1, <1>3 DEF Newest
<1>4. Lost \in {0, 1} /\ (Lost = 1 => Len(queue) >= 1)
  BY <1>3 DEF Lost, full
<1>5. /\ queue' \in Seq(0..MaxFed) /\ Len(queue') <= MaxChunks /\ queue' # <<>>
      /\ Len(queue') = Len(queue) - Lost + 1
      /\ queue'[Len(queue')] = fed + 1
      /\ \A k \in 1..(Len(queue) - Lost) :
            queue'[k] = queue[k + Lost] /\ k + Lost \in 1..Len(queue)
      /\ dropped' = dropped + Lost
  BY <1>1, <1>2, EnqueueFacts
<1>6. ~EndQueued(queue')
  BY <1>2, <1>5 DEF EndQueued, End
<1>7. waiting' = Len(queue') /\ waiting' \in Nat
  BY <1>5, <1>6, ChunksFacts DEF waiting
<1>8. ASSUME NEW k \in 1..waiting' PROVE queue'[k] = fed' - waiting' + k
  <2>1. CASE k = waiting'
    BY <1>2, <1>5, <1>7, <2>1
  <2>2. CASE k # waiting'
    <3>1. k \in 1..(Len(queue) - Lost)
      BY <1>3, <1>4, <1>5, <1>7, <2>2
    <3>2. queue'[k] = queue[k + Lost] /\ k + Lost \in 1..waiting
      BY <1>3, <1>5, <3>1
    <3>3. queue'[k] = fed - waiting + (k + Lost)
      BY <1>1, <3>2 DEF Newest
    <3> QED BY <1>2, <1>3, <1>4, <1>5, <1>7, <3>3
  <2> QED BY <2>1, <2>2
<1>9. Len(handled') + waiting' + dropped' = fed'
  <2>1. Len(handled) + (Len(queue) - Lost + 1) + (dropped + Lost) = fed + 1
    BY <1>0, <1>2, <1>3, <1>4, Count
  <2>2. waiting' = Len(queue) - Lost + 1 /\ dropped' = dropped + Lost
    BY <1>5, <1>7
  <2>3. Len(handled') = Len(handled) /\ fed' = fed + 1
    BY <1>2
  <2> QED BY <2>1, <2>2, <2>3
<1>10. ASSUME NEW k \in DOMAIN handled' PROVE handled'[k] <= fed' - waiting'
  <2>1. handled[k] <= fed - waiting /\ handled[k] \in Nat
    BY <1>1, <1>2, <1>3, <1>10 DEF Newest
  <2> QED BY <1>2, <1>3, <1>4, <1>5, <1>7, <2>1
<1>11. Newest'
  <2>1. \A j, k \in DOMAIN handled' : j < k => handled'[j] < handled'[k]
    BY <1>1, <1>2 DEF Newest
  <2> QED BY <1>6, <1>7, <1>8, <1>9, <1>10, <2>1 DEF Newest
<1>12. Data'
  <2>1. dropped' \in 0..MaxFed
    <3>1. Len(handled') \in Nat /\ dropped' \in Nat /\ fed' \in 0..MaxFed
      BY <1>2, <1>3, <1>4, <1>5
    <3> QED BY <1>7, <1>9, <3>1, DroppedWereFed
  <2> QED BY <1>1, <1>2, <1>5, <2>1 DEF Data
<1> QED BY <1>6, <1>11, <1>12 DEF IInv

(* The end is enqueued like a chunk, but does not count as one.            *)
LEMMA EndFeedIInv == ASSUME IInv, EndFeed PROVE IInv'
<1>1. Data /\ Newest /\ ~EndQueued(queue)
  BY DEF IInv, EndFeed
<1>2. /\ ended' = TRUE /\ Enqueue(End) /\ End \in 0..MaxFed
      /\ task' = task /\ fed' = fed /\ handled' = handled
  BY DEF EndFeed, End
<1>3. /\ Len(queue) \in Nat /\ Len(handled) \in Nat /\ dropped \in Nat /\ fed \in 0..MaxFed
      /\ waiting = Len(queue) /\ handled \in Seq(1..MaxFed)
  BY <1>1 DEF Data, Newest
<1>0. Len(handled) + Len(queue) + dropped = fed
  BY <1>1, <1>3 DEF Newest
<1>4. Lost \in {0, 1} /\ (Lost = 1 => Len(queue) >= 1)
  BY <1>3 DEF Lost, full
<1>5. /\ queue' \in Seq(0..MaxFed) /\ Len(queue') <= MaxChunks /\ queue' # <<>>
      /\ Len(queue') = Len(queue) - Lost + 1
      /\ queue'[Len(queue')] = End
      /\ \A k \in 1..(Len(queue) - Lost) :
            queue'[k] = queue[k + Lost] /\ k + Lost \in 1..Len(queue)
      /\ dropped' = dropped + Lost
  BY <1>1, <1>2, EnqueueFacts
<1>6. EndQueued(queue')
  BY <1>5 DEF EndQueued
<1>7. waiting' = Len(queue) - Lost /\ waiting' \in Nat
  BY <1>3, <1>4, <1>5, <1>6, ChunksFacts DEF waiting
<1>8. ASSUME NEW k \in 1..waiting' PROVE queue'[k] = fed' - waiting' + k
  <2>1. queue'[k] = queue[k + Lost] /\ k + Lost \in 1..waiting
    BY <1>3, <1>5, <1>7
  <2>2. queue'[k] = fed - waiting + (k + Lost)
    BY <1>1, <2>1 DEF Newest
  <2> QED BY <1>2, <1>3, <1>4, <1>7, <2>2
<1>9. Len(handled') + waiting' + dropped' = fed'
  <2>1. Len(handled) + (Len(queue) - Lost) + (dropped + Lost) = fed
    BY <1>0, <1>3, <1>4, Count
  <2>2. waiting' = Len(queue) - Lost /\ dropped' = dropped + Lost
    BY <1>5, <1>7
  <2>3. Len(handled') = Len(handled) /\ fed' = fed
    BY <1>2
  <2> QED BY <2>1, <2>2, <2>3
<1>10. ASSUME NEW k \in DOMAIN handled' PROVE handled'[k] <= fed' - waiting'
  <2>1. handled[k] <= fed - waiting /\ handled[k] \in Nat
    BY <1>1, <1>2, <1>3, <1>10 DEF Newest
  <2> QED BY <1>2, <1>3, <1>4, <1>7, <2>1
<1>11. Newest'
  <2>1. \A j, k \in DOMAIN handled' : j < k => handled'[j] < handled'[k]
    BY <1>1, <1>2 DEF Newest
  <2>2. waiting' = IF EndQueued(queue') THEN Len(queue') - 1 ELSE Len(queue')
    BY <1>3, <1>4, <1>5, <1>6, <1>7
  <2> QED BY <1>7, <1>8, <1>9, <1>10, <2>1, <2>2 DEF Newest
<1>12. Data'
  <2>1. dropped' \in 0..MaxFed
    <3>1. Len(handled') \in Nat /\ dropped' \in Nat /\ fed' \in 0..MaxFed
      BY <1>2, <1>3, <1>4, <1>5
    <3> QED BY <1>7, <1>9, <3>1, DroppedWereFed
  <2> QED BY <1>1, <1>2, <1>5, <2>1 DEF Data
<1> QED BY <1>2, <1>11, <1>12 DEF IInv

(* What get takes is the oldest that waits, newer than all handed over; an *)
(* end is taken only from behind the last chunk.                           *)
LEMMA GetIInv == ASSUME IInv, Get PROVE IInv'
<1>1. Data /\ Newest /\ (EndQueued(queue) => ended)
  BY DEF IInv
<1>2. /\ queue # <<>> /\ queue' = Tail(queue)
      /\ dropped' = dropped /\ fed' = fed /\ ended' = ended
  BY DEF Get
<1>3. /\ queue \in Seq(0..MaxFed) /\ Len(queue) \in Nat /\ Len(queue) >= 1
      /\ Len(queue) <= MaxChunks
      /\ Len(handled) \in Nat /\ dropped \in Nat /\ fed \in 0..MaxFed
      /\ handled \in Seq(1..MaxFed) /\ waiting \in Nat
      /\ Head(queue) = queue[1] /\ queue[1] \in 0..MaxFed
  BY <1>1, <1>2 DEF Data, Newest
<1>4. /\ queue' \in Seq(0..MaxFed) /\ Len(queue') = Len(queue) - 1
      /\ \A k \in 1..Len(queue') : queue'[k] = queue[k + 1]
  <2>1. /\ Tail(queue) \in Seq(0..MaxFed) /\ Len(Tail(queue)) = Len(queue) - 1
        /\ \A k \in 1..(Len(queue) - 1) : Tail(queue)[k] = queue[k + 1]
    BY <1>2, <1>3
  <2> QED BY <1>2, <1>3, <2>1
<1>5. EndQueued(queue') <=> Len(queue) > 1 /\ EndQueued(queue)
  <2>1. Len(queue) > 1 => queue'[Len(queue')] = queue[Len(queue)]
    BY <1>3, <1>4
  <2>2. queue' # <<>> <=> Len(queue) > 1
    BY <1>3, <1>4, EmptySeq
  <2> QED BY <1>2, <1>3, <1>4, <2>1, <2>2 DEF EndQueued
<1>6. /\ waiting' \in Nat
      /\ waiting' = IF EndQueued(queue') THEN Len(queue') - 1 ELSE Len(queue')
  BY <1>4, ChunksFacts DEF waiting
<1>0. /\ waiting = IF EndQueued(queue) THEN Len(queue) - 1 ELSE Len(queue)
      /\ \A k \in 1..waiting : queue[k] = fed - waiting + k
      /\ Len(handled) + waiting + dropped = fed
      /\ \A k \in DOMAIN handled : handled[k] <= fed - waiting
  BY <1>1 DEF Newest
<1>10. waiting >= 1 => queue[1] = fed - waiting + 1
  <2>1. waiting >= 1 => 1 \in 1..waiting
    BY <1>3
  <2> QED BY <1>0, <2>1
<1>7. CASE Head(queue) = End
  <2>1. Len(queue) = 1 /\ EndQueued(queue) /\ waiting = 0
    <3>1. waiting <= fed
      BY <1>0, <1>3
    <3>2. waiting = 0
      BY <1>3, <1>7, <1>10, <3>1 DEF End
    <3> QED BY <1>0, <1>3, <3>2
  <2>2. handled' = handled /\ task' = "end"
    BY <1>7 DEF Get
  <2>3. waiting' = 0 /\ ~EndQueued(queue')
    BY <1>3, <1>4, <1>5, <1>6, <2>1
  <2>4. Newest'
    BY <1>1, <1>2, <1>6, <2>1, <2>2, <2>3 DEF Newest
  <2>5. Data'
    BY <1>1, <1>2, <1>3, <1>4, <2>2 DEF Data, Awaiting
  <2> QED BY <2>3, <2>4, <2>5 DEF IInv
<1>8. CASE Head(queue) # End
  <2>1. /\ handled' = Append(handled, queue[1]) /\ task' = "sink"
        /\ queue[1] \in 1..MaxFed
    BY <1>3, <1>8 DEF Get, End
  <2>2. waiting >= 1 /\ queue[1] = fed - waiting + 1
    <3>1. Len(queue) = 1 => ~EndQueued(queue)
      BY <1>3, <1>8 DEF EndQueued
    <3>2. waiting >= 1
      <4>1. waiting = IF EndQueued(queue) THEN Len(queue) - 1 ELSE Len(queue)
        BY <1>0
      <4>2. Len(queue) \in Nat /\ Len(queue) >= 1
        BY <1>3
      <4>3. CASE EndQueued(queue)
        <5>1. waiting = Len(queue) - 1 /\ Len(queue) # 1
          BY <3>1, <4>1, <4>3
        <5> QED BY <4>2, <5>1
      <4>4. CASE ~EndQueued(queue)
        BY <4>1, <4>2, <4>4
      <4> QED BY <4>3, <4>4
    <3> QED BY <1>10, <3>2
  <2>3. waiting' = waiting - 1
    <3>1. CASE EndQueued(queue)
      <4>1. Len(queue) > 1
        BY <1>0, <1>3, <2>2, <3>1
      <4> QED BY <1>0, <1>3, <1>4, <1>5, <1>6, <3>1, <4>1
    <3>2. CASE ~EndQueued(queue)
      BY <1>0, <1>3, <1>4, <1>5, <1>6, <3>2
    <3> QED BY <3>1, <3>2
  <2>4. ASSUME NEW k \in 1..waiting' PROVE queue'[k] = fed' - waiting' + k
    <3>1. k + 1 \in 1..waiting /\ k \in 1..Len(queue')
      <4>1. waiting <= Len(queue) /\ Len(queue') = Len(queue) - 1
        BY <1>0, <1>3, <1>4
      <4> QED BY <1>3, <2>3, <4>1
    <3>2. queue'[k] = fed - waiting + (k + 1)
      BY <1>0, <1>4, <3>1
    <3> QED BY <1>2, <1>3, <2>3, <3>1, <3>2
  <2>5. /\ handled' \in Seq(1..MaxFed) /\ Len(handled') = Len(handled) + 1
        /\ DOMAIN handled = 1..Len(handled) /\ DOMAIN handled' = 1..(Len(handled) + 1)
        /\ \A k \in DOMAIN handled : handled'[k] = handled[k] /\ handled[k] \in Nat
        /\ handled'[Len(handled) + 1] = queue[1]
    BY <1>3, <2>1
  <2>6. Len(handled') + waiting' + dropped' = fed'
    <3>1. Len(handled) + 1 + (waiting - 1) + dropped = fed
      <4>1. Len(handled) + waiting + dropped = fed /\ fed \in Nat /\ 0 \in {0, 1}
        BY <1>0, <1>3
      <4> QED BY <1>3, <4>1, Count
    <3>2. Len(handled') = Len(handled) + 1
      BY <2>5
    <3> QED BY <1>2, <2>3, <3>1, <3>2
  <2>7. ASSUME NEW j \in DOMAIN handled', NEW k \in DOMAIN handled', j < k
        PROVE  handled'[j] < handled'[k]
    <3>1. j \in DOMAIN handled
      BY <1>3, <2>5, <2>7
    <3>2. CASE k \in DOMAIN handled
      BY <1>1, <2>5, <2>7, <3>1, <3>2 DEF Newest
    <3>3. CASE k = Len(handled) + 1
      <4>1. handled[j] <= fed - waiting
        BY <1>1, <3>1 DEF Newest
      <4> QED BY <1>3, <2>2, <2>5, <3>1, <3>3, <4>1
    <3> QED BY <1>3, <2>5, <3>2, <3>3
  <2>8. ASSUME NEW k \in DOMAIN handled' PROVE handled'[k] <= fed' - waiting'
    <3>1. CASE k \in DOMAIN handled
      <4>1. handled[k] <= fed - waiting /\ handled'[k] = handled[k] /\ handled[k] \in Nat
        BY <1>1, <2>5, <3>1 DEF Newest
      <4> QED BY <1>2, <1>3, <2>3, <4>1
    <3>2. CASE k = Len(handled) + 1
      BY <1>2, <1>3, <2>2, <2>3, <2>5, <3>2
    <3> QED BY <1>3, <2>5, <3>1, <3>2
  <2>9. Newest'
    BY <1>6, <2>4, <2>6, <2>7, <2>8 DEF Newest
  <2>10. Data'
    BY <1>1, <1>2, <1>3, <1>4, <2>1, <2>5 DEF Data, Awaiting
  <2> QED BY <1>1, <1>2, <1>5, <2>9, <2>10 DEF IInv
<1> QED BY <1>7, <1>8

(* Nothing else touches the queue or what was handed over.                 *)
LEMMA OtherIInv ==
  ASSUME IInv,
         \/ Start \/ TimesOut \/ IdlePasses \/ Returns \/ Fails \/ Stop \/ Cancelled
         \/ UNCHANGED vars
  PROVE  IInv'
<1>1. UNCHANGED <<queue, dropped, fed, ended, handled>>
  BY DEF Start, TimesOut, IdlePasses, Returns, Fails, Stop, Cancelled, vars
<1>2. Data'
  <2>1. task' \in {"none"} \cup Awaiting \cup Done
    BY DEF IInv, Data, Start, TimesOut, IdlePasses, Returns, Fails, Stop, Cancelled, vars,
           Awaiting, Done
  <2> QED BY <1>1, <2>1 DEF IInv, Data
<1>3. Newest'
  BY <1>1 DEF IInv, Newest, waiting
<1> QED BY <1>1, <1>2, <1>3 DEF IInv

(* So every step keeps the invariant, ...                                  *)
LEMMA NextIInv == IInv /\ [Next]_vars => IInv'
  BY FeedIInv, EndFeedIInv, GetIInv, OtherIInv DEF Next

(* ... and it holds in every state.                                        *)
LEMMA SpecIInv == Spec => []IInv
  BY InitIInv, NextIInv, PTL DEF Spec

-----------------------------------------------------------------------------
(* The types of the queue's state: it never holds more than its capacity,  *)
(* and never drops more than was fed.                                      *)
THEOREM TypeCorrect == Spec => []TypeOK
<1>1. Init => Flags
  BY DEF Init, Flags
<1>2. IInv /\ Flags => TypeOK
  BY Types DEF IInv
<1> QED BY <1>1, <1>2, FlagsKept, SpecIInv, PTL DEF Spec

(* A full queue drops the oldest and only it: what waits is an unbroken    *)
(* run up to the last chunk fed, every chunk is waiting, dropped or handed *)
(* over, and the handed over are in order, none twice.                     *)
THEOREM DropsTheOldest == Spec => []KeepsNewest
<1>1. IInv => KeepsNewest
  BY KeepsNewestIsNewest DEF IInv
<1> QED BY <1>1, SpecIInv, PTL

(* Where a ready chunk wins over a deadline already past (Python 3.12 on), *)
(* a task only goes idle with nothing in its queue.                        *)
THEOREM IdleWhenDrained ==
  ASSUME ReadyWins
  PROVE  Spec => IdleOnlyWhenDrained
<1>1. [Next]_vars => (task = "get" /\ task' = "idle" => queue = <<>>)
  BY DEF Next, Start, Feed, EndFeed, Get, TimesOut, IdlePasses, Returns, Fails, Stop, Cancelled,
         vars
<1>2. [Next]_vars => [task = "get" /\ task' = "idle" => queue = <<>>]_vars
  BY <1>1
<1> QED BY <1>2, PTL DEF Spec, IdleOnlyWhenDrained
=============================================================================
