------------------------- MODULE ChunkSequencerProofs -------------------------
(***************************************************************************)
(* For every window and every set of indices: the sequencer returns chunks *)
(* in order and without loss that it does not report, and it implements    *)
(* OrderedDelivery.                                                        *)
(***************************************************************************)
EXTENDS ChunkSequencer, FiniteSetTheorems, WellFoundedInduction, TLAPS

\* Everything held is still to come, and every entry is about the past.
Bounds ==
    /\ IsFiniteSet(pending) /\ pending \subseteq accepted
    /\ \A i \in pending : i >= expected
    /\ \A k \in DOMAIN log : log[k].to <= expected

IInv ==
    /\ TypeOK /\ ReturnedInOrder /\ Bounds /\ HeldOrReleased /\ GapsAreHonest /\ HoldsWithinWindow

-----------------------------------------------------------------------------
(* A nonempty set of indices has a least element, and Least picks it.      *)
LEMMA LeastProperty ==
    ASSUME NEW S \in SUBSET Nat, S # {}
    PROVE  Least(S) \in S /\ \A j \in S : Least(S) <= j
<1> DEFINE below(i) == S \cap (0..i)
           Ends == {below(i) : i \in S}
<1>1. \A i \in S : below(i) \in FiniteSubsetsOf(Nat)
  <2> TAKE i \in S
  <2>1. IsFiniteSet(0..i) /\ below(i) \in SUBSET (0..i)
    BY FS_Interval
  <2>2. IsFiniteSet(below(i))
    BY <2>1, FS_Subset
  <2> QED BY <2>2 DEF FiniteSubsetsOf
<1>2. PICK T \in Ends : \A U \in Ends : <<U, T>> \notin StrictSubsetOrdering(Nat)
  <2>1. Ends \subseteq FiniteSubsetsOf(Nat) /\ Ends # {}
    BY <1>1
  <2> QED BY <2>1, FS_StrictSubsetOrderingWellFounded, WFMin
<1>3. PICK i \in S : T = below(i)
  OBVIOUS
<1>4. ASSUME NEW j \in S, j < i PROVE FALSE
  <2>1. below(j) \subseteq below(i) /\ i \in below(i) /\ i \notin below(j)
    BY <1>4
  <2>2. <<below(j), below(i)>> \in StrictSubsetOrdering(Nat)
    BY <2>1 DEF StrictSubsetOrdering
  <2> QED BY <1>2, <1>3, <2>2
<1>5. \E k \in S : \A j \in S : k <= j
  BY <1>4
<1> QED BY <1>5 DEF Least

-----------------------------------------------------------------------------
(* The entries of a log, field by field. *)
LEMMA EntryTypes ==
    ASSUME TypeOK
    PROVE  \A k \in DOMAIN log : log[k].from \in Nat /\ log[k].to \in Nat
<1> SUFFICES ASSUME NEW k \in DOMAIN log
             PROVE  log[k].from \in Nat /\ log[k].to \in Nat
  OBVIOUS
<1>1. log[k] \in Delivery!Entry
  BY DEF TypeOK
<1> QED BY <1>1 DEF Delivery!Entry

(* A new sequencer satisfies the inductive invariant. *)
LEMMA InitIInv == Init => IInv
  BY WindowAssumption, FS_EmptySet
  DEF Init, IInv, TypeOK, ReturnedInOrder, Delivery!Tiled, Bounds, HeldOrReleased,
      GapsAreHonest, HoldsWithinWindow

(* reset() keeps the inductive invariant: an empty log accounts for nothing. *)
LEMMA ResetIInv == IInv /\ Reset => IInv'
  BY WindowAssumption, FS_EmptySet
  DEF Reset, IInv, TypeOK, ReturnedInOrder, Delivery!Tiled, Bounds, HeldOrReleased,
      GapsAreHonest, HoldsWithinWindow

(* push() keeps it up to its loop: what it stores is held, and no gap passed it. *)
LEMMA PushIInv ==
    ASSUME IInv, NEW i \in Indices, Push(i) PROVE IInv'
<1>1. TypeOK' /\ ReturnedInOrder' /\ HoldsWithinWindow'
  BY DEF Push, IInv, TypeOK, ReturnedInOrder, Delivery!Tiled, HoldsWithinWindow
<1>2. Bounds'
  <2>1. IsFiniteSet(pending')
    BY FS_AddElement DEF Push, IInv, Bounds
  <2> QED BY <2>1 DEF Push, IInv, TypeOK, Bounds
<1>3. HeldOrReleased'
  BY DEF Push, IInv, HeldOrReleased, Released
<1>4. GapsAreHonest'
  <2>1. /\ expected \in Nat /\ i \in Nat /\ i >= expected
        /\ log' = log /\ accepted' = accepted \cup {i}
    BY IndicesAssumption DEF Push, IInv, TypeOK
  <2>2. \A k \in DOMAIN log : log[k].to \in Nat /\ log[k].to <= expected
    BY EntryTypes DEF IInv, Bounds
  <2>3. \A k \in DOMAIN log : ~(i < log[k].to)
    BY <2>1, <2>2
  <2> QED BY <2>1, <2>3 DEF IInv, GapsAreHonest
<1> QED BY <1>1, <1>2, <1>3, <1>4 DEF IInv

(* flush() keeps it up to its loop. *)
LEMMA FlushIInv == IInv /\ Flush => IInv'
  BY DEF Flush, IInv, TypeOK, ReturnedInOrder, Delivery!Tiled, Bounds, HeldOrReleased,
         Released, GapsAreHonest, HoldsWithinWindow

(* Leaving the loop of _release keeps it: what is still held may wait. *)
LEMMA ReleaseDoneIInv == IInv /\ ReleaseDone => IInv'
<1> SUFFICES ASSUME IInv, ReleaseDone PROVE IInv'
  OBVIOUS
<1>1. HoldsWithinWindow'
  <2>1. Cardinality(pending) \in Nat /\ (pending = {} => Cardinality(pending) = 0)
    BY FS_CardinalityType, FS_EmptySet DEF IInv, Bounds
  <2>2. \A i \in pending : expected \notin pending => i > expected
    <3>1. expected \in Nat /\ pending \subseteq Nat /\ \A i \in pending : i >= expected
      BY IndicesAssumption DEF IInv, TypeOK, Bounds
    <3>2. ASSUME expected \notin pending, NEW i \in pending PROVE i > expected
      <4>1. i # expected /\ i \in Nat /\ i >= expected
        BY <3>1, <3>2
      <4> QED BY <4>1, <3>1
    <3> QED BY <3>2
  <2> QED
    BY <2>1, <2>2, WindowAssumption DEF ReleaseDone, GivesUp, HoldsWithinWindow
<1> QED
  BY <1>1 DEF ReleaseDone, IInv, TypeOK, ReturnedInOrder, Delivery!Tiled, Bounds,
              HeldOrReleased, Released, GapsAreHonest

(* Both turns of the loop append one entry that starts at `expected` and    *)
(* move `expected` to its end.                                              *)
LEMMA AppendTiles ==
    ASSUME TypeOK, ReturnedInOrder,
           NEW kind \in Delivery!Kinds, NEW to \in Nat, to > expected,
           kind = "chunk" => to = expected + 1,
           log' = Append(log, [kind |-> kind, from |-> expected, to |-> to]),
           expected' = to
    PROVE  ReturnedInOrder' /\ log' \in Seq(Delivery!Entry)
<1> DEFINE e == [kind |-> kind, from |-> expected, to |-> to]
<1>1. e \in Delivery!Entry /\ log \in Seq(Delivery!Entry)
  BY DEF TypeOK, Delivery!Entry
<1>2. log' \in Seq(Delivery!Entry) /\ Len(log') = Len(log) + 1
  BY <1>1
<1>3. /\ \A k \in 1..Len(log) : log'[k] = log[k]
      /\ log'[Len(log) + 1] = e
  BY <1>1
<1>4. \A k \in 1..Len(log') :
        /\ log'[k].from < log'[k].to
        /\ log'[k].from = IF k = 1 THEN 0 ELSE log'[k-1].to
        /\ log'[k].kind = "chunk" => log'[k].to = log'[k].from + 1
  <2> TAKE k \in 1..Len(log')
  <2>1. CASE k \in 1..Len(log)
    BY <1>1, <1>3, <2>1 DEF ReturnedInOrder, Delivery!Tiled, TypeOK
  <2>2. CASE k = Len(log) + 1
    BY <1>1, <1>3, <2>2 DEF ReturnedInOrder, Delivery!Tiled, TypeOK
  <2> QED BY <1>1, <1>2, <2>1, <2>2
<1>5. expected' = log'[Len(log')].to /\ log' # <<>>
  BY <1>1, <1>2, <1>3
<1> QED BY <1>2, <1>4, <1>5 DEF ReturnedInOrder, Delivery!Tiled

(* Releasing the expected chunk keeps it. *)
LEMMA ReleaseExpectedIInv == IInv /\ ReleaseExpected => IInv'
<1> SUFFICES ASSUME IInv, ReleaseExpected PROVE IInv'
  OBVIOUS
<1>1. expected \in Nat /\ expected' = expected + 1 /\ pending' = pending \ {expected}
  BY DEF IInv, TypeOK, ReleaseExpected
<1>2. ReturnedInOrder' /\ log' \in Seq(Delivery!Entry)
  BY <1>1, AppendTiles DEF IInv, ReleaseExpected, Delivery!Kinds
<1>3. TypeOK' /\ HoldsWithinWindow'
  BY <1>1, <1>2 DEF IInv, TypeOK, ReleaseExpected, HoldsWithinWindow
<1> DEFINE e == [kind |-> "chunk", from |-> expected, to |-> expected + 1]
<1>4. /\ DOMAIN log' = DOMAIN log \cup {Len(log) + 1}
      /\ \A k \in DOMAIN log : log'[k] = log[k]
      /\ log'[Len(log) + 1] = e
  BY DEF IInv, TypeOK, ReleaseExpected
<1>5. Bounds'
  <2>1. IsFiniteSet(pending')
    BY <1>1, FS_RemoveElement DEF IInv, Bounds
  <2>2. \A i \in pending' : i >= expected'
    <3>1. \A i \in pending : i \in Nat /\ i >= expected
      BY IndicesAssumption DEF IInv, TypeOK, Bounds
    <3> QED BY <1>1, <3>1
  <2>3. \A k \in DOMAIN log' : log'[k].to <= expected'
    <3>1. \A k \in DOMAIN log : log[k].to \in Nat /\ log[k].to <= expected
      BY EntryTypes DEF IInv, Bounds
    <3> QED BY <1>1, <1>4, <3>1
  <2> QED BY <1>1, <2>1, <2>2, <2>3 DEF IInv, Bounds, ReleaseExpected
<1>6. HeldOrReleased'
  <2>1. \A i \in Released : i \in Released'
    BY <1>4 DEF Released, ReleaseExpected
  <2>2. expected \in accepted => expected \in Released'
    BY <1>4 DEF Released, ReleaseExpected
  <2> QED BY <1>1, <2>1, <2>2 DEF IInv, HeldOrReleased, ReleaseExpected
<1>7. GapsAreHonest'
  BY <1>4 DEF IInv, GapsAreHonest, ReleaseExpected
<1> QED BY <1>2, <1>3, <1>5, <1>6, <1>7 DEF IInv

(* A gap ends at a held index beyond `expected`, with nothing held below it.*)
LEMMA GapTarget ==
    ASSUME IInv, ReleaseGap
    PROVE  /\ expected \in Nat /\ Least(pending) \in pending
           /\ Least(pending) \in Nat /\ Least(pending) > expected
           /\ \A i \in pending : i \in Nat /\ Least(pending) <= i
<1> DEFINE next == Least(pending)
<1>1. pending \in SUBSET Nat /\ pending # {} /\ expected \notin pending
  BY IndicesAssumption DEF IInv, TypeOK, ReleaseGap
<1>2. next \in pending /\ \A i \in pending : next <= i
  BY <1>1, LeastProperty
<1>3. expected \in Nat /\ next >= expected /\ next # expected /\ next \in Nat
  BY <1>1, <1>2 DEF IInv, TypeOK, Bounds
<1> QED BY <1>1, <1>2, <1>3

(* Giving up on a missing chunk keeps it: nothing held is passed over. *)
LEMMA ReleaseGapIInv == IInv /\ ReleaseGap => IInv'
<1> SUFFICES ASSUME IInv, ReleaseGap PROVE IInv'
  OBVIOUS
<1> DEFINE next == Least(pending)
           e == [kind |-> "gap", from |-> expected, to |-> next]
<1>1. /\ expected \in Nat /\ next \in pending /\ next \in Nat /\ next > expected
      /\ \A i \in pending : i \in Nat /\ next <= i
  BY GapTarget
<1> HIDE DEF next
<1>2. /\ log' = Append(log, e) /\ expected' = next
      /\ UNCHANGED <<pending, call, accepted>> /\ call # "idle"
  BY DEF ReleaseGap, next
<1>3. ReturnedInOrder' /\ log' \in Seq(Delivery!Entry)
  BY <1>1, <1>2, AppendTiles DEF IInv, Delivery!Kinds
<1>4. TypeOK' /\ HoldsWithinWindow'
  BY <1>1, <1>2, <1>3 DEF IInv, TypeOK, HoldsWithinWindow
<1>5. /\ DOMAIN log' = DOMAIN log \cup {Len(log) + 1}
      /\ \A k \in DOMAIN log : log'[k] = log[k]
      /\ log'[Len(log) + 1] = e
  BY <1>2 DEF IInv, TypeOK
<1>6. Bounds'
  <2>1. \A k \in DOMAIN log : log[k].to \in Nat /\ log[k].to <= expected
    BY EntryTypes DEF IInv, Bounds
  <2>2. \A k \in DOMAIN log' : log'[k].to <= expected'
    BY <1>1, <1>2, <1>5, <2>1
  <2> QED BY <1>1, <1>2, <2>2 DEF IInv, Bounds
<1>7. HeldOrReleased'
  BY <1>2, <1>5 DEF IInv, HeldOrReleased, Released
<1>8. \A i \in accepted : ~(expected <= i /\ i < next)
  <2> SUFFICES ASSUME NEW i \in accepted PROVE ~(expected <= i /\ i < next)
    OBVIOUS
  <2>1. CASE i \in pending
    BY <1>1, <2>1
  <2>2. CASE i \in Released
    <3>1. PICK k \in DOMAIN log : log[k].kind = "chunk" /\ log[k].from = i
      BY <2>2 DEF Released
    <3>2. log[k].to = i + 1 /\ log[k].to <= expected /\ i \in Nat
      BY <3>1, EntryTypes DEF IInv, TypeOK, ReturnedInOrder, Delivery!Tiled, Bounds
    <3> QED BY <1>1, <3>2
  <2> QED BY <2>1, <2>2 DEF IInv, HeldOrReleased
<1>9. GapsAreHonest'
  BY <1>2, <1>5, <1>8 DEF IInv, GapsAreHonest
<1> QED BY <1>3, <1>4, <1>6, <1>7, <1>9 DEF IInv

(* Every step keeps the inductive invariant. *)
LEMMA NextIInv == IInv /\ [Next]_vars => IInv'
<1> SUFFICES ASSUME IInv, [Next]_vars PROVE IInv'
  OBVIOUS
<1>1. CASE Reset                            BY <1>1, ResetIInv
<1>2. CASE \E i \in Indices : Push(i)       BY <1>2, PushIInv
<1>3. CASE Flush                            BY <1>3, FlushIInv
<1>4. CASE Release
  BY <1>4, ReleaseExpectedIInv, ReleaseGapIInv, ReleaseDoneIInv DEF Release
<1>5. CASE UNCHANGED vars
  BY <1>5 DEF vars, IInv, TypeOK, ReturnedInOrder, Delivery!Tiled, Bounds, HeldOrReleased,
              Released, GapsAreHonest, HoldsWithinWindow
<1> QED BY <1>1, <1>2, <1>3, <1>4, <1>5 DEF Next

(* It holds in every state of the sequencer. *)
LEMMA SpecIInv == Spec => []IInv
  BY InitIInv, NextIInv, PTL DEF Spec

-----------------------------------------------------------------------------
(* The types of the sequencer's state.                                     *)
THEOREM TypeCorrect == Spec => []TypeOK
  BY SpecIInv, PTL DEF IInv

(* What the sequencer returned tiles the indices below `expected`: chunks  *)
(* come out in index order, each at most once, and what is missing between *)
(* two of them was reported as a gap.                                      *)
THEOREM InOrder == Spec => []ReturnedInOrder
  BY SpecIInv, PTL DEF IInv

(* A stored chunk is held or was released, and no reported gap covers it.  *)
THEOREM StoredIsKept == Spec => []NothingStoredIsLost
<1>1. IInv => NothingStoredIsLost
  BY DEF IInv, NothingStoredIsLost
<1> QED BY <1>1, SpecIInv, PTL

(* Between calls at most Window chunks are held, whatever a client sends.  *)
THEOREM BoundedHold == Spec => []HoldsWithinWindow
  BY SpecIInv, PTL DEF IInv

(* Every run of the sequencer is a run of in-order delivery.               *)
THEOREM Refinement == Spec => ImplementsOrderedDelivery
<1>1. Init => Delivery!Init
  BY DEF Init, Delivery!Init
<1>2. IInv /\ [Next]_vars => [Delivery!Next]_(Delivery!vars)
  <2> SUFFICES ASSUME IInv, [Next]_vars
               PROVE  Delivery!Next \/ UNCHANGED Delivery!vars
    BY DEF Delivery!vars
  <2>1. CASE Reset
    BY <2>1 DEF Reset, Delivery!Next, Delivery!Restart
  <2>2. CASE (\E i \in Indices : Push(i)) \/ Flush \/ ReleaseDone \/ UNCHANGED vars
    BY <2>2 DEF Push, Flush, ReleaseDone, vars, Delivery!vars
  <2>3. CASE ReleaseExpected
    BY <2>3 DEF ReleaseExpected, Delivery!Next, Delivery!Deliver
  <2>4. CASE ReleaseGap
    <3>1. Least(pending) > expected /\ Least(pending) \in Indices
      BY <2>4, GapTarget DEF IInv, TypeOK
    <3> QED BY <2>4, <3>1 DEF ReleaseGap, Delivery!Next, Delivery!Skip
  <2> QED BY <2>1, <2>2, <2>3, <2>4 DEF Next, Release
<1> QED BY <1>1, <1>2, SpecIInv, PTL DEF Spec, ImplementsOrderedDelivery, Delivery!Spec
=============================================================================
