--------------------------- MODULE AgUiThreadProofs ---------------------------
(***************************************************************************)
(* Proofs about AgUiThread and AgUiTabs, for any runs, emits, tabs and     *)
(* bounds: the types, one run at a time on a thread, what the replay       *)
(* buffer holds, what the group is told of each run and of its end, and in *)
(* which order a tab applies it.                                           *)
(***************************************************************************)
EXTENDS AgUiTabs, SequenceTheorems, TLAPS

-----------------------------------------------------------------------------
(* A buffer by itself: numbered from 1 or later, without a gap; if nothing *)
(* was dropped from it, it opens with RUN_STARTED or is a lone RUN_ERROR.  *)
WellNumbered(b) ==
    /\ \A k \in DOMAIN b : b[k].seq >= 1
    /\ \A k \in 1..(Len(b) - 1) : b[k+1].seq = b[k].seq + 1
OpensARun(b) == b # <<>> /\ b[1].seq = 1 => b[1].kind \in {"RUN_STARTED", "RUN_ERROR"}
WellFormed(b) ==
    /\ b \in Seq(Event) /\ Len(b) <= MaxEvents /\ WellNumbered(b) /\ OpensARun(b)

(* Whose broadcast is under way, and of which kind it can be.              *)
Sending ==
    /\ \A r \in Runs :
          /\ outgoing[r] # Nothing <=> phase[r] \in {"sending", "reporting"}
          /\ phase[r] = "reporting" => outgoing[r].kind = "RUN_ERROR"
          /\ phase[r] = "sending" => outgoing[r].kind # "RUN_ERROR"
    /\ \A x \in Emits : outgoing[x].kind = "CONTENT"

(* The buffer belongs to the run that holds the thread, is empty until it  *)
(* starts, and is not empty from then until its end was delivered.         *)
OfTheRun ==
    /\ \A k \in DOMAIN buffer : buffer[k].of \in {active} \cup Emits
    /\ active = NoRun => buffer = <<>>
    /\ \A r \in Runs : phase[r] \in {"claimed", "scheduled", "returned"} => buffer = <<>>
    /\ \A r \in Runs : phase[r] \in {"producing", "sending", "raised"} => buffer # <<>>

(* The inductive invariant.                                                *)
IInv == TypeOK /\ OneRun /\ Sending /\ WellFormed(buffer) /\ OfTheRun

USE NoRunAssumption, EmitsAssumption, BoundAssumption
-----------------------------------------------------------------------------
(* An event is never Nothing: it belongs to a run or was emitted.          *)
LEMMA EventIsSomething == Nothing \notin Event
  BY DEF Nothing, Event

(* Append adds one element at the end and keeps the others.                *)
LEMMA AppendFacts ==
  ASSUME NEW S, NEW s \in Seq(S), NEW e \in S
  PROVE  /\ Append(s, e) \in Seq(S) /\ Append(s, e) # <<>>
         /\ Len(s) \in Nat /\ Len(Append(s, e)) = Len(s) + 1
         /\ DOMAIN Append(s, e) = 1..(Len(s) + 1)
         /\ \A k \in 1..Len(s) : Append(s, e)[k] = s[k]
         /\ Append(s, e)[Len(s) + 1] = e
  OBVIOUS

(* Appending the next number to a well-formed buffer leaves it so, dropped *)
(* head or not, and brings in nothing but the event.                       *)
LEMMA Appending ==
  ASSUME NEW b, WellFormed(b), NEW e \in Event, e.seq = NextSeq(b),
         b # <<>> \/ e.kind \in {"RUN_STARTED", "RUN_ERROR"}
  PROVE  /\ WellFormed(Buffered(b, e))
         /\ Buffered(b, e) # <<>>
         /\ \A k \in DOMAIN Buffered(b, e) :
               \/ Buffered(b, e)[k] = e
               \/ \E j \in DOMAIN b : Buffered(b, e)[k] = b[j]
<1> DEFINE kept == IF Len(b) >= MaxEvents THEN Tail(b) ELSE b
           c    == Append(kept, e)
           d    == Len(b) - Len(kept)
<1>0. b \in Seq(Event) /\ Len(b) \in Nat /\ Len(b) <= MaxEvents
  BY DEF WellFormed
<1>1. /\ kept \in Seq(Event) /\ Len(kept) < MaxEvents /\ d \in {0, 1}
      /\ Len(kept) = Len(b) - d /\ Len(kept) \in Nat
      /\ \A k \in 1..Len(kept) : kept[k] = b[k + d]
  <2>1. CASE Len(b) >= MaxEvents
    <3>1. b # <<>> /\ Len(b) = MaxEvents
      BY <1>0, <2>1
    <3>2. Tail(b) \in Seq(Event) /\ Len(Tail(b)) = Len(b) - 1
          /\ \A k \in 1..(Len(b) - 1) : Tail(b)[k] = b[k + 1]
      BY <1>0, <3>1
    <3>3. kept = Tail(b) /\ d = 1
      BY <1>0, <2>1, <3>2
    <3> HIDE DEF kept, d
    <3> QED BY <1>0, <3>1, <3>2, <3>3
  <2>2. CASE ~(Len(b) >= MaxEvents)
    <3>1. kept = b /\ d = 0
      BY <1>0, <2>2
    <3>2. \A k \in 1..Len(b) : k = k + 0
      BY <1>0
    <3> HIDE DEF kept, d
    <3> QED BY <1>0, <2>2, <3>1, <3>2
  <2> QED BY <2>1, <2>2
<1>2. Buffered(b, e) = c
  BY DEF Buffered
<1> HIDE DEF kept, d
<1>3. /\ c \in Seq(Event) /\ Len(c) = Len(kept) + 1 /\ Len(c) <= MaxEvents /\ c # <<>>
      /\ DOMAIN c = 1..(Len(kept) + 1)
      /\ \A k \in 1..Len(kept) : c[k] = b[k + d] /\ k + d \in DOMAIN b
      /\ c[Len(kept) + 1] = e
  <2>1. kept \in Seq(Event)
    BY <1>1
  <2>2. /\ c \in Seq(Event) /\ c # <<>> /\ Len(c) = Len(kept) + 1
        /\ DOMAIN c = 1..(Len(kept) + 1)
        /\ \A k \in 1..Len(kept) : c[k] = kept[k]
        /\ c[Len(kept) + 1] = e
    BY <2>1, AppendFacts
  <2>3. \A k \in 1..Len(kept) : k + d \in DOMAIN b
    BY <1>0, <1>1
  <2>4. Len(c) <= MaxEvents
    BY <1>1, <2>2
  <2> HIDE DEF c
  <2> QED BY <1>1, <2>2, <2>3, <2>4
<1>4. e.seq \in Nat /\ (b = <<>> => e.seq = 1)
      /\ (b # <<>> => e.seq = b[Len(b)].seq + 1 /\ Len(b) \in DOMAIN b)
  BY <1>0 DEF NextSeq, Event
<1>5. \A k \in DOMAIN b : b[k].seq \in Nat /\ b[k].seq >= 1
  <2>1. \A k \in DOMAIN b : b[k] \in Event
    BY <1>0
  <2>2. \A k \in DOMAIN b : b[k].seq \in Nat
    BY <2>1 DEF Event
  <2> QED BY <2>2 DEF WellFormed, WellNumbered
<1>6. \A k \in 1..(Len(b) - 1) : b[k+1].seq = b[k].seq + 1
  BY DEF WellFormed, WellNumbered
<1>7. \A k \in DOMAIN c : c[k].seq >= 1
  BY <1>3, <1>4, <1>5
<1>8. \A k \in 1..(Len(c) - 1) : c[k+1].seq = c[k].seq + 1
  <2> SUFFICES ASSUME NEW k \in 1..Len(kept) PROVE c[k+1].seq = c[k].seq + 1
    BY <1>3
  <2>0. Len(kept) \in Nat
    BY <1>1
  <2>1. CASE k = Len(kept)
    <3>1. c[k] = b[Len(b)] /\ b # <<>>
      BY <1>0, <1>1, <1>3, <2>0, <2>1
    <3> QED BY <1>3, <1>4, <2>1, <3>1
  <2>2. CASE k < Len(kept)
    <3>1. c[k] = b[k + d] /\ c[k+1] = b[(k + d) + 1] /\ k + d \in 1..(Len(b) - 1)
      BY <1>0, <1>1, <1>3, <2>0, <2>2
    <3> QED BY <1>6, <3>1
  <2> QED BY <2>0, <2>1, <2>2
<1>9. OpensARun(c)
  <2> SUFFICES ASSUME c[1].seq = 1 PROVE c[1].kind \in {"RUN_STARTED", "RUN_ERROR"}
    BY DEF OpensARun
  <2>1. CASE b = <<>>
    BY <1>0, <1>1, <1>3, <2>1
  <2>2. CASE b # <<>> /\ d = 0
    <3>1. c[1] = b[1]
      BY <1>0, <1>1, <1>3, <2>2
    <3> QED BY <2>2, <3>1 DEF WellFormed, OpensARun
  <2>3. CASE b # <<>> /\ d = 1
    <3>0. Len(kept) \in Nat
      BY <1>1
    <3>1. CASE Len(kept) = 0
      <4>1. c[1] = e /\ e.seq = b[Len(b)].seq + 1 /\ b[Len(b)].seq \in Nat
            /\ b[Len(b)].seq >= 1
        BY <1>3, <1>4, <1>5, <2>3, <3>1
      <4> QED BY <4>1
    <3>2. CASE Len(kept) > 0
      <4>1. 1 \in 1..Len(kept) /\ 1 \in 1..(Len(b) - 1) /\ 1 \in DOMAIN b
        BY <1>0, <1>1, <2>3, <3>0, <3>2
      <4>2. c[1] = b[1 + d]
        BY <1>3, <4>1
      <4>3. c[1] = b[1 + 1]
        BY <2>3, <4>2
      <4> QED BY <1>5, <1>6, <4>1, <4>3
    <3> QED BY <3>0, <3>1, <3>2
  <2> QED BY <1>1, <2>1, <2>2, <2>3
<1>10. \A k \in DOMAIN c : c[k] = e \/ \E j \in DOMAIN b : c[k] = b[j]
  BY <1>3
<1> QED BY <1>2, <1>3, <1>7, <1>8, <1>9, <1>10 DEF WellFormed, WellNumbered

(* An empty buffer is well formed.                                         *)
LEMMA EmptyIsWellFormed == WellFormed(<<>>)
  BY DEF WellFormed, WellNumbered, OpensARun

(* broadcast_run_event up to its await: the buffer stays well formed, of   *)
(* the run that holds the thread, and has the event in it.                 *)
LEMMA BroadcastKeeps ==
  ASSUME IInv, NEW y \in Runs \cup Emits, y \in {active} \cup Emits, NEW kind \in Kinds,
         Broadcast(y, kind),
         kind \in {"RUN_STARTED", "RUN_ERROR"} \/ buffer # <<>>
  PROVE  /\ WellFormed(buffer') /\ buffer' # <<>>
         /\ \A k \in DOMAIN buffer' : buffer'[k].of \in {active} \cup Emits
         /\ outgoing' = [outgoing EXCEPT ![y] = outgoing'[y]]
         /\ outgoing'[y] \in Event /\ outgoing'[y].kind = kind
<1> DEFINE kept == IF kind = "RUN_STARTED" THEN <<>> ELSE buffer
           e    == [of |-> y, kind |-> kind, seq |-> NextSeq(kept)]
<1>1. buffer' = Buffered(kept, e) /\ outgoing' = [outgoing EXCEPT ![y] = e]
  BY DEF Broadcast
<1>2. WellFormed(kept) /\ (kept = <<>> \/ kept = buffer)
  BY EmptyIsWellFormed DEF IInv
<1>3. kept # <<>> \/ e.kind \in {"RUN_STARTED", "RUN_ERROR"}
  OBVIOUS
<1>4. NextSeq(kept) \in Nat
  <2>1. kept \in Seq(Event) /\ Len(kept) \in Nat
    BY <1>2 DEF WellFormed
  <2>2. kept # <<>> => kept[Len(kept)] \in Event
    BY <2>1
  <2>3. kept # <<>> => kept[Len(kept)].seq \in Nat
    BY <2>2 DEF Event
  <2> QED BY <2>3 DEF NextSeq
<1>5. e \in Event /\ e.seq = NextSeq(kept) /\ e.of = y /\ e.kind = kind
  BY <1>4 DEF Event
<1>6. \A k \in DOMAIN kept : kept[k].of \in {active} \cup Emits
  BY <1>2 DEF IInv, OfTheRun
<1> HIDE DEF kept, e
<1>7. /\ WellFormed(Buffered(kept, e)) /\ Buffered(kept, e) # <<>>
      /\ \A k \in DOMAIN Buffered(kept, e) :
            \/ Buffered(kept, e)[k] = e
            \/ \E j \in DOMAIN kept : Buffered(kept, e)[k] = kept[j]
  BY <1>2, <1>3, <1>5, Appending
<1>8. \A k \in DOMAIN buffer' : buffer'[k].of \in {active} \cup Emits
  BY <1>1, <1>5, <1>6, <1>7
<1>9. outgoing'[y] = e
  BY <1>1 DEF IInv, TypeOK
<1> QED BY <1>1, <1>5, <1>7, <1>8, <1>9

(* broadcast_run_event from its await on: the event is with the group, and *)
(* the buffer is as it was, or empty after a terminal event.               *)
LEMMA DeliveredKeeps ==
  ASSUME IInv, NEW y \in Runs \cup Emits, Delivered(y)
  PROVE  /\ outgoing[y] # Nothing /\ sent' \in Seq(Event)
         /\ outgoing' = [outgoing EXCEPT ![y] = Nothing]
         /\ outgoing' \in [Runs \cup Emits -> Event \cup {Nothing}]
         /\ WellFormed(buffer')
         /\ buffer' = IF outgoing[y].kind \in Terminal THEN <<>> ELSE buffer
<1>1. outgoing[y] \in Event
  BY DEF IInv, TypeOK, Delivered
<1>2. sent' \in Seq(Event)
  BY <1>1 DEF IInv, TypeOK, Delivered
<1> QED BY <1>2, EmptyIsWellFormed DEF IInv, TypeOK, Delivered

-----------------------------------------------------------------------------
(* A new thread satisfies the inductive invariant.                         *)
LEMMA InitIInv == Init => IInv
<1> SUFFICES ASSUME Init PROVE IInv
  OBVIOUS
<1>1. TypeOK
  BY DEF Init, TypeOK, Phases, Nothing
<1>2. OneRun
  BY DEF Init, OneRun, Holding, Phases, TaskPhases
<1>3. Sending
  BY DEF Init, Sending, Nothing
<1>4. WellFormed(buffer) /\ OfTheRun
  BY EmptyIsWellFormed DEF Init, OfTheRun
<1> QED BY <1>1, <1>2, <1>3, <1>4 DEF IInv

(* A run that is asked for, or refused, keeps it: who claims the thread    *)
(* finds it free and its buffer empty.                                     *)
LEMMA ClaimIInv ==
  ASSUME IInv, NEW r \in Runs, HandleRun(r) \/ StartRun(r) \/ Refuse(r)
  PROVE  IInv'
<1>1. TypeOK'
  BY DEF IInv, TypeOK, HandleRun, StartRun, Refuse, Phases, TaskPhases
<1>2. OneRun'
  BY DEF IInv, TypeOK, OneRun, HandleRun, StartRun, Refuse, Holding, Phases, TaskPhases
<1>3. Sending'
  BY DEF IInv, TypeOK, Sending, HandleRun, StartRun, Refuse
<1>4. WellFormed(buffer)'
  BY DEF IInv, HandleRun, StartRun, Refuse
<1>5. OfTheRun'
  BY DEF IInv, TypeOK, OfTheRun, HandleRun, StartRun, Refuse
<1> QED BY <1>1, <1>2, <1>3, <1>4, <1>5 DEF IInv

(* The steps of a run that neither send nor release keep it.               *)
LEMMA QuietIInv ==
  ASSUME IInv, NEW r \in Runs, Drive(r) \/ ProviderRaises(r) \/ Cancel(r)
  PROVE  IInv'
<1>1. TypeOK'
  BY DEF IInv, TypeOK, Drive, ProviderRaises, Cancel, Phases, TaskPhases
<1>2. OneRun'
  BY DEF IInv, TypeOK, OneRun, Drive, ProviderRaises, Cancel, Holding, Phases, TaskPhases
<1>3. Sending'
  BY DEF IInv, TypeOK, Sending, Drive, ProviderRaises, Cancel
<1>4. WellFormed(buffer)'
  BY DEF IInv, Drive, ProviderRaises, Cancel
<1>5. OfTheRun'
  BY DEF IInv, TypeOK, OfTheRun, Drive, ProviderRaises, Cancel
<1> QED BY <1>1, <1>2, <1>3, <1>4, <1>5 DEF IInv

(* The run that holds the thread is the only one that does.                *)
LEMMA HolderIsActive ==
  ASSUME IInv, NEW r \in Runs, phase[r] \in Holding
  PROVE  active = r /\ \A q \in Runs : phase[q] \in Holding => q = r
  BY DEF IInv, OneRun

(* Sending an event keeps it: content and the end of a run find its start  *)
(* in the buffer.                                                          *)
LEMMA EmitIInv ==
  ASSUME IInv, NEW r \in Runs, Emit(r)
  PROVE  IInv'
<1>1. PICK kind \in Kinds :
        /\ Broadcast(r, kind) /\ kind # "RUN_ERROR"
        /\ kind = "RUN_STARTED" \/ phase[r] = "producing"
        /\ phase[r] \in {"scheduled", "producing"}
        /\ produced' \in [Runs -> 0..MaxContent]
  BY DEF Emit, Yield, Kinds, IInv, TypeOK
<1>2. /\ phase' = [phase EXCEPT ![r] = "sending"]
      /\ UNCHANGED <<active, cancelled, sent>>
  BY DEF Emit
<1>3. active = r /\ \A q \in Runs : phase[q] \in Holding => q = r
  BY <1>1, HolderIsActive DEF Holding, Phases, TaskPhases
<1>4. kind \in {"RUN_STARTED", "RUN_ERROR"} \/ buffer # <<>>
  BY <1>1 DEF IInv, OfTheRun
<1>5. /\ WellFormed(buffer') /\ buffer' # <<>>
      /\ \A k \in DOMAIN buffer' : buffer'[k].of \in {active} \cup Emits
      /\ outgoing' = [outgoing EXCEPT ![r] = outgoing'[r]]
      /\ outgoing'[r] \in Event /\ outgoing'[r].kind = kind
  BY <1>1, <1>3, <1>4, BroadcastKeeps
<1>6. outgoing' \in [Runs \cup Emits -> Event \cup {Nothing}]
  BY <1>5 DEF IInv, TypeOK
<1>7. TypeOK'
  BY <1>1, <1>2, <1>5, <1>6 DEF IInv, TypeOK, WellFormed, Phases, TaskPhases
<1>8. OneRun'
  BY <1>1, <1>2, <1>3 DEF IInv, TypeOK, OneRun, Holding, Phases, TaskPhases
<1>9. Sending'
  <2>1. \A q \in Runs : q # r => outgoing'[q] = outgoing[q] /\ phase'[q] = phase[q]
    BY <1>2, <1>5 DEF IInv, TypeOK
  <2>2. outgoing'[r] # Nothing /\ phase'[r] = "sending" /\ outgoing'[r].kind # "RUN_ERROR"
    BY <1>1, <1>2, <1>5, EventIsSomething DEF IInv, TypeOK
  <2>3. \A x \in Emits : outgoing'[x] = outgoing[x]
    BY <1>5 DEF IInv, TypeOK
  <2> QED BY <2>1, <2>2, <2>3 DEF IInv, Sending
<1>10. OfTheRun'
  <2>1. \A q \in Runs : q # r => phase'[q] = phase[q] /\ phase[q] \notin Holding
    BY <1>2, <1>3 DEF IInv, TypeOK
  <2>2. phase'[r] = "sending"
    BY <1>2 DEF IInv, TypeOK
  <2> QED BY <1>2, <1>3, <1>5, <2>1, <2>2 DEF OfTheRun, Holding, Phases, TaskPhases
<1> QED BY <1>5, <1>7, <1>8, <1>9, <1>10 DEF IInv

(* An event of a run that reached the group keeps it: only RUN_FINISHED    *)
(* empties the buffer, and with it the run has returned.                   *)
LEMMA EmittedIInv ==
  ASSUME IInv, NEW r \in Runs, Emitted(r)
  PROVE  IInv'
<1>1. /\ phase[r] = "sending"
      /\ phase' = [phase EXCEPT ![r] =
             IF outgoing[r].kind = "RUN_FINISHED" THEN "returned" ELSE "producing"]
      /\ Delivered(r) /\ UNCHANGED <<active, cancelled, produced>>
  BY DEF Emitted
<1>2. /\ outgoing[r] # Nothing /\ sent' \in Seq(Event)
      /\ outgoing' = [outgoing EXCEPT ![r] = Nothing]
      /\ outgoing' \in [Runs \cup Emits -> Event \cup {Nothing}]
      /\ WellFormed(buffer')
      /\ buffer' = IF outgoing[r].kind \in Terminal THEN <<>> ELSE buffer
  BY <1>1, DeliveredKeeps
<1>3. active = r /\ \A q \in Runs : phase[q] \in Holding => q = r
  BY <1>1, HolderIsActive DEF Holding, Phases, TaskPhases
<1>4. /\ \A q \in Runs : q # r => phase'[q] = phase[q] /\ outgoing'[q] = outgoing[q]
      /\ \A x \in Emits : outgoing'[x] = outgoing[x]
      /\ outgoing'[r] = Nothing
      /\ phase'[r] = IF outgoing[r].kind = "RUN_FINISHED" THEN "returned" ELSE "producing"
  BY <1>1, <1>2 DEF IInv, TypeOK
<1>5. buffer # <<>> /\ outgoing[r].kind # "RUN_ERROR"
  BY <1>1 DEF IInv, OfTheRun, Sending
<1>6. TypeOK'
  BY <1>1, <1>2 DEF IInv, TypeOK, WellFormed, Phases, TaskPhases
<1>7. OneRun'
  BY <1>1, <1>3, <1>4 DEF IInv, OneRun, Holding, Phases, TaskPhases
<1>8. Sending'
  BY <1>4 DEF IInv, Sending
<1>9. OfTheRun'
  <2>1. \A q \in Runs : q # r => phase'[q] = phase[q] /\ phase[q] \notin Holding
    BY <1>3, <1>4
  <2>2. active' # NoRun /\ active' = active
    BY <1>1, <1>3
  <2>3. \A k \in DOMAIN buffer' : buffer'[k].of \in {active'} \cup Emits
    BY <1>2, <2>2 DEF IInv, OfTheRun
  <2>4. phase'[r] = "returned" => buffer' = <<>>
    BY <1>2, <1>4 DEF Terminal
  <2>5. phase'[r] = "producing" => buffer' # <<>>
    BY <1>2, <1>4, <1>5 DEF Terminal
  <2>6. phase'[r] \in {"returned", "producing"}
    BY <1>4
  <2> QED BY <2>1, <2>2, <2>3, <2>4, <2>5, <2>6 DEF OfTheRun, Holding, Phases, TaskPhases
<1> QED BY <1>2, <1>6, <1>7, <1>8, <1>9 DEF IInv

(* The cancelled task ends: its event is dropped or reached the group, and *)
(* the thread stays with the run, whose end is still to be reported.       *)
LEMMA StoppedIInv ==
  ASSUME IInv, NEW r \in Runs, Stopped(r)
  PROVE  IInv'
<1>1. /\ phase[r] \in TaskPhases
      /\ phase' = [phase EXCEPT ![r] = "stopped"]
      /\ outgoing' = [outgoing EXCEPT ![r] = Nothing]
      /\ UNCHANGED <<active, cancelled, produced, buffer>>
  BY DEF Stopped
<1>2. sent' \in Seq(Event)
  <2>1. outgoing[r] # Nothing => outgoing[r] \in Event
    BY DEF IInv, TypeOK
  <2>2. CASE sent' = sent
    BY <2>2 DEF IInv, TypeOK
  <2>3. CASE outgoing[r] # Nothing /\ sent' = Append(sent, outgoing[r])
    <3>1. sent \in Seq(Event)
      BY DEF IInv, TypeOK
    <3> QED BY <2>1, <2>3, <3>1
  <2> QED BY <2>2, <2>3 DEF Stopped
<1>3. active = r /\ \A q \in Runs : phase[q] \in Holding => q = r
  BY <1>1, HolderIsActive DEF Holding, Phases, TaskPhases
<1>4. /\ \A q \in Runs : q # r => phase'[q] = phase[q] /\ outgoing'[q] = outgoing[q]
      /\ \A x \in Emits : outgoing'[x] = outgoing[x]
      /\ outgoing'[r] = Nothing /\ phase'[r] = "stopped"
  BY <1>1 DEF IInv, TypeOK
<1>5. TypeOK'
  BY <1>1, <1>2 DEF IInv, TypeOK, Phases
<1>6. OneRun'
  BY <1>1, <1>3, <1>4 DEF IInv, OneRun, Holding, Phases, TaskPhases
<1>7. Sending'
  BY <1>4 DEF IInv, Sending
<1>8. OfTheRun'
  BY <1>1, <1>4 DEF IInv, OfTheRun
<1> QED BY <1>1, <1>5, <1>6, <1>7, <1>8 DEF IInv

(* The driver reports a run that did not end by itself: its RUN_ERROR goes *)
(* into the buffer, as the only event if the run never started.            *)
LEMMA ReportIInv ==
  ASSUME IInv, NEW r \in Runs, Report(r)
  PROVE  IInv'
<1>1. /\ phase[r] \in {"stopped", "raised"}
      /\ phase' = [phase EXCEPT ![r] = "reporting"]
      /\ Broadcast(r, "RUN_ERROR")
      /\ UNCHANGED <<active, cancelled, produced, sent>>
  BY DEF Report
<1>2. active = r /\ \A q \in Runs : phase[q] \in Holding => q = r
  BY <1>1, HolderIsActive DEF Holding, Phases, TaskPhases
<1>3. /\ WellFormed(buffer') /\ buffer' # <<>>
      /\ \A k \in DOMAIN buffer' : buffer'[k].of \in {active} \cup Emits
      /\ outgoing' = [outgoing EXCEPT ![r] = outgoing'[r]]
      /\ outgoing'[r] \in Event /\ outgoing'[r].kind = "RUN_ERROR"
  BY <1>1, <1>2, BroadcastKeeps DEF Kinds
<1>4. outgoing' \in [Runs \cup Emits -> Event \cup {Nothing}]
  BY <1>3 DEF IInv, TypeOK
<1>5. /\ \A q \in Runs : q # r => phase'[q] = phase[q] /\ outgoing'[q] = outgoing[q]
      /\ \A x \in Emits : outgoing'[x] = outgoing[x]
      /\ phase'[r] = "reporting"
  BY <1>1, <1>3 DEF IInv, TypeOK
<1>6. TypeOK'
  BY <1>1, <1>3, <1>4 DEF IInv, TypeOK, WellFormed, Phases
<1>7. OneRun'
  BY <1>1, <1>2, <1>5 DEF IInv, OneRun, Holding, Phases, TaskPhases
<1>8. Sending'
  BY <1>3, <1>5, EventIsSomething DEF IInv, Sending
<1>9. OfTheRun'
  BY <1>1, <1>2, <1>3, <1>5 DEF OfTheRun, Holding, Phases, TaskPhases
<1> QED BY <1>3, <1>6, <1>7, <1>8, <1>9 DEF IInv

(* The driver ends, its report delivered or none needed: thread and buffer *)
(* are free again.                                                         *)
LEMMA EndIInv ==
  ASSUME IInv, NEW r \in Runs, Reported(r) \/ Finished(r)
  PROVE  IInv'
<1>1. /\ phase[r] \in {"reporting", "returned"}
      /\ phase' = [phase EXCEPT ![r] = "over"]
      /\ active' = (IF active = r THEN NoRun ELSE active)
      /\ UNCHANGED <<cancelled, produced>>
  BY DEF Reported, Finished, Release
<1>2. active = r /\ \A q \in Runs : phase[q] \in Holding => q = r
  BY <1>1, HolderIsActive DEF Holding, Phases, TaskPhases
<1>3. /\ sent' \in Seq(Event)
      /\ outgoing' \in [Runs \cup Emits -> Event \cup {Nothing}]
      /\ \A y \in Runs \cup Emits : y # r => outgoing'[y] = outgoing[y]
      /\ outgoing'[r] = Nothing
      /\ buffer' = <<>>
  <2>1. CASE Reported(r)
    <3>1. /\ outgoing[r] # Nothing /\ sent' \in Seq(Event)
          /\ outgoing' = [outgoing EXCEPT ![r] = Nothing]
          /\ outgoing' \in [Runs \cup Emits -> Event \cup {Nothing}]
          /\ buffer' = IF outgoing[r].kind \in Terminal THEN <<>> ELSE buffer
      BY <2>1, DeliveredKeeps DEF Reported
    <3>2. outgoing[r].kind = "RUN_ERROR"
      BY <2>1 DEF Reported, IInv, Sending
    <3>3. buffer' = <<>> /\ outgoing'[r] = Nothing
      BY <3>1, <3>2 DEF IInv, TypeOK, Terminal
    <3>4. \A y \in Runs \cup Emits : y # r => outgoing'[y] = outgoing[y]
      BY <3>1 DEF IInv, TypeOK
    <3> QED BY <3>1, <3>3, <3>4
  <2>2. CASE Finished(r)
    <3>1. phase[r] = "returned" /\ UNCHANGED <<outgoing, buffer, sent>>
      BY <2>2 DEF Finished
    <3>2. outgoing[r] = Nothing /\ buffer = <<>>
      BY <3>1 DEF IInv, Sending, OfTheRun
    <3> QED BY <3>1, <3>2 DEF IInv, TypeOK
  <2> QED BY <2>1, <2>2
<1>4. \A q \in Runs : q # r => phase'[q] = phase[q] /\ phase[q] \notin Holding
  BY <1>1, <1>2 DEF IInv, TypeOK
<1>5. phase'[r] = "over"
  BY <1>1 DEF IInv, TypeOK
<1>6. TypeOK'
  <2>1. buffer' \in Seq(Event) /\ Len(buffer') <= MaxEvents
    BY <1>3, EmptyIsWellFormed DEF WellFormed
  <2>2. active' \in Runs \cup {NoRun} /\ phase' \in [Runs -> Phases]
    BY <1>1, <1>2 DEF IInv, TypeOK, Phases
  <2> QED BY <1>1, <1>3, <2>1, <2>2 DEF IInv, TypeOK
<1>7. OneRun'
  BY <1>1, <1>2, <1>4, <1>5 DEF OneRun, Holding
<1>8. Sending'
  BY <1>3, <1>4, <1>5 DEF IInv, Sending
<1>9. OfTheRun'
  BY <1>3, <1>4, <1>5 DEF OfTheRun, Holding, Phases, TaskPhases
<1> QED BY <1>3, <1>6, <1>7, <1>8, <1>9, EmptyIsWellFormed DEF IInv

(* emit_to_thread keeps it, up to its await: it opens no buffer ...        *)
LEMMA EmitToThreadIInv ==
  ASSUME IInv, NEW x \in Emits, EmitToThread(x)
  PROVE  IInv'
<1>1. x \notin Runs /\ UNCHANGED <<active, phase, cancelled, produced, sent>>
  BY DEF EmitToThread
<1>2. /\ WellFormed(buffer') /\ (buffer' = <<>> <=> buffer = <<>>)
      /\ \A k \in DOMAIN buffer' : buffer'[k].of \in {active} \cup Emits
      /\ outgoing' = [outgoing EXCEPT ![x] = outgoing'[x]]
      /\ outgoing'[x] \in Event /\ outgoing'[x].kind = "CONTENT"
  <2>1. CASE buffer # <<>>
    <3>1. Broadcast(x, "CONTENT") /\ "CONTENT" \in Kinds
      BY <2>1 DEF EmitToThread, Kinds
    <3> QED BY <2>1, <3>1, BroadcastKeeps
  <2>2. CASE buffer = <<>>
    <3>1. /\ outgoing' = [outgoing EXCEPT ![x] =
                              [of |-> x, kind |-> "CONTENT", seq |-> 0]]
          /\ buffer' = buffer
      BY <2>2 DEF EmitToThread
    <3>2. outgoing'[x] = [of |-> x, kind |-> "CONTENT", seq |-> 0]
      BY <3>1 DEF IInv, TypeOK
    <3>3. outgoing'[x] \in Event
      BY <3>2 DEF Event, Kinds
    <3>4. outgoing' = [outgoing EXCEPT ![x] = outgoing'[x]]
      BY <3>1, <3>2
    <3> QED BY <2>2, <3>1, <3>2, <3>3, <3>4 DEF IInv, OfTheRun
  <2> QED BY <2>1, <2>2
<1>3. outgoing' \in [Runs \cup Emits -> Event \cup {Nothing}]
      /\ \A y \in Runs \cup Emits : y # x => outgoing'[y] = outgoing[y]
  BY <1>2 DEF IInv, TypeOK
<1>4. TypeOK'
  BY <1>1, <1>2, <1>3 DEF IInv, TypeOK, WellFormed
<1>5. OneRun' /\ OfTheRun'
  BY <1>1, <1>2 DEF IInv, OneRun, OfTheRun
<1>6. Sending'
  BY <1>1, <1>2, <1>3 DEF IInv, Sending
<1> QED BY <1>2, <1>4, <1>5, <1>6 DEF IInv

(* ... and from it on: content empties no buffer.                          *)
LEMMA EmittedToThreadIInv ==
  ASSUME IInv, NEW x \in Emits, EmittedToThread(x)
  PROVE  IInv'
<1>1. x \notin Runs /\ UNCHANGED <<active, phase, cancelled, produced>> /\ Delivered(x)
  BY DEF EmittedToThread
<1>2. /\ sent' \in Seq(Event)
      /\ outgoing' = [outgoing EXCEPT ![x] = Nothing]
      /\ outgoing' \in [Runs \cup Emits -> Event \cup {Nothing}]
      /\ buffer' = IF outgoing[x].kind \in Terminal THEN <<>> ELSE buffer
  BY <1>1, DeliveredKeeps
<1>3. buffer' = buffer
  BY <1>2 DEF IInv, Sending, Terminal
<1>4. TypeOK'
  BY <1>1, <1>2, <1>3 DEF IInv, TypeOK
<1>5. OneRun' /\ OfTheRun'
  BY <1>1, <1>3 DEF IInv, OneRun, OfTheRun
<1>6. Sending'
  BY <1>1, <1>2 DEF IInv, TypeOK, Sending, Nothing
<1> QED BY <1>3, <1>4, <1>5, <1>6 DEF IInv

(* Every step of the thread keeps the inductive invariant.                 *)
LEMMA NextIInv == IInv /\ [Next]_vars => IInv'
<1> SUFFICES ASSUME IInv, [Next]_vars PROVE IInv'
  OBVIOUS
<1>1. ASSUME NEW r \in Runs, HandleRun(r) \/ StartRun(r) \/ Refuse(r) \/ Cancel(r) \/ RunNext(r)
      PROVE  IInv'
  BY <1>1, ClaimIInv, QuietIInv, EmitIInv, EmittedIInv, StoppedIInv, ReportIInv, EndIInv
     DEF RunNext
<1>2. ASSUME NEW x \in Emits, EmitToThread(x) \/ EmittedToThread(x)
      PROVE  IInv'
  BY <1>2, EmitToThreadIInv, EmittedToThreadIInv
<1>3. CASE UNCHANGED vars
  BY <1>3 DEF vars, IInv, TypeOK, OneRun, Sending, OfTheRun
<1> QED BY <1>1, <1>2, <1>3 DEF Next

(* It holds in every state of a thread.                                    *)
LEMMA SpecIInv == Spec => []IInv
  BY InitIInv, NextIInv, PTL DEF Spec

-----------------------------------------------------------------------------
(* The types of a thread's state; the buffer never exceeds its bound.      *)
THEOREM TypeCorrect == Spec => []TypeOK
  BY SpecIInv, PTL DEF IInv

(* However many runs are asked for, from clients and from the server, and  *)
(* however they end, one at most has the thread, and it has the claim.     *)
THEOREM OneRunOnAThread == Spec => []OneRun
  BY SpecIInv, PTL DEF IInv

(* Whatever a joining connection is replayed is of the run in flight, from *)
(* its start unless the buffer is too short, and without a gap.            *)
THEOREM ReplaysTheRun == Spec => []ReplayIsTheRun
<1>1. IInv => ReplayIsTheRun
  BY DEF IInv, WellFormed, WellNumbered, OpensARun, OfTheRun, ReplayIsTheRun
<1> QED BY <1>1, SpecIInv, PTL

-----------------------------------------------------------------------------
(* What the group was told of a run, next to where the run is: nothing     *)
(* before it starts; while it has the thread nothing of another run after  *)
(* its own, and the next number of the buffer is above all it has sent.    *)
NotStarted == {"unused", "refused", "claimed", "scheduled"}
TellsOf(r) ==
    /\ phase[r] \in NotStarted => \A k \in DOMAIN sent : sent[k].of # r
    /\ phase[r] \in Holding =>
          \A j, k \in DOMAIN sent : j <= k /\ sent[j].of = r => sent[k].of \in {r} \cup Emits
    /\ phase[r] \in Holding \ {"returned"} =>
          \A k \in DOMAIN sent : sent[k].of = r => sent[k].seq < NextSeq(buffer)
    /\ outgoing[r] # Nothing =>
          /\ outgoing[r].of = r /\ outgoing[r].seq < NextSeq(buffer)
          /\ \A k \in DOMAIN sent : sent[k].of = r => sent[k].seq < outgoing[r].seq

(* What the group was told of its end: nothing while it runs; between the  *)
(* cancel and its report RUN_FINISHED at most.                             *)
EndsOf(r) ==
    /\ phase[r] \in {"producing", "sending", "raised"} => Terminals(r) = {}
    /\ phase[r] \in {"stopped", "reporting"} =>
          \A k \in Terminals(r) : cancelled[r] /\ sent[k].kind = "RUN_FINISHED"
    /\ phase[r] \in {"returned", "over"} => Terminals(r) # {}

EmitsTheirs == \A x \in Emits : outgoing[x] # Nothing => outgoing[x].of = x
Told == (\A r \in Runs : TellsOf(r) /\ EndsOf(r)) /\ EmitsTheirs

(* The inductive invariant of the group's history, on top of IInv.         *)
History == Told /\ SentInOrder /\ OneOutcome

(* The history with one more event.                                        *)
LEMMA Grown ==
  ASSUME sent \in Seq(Event), NEW e \in Event, sent' = Append(sent, e)
  PROVE  /\ Len(sent) \in Nat
         /\ DOMAIN sent = 1..Len(sent) /\ DOMAIN sent' = 1..(Len(sent) + 1)
         /\ \A k \in DOMAIN sent : k \in DOMAIN sent' /\ sent'[k] = sent[k]
         /\ Len(sent) + 1 \in DOMAIN sent' /\ sent'[Len(sent) + 1] = e
         /\ \A k \in DOMAIN sent' : k \in DOMAIN sent \/ k = Len(sent) + 1
         /\ \A k \in DOMAIN sent' : k \in Nat
  BY AppendFacts

(* The next number of a buffer is a number, ...                            *)
LEMMA NextSeqIsANumber == ASSUME NEW b \in Seq(Event) PROVE NextSeq(b) \in Nat
<1>1. b # <<>> => b[Len(b)] \in Event
  OBVIOUS
<1>2. b # <<>> => b[Len(b)].seq \in Nat
  BY <1>1 DEF Event
<1> QED BY <1>2 DEF NextSeq

(* ... and so is every other in the state.                                 *)
LEMMA Numbers ==
  ASSUME IInv
  PROVE  /\ \A k \in DOMAIN sent : sent[k] \in Event /\ sent[k].seq \in Nat
         /\ \A y \in Runs \cup Emits : outgoing[y].seq \in Nat
         /\ NextSeq(buffer) \in Nat
<1>1. \A k \in DOMAIN sent : sent[k] \in Event /\ sent[k].seq \in Nat
  <2>1. \A k \in DOMAIN sent : sent[k] \in Event
    BY DEF IInv, TypeOK
  <2> QED BY <2>1 DEF Event
<1>2. \A y \in Runs \cup Emits : outgoing[y].seq \in Nat
  <2>1. \A y \in Runs \cup Emits : outgoing[y] \in Event \/ outgoing[y] = Nothing
    BY DEF IInv, TypeOK
  <2>2. Nothing.seq \in Nat /\ \A e \in Event : e.seq \in Nat
    BY DEF Nothing, Event
  <2> QED BY <2>1, <2>2
<1>3. NextSeq(buffer) \in Nat
  BY NextSeqIsANumber DEF IInv, TypeOK
<1> QED BY <1>1, <1>2, <1>3

(* Whatever the buffer drops, the next number is one above the last event. *)
LEMMA BufferedNext ==
  ASSUME NEW b \in Seq(Event), NEW e \in Event
  PROVE  NextSeq(Buffered(b, e)) = e.seq + 1
<1> DEFINE kept == IF Len(b) >= MaxEvents THEN Tail(b) ELSE b
<1>1. kept \in Seq(Event)
  <2>1. Len(b) >= MaxEvents => b # <<>>
    OBVIOUS
  <2> QED BY <2>1
<1>2. Buffered(b, e) = Append(kept, e)
  BY DEF Buffered
<1> HIDE DEF kept
<1>3. Append(kept, e) # <<>> /\ Append(kept, e)[Len(Append(kept, e))] = e
  BY <1>1, AppendFacts
<1> QED BY <1>2, <1>3 DEF NextSeq

(* A broadcast takes the next number of the buffer, or of an empty one.    *)
LEMMA BroadcastNumbers ==
  ASSUME IInv, NEW y \in Runs \cup Emits, NEW kind \in Kinds, Broadcast(y, kind)
  PROVE  /\ outgoing'[y].of = y
         /\ kind # "RUN_STARTED" => outgoing'[y].seq = NextSeq(buffer)
         /\ outgoing'[y].seq \in Nat /\ NextSeq(buffer') = outgoing'[y].seq + 1
<1> DEFINE kept == IF kind = "RUN_STARTED" THEN <<>> ELSE buffer
           e    == [of |-> y, kind |-> kind, seq |-> NextSeq(kept)]
<1>1. buffer' = Buffered(kept, e) /\ outgoing' = [outgoing EXCEPT ![y] = e]
  BY DEF Broadcast
<1>2. kept \in Seq(Event) /\ NextSeq(kept) \in Nat
  <2>1. NextSeq(<<>>) = 1
    BY DEF NextSeq
  <2> QED BY <2>1, Numbers DEF IInv, TypeOK
<1>3. e \in Event /\ e.of = y /\ e.seq = NextSeq(kept)
  BY <1>2 DEF Event
<1>4. kind # "RUN_STARTED" => kept = buffer
  OBVIOUS
<1> HIDE DEF kept, e
<1>5. outgoing'[y] = e
  BY <1>1 DEF IInv, TypeOK
<1>6. NextSeq(buffer') = e.seq + 1
  BY <1>1, <1>2, <1>3, BufferedNext
<1> QED BY <1>2, <1>3, <1>4, <1>5, <1>6

-----------------------------------------------------------------------------
(* A step of one run, or of an emit, leaves what is told of another run.   *)
LEMMA OtherKeeps ==
  ASSUME IInv, IInv', NEW q \in Runs, TellsOf(q), EndsOf(q),
         phase'[q] = phase[q], cancelled'[q] = cancelled[q], outgoing'[q] = outgoing[q],
         \/ sent' = sent
         \/ \E e \in Event : /\ sent' = Append(sent, e) /\ e.of # q
                             /\ phase[q] \in Holding => e.of \in Emits,
         phase[q] \in Holding => NextSeq(buffer') >= NextSeq(buffer)
  PROVE  TellsOf(q)' /\ EndsOf(q)'
<1>0. /\ sent \in Seq(Event)
      /\ outgoing[q] # Nothing => phase[q] \in Holding
      /\ NextSeq(buffer) \in Nat /\ NextSeq(buffer') \in Nat
      /\ outgoing[q].seq \in Nat
      /\ \A k \in DOMAIN sent : sent[k].seq \in Nat
  <2>1. NextSeq(buffer') \in Nat
    <3>1. buffer' \in Seq(Event)
      BY DEF IInv, TypeOK
    <3> QED BY <3>1, NextSeqIsANumber
  <2> QED BY <2>1, Numbers DEF IInv, TypeOK, Sending, Holding, Phases, TaskPhases
<1>3. ASSUME NEW n \in Nat, n < NextSeq(buffer), phase[q] \in Holding
      PROVE  n < NextSeq(buffer')
  BY <1>0, <1>3
<1>4. /\ phase[q] \in Holding \ {"returned"} =>
            \A k \in DOMAIN sent : sent[k].of = q => sent[k].seq < NextSeq(buffer')
      /\ outgoing[q] # Nothing => outgoing[q].seq < NextSeq(buffer')
  <2>1. ASSUME phase[q] \in Holding, NEW k \in DOMAIN sent, phase[q] # "returned", sent[k].of = q
        PROVE  sent[k].seq < NextSeq(buffer')
    <3>1. sent[k].seq \in Nat /\ sent[k].seq < NextSeq(buffer)
      BY <1>0, <2>1 DEF TellsOf
    <3> QED BY <1>3, <2>1, <3>1
  <2>2. ASSUME outgoing[q] # Nothing
        PROVE  outgoing[q].seq < NextSeq(buffer')
    <3>1. outgoing[q].seq \in Nat /\ outgoing[q].seq < NextSeq(buffer) /\ phase[q] \in Holding
      BY <1>0, <2>2 DEF TellsOf
    <3> QED BY <1>3, <3>1
  <2> QED BY <2>1, <2>2
<1>1. CASE sent' = sent
  <2>1. TellsOf(q)'
    BY <1>1, <1>4 DEF TellsOf
  <2>2. EndsOf(q)'
    BY <1>1 DEF EndsOf, Terminals
  <2> QED BY <2>1, <2>2
<1>2. ASSUME NEW e \in Event, sent' = Append(sent, e), e.of # q,
             phase[q] \in Holding => e.of \in Emits
      PROVE  TellsOf(q)' /\ EndsOf(q)'
  <2>1. /\ \A k \in DOMAIN sent : k \in DOMAIN sent' /\ sent'[k] = sent[k]
        /\ \A k \in DOMAIN sent' : k \in DOMAIN sent \/ sent'[k] = e
        /\ \A j \in DOMAIN sent, k \in DOMAIN sent' : sent'[k] = e \/ k \in DOMAIN sent
    BY <1>0, <1>2, Grown
  <2>2. \A k \in DOMAIN sent' : sent'[k].of = q => k \in DOMAIN sent /\ sent'[k] = sent[k]
    BY <1>2, <2>1
  <2>3. TellsOf(q)'
    <3>1. phase'[q] \in NotStarted => \A k \in DOMAIN sent' : sent'[k].of # q
      BY <2>2 DEF TellsOf
    <3>2. ASSUME phase'[q] \in Holding, NEW j \in DOMAIN sent', NEW k \in DOMAIN sent',
                 j <= k, sent'[j].of = q
          PROVE  sent'[k].of \in {q} \cup Emits
      BY <1>2, <2>1, <2>2, <3>2 DEF TellsOf
    <3>3. phase'[q] \in Holding \ {"returned"} =>
              \A k \in DOMAIN sent' : sent'[k].of = q => sent'[k].seq < NextSeq(buffer')
      BY <1>4, <2>2
    <3>4. outgoing'[q] # Nothing =>
              /\ outgoing'[q].of = q /\ outgoing'[q].seq < NextSeq(buffer')
              /\ \A k \in DOMAIN sent' : sent'[k].of = q => sent'[k].seq < outgoing'[q].seq
      BY <1>4, <2>2 DEF TellsOf
    <3> QED BY <3>1, <3>2, <3>3, <3>4 DEF TellsOf
  <2>4. Terminals(q)' = Terminals(q)
    BY <2>1, <2>2 DEF Terminals
  <2>5. \A k \in Terminals(q) : sent'[k] = sent[k]
    BY <2>1 DEF Terminals
  <2>6. EndsOf(q)'
    BY <2>4, <2>5 DEF EndsOf
  <2> QED BY <2>3, <2>6
<1> QED BY <1>1, <1>2

(* The order of the history is kept by an event that is not of a run ...   *)
LEMMA InOrderKept ==
  ASSUME IInv, SentInOrder, NEW e \in Event, sent' = Append(sent, e),
         e.of \in Runs =>
            /\ \A k \in DOMAIN sent : sent[k].of = e.of => sent[k].seq < e.seq
            /\ \A j, k \in DOMAIN sent : j <= k /\ sent[j].of = e.of =>
                   sent[k].of \in {e.of} \cup Emits
  PROVE  SentInOrder'
<1>0. sent \in Seq(Event)
  BY DEF IInv, TypeOK
<1>1. SUFFICES ASSUME NEW j \in DOMAIN sent', NEW l \in DOMAIN sent',
                      j < l, sent'[j].of = sent'[l].of, sent'[j].of \in Runs
               PROVE  /\ sent'[j].seq < sent'[l].seq
                      /\ \A k \in j..l : sent'[k].of \in {sent'[j].of} \cup Emits
  BY DEF SentInOrder
<1>2. /\ Len(sent) \in Nat
      /\ DOMAIN sent = 1..Len(sent) /\ DOMAIN sent' = 1..(Len(sent) + 1)
      /\ \A k \in DOMAIN sent : k \in DOMAIN sent' /\ sent'[k] = sent[k]
      /\ sent'[Len(sent) + 1] = e
  BY <1>0, Grown
<1>3. j \in DOMAIN sent /\ sent'[j] = sent[j]
  BY <1>1, <1>2
<1>4. CASE l \in DOMAIN sent
  <2>1. \A k \in j..l : k \in DOMAIN sent
    BY <1>2, <1>3, <1>4
  <2> QED BY <1>1, <1>2, <1>3, <1>4, <2>1 DEF SentInOrder
<1>5. CASE l = Len(sent) + 1
  <2>1. sent'[l] = e /\ sent[j].of = e.of /\ e.of \in Runs
    BY <1>1, <1>2, <1>3, <1>5
  <2>2. \A k \in j..l : k = l \/ (k \in DOMAIN sent /\ j <= k)
    BY <1>2, <1>3, <1>5
  <2> QED BY <1>2, <1>3, <2>1, <2>2
<1> QED BY <1>2, <1>4, <1>5

(* ... and so is the one outcome of a run: a second end is the RUN_ERROR   *)
(* of a run that was cancelled when its RUN_FINISHED was on its way.       *)
LEMMA OutcomeKept ==
  ASSUME IInv, OneOutcome, NEW e \in Event, sent' = Append(sent, e),
         \A r \in Runs : cancelled[r] => cancelled'[r],
         e.of \in Runs /\ e.kind \in Terminal =>
            \A k \in Terminals(e.of) : /\ cancelled[e.of] /\ sent[k].kind = "RUN_FINISHED"
                                       /\ e.kind = "RUN_ERROR"
  PROVE  OneOutcome'
<1>0. sent \in Seq(Event)
  BY DEF IInv, TypeOK
<1>1. SUFFICES ASSUME NEW r \in Runs, NEW j \in Terminals(r)', NEW k \in Terminals(r)', j < k
               PROVE  /\ cancelled'[r]
                      /\ sent'[j].kind = "RUN_FINISHED" /\ sent'[k].kind = "RUN_ERROR"
  BY DEF OneOutcome
<1>2. /\ Len(sent) \in Nat
      /\ DOMAIN sent = 1..Len(sent) /\ DOMAIN sent' = 1..(Len(sent) + 1)
      /\ \A i \in DOMAIN sent : i \in DOMAIN sent' /\ sent'[i] = sent[i]
      /\ sent'[Len(sent) + 1] = e
  BY <1>0, Grown
<1>3. j \in DOMAIN sent' /\ k \in DOMAIN sent'
  BY DEF Terminals
<1>4. j \in DOMAIN sent
  BY <1>1, <1>2, <1>3
<1>5. j \in Terminals(r) /\ sent'[j] = sent[j]
  BY <1>2, <1>4 DEF Terminals
<1>6. CASE k \in DOMAIN sent
  <2>1. k \in Terminals(r) /\ sent'[k] = sent[k]
    BY <1>2, <1>6 DEF Terminals
  <2> QED BY <1>1, <1>5, <2>1 DEF OneOutcome
<1>7. CASE k = Len(sent) + 1
  <2>1. sent'[k] = e /\ e.of = r /\ e.kind \in Terminal
    BY <1>2, <1>7 DEF Terminals
  <2> QED BY <1>5, <2>1
<1> QED BY <1>2, <1>3, <1>6, <1>7

-----------------------------------------------------------------------------
(* A new thread has told nothing.                                          *)
LEMMA InitHistory == Init => History
  BY DEF Init, History, Told, TellsOf, EndsOf, EmitsTheirs, SentInOrder, OneOutcome, Terminals,
         NotStarted, Holding

(* A run that is asked for, refused, begun, cancelled or failing tells     *)
(* nothing yet.                                                            *)
LEMMA QuietHistory ==
  ASSUME IInv, IInv', History, NEW r \in Runs,
         HandleRun(r) \/ StartRun(r) \/ Refuse(r) \/ Drive(r) \/ ProviderRaises(r) \/ Cancel(r)
  PROVE  History'
<1>1. /\ UNCHANGED <<outgoing, buffer, sent>>
      /\ \A q \in Runs : q # r => phase'[q] = phase[q] /\ cancelled'[q] = cancelled[q]
      /\ cancelled[r] => cancelled'[r]
      /\ \/ phase[r] \in {"unused", "claimed"} /\ phase'[r] \in NotStarted
         \/ phase[r] = "producing" /\ phase'[r] = "raised"
         \/ phase[r] \in TaskPhases /\ phase'[r] = phase[r]
  BY DEF IInv, TypeOK, HandleRun, StartRun, Refuse, Drive, ProviderRaises, Cancel, NotStarted,
         TaskPhases
<1>2. NextSeq(buffer') = NextSeq(buffer) /\ NextSeq(buffer) \in Nat
  BY <1>1, Numbers
<1>3. \A q \in Runs : q # r => TellsOf(q)' /\ EndsOf(q)'
  BY <1>1, <1>2, OtherKeeps DEF History, Told
<1>4. TellsOf(r) /\ EndsOf(r)
  BY DEF History, Told
<1>5. Terminals(r)' = Terminals(r)
  BY <1>1 DEF Terminals
<1>6. outgoing[r] # Nothing => phase[r] \in {"sending", "reporting"}
  BY DEF IInv, Sending
<1>7. TellsOf(r)'
  BY <1>1, <1>4, <1>6 DEF TellsOf, NotStarted, Holding, TaskPhases, Phases
<1>8. EndsOf(r)'
  BY <1>1, <1>4, <1>5 DEF TellsOf, EndsOf, NotStarted, TaskPhases, Terminals
<1>9. EmitsTheirs' /\ SentInOrder'
  BY <1>1 DEF History, Told, EmitsTheirs, SentInOrder
<1>10. OneOutcome'
  <2>1. \A q \in Runs : cancelled[q] => cancelled'[q]
    BY <1>1
  <2> QED BY <1>1, <2>1 DEF History, OneOutcome, Terminals
<1> QED BY <1>3, <1>7, <1>8, <1>9, <1>10 DEF History, Told

(* An event on its way, of the run or its report, has the number after all *)
(* that the run has sent.                                                  *)
LEMMA EmitHistory ==
  ASSUME IInv, IInv', History, NEW r \in Runs, Emit(r) \/ Report(r)
  PROVE  History'
<1>1. PICK kind \in Kinds :
        /\ Broadcast(r, kind)
        /\ kind = "RUN_STARTED" => phase[r] = "scheduled"
        /\ \/ phase[r] \in {"scheduled", "producing"} /\ phase' = [phase EXCEPT ![r] = "sending"]
           \/ /\ phase[r] \in {"stopped", "raised"} /\ kind = "RUN_ERROR"
              /\ phase' = [phase EXCEPT ![r] = "reporting"]
        /\ UNCHANGED <<active, cancelled, sent>>
  <2>1. "RUN_ERROR" \in Kinds /\ "RUN_STARTED" \in Kinds /\ "CONTENT" \in Kinds
        /\ "RUN_FINISHED" \in Kinds
    BY DEF Kinds
  <2> QED BY <2>1 DEF Emit, Yield, Report
<1>2. /\ outgoing'[r].of = r
      /\ kind # "RUN_STARTED" => outgoing'[r].seq = NextSeq(buffer)
      /\ outgoing'[r].seq \in Nat /\ NextSeq(buffer') = outgoing'[r].seq + 1
  BY <1>1, BroadcastNumbers
<1>3. /\ \A q \in Runs \cup Emits : q # r => outgoing'[q] = outgoing[q]
      /\ \A q \in Runs : q # r => phase'[q] = phase[q]
      /\ phase'[r] \in {"sending", "reporting"}
      /\ phase'[r] = "sending" <=> phase[r] \in {"scheduled", "producing"}
      /\ phase'[r] = "reporting" <=> phase[r] \in {"stopped", "raised"}
  BY <1>1 DEF Broadcast, IInv, TypeOK
<1>4. active = r /\ \A q \in Runs : phase[q] \in Holding => q = r
  BY <1>1, HolderIsActive DEF Holding, Phases, TaskPhases
<1>5. \A q \in Runs : q # r => TellsOf(q)' /\ EndsOf(q)'
  BY <1>1, <1>3, <1>4, OtherKeeps DEF History, Told
<1>6. TellsOf(r) /\ EndsOf(r)
  BY DEF History, Told
<1>7. \A k \in DOMAIN sent : sent[k].of = r => sent[k].seq < outgoing'[r].seq
  BY <1>1, <1>2, <1>6 DEF TellsOf, NotStarted, Holding, Phases, TaskPhases
<1>8. \A k \in DOMAIN sent : sent[k].seq \in Nat
  BY Numbers
<1>9. TellsOf(r)'
  <2>1. phase'[r] \notin NotStarted /\ phase'[r] # "returned"
    BY <1>3 DEF NotStarted
  <2>2. \A j, k \in DOMAIN sent : j <= k /\ sent[j].of = r => sent[k].of \in {r} \cup Emits
    BY <1>1, <1>6 DEF TellsOf, Holding, Phases, TaskPhases
  <2>3. outgoing'[r].seq < NextSeq(buffer')
    BY <1>2
  <2>4. \A k \in DOMAIN sent : sent[k].of = r => sent[k].seq < NextSeq(buffer')
    BY <1>2, <1>7, <1>8
  <2> QED BY <1>1, <1>2, <1>7, <2>1, <2>2, <2>3, <2>4 DEF TellsOf
<1>10. EndsOf(r)'
  <2>1. phase[r] = "scheduled" => Terminals(r) = {}
    BY <1>6 DEF TellsOf, NotStarted, Terminals
  <2>2. Terminals(r)' = Terminals(r)
    BY <1>1 DEF Terminals
  <2> QED BY <1>1, <1>3, <1>6, <2>1, <2>2 DEF EndsOf
<1>11. EmitsTheirs'
  <2>1. \A x \in Emits : x # r
    OBVIOUS
  <2> QED BY <1>3, <2>1 DEF History, Told, EmitsTheirs
<1>12. SentInOrder' /\ OneOutcome'
  BY <1>1 DEF History, SentInOrder, OneOutcome, Terminals
<1> QED BY <1>5, <1>9, <1>10, <1>11, <1>12 DEF History, Told

(* An event of a run that reaches the group: the run's, or the report of   *)
(* its end, is the last it sent, and what was sent since it began is its   *)
(* own or emitted.                                                         *)
LEMMA OwnEvent ==
  ASSUME IInv, IInv', History, NEW r \in Runs, phase[r] \in {"sending", "reporting"},
         sent' = Append(sent, outgoing[r]),
         \A q \in Runs : q # r => phase'[q] = phase[q] /\ outgoing'[q] = outgoing[q],
         \A x \in Emits : outgoing'[x] = outgoing[x],
         outgoing'[r] = Nothing, cancelled' = cancelled,
         phase'[r] \in {"producing", "returned", "stopped", "over"},
         phase'[r] = "producing" => outgoing[r].kind \notin Terminal,
         phase'[r] \in {"returned", "over"} => outgoing[r].kind \in Terminal,
         phase'[r] \in {"producing", "stopped"} => buffer' = buffer,
         phase'[r] = "stopped" => phase[r] = "sending" /\ cancelled[r]
  PROVE  History'
<1> DEFINE e == outgoing[r]
<1>1. /\ e \in Event /\ e.of = r /\ e # Nothing
      /\ e.seq < NextSeq(buffer)
      /\ \A k \in DOMAIN sent : sent[k].of = r => sent[k].seq < e.seq
      /\ phase[r] = "reporting" => e.kind = "RUN_ERROR"
      /\ phase[r] = "sending" => e.kind # "RUN_ERROR"
  BY DEF IInv, TypeOK, Sending, History, Told, TellsOf
<1>2. sent \in Seq(Event) /\ sent' = Append(sent, e)
  BY DEF IInv, TypeOK
<1>3. active = r /\ \A q \in Runs : phase[q] \in Holding => q = r
  BY HolderIsActive DEF Holding, Phases, TaskPhases
<1>4. \A j, k \in DOMAIN sent : j <= k /\ sent[j].of = r => sent[k].of \in {r} \cup Emits
  BY DEF History, Told, TellsOf, Holding, Phases, TaskPhases
<1>5. \A k \in Terminals(r) : /\ phase[r] = "reporting" /\ cancelled[r]
                              /\ sent[k].kind = "RUN_FINISHED"
  BY DEF History, Told, EndsOf
<1>6. phase[r] = "sending" => Terminals(r) = {}
  BY DEF History, Told, EndsOf
<1> HIDE DEF e
<1>7. \A q \in Runs : q # r => TellsOf(q)' /\ EndsOf(q)'
  BY <1>1, <1>2, <1>3, OtherKeeps DEF History, Told
<1>8. SentInOrder'
  BY <1>1, <1>2, <1>4, InOrderKept DEF History
<1>9. OneOutcome'
  <2>1. \A q \in Runs : cancelled[q] => cancelled'[q]
    OBVIOUS
  <2> QED BY <1>1, <1>2, <1>5, <2>1, OutcomeKept DEF History
<1>10. /\ Len(sent) \in Nat
       /\ DOMAIN sent = 1..Len(sent) /\ DOMAIN sent' = 1..(Len(sent) + 1)
       /\ \A k \in DOMAIN sent : k \in DOMAIN sent' /\ sent'[k] = sent[k]
       /\ Len(sent) + 1 \in DOMAIN sent' /\ sent'[Len(sent) + 1] = e
       /\ \A k \in DOMAIN sent' : k \in DOMAIN sent \/ k = Len(sent) + 1
  BY <1>1, <1>2, Grown
<1>11. TellsOf(r)'
  <2>1. phase'[r] \notin NotStarted
    BY DEF NotStarted
  <2>2. ASSUME NEW j \in DOMAIN sent', NEW k \in DOMAIN sent', j <= k, sent'[j].of = r
        PROVE  sent'[k].of \in {r} \cup Emits
    <3>1. CASE k \in DOMAIN sent
      <4>1. j \in DOMAIN sent
        BY <1>10, <2>2, <3>1
      <4> QED BY <1>4, <1>10, <2>2, <3>1, <4>1
    <3>2. CASE k = Len(sent) + 1
      BY <1>1, <1>10, <3>2
    <3> QED BY <1>10, <3>1, <3>2
  <2>3. ASSUME phase'[r] \in Holding \ {"returned"}, NEW k \in DOMAIN sent', sent'[k].of = r
        PROVE  sent'[k].seq < NextSeq(buffer')
    <3>1. buffer' = buffer
      BY <2>3 DEF Holding
    <3>2. CASE k \in DOMAIN sent
      <4>1. sent'[k] = sent[k] /\ sent[k].seq < e.seq /\ e.seq < NextSeq(buffer)
        BY <1>1, <1>10, <2>3, <3>2
      <4>2. sent[k].seq \in Nat /\ e.seq \in Nat /\ NextSeq(buffer) \in Nat
        BY <3>2, Numbers DEF e
      <4> QED BY <3>1, <4>1, <4>2
    <3>3. CASE k = Len(sent) + 1
      BY <1>1, <1>10, <3>1, <3>3
    <3> QED BY <1>10, <3>2, <3>3
  <2> QED BY <2>1, <2>2, <2>3 DEF TellsOf
<1>12. EndsOf(r)'
  <2>1. ASSUME NEW k \in Terminals(r)'
        PROVE  \/ k \in Terminals(r) /\ sent'[k] = sent[k]
               \/ sent'[k] = e /\ e.kind \in Terminal
    BY <1>10 DEF Terminals
  <2>2. phase'[r] = "producing" => Terminals(r)' = {}
    <3>1. phase'[r] = "producing" => phase[r] = "sending"
      <4>1. phase[r] = "reporting" => e.kind \in Terminal
        BY <1>1 DEF Terminal
      <4> QED BY <4>1 DEF e
    <3> QED BY <1>6, <2>1, <3>1 DEF e
  <2>3. phase'[r] = "stopped" => \A k \in Terminals(r)' :
            cancelled'[r] /\ sent'[k].kind = "RUN_FINISHED"
    <3>1. phase[r] = "sending" /\ e.kind \in Terminal => e.kind = "RUN_FINISHED"
      BY <1>1 DEF Terminal
    <3> QED BY <1>6, <2>1, <3>1
  <2>4. phase'[r] \in {"returned", "over"} => Terminals(r)' # {}
    <3>1. phase'[r] \in {"returned", "over"} => Len(sent) + 1 \in Terminals(r)'
      BY <1>1, <1>10 DEF Terminals, e
    <3> QED BY <3>1
  <2> QED BY <2>2, <2>3, <2>4 DEF EndsOf
<1>13. EmitsTheirs'
  BY DEF History, Told, EmitsTheirs
<1> QED BY <1>7, <1>8, <1>9, <1>11, <1>12, <1>13 DEF History, Told

(* The broadcast of a run's event returns, or its task is cancelled while  *)
(* it waits for it, or the report of its end is delivered.                 *)
LEMMA SentHistory ==
  ASSUME IInv, IInv', History, NEW r \in Runs, Emitted(r) \/ Stopped(r) \/ Reported(r)
  PROVE  History'
<1>1. /\ \A q \in Runs : q # r => phase'[q] = phase[q] /\ outgoing'[q] = outgoing[q]
      /\ \A x \in Emits : outgoing'[x] = outgoing[x]
      /\ outgoing'[r] = Nothing /\ cancelled' = cancelled
  <2>1. outgoing' = [outgoing EXCEPT ![r] = Nothing]
    BY DEF Emitted, Stopped, Reported, Delivered
  <2>2. \A q \in Runs : q # r => phase'[q] = phase[q]
    BY DEF Emitted, Stopped, Reported, IInv, TypeOK
  <2>3. cancelled' = cancelled
    BY DEF Emitted, Stopped, Reported
  <2> QED BY <2>1, <2>2, <2>3 DEF IInv, TypeOK
<1>2. CASE Emitted(r)
  <2>1. /\ phase[r] = "sending"
        /\ phase'[r] = IF outgoing[r].kind = "RUN_FINISHED" THEN "returned" ELSE "producing"
        /\ sent' = Append(sent, outgoing[r])
        /\ buffer' = IF outgoing[r].kind \in Terminal THEN <<>> ELSE buffer
    BY <1>2 DEF Emitted, Delivered, IInv, TypeOK
  <2>2. outgoing[r].kind # "RUN_ERROR"
    BY <2>1 DEF IInv, Sending
  <2>3. /\ phase'[r] = "producing" => outgoing[r].kind \notin Terminal
        /\ phase'[r] = "returned" => outgoing[r].kind \in Terminal
        /\ phase'[r] \in {"producing", "returned"}
    BY <2>1, <2>2 DEF Terminal
  <2> QED BY <1>1, <2>1, <2>3, OwnEvent
<1>3. CASE Stopped(r) /\ sent' # sent
  <2>1. /\ phase[r] \in TaskPhases /\ cancelled[r] /\ outgoing[r] # Nothing
        /\ phase'[r] = "stopped" /\ buffer' = buffer
        /\ sent' = Append(sent, outgoing[r])
    BY <1>3 DEF Stopped, IInv, TypeOK
  <2>2. phase[r] = "sending"
    BY <2>1 DEF IInv, Sending, TaskPhases
  <2> QED BY <1>1, <2>1, <2>2, OwnEvent
<1>4. CASE Stopped(r) /\ sent' = sent
  <2>1. /\ phase[r] \in TaskPhases /\ cancelled[r]
        /\ phase'[r] = "stopped" /\ buffer' = buffer
    BY <1>4 DEF Stopped, IInv, TypeOK
  <2>2. active = r /\ \A q \in Runs : phase[q] \in Holding => q = r
    BY <2>1, HolderIsActive DEF Holding, Phases, TaskPhases
  <2>3. \A q \in Runs : q # r => TellsOf(q)' /\ EndsOf(q)'
    BY <1>1, <1>4, <2>2, OtherKeeps DEF History, Told
  <2>4. TellsOf(r) /\ EndsOf(r)
    BY DEF History, Told
  <2>5. Terminals(r)' = Terminals(r) /\ Terminals(r) = {}
    BY <1>4, <2>1, <2>4 DEF Terminals, TellsOf, EndsOf, NotStarted, TaskPhases
  <2>6. TellsOf(r)'
    BY <1>1, <1>4, <2>1, <2>4 DEF TellsOf, NotStarted, Holding, Phases, TaskPhases
  <2>7. EndsOf(r)'
    BY <2>1, <2>5 DEF EndsOf
  <2> QED BY <1>1, <1>4, <2>3, <2>6, <2>7 DEF History, Told, EmitsTheirs, SentInOrder,
             OneOutcome, Terminals
<1>5. CASE Reported(r)
  <2>1. /\ phase[r] = "reporting" /\ phase'[r] = "over"
        /\ sent' = Append(sent, outgoing[r])
    BY <1>5 DEF Reported, Delivered, IInv, TypeOK
  <2>2. outgoing[r].kind \in Terminal
    BY <2>1 DEF IInv, Sending, Terminal
  <2> QED BY <1>1, <2>1, <2>2, OwnEvent
<1> QED BY <1>2, <1>3, <1>4, <1>5

(* A run that returned ends without a report: its RUN_FINISHED was sent.   *)
LEMMA FinishedHistory ==
  ASSUME IInv, IInv', History, NEW r \in Runs, Finished(r)
  PROVE  History'
<1>1. /\ phase[r] = "returned" /\ phase'[r] = "over"
      /\ UNCHANGED <<cancelled, produced, outgoing, buffer, sent>>
      /\ \A q \in Runs : q # r => phase'[q] = phase[q]
  BY DEF Finished, IInv, TypeOK
<1>2. active = r /\ \A q \in Runs : phase[q] \in Holding => q = r
  BY <1>1, HolderIsActive DEF Holding, Phases, TaskPhases
<1>3. \A q \in Runs : q # r => TellsOf(q)' /\ EndsOf(q)'
  BY <1>1, <1>2, OtherKeeps DEF History, Told
<1>4. TellsOf(r) /\ EndsOf(r) /\ outgoing[r] = Nothing
  BY <1>1 DEF History, Told, IInv, Sending
<1>5. TellsOf(r)' /\ EndsOf(r)'
  BY <1>1, <1>4 DEF TellsOf, EndsOf, NotStarted, Holding, Terminals
<1> QED BY <1>1, <1>3, <1>5 DEF History, Told, EmitsTheirs, SentInOrder, OneOutcome, Terminals

(* An event emitted from outside comes between those of a run, and of its  *)
(* end it says nothing.                                                    *)
LEMMA EmitToThreadHistory ==
  ASSUME IInv, IInv', History, NEW x \in Emits, EmitToThread(x) \/ EmittedToThread(x)
  PROVE  History'
<1>1. /\ x \notin Runs /\ UNCHANGED <<active, phase, cancelled, produced>>
      /\ outgoing' = [outgoing EXCEPT ![x] = outgoing'[x]]
  <2>1. CASE EmitToThread(x)
    <3>1. UNCHANGED <<active, phase, cancelled, produced>>
      BY <2>1 DEF EmitToThread
    <3>2. PICK v : outgoing' = [outgoing EXCEPT ![x] = v]
      BY <2>1 DEF EmitToThread, Broadcast
    <3>3. outgoing'[x] = v
      BY <3>2 DEF IInv, TypeOK
    <3> QED BY <3>1, <3>2, <3>3
  <2>2. CASE EmittedToThread(x)
    <3>1. outgoing' = [outgoing EXCEPT ![x] = Nothing]
          /\ UNCHANGED <<active, phase, cancelled, produced>>
      BY <2>2 DEF EmittedToThread, Delivered
    <3>2. outgoing'[x] = Nothing
      BY <3>1 DEF IInv, TypeOK
    <3> QED BY <3>1, <3>2
  <2> QED BY <2>1, <2>2
<1>2. /\ \A q \in Runs : outgoing'[q] = outgoing[q]
      /\ \A y \in Emits : y # x => outgoing'[y] = outgoing[y]
  BY <1>1 DEF IInv, TypeOK
<1>3. CASE EmitToThread(x)
  <2>1. sent' = sent
    BY <1>3 DEF EmitToThread
  <2>2. outgoing'[x].of = x /\ NextSeq(buffer') >= NextSeq(buffer)
    <3>1. NextSeq(buffer) \in Nat
      BY Numbers
    <3>2. CASE buffer # <<>>
      <4>1. Broadcast(x, "CONTENT") /\ "CONTENT" \in Kinds
        BY <1>3, <3>2 DEF EmitToThread, Kinds
      <4>2. /\ outgoing'[x].of = x /\ outgoing'[x].seq = NextSeq(buffer)
            /\ NextSeq(buffer') = outgoing'[x].seq + 1
        BY <4>1, BroadcastNumbers
      <4> QED BY <3>1, <4>2
    <3>3. CASE buffer = <<>>
      <4>1. /\ outgoing' = [outgoing EXCEPT ![x] = [of |-> x, kind |-> "CONTENT", seq |-> 0]]
            /\ buffer' = buffer
        BY <1>3, <3>3 DEF EmitToThread
      <4>2. outgoing'[x] = [of |-> x, kind |-> "CONTENT", seq |-> 0]
        BY <4>1 DEF IInv, TypeOK
      <4> QED BY <3>1, <4>1, <4>2
    <3> QED BY <3>2, <3>3
  <2>3. \A q \in Runs : TellsOf(q)' /\ EndsOf(q)'
    BY <1>1, <1>2, <2>1, <2>2, OtherKeeps DEF History, Told
  <2>4. EmitsTheirs'
    BY <1>2, <2>2 DEF History, Told, EmitsTheirs
  <2> QED BY <1>1, <2>1, <2>3, <2>4 DEF History, Told, SentInOrder, OneOutcome, Terminals
<1>4. CASE EmittedToThread(x)
  <2> DEFINE e == outgoing[x]
  <2>1. /\ e # Nothing /\ e \in Event /\ e.of = x /\ e.kind = "CONTENT"
        /\ sent' = Append(sent, e) /\ e.kind \notin Terminal
        /\ buffer' = IF e.kind \in Terminal THEN <<>> ELSE buffer
    BY <1>4 DEF EmittedToThread, Delivered, IInv, TypeOK, Sending, History, Told, EmitsTheirs,
                Terminal
  <2>2. outgoing'[x] = Nothing
    BY <1>4 DEF EmittedToThread, Delivered, IInv, TypeOK
  <2> HIDE DEF e
  <2>3. buffer' = buffer /\ NextSeq(buffer) \in Nat
    BY <2>1, Numbers
  <2>4. \A q \in Runs : TellsOf(q)' /\ EndsOf(q)'
    BY <1>1, <1>2, <2>1, <2>3, OtherKeeps DEF History, Told
  <2>5. SentInOrder'
    BY <1>1, <2>1, InOrderKept DEF History
  <2>6. OneOutcome'
    BY <1>1, <2>1, OutcomeKept DEF History
  <2>7. EmitsTheirs'
    BY <1>2, <2>2 DEF History, Told, EmitsTheirs
  <2> QED BY <2>4, <2>5, <2>6, <2>7 DEF History, Told
<1> QED BY <1>3, <1>4

(* Every step of the thread keeps its history.                             *)
LEMMA NextHistory == IInv /\ History /\ [Next]_vars => History'
<1> SUFFICES ASSUME IInv, History, [Next]_vars PROVE History'
  OBVIOUS
<1>0. IInv'
  BY NextIInv
<1>1. ASSUME NEW r \in Runs, HandleRun(r) \/ StartRun(r) \/ Refuse(r) \/ Cancel(r) \/ RunNext(r)
      PROVE  History'
  BY <1>0, <1>1, QuietHistory, EmitHistory, SentHistory, FinishedHistory DEF RunNext
<1>2. ASSUME NEW x \in Emits, EmitToThread(x) \/ EmittedToThread(x)
      PROVE  History'
  BY <1>0, <1>2, EmitToThreadHistory
<1>3. CASE UNCHANGED vars
  BY <1>3 DEF vars, History, Told, TellsOf, EndsOf, EmitsTheirs, SentInOrder, OneOutcome,
              Terminals
<1> QED BY <1>1, <1>2, <1>3 DEF Next

(* It holds of every thread.                                               *)
LEMMA SpecHistory == Spec => []History
  BY SpecIInv, InitHistory, NextHistory, PTL DEF Spec

(* Runs never mix in what the group gets, and each run's own events come   *)
(* in the order of their numbers, whoever emits into it or cancels it.     *)
THEOREM InOrder == Spec => []SentInOrder
  BY SpecHistory, PTL DEF History

(* The end of every run is told, and told once, but for a RUN_FINISHED     *)
(* that a cancel met on its way and a RUN_ERROR followed.                  *)
THEOREM OneEnd == Spec => []ClosesOnce
<1>1. History => ClosesOnce
  BY DEF History, Told, EndsOf, ClosesOnce, EveryRunCloses, Terminals
<1> QED BY <1>1, SpecHistory, PTL

-----------------------------------------------------------------------------
(* The tabs. The line of a tab: what it has applied, what is on its way,   *)
(* and what waits behind that, in the order in which it is applied.        *)
Line(t) == applied[t] \o wire[t] \o replay[t] \o held[t]
Numbered(e) == e.of \in Runs /\ e.seq # 0

\* The end of r is on its way, or was told.
Ending(r, ph, o) ==
    \/ ph[r] \in {"stopped", "reporting", "returned", "over"}
    \/ ph[r] = "sending" /\ o[r].kind = "RUN_FINISHED"
\* r has started, and its end is not on its way.
GoesOn(r, ph, o) == ph[r] \in {"producing", "sending"} /\ o[r].kind \notin {"RUN_STARTED", "RUN_FINISHED"}
IsStart(e, r) == e.of = r /\ e.kind = "RUN_STARTED"
StartIn(b, r) == \E k \in DOMAIN b : IsStart(b[k], r)
\* Between n, excluded, and m of a line s.
StartAfter(s, n, m, r) == \E k \in DOMAIN s : n < k /\ k <= m /\ IsStart(s[k], r)

(* A line s tells of one run at a time, of each only what it has sent or   *)
(* recorded, and of none after it was over.                                *)
InLine(s, ph, o) ==
    /\ \A j \in DOMAIN s : ~Numbered(s[j]) =>
          s[j].kind = "CONTENT" \/ (s[j].kind = "RUN_ERROR" /\ s[j].seq = 0)
    /\ \A j \in DOMAIN s : Numbered(s[j]) =>
          /\ ph[s[j].of] \notin NotStarted
          /\ o[s[j].of].kind = "RUN_STARTED" => s[j].kind = "RUN_STARTED"
          /\ s[j].kind \in Terminal => Ending(s[j].of, ph, o)
    /\ \A j, k \in DOMAIN s : j < k /\ Numbered(s[j]) /\ Numbered(s[k]) /\ s[j].of # s[k].of =>
          ph[s[j].of] = "over"
    /\ \A i, j, k \in DOMAIN s :
          i < j /\ j < k /\ Numbered(s[i]) /\ Numbered(s[j]) /\ Numbered(s[k]) /\ s[i].of = s[k].of =>
             s[j].of = s[i].of

(* Of what comes after the n-th event, a run's start is first and its ends *)
(* are last.                                                               *)
ComesInOrder(s, n) ==
    \A j, k \in DOMAIN s : n < j /\ j < k /\ Numbered(s[j]) /\ Numbered(s[k]) /\ s[j].of = s[k].of =>
        /\ s[k].kind = "RUN_STARTED" => s[j].kind = "RUN_STARTED"
        /\ s[j].kind \in Terminal => s[k].kind \in Terminal

(* Before content of the run whose start may be replayed comes that start, *)
(* unless the tab shows the run (id) already,                              *)
StartsFirst(s, n, id, b) ==
    \A k \in DOMAIN s : n < k /\ Numbered(s[k]) /\ s[k].kind \notin Terminal /\ StartIn(b, s[k].of) =>
        id = s[k].of \/ StartAfter(s, n, k, s[k].of)
(* and before what it will still send.                                     *)
ToldToStart(s, n, id, ph, o, b) ==
    \A r \in Runs : GoesOn(r, ph, o) /\ StartIn(b, r) => id = r \/ StartAfter(s, n, Len(s), r)

\* The j-th event is of a run of which no end was applied since.
Unended(s, n, j) == \A l \in j .. n : ~(s[l].of = s[j].of /\ s[l].kind \in Terminal)
StartToCome(s, n, r, o, b) == StartIn(b, r) \/ o[r].kind = "RUN_STARTED" \/ StartAfter(s, n, Len(s), r)

(* The start of a run that the tab has events of is recognised when it     *)
(* comes again;                                                            *)
Recognised(s, n, id, o, b) ==
    \A j \in DOMAIN s :
        j <= n /\ Numbered(s[j]) /\ Unended(s, n, j) /\ StartToCome(s, n, s[j].of, o, b) => id = s[j].of
(* and lastSeq (ls) counts what was applied of it, unless it is over and   *)
(* nothing of it comes.                                                    *)
Counted(s, n, ls, ph) ==
    \A j \in DOMAIN s : j <= n /\ Numbered(s[j]) /\ Unended(s, n, j) =>
        \/ s[j].seq <= ls
        \/ ph[s[j].of] = "over" /\ \A k \in DOMAIN s : n < k /\ Numbered(s[k]) => s[k].of # s[j].of
OnScreen(s, n, id, ru, ls) ==
    id # NoRun => ru /\ ls >= 1 /\ \E i \in DOMAIN s : i <= n /\ Numbered(s[i]) /\ s[i].of = id
(* AppliedInOrder, of the first n events of a line.                        *)
Ordered(s, n) ==
    \A j, k \in DOMAIN s : j < k /\ k <= n /\ Numbered(s[j]) /\ Numbered(s[k]) /\ s[j].of = s[k].of =>
        s[j].seq < s[k].seq \/ \E l \in j .. (k - 1) : s[l].of = s[j].of /\ s[l].kind \in Terminal

\* All of it, of a tab that is `in` the group or not.
Watches(s, n, id, ru, ls, in, ph, o, b) ==
    /\ InLine(s, ph, o) /\ ComesInOrder(s, n) /\ StartsFirst(s, n, id, b)
    /\ in => ToldToStart(s, n, id, ph, o, b)
    /\ Recognised(s, n, id, o, b) /\ Counted(s, n, ls, ph) /\ OnScreen(s, n, id, ru, ls) /\ Ordered(s, n)

\* What a run has in the buffer, against its phase.
Recorded(r, ph, o, b) ==
    /\ \A j \in DOMAIN b : b[j].of = r =>
          /\ o[r].kind = "RUN_STARTED" => b[j].kind = "RUN_STARTED"
          /\ b[j].kind \in Terminal => Ending(r, ph, o)
    /\ \A j, k \in DOMAIN b : j < k /\ b[j].of = r /\ b[k].of = r /\ b[j].kind \in Terminal =>
          b[k].kind \in Terminal
    /\ o[r] # Nothing => o[r].seq >= 1
(* The buffer, of the thread: a start is its first event, and what was      *)
(* emitted into the run is content.                                        *)
Replayable ==
    /\ \A k \in DOMAIN buffer : buffer[k].kind = "RUN_STARTED" => k = 1
    /\ \A k \in DOMAIN buffer : buffer[k].of \in Emits => buffer[k].kind = "CONTENT"
    /\ \A r \in Runs : Recorded(r, phase, outgoing, buffer)

(* What a step of the thread does not undo of a run.                       *)
Forth(r, ph, o, b, ph2, o2, b2) ==
    /\ ph[r] = "over" => ph2[r] = "over"
    /\ ph[r] \notin NotStarted =>
          /\ ph2[r] \notin NotStarted
          /\ o2[r].kind = "RUN_STARTED" => o[r].kind = "RUN_STARTED"
          /\ Ending(r, ph, o) => Ending(r, ph2, o2)
          /\ StartIn(b2, r) => StartIn(b, r)
    /\ GoesOn(r, ph2, o2) /\ StartIn(b2, r) =>
          StartIn(b, r) /\ (GoesOn(r, ph, o) \/ o[r].kind = "RUN_STARTED")

-----------------------------------------------------------------------------
(* A line stays a line as the thread goes on; what it sends after a start  *)
(* comes after that start.                                                 *)
LEMMA LaterOn ==
    ASSUME NEW s \in Seq(Event), NEW n \in Nat, NEW id, NEW ru, NEW ls, NEW in \in BOOLEAN,
           NEW ph, NEW o, NEW b, NEW ph2, NEW o2, NEW b2,
           Watches(s, n, id, ru, ls, in, ph, o, b),
           \A r \in Runs : Forth(r, ph, o, b, ph2, o2, b2),
           in => \A r \in Runs : o[r].kind = "RUN_STARTED" /\ GoesOn(r, ph2, o2) =>
                    StartAfter(s, n, Len(s), r)
    PROVE  Watches(s, n, id, ru, ls, in, ph2, o2, b2)
<1>1. \A j \in DOMAIN s : Numbered(s[j]) => s[j].of \in Runs /\ ph[s[j].of] \notin NotStarted
  BY DEF Watches, InLine, Numbered
<1>2. InLine(s, ph2, o2)
  BY <1>1 DEF Watches, InLine, Forth
<1>3. StartsFirst(s, n, id, b2)
  BY <1>1 DEF Watches, StartsFirst, Forth
<1>4. in => ToldToStart(s, n, id, ph2, o2, b2)
  BY DEF Watches, ToldToStart, Forth
<1>5. Recognised(s, n, id, o2, b2)
  BY <1>1 DEF Watches, Recognised, StartToCome, Forth
<1>6. Counted(s, n, ls, ph2)
  BY <1>1 DEF Watches, Counted, Forth
<1> QED BY <1>2, <1>3, <1>4, <1>5, <1>6 DEF Watches

(* What a thread can send next: an event of the run that has it, or one    *)
(* without a number of a run's.                                            *)
Sends(e, ph, o) ==
    \/ ~Numbered(e) /\ (e.kind = "CONTENT" \/ (e.kind = "RUN_ERROR" /\ e.seq = 0))
    \/ /\ Numbered(e) /\ e = o[e.of]
       /\ \/ ph[e.of] = "sending" /\ e.kind # "RUN_ERROR"
          \/ ph[e.of] = "reporting" /\ e.kind = "RUN_ERROR"
       /\ \A q \in Runs : q # e.of => ph[q] \in NotStarted \cup {"over"}

(* A line with one more event at its end.                                  *)
LEMMA OneMoreEvent ==
    ASSUME NEW s \in Seq(Event), NEW e \in Event, NEW n \in 0 .. Len(s)
    PROVE  /\ Append(s, e) \in Seq(Event) /\ Len(s) \in Nat /\ Len(Append(s, e)) = Len(s) + 1
           /\ DOMAIN s = 1 .. Len(s) /\ DOMAIN Append(s, e) = 1 .. Len(s) + 1
           /\ \A k \in DOMAIN s : k \in DOMAIN Append(s, e) /\ Append(s, e)[k] = s[k]
           /\ Append(s, e)[Len(s) + 1] = e /\ n < Len(s) + 1
  BY AppendProperties

(* What the thread sends comes last in the line of a tab in the group.     *)
LEMMA SentOn ==
    ASSUME NEW s \in Seq(Event), NEW e \in Event, NEW n \in 0 .. Len(s), NEW id, NEW ru, NEW ls,
           NEW ph, NEW o, NEW b, NEW in \in BOOLEAN,
           Watches(s, n, id, ru, ls, in, ph, o, b), Sends(e, ph, o), Numbered(e) => in
    PROVE  Watches(Append(s, e), n, id, ru, ls, in, ph, o, b)
<1> DEFINE a == Append(s, e)
           m == Len(s)
<1>1. /\ m \in Nat /\ n \in Nat /\ n <= m /\ Len(a) = m + 1
      /\ DOMAIN s = 1 .. m /\ DOMAIN a = 1 .. m + 1
      /\ \A k \in 1 .. m : a[k] = s[k]
      /\ a[m + 1] = e
  BY OneMoreEvent
<1> HIDE DEF a, m
<1>2. ASSUME Numbered(e), NEW j \in 1 .. m, Numbered(s[j]), s[j].of = e.of
      PROVE  /\ e.kind = "RUN_STARTED" => s[j].kind = "RUN_STARTED"
             /\ s[j].kind \in Terminal => e.kind \in Terminal
             /\ ph[s[j].of] # "over"
  BY <1>1, <1>2 DEF Watches, InLine, Sends, Ending, Terminal
<1>3. ASSUME Numbered(e), NEW j \in 1 .. m, Numbered(s[j]), s[j].of # e.of
      PROVE  ph[s[j].of] = "over"
  BY <1>1, <1>3 DEF Watches, InLine, Sends, Numbered
<1>4. InLine(a, ph, o)
  <2>1. \A j \in DOMAIN a : ~Numbered(a[j]) =>
          a[j].kind = "CONTENT" \/ (a[j].kind = "RUN_ERROR" /\ a[j].seq = 0)
    BY <1>1 DEF Watches, InLine, Sends
  <2>2. \A j \in DOMAIN a : Numbered(a[j]) =>
          /\ ph[a[j].of] \notin NotStarted
          /\ o[a[j].of].kind = "RUN_STARTED" => a[j].kind = "RUN_STARTED"
          /\ a[j].kind \in Terminal => Ending(a[j].of, ph, o)
    <3>1. Numbered(e) => /\ ph[e.of] \notin NotStarted
                         /\ o[e.of].kind = "RUN_STARTED" => e.kind = "RUN_STARTED"
                         /\ e.kind \in Terminal => Ending(e.of, ph, o)
      BY DEF Sends, NotStarted, Ending, Terminal
    <3> QED BY <1>1, <3>1 DEF Watches, InLine
  <2>3. \A j, k \in DOMAIN a : j < k /\ Numbered(a[j]) /\ Numbered(a[k]) /\ a[j].of # a[k].of =>
          ph[a[j].of] = "over"
    <3>1. \A j, k \in 1 .. m : j < k /\ Numbered(s[j]) /\ Numbered(s[k]) /\ s[j].of # s[k].of =>
          ph[s[j].of] = "over"
      BY <1>1 DEF Watches, InLine
    <3> QED BY <1>1, <1>3, <3>1
  <2>4. \A i, j, k \in DOMAIN a :
          i < j /\ j < k /\ Numbered(a[i]) /\ Numbered(a[j]) /\ Numbered(a[k]) /\ a[i].of = a[k].of =>
             a[j].of = a[i].of
    <3>1. \A i, j, k \in 1 .. m :
          i < j /\ j < k /\ Numbered(s[i]) /\ Numbered(s[j]) /\ Numbered(s[k]) /\ s[i].of = s[k].of =>
             s[j].of = s[i].of
      BY <1>1 DEF Watches, InLine
    <3>2. \A j, k \in 1 .. m : j < k /\ Numbered(s[j]) /\ Numbered(s[k]) /\ s[j].of # s[k].of =>
          ph[s[j].of] = "over"
      BY <1>1 DEF Watches, InLine
    <3>3. ASSUME NEW i \in 1 .. m, NEW j \in 1 .. m, i < j, Numbered(s[i]), Numbered(s[j]), Numbered(e),
                 s[i].of = e.of
          PROVE  s[j].of = s[i].of
      BY <1>2, <3>2, <3>3
    <3> QED BY <1>1, <3>1, <3>3
  <2> QED BY <2>1, <2>2, <2>3, <2>4 DEF InLine
<1>5. ComesInOrder(a, n)
  <2>1. ComesInOrder(s, n) BY DEF Watches
  <2> QED BY <1>1, <1>2, <2>1 DEF ComesInOrder
<1>6. \A k \in 1 .. m : \A r : StartAfter(s, n, k, r) => StartAfter(a, n, k, r)
  BY <1>1 DEF StartAfter
<1>7. StartsFirst(a, n, id, b)
  <2>1. \A k \in 1 .. m : n < k /\ Numbered(s[k]) /\ s[k].kind \notin Terminal /\ StartIn(b, s[k].of) =>
            id = s[k].of \/ StartAfter(s, n, k, s[k].of)
    BY <1>1 DEF Watches, StartsFirst
  <2>2. ASSUME Numbered(e), e.kind \notin Terminal, StartIn(b, e.of)
        PROVE  id = e.of \/ StartAfter(a, n, m + 1, e.of)
    <3>1. CASE e.kind = "RUN_STARTED"
      BY <1>1, <3>1 DEF StartAfter, IsStart
    <3>2. CASE e.kind # "RUN_STARTED"
      <4>1. GoesOn(e.of, ph, o) /\ e.of \in Runs
        BY <2>2, <3>2 DEF Sends, GoesOn, Terminal, Numbered
      <4>2. id = e.of \/ StartAfter(s, n, m, e.of)
        BY <2>2, <4>1 DEF Watches, ToldToStart, m
      <4>3. StartAfter(s, n, m, e.of) => StartAfter(a, n, m + 1, e.of)
        BY <1>1 DEF StartAfter
      <4> QED BY <4>2, <4>3
    <3> QED BY <3>1, <3>2
  <2> QED BY <1>1, <1>6, <2>1, <2>2 DEF StartsFirst
<1>8. \A r : StartAfter(s, n, m, r) => StartAfter(a, n, m + 1, r)
  BY <1>1 DEF StartAfter
<1>9. in => ToldToStart(a, n, id, ph, o, b)
  BY <1>1, <1>8 DEF Watches, ToldToStart, m
<1>10. \A j \in 1 .. n : a[j] = s[j] /\ (Unended(a, n, j) <=> Unended(s, n, j))
  <2>1. \A j \in 1 .. n : j \in 1 .. m BY <1>1
  <2>2. ASSUME NEW j \in 1 .. n PROVE \A l \in j .. n : a[l] = s[l]
    BY <1>1
  <2>3. ASSUME NEW j \in 1 .. n PROVE a[j] = s[j]
    BY <1>1
  <2> QED BY <2>2, <2>3 DEF Unended
<1>11. Recognised(a, n, id, o, b)
  <2>1. \A r : StartToCome(a, n, r, o, b) => StartToCome(s, n, r, o, b)
    <3>1. ASSUME NEW r, NEW k \in 1 .. m + 1, n < k, IsStart(a[k], r)
          PROVE  StartAfter(s, n, m, r) \/ o[r].kind = "RUN_STARTED"
      <4>1. CASE k \in 1 .. m BY <1>1, <3>1, <4>1 DEF StartAfter
      <4>2. CASE k = m + 1 BY <1>1, <3>1, <4>2 DEF IsStart, Sends
      <4> QED BY <1>1, <4>1, <4>2
    <3> QED BY <1>1, <3>1 DEF StartToCome, StartAfter, m
  <2>2. \A j \in DOMAIN a : j <= n => j \in 1 .. n /\ j \in DOMAIN s BY <1>1
  <2> QED BY <1>10, <2>1, <2>2 DEF Watches, Recognised
<1>12. Counted(a, n, ls, ph)
  <2>1. \A j \in DOMAIN a : j <= n => j \in 1 .. n /\ j \in DOMAIN s BY <1>1
  <2>2. \A k \in DOMAIN a : (k \in DOMAIN s /\ a[k] = s[k]) \/ a[k] = e BY <1>1
  <2>3. ASSUME NEW j \in 1 .. m, Numbered(s[j]), ph[s[j].of] = "over", Numbered(e) PROVE e.of # s[j].of
    BY <1>2, <2>3
  <2> QED BY <1>1, <1>10, <2>1, <2>2, <2>3 DEF Watches, Counted
<1>13. OnScreen(a, n, id, ru, ls)
  BY <1>1 DEF Watches, OnScreen
<1>14. Ordered(a, n)
  <2>1. \A j \in DOMAIN a : j <= n => j \in DOMAIN s /\ a[j] = s[j] BY <1>1
  <2>2. \A j \in DOMAIN s, k \in DOMAIN s : k <= n => \A l \in j .. (k - 1) : a[l] = s[l] BY <1>1
  <2>3. ASSUME NEW j \in DOMAIN a, NEW k \in DOMAIN a,
               j < k, k <= n, Numbered(a[j]), Numbered(a[k]), a[j].of = a[k].of
        PROVE  a[j].seq < a[k].seq \/ \E l \in j .. (k - 1) : a[l].of = a[j].of /\ a[l].kind \in Terminal
    <3>1. j \in DOMAIN s /\ k \in DOMAIN s /\ a[j] = s[j] /\ a[k] = s[k] BY <1>1, <2>1, <2>3
    <3>2. s[j].seq < s[k].seq \/ \E l \in j .. (k - 1) : s[l].of = s[j].of /\ s[l].kind \in Terminal
      BY <2>3, <3>1 DEF Watches, Ordered
    <3> QED BY <2>2, <2>3, <3>1, <3>2
  <2> QED BY <2>3 DEF Ordered
<1> QED BY <1>4, <1>5, <1>7, <1>9, <1>11, <1>12, <1>13, <1>14 DEF Watches, a

(* A socket that drops: of the line what was applied remains.              *)
LEMMA Dropped ==
    ASSUME NEW a \in Seq(Event), NEW c \in Seq(Event), NEW id, NEW ru, NEW ls, NEW in, NEW ph, NEW o, NEW b,
           Watches(a \o c, Len(a), id, ru, ls, in, ph, o, b)
    PROVE  Watches(a, Len(a), id, ru, ls, FALSE, ph, o, b)
<1> DEFINE s == a \o c
           n == Len(a)
<1>1. /\ n \in Nat /\ DOMAIN a = 1 .. n
      /\ \A k \in 1 .. n : k \in DOMAIN s /\ s[k] = a[k]
  BY ConcatProperties
<1>2. Watches(s, n, id, ru, ls, in, ph, o, b) OBVIOUS
<1> HIDE DEF s, n
<1>3. InLine(a, ph, o)
  BY <1>1, <1>2 DEF Watches, InLine
<1>4. ComesInOrder(a, n) /\ StartsFirst(a, n, id, b)
  BY <1>1 DEF ComesInOrder, StartsFirst
<1>5. \A j \in 1 .. n : Unended(a, n, j) <=> Unended(s, n, j)
  <2>1. \A j \in 1 .. n : \A l \in j .. n : l \in 1 .. n BY <1>1
  <2> QED BY <1>1, <2>1 DEF Unended
<1>6. Recognised(a, n, id, o, b)
  <2>1. \A r : StartToCome(a, n, r, o, b) => StartToCome(s, n, r, o, b)
    BY <1>1 DEF StartToCome, StartAfter
  <2> QED BY <1>1, <1>2, <1>5, <2>1 DEF Watches, Recognised
<1>7. Counted(a, n, ls, ph)
  <2>1. \A k \in DOMAIN a : ~ n < k BY <1>1
  <2> QED BY <1>1, <1>2, <1>5, <2>1 DEF Watches, Counted
<1>8. OnScreen(a, n, id, ru, ls)
  <2>1. ASSUME id # NoRun PROVE \E i \in DOMAIN a : i <= n /\ Numbered(a[i]) /\ a[i].of = id
    <3>1. PICK i \in DOMAIN s : i <= n /\ Numbered(s[i]) /\ s[i].of = id
      BY <1>2, <2>1 DEF Watches, OnScreen
    <3>2. i \in 1 .. n
      <4>1. s \in Seq(Event) /\ DOMAIN s = 1 .. Len(s) /\ Len(s) \in Nat BY ConcatProperties DEF s
      <4> QED BY <1>1, <3>1, <4>1
    <3> QED BY <1>1, <3>1, <3>2
  <2> QED BY <1>2, <2>1 DEF Watches, OnScreen
<1>9. Ordered(a, n)
  <2>1. \A j, k \in 1 .. n : \A l \in j .. (k - 1) : l \in 1 .. n BY <1>1
  <2> QED BY <1>1, <1>2, <2>1 DEF Watches, Ordered
<1> QED BY <1>3, <1>4, <1>6, <1>7, <1>8, <1>9 DEF Watches, n

(* A connection that joins: the run in flight, from the buffer, comes      *)
(* after what was applied.                                                 *)
LEMMA Replayed ==
    ASSUME NEW a \in Seq(Event), NEW b \in Seq(Event), NEW id, NEW ru, NEW ls, NEW in, NEW ph, NEW o, NEW r,
           Watches(a, Len(a), id, ru, ls, in, ph, o, b),
           \A k \in DOMAIN b : b[k].seq >= 1
                               /\ ((Numbered(b[k]) /\ b[k].of = r) \/ (~Numbered(b[k]) /\ b[k].kind = "CONTENT")),
           \A q \in Runs : StartIn(b, q) => q = r,
           \A k \in DOMAIN b : b[k].kind = "RUN_STARTED" => k = 1,
           b # <<>> => /\ r \in Runs /\ Recorded(r, ph, o, b) /\ ph[r] \notin NotStarted \cup {"over"}
                       /\ \A q \in Runs : q # r => ph[q] \in NotStarted \cup {"over"}
    PROVE  Watches(a \o b, Len(a), id, ru, ls, TRUE, ph, o, b)
<1> DEFINE s == a \o b
           n == Len(a)
<1>1. /\ n \in Nat /\ DOMAIN a = 1 .. n /\ Len(b) \in Nat /\ DOMAIN b = 1 .. Len(b)
      /\ s \in Seq(Event) /\ Len(s) = n + Len(b) /\ DOMAIN s = 1 .. n + Len(b)
      /\ \A k \in 1 .. n : s[k] = a[k]
      /\ \A k \in 1 .. n + Len(b) : k > n => k - n \in DOMAIN b /\ s[k] = b[k - n]
  <2>1. s \in Seq(Event) /\ Len(s) = n + Len(b) /\ n \in Nat /\ Len(b) \in Nat
    BY ConcatProperties
  <2>2. \A k \in 1 .. n + Len(b) : s[k] = IF k <= n THEN a[k] ELSE b[k - n]
    BY ConcatProperties
  <2> HIDE DEF s, n
  <2>3. DOMAIN a = 1 .. n /\ DOMAIN b = 1 .. Len(b) /\ DOMAIN s = 1 .. n + Len(b) BY <2>1 DEF n
  <2> QED BY <2>1, <2>2, <2>3
<1>2. Watches(a, n, id, ru, ls, in, ph, o, b) OBVIOUS
<1>b. \A k \in DOMAIN b : b # <<>> BY <1>1
<1> HIDE DEF s, n
<1>3. /\ \A j, k \in DOMAIN a : j < k /\ Numbered(a[j]) /\ Numbered(a[k]) /\ a[j].of # a[k].of => ph[a[j].of] = "over"
      /\ \A j \in DOMAIN a : Numbered(a[j]) => ph[a[j].of] \notin NotStarted /\ a[j].of \in Runs
  BY <1>2 DEF Watches, InLine, Numbered
<1>4. ASSUME NEW k \in DOMAIN s, k > n, Numbered(s[k])
      PROVE  /\ k - n \in DOMAIN b /\ s[k] = b[k - n] /\ s[k].of = r /\ r \in Runs
             /\ ph[r] \notin NotStarted \cup {"over"} /\ Recorded(r, ph, o, b)
             /\ \A j \in 1 .. n : Numbered(a[j]) /\ a[j].of # r => ph[a[j].of] = "over"
  <2>1. k - n \in DOMAIN b /\ s[k] = b[k - n] BY <1>1, <1>4
  <2>2. b # <<>> BY <1>b, <2>1
  <2>3. s[k].of = r BY <1>4, <2>1
  <2>4. \A j \in 1 .. n : Numbered(a[j]) /\ a[j].of # r => ph[a[j].of] = "over"
    BY <1>1, <1>3, <2>2
  <2> QED BY <2>1, <2>2, <2>3, <2>4
<1>5. InLine(s, ph, o)
  <2>1. \A j \in DOMAIN s : ~Numbered(s[j]) =>
          s[j].kind = "CONTENT" \/ (s[j].kind = "RUN_ERROR" /\ s[j].seq = 0)
    <3>1. \A j \in DOMAIN a : ~Numbered(a[j]) =>
          a[j].kind = "CONTENT" \/ (a[j].kind = "RUN_ERROR" /\ a[j].seq = 0)
      BY <1>2 DEF Watches, InLine
    <3> QED BY <1>1, <3>1
  <2>2. \A j \in DOMAIN s : Numbered(s[j]) =>
          /\ ph[s[j].of] \notin NotStarted
          /\ o[s[j].of].kind = "RUN_STARTED" => s[j].kind = "RUN_STARTED"
          /\ s[j].kind \in Terminal => Ending(s[j].of, ph, o)
    <3>1. \A j \in DOMAIN a : Numbered(a[j]) =>
          /\ ph[a[j].of] \notin NotStarted
          /\ o[a[j].of].kind = "RUN_STARTED" => a[j].kind = "RUN_STARTED"
          /\ a[j].kind \in Terminal => Ending(a[j].of, ph, o)
      BY <1>2 DEF Watches, InLine
    <3>2. ASSUME NEW j \in DOMAIN s, j > n, Numbered(s[j])
          PROVE  /\ ph[s[j].of] \notin NotStarted
                 /\ o[s[j].of].kind = "RUN_STARTED" => s[j].kind = "RUN_STARTED"
                 /\ s[j].kind \in Terminal => Ending(s[j].of, ph, o)
      BY <1>4, <3>2 DEF Recorded
    <3> QED BY <1>1, <3>1, <3>2
  <2>3. ASSUME NEW j \in DOMAIN s, NEW k \in DOMAIN s,
               j < k, Numbered(s[j]), Numbered(s[k]), s[j].of # s[k].of
        PROVE  ph[s[j].of] = "over"
    BY <1>1, <1>3, <1>4, <2>3
  <2>4. ASSUME NEW i \in DOMAIN s, NEW j \in DOMAIN s, NEW k \in DOMAIN s,
          i < j, j < k, Numbered(s[i]), Numbered(s[j]), Numbered(s[k]), s[i].of = s[k].of
        PROVE  s[j].of = s[i].of
    <3>1. CASE k > n
      <4>1. s[i].of = r /\ ph[r] # "over" BY <1>4, <2>4, <3>1
      <4> QED BY <2>3, <2>4, <4>1
    <3>2. CASE k <= n
      <4>1. i \in DOMAIN a /\ j \in DOMAIN a /\ k \in DOMAIN a /\ s[i] = a[i] /\ s[j] = a[j] /\ s[k] = a[k]
        BY <1>1, <2>4, <3>2
      <4> QED BY <1>2, <2>4, <4>1 DEF Watches, InLine
    <3> QED BY <1>1, <3>1, <3>2
  <2> QED BY <2>1, <2>2, <2>3, <2>4 DEF InLine
<1>6. ComesInOrder(s, n)
  <2> SUFFICES ASSUME NEW j \in DOMAIN s, NEW k \in DOMAIN s, n < j, j < k, Numbered(s[j]), Numbered(s[k])
               PROVE  /\ s[k].kind # "RUN_STARTED"
                      /\ s[j].kind \in Terminal => s[k].kind \in Terminal
    BY DEF ComesInOrder
  <2>1. /\ j - n \in DOMAIN b /\ k - n \in DOMAIN b /\ s[j] = b[j - n] /\ s[k] = b[k - n] /\ j - n < k - n
        /\ b[j - n].of = r /\ b[k - n].of = r /\ Recorded(r, ph, o, b)
    BY <1>1, <1>4
  <2>2. k - n # 1 BY <1>1, <2>1
  <2> QED BY <2>1, <2>2 DEF Recorded
<1>7. \A k \in DOMAIN b : \A q : IsStart(b[k], q) => n + 1 \in DOMAIN s /\ IsStart(s[n + 1], q)
  <2> SUFFICES ASSUME NEW k \in DOMAIN b, NEW q, IsStart(b[k], q) PROVE n + 1 \in DOMAIN s /\ IsStart(s[n + 1], q)
    OBVIOUS
  <2>1. k = 1 BY DEF IsStart
  <2>2. n + 1 \in DOMAIN s /\ s[n + 1] = b[(n + 1) - n] /\ (n + 1) - n = 1 BY <1>1, <2>1
  <2> QED BY <2>1, <2>2
<1>8. StartsFirst(s, n, id, b)
  <2>1. ASSUME NEW k \in DOMAIN s, n < k, NEW q, StartIn(b, q) PROVE StartAfter(s, n, k, q)
    <3>1. n + 1 \in DOMAIN s /\ IsStart(s[n + 1], q) BY <1>7, <2>1 DEF StartIn
    <3>2. n < n + 1 /\ n + 1 <= k BY <1>1, <2>1
    <3> QED BY <3>1, <3>2 DEF StartAfter
  <2> QED BY <2>1 DEF StartsFirst
<1>9. ToldToStart(s, n, id, ph, o, b)
  <2>1. \A q \in Runs : StartIn(b, q) => StartAfter(s, n, Len(s), q)
    <3>1. ASSUME NEW q \in Runs, StartIn(b, q) PROVE StartAfter(s, n, Len(s), q)
      <4>1. n + 1 \in DOMAIN s /\ IsStart(s[n + 1], q) BY <1>7, <3>1 DEF StartIn
      <4>2. n < n + 1 /\ n + 1 <= Len(s) BY <1>1, <4>1
      <4> QED BY <4>1, <4>2 DEF StartAfter
    <3> QED BY <3>1
  <2> QED BY <2>1 DEF ToldToStart
<1>10. \A j \in 1 .. n : s[j] = a[j] /\ (Unended(s, n, j) <=> Unended(a, n, j))
  <2>1. \A j \in 1 .. n : \A l \in j .. n : l \in 1 .. n BY <1>1
  <2> QED BY <1>1, <2>1 DEF Unended
<1>11. Recognised(s, n, id, o, b)
  <2>1. \A q : StartToCome(s, n, q, o, b) => StartToCome(a, n, q, o, b)
    BY <1>1 DEF StartToCome, StartAfter, StartIn
  <2> QED BY <1>1, <1>2, <1>10, <2>1 DEF Watches, Recognised
<1>12. Counted(s, n, ls, ph)
  <2>1. ASSUME NEW j \in 1 .. n, Numbered(a[j]), ph[a[j].of] = "over", NEW k \in DOMAIN s, n < k, Numbered(s[k])
        PROVE  s[k].of # a[j].of
    BY <1>4, <2>1
  <2>2. Counted(a, n, ls, ph) BY <1>2 DEF Watches
  <2>3. ASSUME NEW j \in DOMAIN s, j <= n, Numbered(s[j]), Unended(s, n, j)
        PROVE  \/ s[j].seq <= ls
               \/ ph[s[j].of] = "over" /\ \A k \in DOMAIN s : n < k /\ Numbered(s[k]) => s[k].of # s[j].of
    <3>1. j \in 1 .. n /\ j \in DOMAIN a /\ s[j] = a[j] BY <1>1, <2>3
    <3>2. Unended(a, n, j) BY <1>10, <2>3, <3>1
    <3>3. a[j].seq <= ls \/ ph[a[j].of] = "over" BY <2>2, <2>3, <3>1, <3>2 DEF Counted
    <3> QED BY <2>1, <2>3, <3>1, <3>3
  <2> QED BY <2>3 DEF Counted
<1>13. OnScreen(s, n, id, ru, ls)
  BY <1>1, <1>2 DEF Watches, OnScreen
<1>14. Ordered(s, n)
  <2>1. \A j, k \in 1 .. n : \A l \in j .. (k - 1) : l \in 1 .. n BY <1>1
  <2>2. Ordered(a, n) BY <1>2 DEF Watches
  <2>3. ASSUME NEW j \in DOMAIN s, NEW k \in DOMAIN s,
               j < k, k <= n, Numbered(s[j]), Numbered(s[k]), s[j].of = s[k].of
        PROVE  s[j].seq < s[k].seq \/ \E l \in j .. (k - 1) : s[l].of = s[j].of /\ s[l].kind \in Terminal
    <3>1. j \in 1 .. n /\ k \in 1 .. n BY <1>1, <2>3
    <3>2. s[j] = a[j] /\ s[k] = a[k] /\ \A l \in j .. (k - 1) : s[l] = a[l] BY <1>1, <2>1, <3>1
    <3>3. a[j].seq < a[k].seq \/ \E l \in j .. (k - 1) : a[l].of = a[j].of /\ a[l].kind \in Terminal
      BY <1>1, <2>2, <2>3, <3>1, <3>2 DEF Ordered
    <3> QED BY <3>2, <3>3
  <2> QED BY <2>3 DEF Ordered
<1> QED BY <1>5, <1>6, <1>8, <1>9, <1>11, <1>12, <1>13, <1>14 DEF Watches, s, n

(* A tab that skips an event: a start, if it is of the run shown.          *)
LEMMA PassedOver ==
    ASSUME NEW s \in Seq(Event), NEW d \in Seq(Event), NEW n \in Nat, n < Len(s), Len(d) = Len(s) - 1,
           \A k \in 1 .. Len(d) : d[k] = IF k <= n THEN s[k] ELSE s[k + 1],
           NEW id, NEW ru, NEW ls, NEW in \in BOOLEAN, NEW ph, NEW o, NEW b,
           Watches(s, n, id, ru, ls, in, ph, o, b),
           s[n + 1].kind = "RUN_STARTED" => s[n + 1].of = id
    PROVE  Watches(d, n, id, ru, ls, in, ph, o, b)
<1> DEFINE m == Len(s)
           g == [k \in 1 .. m - 1 |-> IF k <= n THEN k ELSE k + 1]
<1>1. /\ m \in Nat /\ n < m /\ Len(s) = m /\ Len(d) = m - 1 /\ DOMAIN s = 1 .. m /\ DOMAIN d = 1 .. m - 1
      /\ \A k \in 1 .. m - 1 : d[k] = IF k <= n THEN s[k] ELSE s[k + 1]
  OBVIOUS
<1> HIDE DEF m
<1>2. /\ \A k \in 1 .. m - 1 : g[k] \in 1 .. m /\ d[k] = s[g[k]] /\ g[k] >= k /\ g[k] <= k + 1
      /\ \A k \in 1 .. m - 1 : (k <= n => g[k] = k) /\ (n < k => g[k] = k + 1)
      /\ \A j, k \in 1 .. m - 1 : j < k => g[j] < g[k]
  BY <1>1
<1> HIDE DEF g
<1>a. \A j \in 1 .. m - 1 : g[j] \in DOMAIN s /\ d[j] = s[g[j]] /\ (n < j => n < g[j])
  BY <1>1, <1>2
<1>b. \A j, k \in 1 .. m - 1 : j < k => g[j] < g[k]
  BY <1>2
<1>c. DOMAIN d = 1 .. m - 1
  BY <1>1
<1>3. InLine(d, ph, o)
  <2>1. InLine(s, ph, o) BY DEF Watches
  <2>2. ASSUME NEW j \in DOMAIN d, NEW k \in DOMAIN d,
               j < k, Numbered(d[j]), Numbered(d[k]), d[j].of # d[k].of
        PROVE  ph[d[j].of] = "over"
    <3>1. g[j] \in DOMAIN s /\ g[k] \in DOMAIN s /\ g[j] < g[k] /\ d[j] = s[g[j]] /\ d[k] = s[g[k]]
      BY <1>a, <1>b, <1>c, <2>2
    <3> QED BY <2>1, <2>2, <3>1 DEF InLine
  <2>3. ASSUME NEW i \in DOMAIN d, NEW j \in DOMAIN d, NEW k \in DOMAIN d,
               i < j, j < k, Numbered(d[i]), Numbered(d[j]), Numbered(d[k]), d[i].of = d[k].of
        PROVE  d[j].of = d[i].of
    <3>1. /\ g[i] \in DOMAIN s /\ g[j] \in DOMAIN s /\ g[k] \in DOMAIN s /\ g[i] < g[j] /\ g[j] < g[k]
          /\ d[i] = s[g[i]] /\ d[j] = s[g[j]] /\ d[k] = s[g[k]]
      BY <1>a, <1>b, <1>c, <2>3
    <3> QED BY <2>1, <2>3, <3>1 DEF InLine
  <2>4. \A j \in DOMAIN d : /\ ~Numbered(d[j]) => d[j].kind = "CONTENT" \/ (d[j].kind = "RUN_ERROR" /\ d[j].seq = 0)
                            /\ Numbered(d[j]) =>
                                  /\ ph[d[j].of] \notin NotStarted
                                  /\ o[d[j].of].kind = "RUN_STARTED" => d[j].kind = "RUN_STARTED"
                                  /\ d[j].kind \in Terminal => Ending(d[j].of, ph, o)
    BY <1>1, <1>2, <2>1 DEF InLine
  <2> QED BY <2>2, <2>3, <2>4 DEF InLine
<1>4. ComesInOrder(d, n)
  <2>1. ComesInOrder(s, n) BY DEF Watches
  <2>2. ASSUME NEW j \in DOMAIN d, NEW k \in DOMAIN d,
               n < j, j < k, Numbered(d[j]), Numbered(d[k]), d[j].of = d[k].of
        PROVE  /\ d[k].kind = "RUN_STARTED" => d[j].kind = "RUN_STARTED"
               /\ d[j].kind \in Terminal => d[k].kind \in Terminal
    <3>1. /\ g[j] \in DOMAIN s /\ g[k] \in DOMAIN s /\ n < g[j] /\ g[j] < g[k]
          /\ d[j] = s[g[j]] /\ d[k] = s[g[k]]
      BY <1>a, <1>b, <1>c, <2>2
    <3> QED BY <2>1, <2>2, <3>1 DEF ComesInOrder
  <2> QED BY <2>2 DEF ComesInOrder
<1>5. ASSUME NEW k \in 1 .. m - 1, n < k, NEW r, StartAfter(s, n, g[k], r)
      PROVE  id = r \/ StartAfter(d, n, k, r)
  <2>1. PICK i \in 1 .. m : n < i /\ i <= g[k] /\ IsStart(s[i], r) BY <1>1, <1>5 DEF StartAfter
  <2>2. CASE i = n + 1 BY <2>1, <2>2 DEF IsStart
  <2>3. CASE i # n + 1
    <3>1. i - 1 \in 1 .. m - 1 /\ n < i - 1 /\ i - 1 <= k /\ (i - 1) + 1 = i BY <1>1, <1>2, <1>5, <2>1, <2>3
    <3>2. d[i - 1] = s[i] BY <1>1, <3>1
    <3> QED BY <1>1, <2>1, <3>1, <3>2 DEF StartAfter
  <2> QED BY <2>2, <2>3
<1>6. StartsFirst(d, n, id, b)
  <2> SUFFICES ASSUME NEW k \in 1 .. m - 1, n < k, Numbered(d[k]), d[k].kind \notin Terminal, StartIn(b, d[k].of)
               PROVE  id = d[k].of \/ StartAfter(d, n, k, d[k].of)
    BY <1>1 DEF StartsFirst
  <2>1. g[k] \in DOMAIN s /\ n < g[k] /\ d[k] = s[g[k]] BY <1>1, <1>2
  <2>2. id = d[k].of \/ StartAfter(s, n, g[k], d[k].of) BY <2>1 DEF Watches, StartsFirst
  <2> QED BY <1>5, <2>2
<1>7. \A r : StartAfter(s, n, m, r) => id = r \/ StartAfter(d, n, m - 1, r)
  <2> SUFFICES ASSUME NEW r, StartAfter(s, n, m, r) PROVE id = r \/ StartAfter(d, n, m - 1, r)
    OBVIOUS
  <2>1. PICK i \in 1 .. m : n < i /\ IsStart(s[i], r) BY <1>1 DEF StartAfter
  <2>2. CASE i = n + 1 BY <2>1, <2>2 DEF IsStart
  <2>3. CASE i # n + 1
    <3>1. i - 1 \in 1 .. m - 1 /\ n < i - 1 /\ i - 1 <= m - 1 /\ (i - 1) + 1 = i BY <1>1, <2>1, <2>3
    <3>2. d[i - 1] = s[i] BY <1>1, <3>1
    <3> QED BY <1>1, <2>1, <3>1, <3>2 DEF StartAfter
  <2> QED BY <2>2, <2>3
<1>8. in => ToldToStart(d, n, id, ph, o, b)
  BY <1>1, <1>7 DEF Watches, ToldToStart
<1>9. ASSUME NEW j \in 1 .. m - 1, j <= n
      PROVE  j \in DOMAIN s /\ d[j] = s[j] /\ (Unended(d, n, j) <=> Unended(s, n, j))
  <2>1. \A l \in j .. n : l \in 1 .. m - 1 /\ d[l] = s[l] BY <1>1, <1>9
  <2>2. j \in j .. n BY <1>9, <1>1
  <2> QED BY <1>1, <2>1, <2>2 DEF Unended
<1>10. Recognised(d, n, id, o, b)
  <2>1. \A r : StartToCome(d, n, r, o, b) => StartToCome(s, n, r, o, b)
    <3>1. ASSUME NEW r, StartAfter(d, n, m - 1, r) PROVE StartAfter(s, n, m, r)
      <4>1. PICK i \in 1 .. m - 1 : n < i /\ IsStart(d[i], r) BY <1>1, <3>1 DEF StartAfter
      <4>2. g[i] \in 1 .. m /\ n < g[i] /\ g[i] <= m /\ IsStart(s[g[i]], r) BY <1>1, <1>2, <4>1
      <4> QED BY <1>1, <4>2 DEF StartAfter
    <3> QED BY <1>1, <3>1 DEF StartToCome
  <2> QED BY <1>1, <1>9, <2>1 DEF Watches, Recognised
<1>11. Counted(d, n, ls, ph)
  <2>1. ASSUME NEW j \in DOMAIN d, j <= n, Numbered(d[j]), Unended(d, n, j)
        PROVE  \/ d[j].seq <= ls
               \/ ph[d[j].of] = "over" /\ \A k \in DOMAIN d : n < k /\ Numbered(d[k]) => d[k].of # d[j].of
    <3>1. j \in DOMAIN s /\ d[j] = s[j] /\ Unended(s, n, j) BY <1>9, <1>c, <2>1
    <3>2. \/ s[j].seq <= ls
          \/ ph[s[j].of] = "over" /\ \A k \in DOMAIN s : n < k /\ Numbered(s[k]) => s[k].of # s[j].of
      BY <2>1, <3>1 DEF Watches, Counted
    <3> QED BY <1>a, <1>c, <3>1, <3>2
  <2> QED BY <2>1 DEF Counted
<1>12. OnScreen(d, n, id, ru, ls)
  <2>1. \A i \in 1 .. m : i <= n => i \in 1 .. m - 1 /\ d[i] = s[i] BY <1>1
  <2> QED BY <1>1, <2>1 DEF Watches, OnScreen
<1>13. Ordered(d, n)
  <2>1. ASSUME NEW j \in DOMAIN d, NEW k \in DOMAIN d,
               j < k, k <= n, Numbered(d[j]), Numbered(d[k]), d[j].of = d[k].of
        PROVE  d[j].seq < d[k].seq \/ \E l \in j .. (k - 1) : d[l].of = d[j].of /\ d[l].kind \in Terminal
    <3>1. \A l \in j .. k : l \in DOMAIN s /\ d[l] = s[l] BY <1>1, <2>1
    <3>2. j \in j .. k /\ k \in j .. k /\ \A l \in j .. (k - 1) : l \in j .. k BY <1>1, <2>1
    <3>4. /\ j \in DOMAIN s /\ k \in DOMAIN s /\ j < k /\ k <= n
          /\ Numbered(s[j]) /\ Numbered(s[k]) /\ s[j].of = s[k].of
      BY <2>1, <3>1, <3>2
    <3>5. Ordered(s, n) BY DEF Watches
    <3>3. s[j].seq < s[k].seq \/ \E l \in j .. (k - 1) : s[l].of = s[j].of /\ s[l].kind \in Terminal
      BY <3>4, <3>5 DEF Ordered
    <3> QED BY <3>1, <3>2, <3>3
  <2> QED BY <2>1 DEF Ordered
<1> QED BY <1>3, <1>4, <1>6, <1>8, <1>10, <1>11, <1>12, <1>13 DEF Watches

(* A tab applies e: what it shows before and after.                        *)
Refuses(e, ru, ls) == e.kind = "RUN_ERROR" /\ e.seq = 0 /\ ls > 0 /\ ru
Ends(e, ru, ls) == e.kind \in Terminal /\ ~Refuses(e, ru, ls)
Takes(e, id, ru, ls, id2, ru2, ls2) ==
    /\ ~(e.seq # 0 /\ (e.kind # "RUN_STARTED" \/ e.of = id) /\ e.seq <= ls)
    /\ id2 = IF e.kind = "RUN_STARTED" THEN e.of ELSE IF Ends(e, ru, ls) THEN NoRun ELSE id
    /\ ru2 <=> (e.kind = "RUN_STARTED" \/ (ru /\ ~Ends(e, ru, ls)))
    /\ ls2 = IF e.seq = 0 THEN ls
             ELSE IF e.kind = "RUN_STARTED" /\ e.of # id THEN e.seq
             ELSE IF e.seq > ls THEN e.seq ELSE ls

\* A run whose start may be sent is not over.
Live(ph, o, b) == \A r \in Runs : StartIn(b, r) \/ o[r].kind = "RUN_STARTED" => ph[r] # "over"

(* A tab that applies the next event of its line: what it recognises,      *)
(* counts and shows goes on to be true of the line.                        *)
LEMMA AppliedNext ==
    ASSUME NEW s \in Seq(Event), NEW n \in Nat, n < Len(s), NEW id, NEW ru \in BOOLEAN, NEW ls \in Nat,
           NEW in \in BOOLEAN, NEW ph, NEW o, NEW b,
           Watches(s, n, id, ru, ls, in, ph, o, b),
           Live(ph, o, b),
           NEW id2, NEW ru2 \in BOOLEAN, NEW ls2,
           Takes(s[n + 1], id, ru, ls, id2, ru2, ls2)
    PROVE  Watches(s, n + 1, id2, ru2, ls2, in, ph, o, b)
<1>e. PICK e : e = s[n + 1] OBVIOUS
<1>f. PICK refusal \in BOOLEAN : refusal <=> (e.kind = "RUN_ERROR" /\ e.seq = 0 /\ ls > 0 /\ ru)
  OBVIOUS
<1>g. PICK ends \in BOOLEAN : ends <=> (e.kind \in Terminal /\ ~refusal)
  OBVIOUS
<1>h. /\ ~(e.seq # 0 /\ (e.kind # "RUN_STARTED" \/ e.of = id) /\ e.seq <= ls)
      /\ id2 = IF e.kind = "RUN_STARTED" THEN e.of ELSE IF ends THEN NoRun ELSE id
      /\ ru2 <=> (e.kind = "RUN_STARTED" \/ (ru /\ ~ends))
      /\ ls2 = IF e.seq = 0 THEN ls
               ELSE IF e.kind = "RUN_STARTED" /\ e.of # id THEN e.seq
               ELSE IF e.seq > ls THEN e.seq ELSE ls
  BY <1>e, <1>f, <1>g DEF Takes, Ends, Refuses
<1>i. \A r \in Runs : StartIn(b, r) \/ o[r].kind = "RUN_STARTED" => ph[r] # "over"
  BY DEF Live
<1> USE <1>e, <1>f, <1>g, <1>h, <1>i
<1>1. /\ InLine(s, ph, o) /\ ComesInOrder(s, n) /\ StartsFirst(s, n, id, b)
      /\ in => ToldToStart(s, n, id, ph, o, b)
      /\ Recognised(s, n, id, o, b) /\ Counted(s, n, ls, ph) /\ OnScreen(s, n, id, ru, ls)
      /\ Ordered(s, n)
  BY DEF Watches
<1>2. /\ n + 1 \in DOMAIN s /\ n < n + 1 /\ e \in Event
      /\ e.seq \in Nat /\ e.kind \in Kinds
      /\ \A k \in DOMAIN s : k \in Nat /\ (n < k <=> k = n + 1 \/ n + 1 < k) /\ (k <= n <=> k < n + 1)
                             /\ (k <= n + 1 <=> k <= n \/ k = n + 1) /\ k <= Len(s)
                             /\ s[k].seq \in Nat
  <2>1. Len(s) \in Nat /\ DOMAIN s = 1 .. Len(s) OBVIOUS
  <2>2. n + 1 \in DOMAIN s BY <2>1
  <2>3. \A k \in DOMAIN s : s[k] \in Event OBVIOUS
  <2>4. \A k \in DOMAIN s : s[k].seq \in Nat /\ s[k].kind \in Kinds BY <2>3 DEF Event
  <2> QED BY <2>1, <2>2, <2>3, <2>4
(* An event without a number changes nothing on the screen.                *)
<1>3. ~Numbered(e) => e.kind # "RUN_STARTED" /\ id2 = id
  <2> SUFFICES ASSUME ~Numbered(e) PROVE e.kind # "RUN_STARTED" /\ id2 = id
    OBVIOUS
  <2>1. e.kind = "CONTENT" \/ (e.kind = "RUN_ERROR" /\ e.seq = 0) BY <1>1, <1>2 DEF InLine
  <2>2. CASE e.kind = "CONTENT" BY <2>2 DEF Terminal
  <2>3. CASE e.kind = "RUN_ERROR" /\ e.seq = 0
    <3>1. id # NoRun => ru /\ ls > 0 BY <1>1 DEF OnScreen
    <3> QED BY <2>3, <3>1
  <2> QED BY <2>1, <2>2, <2>3
<1>4. Numbered(e) => e.of \in Runs /\ e.of # NoRun /\ e.seq >= 1
  BY <1>2 DEF Numbered
(* If the screen changes, it is by an event of the run, or the run is over *)
(* and nothing of it comes.                                                *)
<1>5. ASSUME NEW i \in DOMAIN s, i <= n, Numbered(s[i]), Numbered(e), s[i].of # e.of
      PROVE  /\ ph[s[i].of] = "over"
             /\ \A k \in DOMAIN s : n < k /\ Numbered(s[k]) => s[k].of # s[i].of
  <2>1. i < n + 1 BY <1>2, <1>5
  <2>2. ph[s[i].of] = "over" BY <1>1, <1>2, <1>5, <2>1 DEF InLine
  <2>3. ASSUME NEW k \in DOMAIN s, n < k, Numbered(s[k]), s[k].of = s[i].of PROVE FALSE
    <3>1. CASE k = n + 1 BY <1>5, <2>3, <3>1
    <3>2. CASE n + 1 < k BY <1>1, <1>2, <1>5, <2>1, <2>3, <3>2 DEF InLine
    <3> QED BY <1>2, <2>3, <3>1, <3>2
  <2> QED BY <2>2, <2>3
<1>6. id2 # id => Numbered(e) /\ ((e.kind = "RUN_STARTED" /\ e.of # id) \/ e.kind \in Terminal)
  BY <1>3
<1>7. ASSUME NEW r \in Runs, id = r, id2 # r
      PROVE  /\ Numbered(e) /\ (e.of = r => e.kind \in Terminal)
             /\ e.of # r => /\ ph[r] = "over"
                            /\ \A k \in DOMAIN s : n < k /\ Numbered(s[k]) => s[k].of # r
  <2>1. PICK i \in DOMAIN s : i <= n /\ Numbered(s[i]) /\ s[i].of = r
    BY <1>1, <1>7 DEF OnScreen
  <2> QED BY <1>5, <1>6, <1>7, <2>1
<1>8. \A k \in DOMAIN s : \A r : StartAfter(s, n, k, r) => (e.kind = "RUN_STARTED" /\ e.of = r) \/ StartAfter(s, n + 1, k, r)
  <2> SUFFICES ASSUME NEW k \in DOMAIN s, NEW r, StartAfter(s, n, k, r)
               PROVE  (e.kind = "RUN_STARTED" /\ e.of = r) \/ StartAfter(s, n + 1, k, r)
    OBVIOUS
  <2>1. PICK i \in DOMAIN s : n < i /\ i <= k /\ IsStart(s[i], r) BY DEF StartAfter
  <2>2. CASE i = n + 1 BY <2>1, <2>2 DEF IsStart
  <2>3. CASE n + 1 < i BY <2>1, <2>3 DEF StartAfter
  <2> QED BY <1>2, <2>1, <2>2, <2>3
<1>9. \A k, r : StartAfter(s, n + 1, k, r) => StartAfter(s, n, k, r)
  BY <1>2 DEF StartAfter
<1>10. ComesInOrder(s, n + 1)
  <2>1. \A j \in DOMAIN s : n + 1 < j => n < j BY <1>2
  <2> QED BY <1>1, <2>1 DEF ComesInOrder
<1>11. StartsFirst(s, n + 1, id2, b)
  <2> SUFFICES ASSUME NEW k \in DOMAIN s, n + 1 < k, Numbered(s[k]), s[k].kind \notin Terminal, StartIn(b, s[k].of)
               PROVE  id2 = s[k].of \/ StartAfter(s, n + 1, k, s[k].of)
    BY DEF StartsFirst
  <2>1. n < k /\ s[k].of \in Runs BY <1>2 DEF Numbered
  <2>2. id = s[k].of \/ StartAfter(s, n, k, s[k].of) BY <1>1, <2>1 DEF StartsFirst
  <2>3. CASE StartAfter(s, n, k, s[k].of) BY <1>8, <2>3
  <2>4. CASE id = s[k].of /\ id2 # s[k].of
    <3>1. Numbered(e) /\ e.of = s[k].of /\ e.kind \in Terminal BY <1>7, <2>1, <2>4
    <3> QED BY <1>1, <1>2, <2>1, <3>1 DEF ComesInOrder
  <2> QED BY <2>2, <2>3, <2>4
<1>12. in => ToldToStart(s, n + 1, id2, ph, o, b)
  <2> SUFFICES ASSUME in, NEW r \in Runs, GoesOn(r, ph, o), StartIn(b, r)
               PROVE  id2 = r \/ StartAfter(s, n + 1, Len(s), r)
    BY DEF ToldToStart
  <2>1. id = r \/ StartAfter(s, n, Len(s), r) BY <1>1 DEF ToldToStart
  <2>2. CASE StartAfter(s, n, Len(s), r)
    <3>1. Len(s) \in DOMAIN s BY <1>2
    <3> QED BY <1>8, <2>2, <3>1
  <2>3. CASE id = r /\ id2 # r
    <3>1. Numbered(e) /\ e.of = r /\ e.kind \in Terminal BY <1>7, <2>3 DEF GoesOn
    <3>2. Ending(r, ph, o) BY <1>1, <1>2, <3>1 DEF InLine
    <3> QED BY <3>2 DEF Ending, GoesOn
  <2> QED BY <2>1, <2>2, <2>3
<1>13. \A j \in DOMAIN s : j <= n /\ Unended(s, n + 1, j) =>
          Unended(s, n, j) /\ ~(e.of = s[j].of /\ e.kind \in Terminal)
  <2> SUFFICES ASSUME NEW j \in DOMAIN s, j <= n, Unended(s, n + 1, j)
               PROVE  Unended(s, n, j) /\ ~(e.of = s[j].of /\ e.kind \in Terminal)
    OBVIOUS
  <2>1. n + 1 \in j .. (n + 1) /\ \A l \in j .. n : l \in j .. (n + 1) BY <1>2
  <2> QED BY <2>1 DEF Unended
<1>14. Recognised(s, n + 1, id2, o, b)
  <2> SUFFICES ASSUME NEW j \in DOMAIN s, j <= n + 1, Numbered(s[j]), Unended(s, n + 1, j),
                      StartToCome(s, n + 1, s[j].of, o, b)
               PROVE  id2 = s[j].of
    BY DEF Recognised
  <2>0. s[j].of \in Runs BY DEF Numbered
  <2>1. CASE j = n + 1
    <3>1. e.kind \notin Terminal
      <4>1. n + 1 \in (n + 1) .. (n + 1) OBVIOUS
      <4> QED BY <2>1, <4>1 DEF Unended
    <3>2. ASSUME e.kind # "RUN_STARTED" PROVE id = e.of
      <4>1. CASE StartIn(b, e.of)
        <5>1. id = e.of \/ StartAfter(s, n, n + 1, e.of) BY <1>1, <1>2, <2>1, <3>1, <4>1 DEF StartsFirst
        <5>2. ~StartAfter(s, n + 1, n + 1, e.of)
          <6>1. \A k \in DOMAIN s : ~(n + 1 < k /\ k <= n + 1) BY <1>2
          <6> QED BY <6>1 DEF StartAfter
        <5> QED BY <1>2, <1>8, <3>2, <5>1, <5>2
      <4>2. CASE o[e.of].kind = "RUN_STARTED"
        BY <1>1, <1>2, <2>1, <3>2, <4>2 DEF InLine
      <4>3. CASE StartAfter(s, n + 1, Len(s), e.of)
        <5>1. PICK k \in DOMAIN s : n + 1 < k /\ IsStart(s[k], e.of) BY <4>3 DEF StartAfter
        <5>2. Numbered(s[k]) BY <1>1, <5>1 DEF InLine, IsStart
        <5> QED BY <1>1, <1>2, <2>1, <3>2, <5>1, <5>2 DEF ComesInOrder, IsStart
      <4> QED BY <2>1, <4>1, <4>2, <4>3 DEF StartToCome
    <3> QED BY <2>1, <3>1, <3>2
  <2>2. CASE j <= n
    <3>1. Unended(s, n, j) /\ ~(e.of = s[j].of /\ e.kind \in Terminal) BY <1>13, <2>2
    <3>2. StartToCome(s, n, s[j].of, o, b) BY <1>9 DEF StartToCome
    <3>3. id = s[j].of BY <1>1, <2>2, <3>1, <3>2 DEF Recognised
    <3>4. ASSUME id2 # s[j].of PROVE FALSE
      <4>1. /\ ph[s[j].of] = "over"
            /\ \A k \in DOMAIN s : n < k /\ Numbered(s[k]) => s[k].of # s[j].of
        BY <1>7, <2>0, <3>1, <3>3, <3>4
      <4>2. StartAfter(s, n + 1, Len(s), s[j].of) BY <2>0, <4>1 DEF StartToCome
      <4>3. PICK k \in DOMAIN s : n + 1 < k /\ IsStart(s[k], s[j].of) BY <4>2 DEF StartAfter
      <4>4. Numbered(s[k]) BY <1>1, <4>3 DEF InLine, IsStart
      <4> QED BY <1>2, <4>1, <4>3, <4>4 DEF IsStart
    <3> QED BY <3>4
  <2> QED BY <1>2, <2>1, <2>2
<1>15. ASSUME NEW j \in DOMAIN s, j <= n, Numbered(s[j]), Unended(s, n, j),
              e.kind = "RUN_STARTED", e.of = s[j].of
       PROVE  id = e.of
  <2>1. StartAfter(s, n, Len(s), s[j].of) BY <1>2, <1>15 DEF StartAfter, IsStart
  <2> QED BY <1>1, <1>15, <2>1 DEF Recognised, StartToCome
<1>16. Counted(s, n + 1, ls2, ph)
  <2> SUFFICES ASSUME NEW j \in DOMAIN s, j <= n + 1, Numbered(s[j]), Unended(s, n + 1, j)
               PROVE  \/ s[j].seq <= ls2
                      \/ ph[s[j].of] = "over" /\ \A k \in DOMAIN s : n + 1 < k /\ Numbered(s[k]) => s[k].of # s[j].of
    BY DEF Counted
  <2>1. CASE j = n + 1
    <3>1. e.seq # 0 BY <2>1 DEF Numbered
    <3> QED BY <1>2, <2>1, <3>1
  <2>2. CASE j <= n
    <3>1. Unended(s, n, j) BY <1>13, <2>2
    <3>2. \A k \in DOMAIN s : n + 1 < k => n < k BY <1>2
    <3>3. CASE ph[s[j].of] = "over" /\ \A k \in DOMAIN s : n < k /\ Numbered(s[k]) => s[k].of # s[j].of
      BY <3>2, <3>3
    <3>4. CASE s[j].seq <= ls
      <4>1. CASE e.kind = "RUN_STARTED" /\ e.of # id
        <5>1. Numbered(e) BY <1>3, <4>1
        <5>2. e.of # s[j].of BY <1>15, <2>2, <3>1, <4>1
        <5> QED BY <1>5, <2>2, <3>2, <5>1, <5>2
      <4>2. CASE ~(e.kind = "RUN_STARTED" /\ e.of # id)
        <5>1. ls <= ls2 BY <1>2, <4>2
        <5>2. s[j].seq \in Nat /\ ls2 \in Nat BY <1>2
        <5> QED BY <3>4, <5>1, <5>2
      <4> QED BY <4>1, <4>2
    <3> QED BY <1>1, <2>2, <3>1, <3>3, <3>4 DEF Counted
  <2> QED BY <1>2, <2>1, <2>2
<1>17. OnScreen(s, n + 1, id2, ru2, ls2)
  <2> SUFFICES ASSUME id2 # NoRun
               PROVE  ru2 /\ ls2 >= 1 /\ \E i \in DOMAIN s : i <= n + 1 /\ Numbered(s[i]) /\ s[i].of = id2
    BY DEF OnScreen
  <2>1. CASE e.kind = "RUN_STARTED"
    <3>1. Numbered(e) /\ e.seq >= 1 /\ e.seq # 0 BY <1>3, <1>4, <2>1 DEF Numbered
    <3>2. ls2 >= 1 BY <1>2, <3>1
    <3> QED BY <1>2, <2>1, <3>1, <3>2
  <2>2. CASE e.kind # "RUN_STARTED"
    <3>1. id2 = id /\ ~ends BY <2>2
    <3>2. ls2 >= ls BY <1>2, <2>2
    <3>3. ru /\ ls >= 1 BY <1>1, <3>1 DEF OnScreen
    <3>4. PICK i \in DOMAIN s : i <= n /\ Numbered(s[i]) /\ s[i].of = id BY <1>1, <3>1 DEF OnScreen
    <3>5. i <= n + 1 BY <1>2, <3>4
    <3>6. ls2 \in Nat BY <1>2
    <3>7. ls2 >= 1 BY <3>2, <3>3, <3>6
    <3> QED BY <3>1, <3>3, <3>4, <3>5, <3>7
  <2> QED BY <2>1, <2>2
<1>18. Ordered(s, n + 1)
  <2> SUFFICES ASSUME NEW j \in DOMAIN s, NEW k \in DOMAIN s,
                      j < k, k <= n + 1, Numbered(s[j]), Numbered(s[k]), s[j].of = s[k].of
               PROVE  s[j].seq < s[k].seq \/ \E l \in j .. (k - 1) : s[l].of = s[j].of /\ s[l].kind \in Terminal
    BY DEF Ordered
  <2>1. CASE k <= n BY <1>1, <2>1 DEF Ordered
  <2>2. CASE k = n + 1
    <3>1. j <= n /\ k - 1 = n BY <1>2, <2>2
    <3> SUFFICES ASSUME Unended(s, n, j) PROVE s[j].seq < e.seq
      BY <2>2, <3>1 DEF Unended
    <3>2. s[j].seq <= ls BY <1>1, <1>2, <2>2, <3>1 DEF Counted
    <3>3. ~(e.kind = "RUN_STARTED" /\ e.of # id) BY <1>15, <2>2, <3>1
    <3>4. e.seq # 0 BY <2>2 DEF Numbered
    <3>5. ~(e.seq <= ls) BY <3>3, <3>4
    <3>6. s[j].seq \in Nat BY <1>2
    <3> QED BY <1>2, <3>2, <3>5, <3>6
  <2> QED BY <1>2, <2>1, <2>2
<1> QED BY <1>1, <1>10, <1>11, <1>12, <1>14, <1>16, <1>17, <1>18 DEF Watches

-----------------------------------------------------------------------------
(* The buffer with one more event keeps the order of those it keeps.       *)
Grows(b, c, e) ==
    /\ \A k \in DOMAIN c : \/ c[k] = e
                           \/ \E i \in DOMAIN b : c[k] = b[i] /\ k <= i
    /\ \A j, k \in DOMAIN c : j < k =>
          \E i \in DOMAIN b : c[j] = b[i] /\ (c[k] = e \/ \E l \in DOMAIN b : i < l /\ c[k] = b[l])
    /\ b = <<>> => \A k \in DOMAIN c : c[k] = e /\ k = 1

(* The buffer after one more event: what it holds was there, in the same   *)
(* order, or is that event, last.                                          *)
LEMMA BufferedPlaces ==
    ASSUME NEW b \in Seq(Event), NEW e \in Event, NEW c, c = Buffered(b, e)
    PROVE  c \in Seq(Event) /\ Grows(b, c, e)
<1> DEFINE kept == IF Len(b) >= MaxEvents THEN Tail(b) ELSE b
<1>1. PICK d \in {0, 1} : /\ kept \in Seq(Event) /\ Len(kept) \in Nat /\ Len(kept) = Len(b) - d
                          /\ b = <<>> => d = 0
                          /\ \A k \in 1 .. Len(kept) : kept[k] = b[k + d]
  <2>1. CASE Len(b) >= MaxEvents
    <3>1. b # <<>> BY <2>1
    <3>2. Tail(b) \in Seq(Event) /\ Len(Tail(b)) = Len(b) - 1
          /\ \A k \in 1..(Len(b) - 1) : Tail(b)[k] = b[k + 1]
      BY <3>1
    <3>3. kept = Tail(b) BY <2>1
    <3> HIDE DEF kept
    <3>4. Len(kept) \in Nat BY <3>2, <3>3
    <3> QED BY <3>1, <3>2, <3>3, <3>4
  <2>2. CASE ~(Len(b) >= MaxEvents)
    <3>1. kept = b BY <2>2
    <3>2. \A k \in 1..Len(b) : k = k + 0 OBVIOUS
    <3> HIDE DEF kept
    <3>3. Len(b) \in Nat /\ Len(b) = Len(b) - 0 OBVIOUS
    <3> QED BY <3>1, <3>2, <3>3
  <2> QED BY <2>1, <2>2
<1>2. c = Append(kept, e) BY DEF Buffered
<1> HIDE DEF kept
<1> DEFINE m == Len(kept)
<1>3. /\ c \in Seq(Event) /\ m \in Nat /\ Len(c) = m + 1 /\ DOMAIN c = 1 .. (m + 1)
      /\ \A k \in 1 .. m : c[k] = kept[k]
      /\ c[m + 1] = e
  BY <1>1, <1>2, AppendFacts
<1>4. Len(b) \in Nat /\ m = Len(b) - d /\ DOMAIN b = 1 .. Len(b) BY <1>1
<1>5. \A k \in 1 .. m : c[k] = b[k + d] BY <1>1, <1>3
<1> HIDE DEF m
<1>6. \A k \in 1 .. m : k + d \in DOMAIN b /\ c[k] = b[k + d] /\ k <= k + d
  BY <1>3, <1>4, <1>5
<1>7. \A k \in DOMAIN c : k \in 1 .. m \/ c[k] = e
  <2>1. \A k \in 1 .. (m + 1) : k \in 1 .. m \/ k = m + 1 BY <1>3
  <2> QED BY <1>3, <2>1
<1>8. \A k \in DOMAIN c : c[k] = e \/ \E i \in DOMAIN b : c[k] = b[i] /\ k <= i
  BY <1>6, <1>7
<1>9. ASSUME NEW j \in DOMAIN c, NEW k \in DOMAIN c, j < k
      PROVE \E i \in DOMAIN b : c[j] = b[i] /\ (c[k] = e \/ \E l \in DOMAIN b : i < l /\ c[k] = b[l])
  <2>1. j \in 1 .. m BY <1>3, <1>9
  <2>2. CASE c[k] = e BY <1>6, <2>1, <2>2
  <2>3. CASE k \in 1 .. m
    <3>1. j + d < k + d BY <1>1, <1>9, <2>1, <2>3
    <3> QED BY <1>6, <2>1, <2>3, <3>1
  <2> QED BY <1>7, <2>2, <2>3
<1>10. b = <<>> => \A k \in DOMAIN c : c[k] = e /\ k = 1
  <2>1. b = <<>> => m = 0 BY <1>1, <1>4
  <2> QED BY <1>3, <2>1
<1> QED BY <1>3, <1>8, <1>9, <1>10 DEF Grows

(* broadcast_run_event up to its await: clearing the buffer for a start    *)
(* leaves it as it was.                                                    *)
LEMMA BroadcastIs ==
    ASSUME IInv, NEW y \in Runs \cup Emits, NEW kind \in Kinds, Broadcast(y, kind),
           kind = "RUN_STARTED" => buffer = <<>>
    PROVE  \E e \in Event : /\ e.of = y /\ e.kind = kind /\ e.seq >= 1
                            /\ buffer' = Buffered(buffer, e)
                            /\ outgoing' = [outgoing EXCEPT ![y] = e]
<1> DEFINE e == [of |-> y, kind |-> kind, seq |-> NextSeq(buffer)]
<1>1. buffer' = Buffered(buffer, e) /\ outgoing' = [outgoing EXCEPT ![y] = e]
  BY DEF Broadcast
<1>2. NextSeq(buffer) \in Nat /\ NextSeq(buffer) >= 1
  <2>1. buffer \in Seq(Event) BY DEF IInv, TypeOK
  <2>2. CASE buffer = <<>> BY <2>2 DEF NextSeq
  <2>3. CASE buffer # <<>>
    <3>1. buffer[Len(buffer)] \in Event BY <2>1, <2>3
    <3>2. buffer[Len(buffer)].seq \in Nat BY <3>1 DEF Event
    <3> QED BY <2>3, <3>2 DEF NextSeq
  <2> QED BY <2>2, <2>3
<1>3. e \in Event BY <1>2 DEF Event
<1> QED BY <1>1, <1>2, <1>3

(* What a step of the thread means for the buffer and for the tabs.        *)
SentFirst(e) == \A q \in Runs : outgoing[q].kind = "RUN_STARTED" /\ GoesOn(q, phase', outgoing') => IsStart(e, q)
Onward ==
    /\ Replayable'
    /\ \A q \in Runs : Forth(q, phase, outgoing, buffer, phase', outgoing', buffer')
    /\ \/ sent' = sent /\ \A q \in Runs : ~(outgoing[q].kind = "RUN_STARTED" /\ GoesOn(q, phase', outgoing'))
       \/ \E e \in Event : sent' = Append(sent, e) /\ Sends(e, phase, outgoing) /\ SentFirst(e)

\* The part of Onward that is about one run.
Carries(q) ==
    /\ Recorded(q, phase', outgoing', buffer')
    /\ Forth(q, phase, outgoing, buffer, phase', outgoing', buffer')

(* A run that a step is not about.                                         *)
LEMMA OtherCarries ==
    ASSUME NEW q \in Runs, Recorded(q, phase, outgoing, buffer), buffer \in Seq(Event),
           phase'[q] = phase[q], outgoing'[q] = outgoing[q],
           \/ buffer' = buffer
           \/ buffer' = <<>>
           \/ \E e \in Event : e.of # q /\ buffer' = Buffered(buffer, e)
    PROVE  Carries(q) /\ ~(outgoing[q].kind = "RUN_STARTED" /\ GoesOn(q, phase', outgoing'))
<1>1. /\ \A k \in DOMAIN buffer' : buffer'[k].of = q => \E i \in DOMAIN buffer : buffer'[k] = buffer[i]
      /\ \A j, k \in DOMAIN buffer' : j < k /\ buffer'[j].of = q /\ buffer'[k].of = q =>
            \E i, l \in DOMAIN buffer : i < l /\ buffer'[j] = buffer[i] /\ buffer'[k] = buffer[l]
  <2>1. CASE buffer' = buffer BY <2>1
  <2>2. CASE buffer' = <<>> BY <2>2
  <2>3. ASSUME NEW e \in Event, e.of # q, buffer' = Buffered(buffer, e)
        PROVE  <1>1!:
    <3>1. Grows(buffer, buffer', e)
      BY <2>3, BufferedPlaces
    <3> QED BY <2>3, <3>1 DEF Grows
  <2> QED BY <2>1, <2>2, <2>3
<1>2. Recorded(q, phase', outgoing', buffer')
  BY <1>1 DEF Recorded, Ending
<1>3. StartIn(buffer', q) => StartIn(buffer, q)
  BY <1>1 DEF StartIn, IsStart
<1>4. Forth(q, phase, outgoing, buffer, phase', outgoing', buffer')
  BY <1>3 DEF Forth, Ending, GoesOn
<1> QED BY <1>2, <1>4 DEF GoesOn, Carries

(* A step that leaves the broadcasts and the buffer alone: a run that has  *)
(* not started may be claimed or refused, one that has may fail or be      *)
(* released.                                                               *)
LEMMA QuietOnward ==
    ASSUME IInv, Replayable, NEW r \in Runs, UNCHANGED <<outgoing, buffer, sent>>,
           \A q \in Runs : q # r => phase'[q] = phase[q],
           \/ phase[r] \in NotStarted /\ phase'[r] \in NotStarted
           \/ phase[r] = "producing" /\ phase'[r] = "raised"
           \/ phase[r] = "returned" /\ phase'[r] = "over"
           \/ phase'[r] = phase[r]
    PROVE  Onward
<1>1. \A q \in Runs : phase'[q] \in {"producing", "sending"} => phase'[q] = phase[q]
  BY DEF NotStarted
<1>2. \A q \in Runs : Ending(q, phase, outgoing) => Ending(q, phase', outgoing')
  BY DEF NotStarted, Ending
<1>3. \A q \in Runs : GoesOn(q, phase', outgoing') => GoesOn(q, phase, outgoing)
  BY <1>1 DEF GoesOn
<1>4. \A q \in Runs : Recorded(q, phase', outgoing', buffer')
  BY <1>2 DEF Recorded, Replayable
<1>5. \A q \in Runs : Forth(q, phase, outgoing, buffer, phase', outgoing', buffer')
  <2>1. \A q \in Runs : /\ phase[q] = "over" => phase'[q] = "over"
                        /\ phase[q] \notin NotStarted => phase'[q] \notin NotStarted
    BY DEF NotStarted
  <2> QED BY <1>2, <1>3, <2>1 DEF Forth
<1>6. \A q \in Runs : ~(outgoing[q].kind = "RUN_STARTED" /\ GoesOn(q, phase', outgoing'))
  BY DEF GoesOn
<1> QED BY <1>4, <1>5, <1>6 DEF Onward, Replayable

(* A run that sends an event: until then none of its ends is recorded.     *)
LEMMA EmitOnward ==
    ASSUME IInv, Replayable, NEW r \in Runs, Emit(r)
    PROVE  Onward
<1>1. PICK kind \in Kinds :
        /\ Broadcast(r, kind) /\ kind # "RUN_ERROR"
        /\ \/ kind = "RUN_STARTED" /\ phase[r] = "scheduled"
           \/ kind # "RUN_STARTED" /\ phase[r] = "producing"
  BY DEF Emit, Yield, Kinds
<1>2. phase' = [phase EXCEPT ![r] = "sending"] /\ sent' = sent
  BY DEF Emit
<1>3. /\ phase[r] = "scheduled" => buffer = <<>>
      /\ outgoing[r] = Nothing /\ outgoing[r].kind = "CONTENT"
      /\ buffer \in Seq(Event)
  BY <1>1 DEF IInv, TypeOK, Sending, OfTheRun, Nothing
<1>4. PICK e \in Event : /\ e.of = r /\ e.kind = kind /\ e.seq >= 1
                         /\ buffer' = Buffered(buffer, e)
                         /\ outgoing' = [outgoing EXCEPT ![r] = e]
  BY <1>1, <1>3, BroadcastIs
<1>5. Grows(buffer, buffer', e)
  BY <1>3, <1>4, BufferedPlaces
<1>6. /\ phase'[r] = "sending" /\ outgoing'[r] = e
      /\ \A q \in Runs : q # r => phase'[q] = phase[q] /\ outgoing'[q] = outgoing[q]
  BY <1>2, <1>4 DEF IInv, TypeOK
<1>7. Recorded(r, phase, outgoing, buffer) BY DEF Replayable
<1>8. \A j \in DOMAIN buffer : buffer[j].of = r => buffer[j].kind \notin Terminal
  <2>1. ~Ending(r, phase, outgoing) BY <1>1 DEF Ending
  <2> QED BY <1>7, <2>1 DEF Recorded
<1>9. \A k \in DOMAIN buffer' : buffer'[k].kind = "RUN_STARTED" => k = 1
  <2>1. CASE kind = "RUN_STARTED" BY <1>1, <1>3, <1>5, <2>1 DEF Grows
  <2>2. CASE kind # "RUN_STARTED"
    <3> SUFFICES ASSUME NEW k \in DOMAIN buffer', buffer'[k].kind = "RUN_STARTED" PROVE k = 1
      OBVIOUS
    <3>1. PICK i \in DOMAIN buffer : buffer'[k] = buffer[i] /\ k <= i BY <1>4, <1>5, <2>2 DEF Grows
    <3>2. i = 1 BY <3>1 DEF Replayable
    <3>3. buffer' \in Seq(Event) BY <1>3, <1>4, BufferedPlaces
    <3>4. k \in Nat /\ k >= 1 BY <3>3
    <3> QED BY <3>1, <3>2, <3>4
  <2> QED BY <2>1, <2>2
<1>a. \A k \in DOMAIN buffer' : buffer'[k].of \in Emits => buffer'[k].kind = "CONTENT"
  <2>1. \A k \in DOMAIN buffer' : buffer'[k] = e \/ \E i \in DOMAIN buffer : buffer'[k] = buffer[i]
    BY <1>5 DEF Grows
  <2>2. r \notin Emits OBVIOUS
  <2> QED BY <1>4, <2>1, <2>2 DEF Replayable
<1>10. Recorded(r, phase', outgoing', buffer')
  <2>1. ASSUME NEW j \in DOMAIN buffer', buffer'[j].of = r
        PROVE  /\ outgoing'[r].kind = "RUN_STARTED" => buffer'[j].kind = "RUN_STARTED"
               /\ buffer'[j].kind \in Terminal => Ending(r, phase', outgoing')
    <3>1. kind = "RUN_STARTED" => buffer'[j] = e BY <1>1, <1>3, <1>5 DEF Grows
    <3>2. buffer'[j].kind \in Terminal => buffer'[j] = e BY <1>5, <1>8, <2>1 DEF Grows
    <3>3. e.kind \in Terminal => Ending(r, phase', outgoing') BY <1>1, <1>4, <1>6 DEF Ending, Terminal
    <3> QED BY <1>4, <1>6, <3>1, <3>2, <3>3
  <2>2. ASSUME NEW j \in DOMAIN buffer', NEW k \in DOMAIN buffer',
               j < k, buffer'[j].of = r, buffer'[k].of = r, buffer'[j].kind \in Terminal
        PROVE  buffer'[k].kind \in Terminal
    <3>1. PICK i \in DOMAIN buffer : buffer'[j] = buffer[i] BY <1>5, <2>2 DEF Grows
    <3> QED BY <1>8, <2>2, <3>1
  <2> QED BY <1>4, <1>6, <2>1, <2>2 DEF Recorded
<1>11. Forth(r, phase, outgoing, buffer, phase', outgoing', buffer')
  <2>1. CASE kind = "RUN_STARTED" BY <1>1, <1>4, <1>6, <2>1 DEF Forth, NotStarted, GoesOn
  <2>2. CASE kind # "RUN_STARTED"
    <3>1. StartIn(buffer', r) => StartIn(buffer, r)
      <4>1. \A k \in DOMAIN buffer' : buffer'[k] = e \/ \E i \in DOMAIN buffer : buffer'[k] = buffer[i]
        BY <1>5 DEF Grows
      <4> QED BY <1>4, <2>2, <4>1 DEF StartIn, IsStart
    <3>2. GoesOn(r, phase, outgoing) BY <1>1, <1>3, <2>2 DEF GoesOn
    <3>3. ~Ending(r, phase, outgoing) BY <1>1 DEF Ending
    <3> QED BY <1>1, <1>4, <1>6, <2>2, <3>1, <3>2, <3>3 DEF Forth, NotStarted
  <2> QED BY <2>1, <2>2
<1>12. \A q \in Runs : q # r => Carries(q) /\ ~(outgoing[q].kind = "RUN_STARTED" /\ GoesOn(q, phase', outgoing'))
  BY <1>3, <1>4, <1>6, OtherCarries DEF Replayable
<1>13. ~(outgoing[r].kind = "RUN_STARTED" /\ GoesOn(r, phase', outgoing'))
  BY <1>3
<1> QED BY <1>2, <1>9, <1>a, <1>10, <1>11, <1>12, <1>13 DEF Onward, Replayable, Carries

(* The report of a run that was stopped or failed.                         *)
LEMMA ReportOnward ==
    ASSUME IInv, Replayable, NEW r \in Runs, Report(r)
    PROVE  Onward
<1>1. Broadcast(r, "RUN_ERROR") /\ phase[r] \in {"stopped", "raised"}
      /\ phase' = [phase EXCEPT ![r] = "reporting"] /\ sent' = sent
  BY DEF Report
<1>2. buffer \in Seq(Event) BY DEF IInv, TypeOK
<1>3. PICK e \in Event : /\ e.of = r /\ e.kind = "RUN_ERROR" /\ e.seq >= 1
                         /\ buffer' = Buffered(buffer, e)
                         /\ outgoing' = [outgoing EXCEPT ![r] = e]
  <2>1. "RUN_ERROR" \in Kinds BY DEF Kinds
  <2> QED BY <1>1, <2>1, BroadcastIs
<1>4. Grows(buffer, buffer', e) /\ buffer' \in Seq(Event)
  BY <1>2, <1>3, BufferedPlaces
<1>5. /\ phase'[r] = "reporting" /\ outgoing'[r] = e
      /\ \A q \in Runs : q # r => phase'[q] = phase[q] /\ outgoing'[q] = outgoing[q]
  BY <1>1, <1>3 DEF IInv, TypeOK
<1>6. Recorded(r, phase, outgoing, buffer) BY DEF Replayable
<1>7. Ending(r, phase', outgoing') BY <1>5 DEF Ending
<1>8. \A k \in DOMAIN buffer' : buffer'[k].kind = "RUN_STARTED" => k = 1
  <2> SUFFICES ASSUME NEW k \in DOMAIN buffer', buffer'[k].kind = "RUN_STARTED" PROVE k = 1
    OBVIOUS
  <2>1. PICK i \in DOMAIN buffer : buffer'[k] = buffer[i] /\ k <= i BY <1>3, <1>4 DEF Grows
  <2>2. i = 1 BY <2>1 DEF Replayable
  <2>3. k \in Nat /\ k >= 1 BY <1>4
  <2> QED BY <2>1, <2>2, <2>3
<1>a. \A k \in DOMAIN buffer' : buffer'[k].of \in Emits => buffer'[k].kind = "CONTENT"
  <2>1. \A k \in DOMAIN buffer' : buffer'[k] = e \/ \E i \in DOMAIN buffer : buffer'[k] = buffer[i]
    BY <1>4 DEF Grows
  <2>2. r \notin Emits OBVIOUS
  <2> QED BY <1>3, <2>1, <2>2 DEF Replayable
<1>9. Recorded(r, phase', outgoing', buffer')
  <2>1. ASSUME NEW j \in DOMAIN buffer', NEW k \in DOMAIN buffer',
               j < k, buffer'[j].of = r, buffer'[k].of = r, buffer'[j].kind \in Terminal
        PROVE  buffer'[k].kind \in Terminal
    <3>1. PICK i \in DOMAIN buffer : /\ buffer'[j] = buffer[i]
                                     /\ buffer'[k] = e \/ \E l \in DOMAIN buffer : i < l /\ buffer'[k] = buffer[l]
      BY <1>4, <2>1 DEF Grows
    <3>2. CASE buffer'[k] = e BY <1>3, <3>2 DEF Terminal
    <3>3. CASE buffer'[k] # e BY <1>6, <2>1, <3>1, <3>3 DEF Recorded
    <3> QED BY <3>2, <3>3
  <2> QED BY <1>3, <1>5, <1>7, <2>1 DEF Recorded
<1>10. Forth(r, phase, outgoing, buffer, phase', outgoing', buffer')
  <2>1. StartIn(buffer', r) => StartIn(buffer, r)
    <3>1. \A k \in DOMAIN buffer' : buffer'[k] = e \/ \E i \in DOMAIN buffer : buffer'[k] = buffer[i]
      BY <1>4 DEF Grows
    <3> QED BY <1>3, <3>1 DEF StartIn, IsStart
  <2> QED BY <1>1, <1>3, <1>5, <1>7, <2>1 DEF Forth, NotStarted, GoesOn
<1>11. \A q \in Runs : q # r => Carries(q) /\ ~(outgoing[q].kind = "RUN_STARTED" /\ GoesOn(q, phase', outgoing'))
  BY <1>2, <1>3, <1>5, OtherCarries DEF Replayable
<1>12. ~(outgoing[r].kind = "RUN_STARTED" /\ GoesOn(r, phase', outgoing'))
  BY <1>5 DEF GoesOn
<1> QED BY <1>1, <1>8, <1>a, <1>9, <1>10, <1>11, <1>12 DEF Onward, Replayable, Carries

(* An event of a run that the group gets: the run that has the thread is   *)
(* the only one that has begun and is not over.                            *)
LEMMA RunSends ==
    ASSUME IInv, History, Replayable, NEW r \in Runs, outgoing[r] # Nothing
    PROVE  outgoing[r] \in Event /\ outgoing[r].of = r /\ Sends(outgoing[r], phase, outgoing)
<1>1. outgoing[r] \in Event /\ outgoing[r].of = r
  BY DEF IInv, TypeOK, History, Told, TellsOf
<1>2. /\ phase[r] \in {"sending", "reporting"}
      /\ phase[r] = "reporting" => outgoing[r].kind = "RUN_ERROR"
      /\ phase[r] = "sending" => outgoing[r].kind # "RUN_ERROR"
  BY DEF IInv, Sending
<1>3. \A q \in Runs : q # r => phase[q] \in NotStarted \cup {"over"}
  <2>1. \A q \in Runs : phase[q] \in Holding => q = r
    BY <1>2, HolderIsActive DEF Holding, Phases, TaskPhases
  <2>2. \A q \in Runs : phase[q] \in Phases BY DEF IInv, TypeOK
  <2> QED BY <2>1, <2>2 DEF Holding, NotStarted
<1>4. outgoing[r].seq \in Nat /\ outgoing[r].seq >= 1
  BY Numbers DEF Replayable, Recorded
<1> QED BY <1>1, <1>2, <1>3, <1>4 DEF Sends, Numbered

(* The broadcast of a run's event returns, or the run is stopped in it: if *)
(* the group gets the event, it is the run's, and the run has told of its  *)
(* start when it goes on.                                                  *)
LEMMA SentOnward ==
    ASSUME IInv, History, Replayable, NEW r \in Runs,
           outgoing' = [outgoing EXCEPT ![r] = Nothing],
           \A q \in Runs : q # r => phase'[q] = phase[q],
           buffer' = buffer \/ buffer' = <<>>,
           \/ /\ phase'[r] = "stopped" /\ phase[r] \in TaskPhases
              /\ sent' = sent \/ (outgoing[r] # Nothing /\ sent' = Append(sent, outgoing[r]))
           \/ /\ outgoing[r] # Nothing /\ sent' = Append(sent, outgoing[r])
              /\ \/ phase'[r] = "over" /\ phase[r] = "reporting"
                 \/ phase'[r] = "returned" /\ phase[r] = "sending" /\ outgoing[r].kind = "RUN_FINISHED"
                 \/ phase'[r] = "producing" /\ phase[r] = "sending" /\ outgoing[r].kind # "RUN_FINISHED"
    PROVE  Onward
<1>1. outgoing'[r] = Nothing /\ \A q \in Runs : q # r => outgoing'[q] = outgoing[q]
  BY DEF IInv, TypeOK
<1>2. Nothing.kind = "CONTENT" /\ buffer \in Seq(Event) BY DEF Nothing, IInv, TypeOK
<1>3. Recorded(r, phase, outgoing, buffer) BY DEF Replayable
<1>4. Ending(r, phase, outgoing) => Ending(r, phase', outgoing')
  BY DEF Ending, TaskPhases
<1>5. (\A k \in DOMAIN buffer' : buffer'[k].kind = "RUN_STARTED" => k = 1)
      /\ (\A k \in DOMAIN buffer' : buffer'[k].of \in Emits => buffer'[k].kind = "CONTENT")
  BY DEF Replayable
<1>6. Recorded(r, phase', outgoing', buffer')
  BY <1>1, <1>2, <1>3, <1>4 DEF Recorded
<1>7. Forth(r, phase, outgoing, buffer, phase', outgoing', buffer')
  <2>1. StartIn(buffer', r) => StartIn(buffer, r) BY DEF StartIn
  <2> QED BY <1>1, <1>2, <1>4, <2>1 DEF Forth, NotStarted, GoesOn, TaskPhases
<1>8. \A q \in Runs : q # r => Carries(q) /\ ~(outgoing[q].kind = "RUN_STARTED" /\ GoesOn(q, phase', outgoing'))
  BY <1>1, <1>2, OtherCarries DEF Replayable
<1>9. CASE sent' = sent /\ phase'[r] = "stopped"
  <2>1. ~GoesOn(r, phase', outgoing') BY <1>9 DEF GoesOn
  <2> QED BY <1>5, <1>6, <1>7, <1>8, <1>9, <2>1 DEF Onward, Replayable, Carries
<1>10. CASE outgoing[r] # Nothing /\ sent' = Append(sent, outgoing[r])
  <2>1. outgoing[r] \in Event /\ outgoing[r].of = r /\ Sends(outgoing[r], phase, outgoing)
    BY <1>10, RunSends
  <2>2. SentFirst(outgoing[r]) BY <1>8, <2>1 DEF SentFirst, IsStart
  <2> QED BY <1>5, <1>6, <1>7, <1>8, <1>10, <2>1, <2>2 DEF Onward, Replayable, Carries
<1> QED BY <1>9, <1>10

(* emit_to_thread changes nothing of a run.                                *)
LEMMA EmitToThreadOnward ==
    ASSUME IInv, History, Replayable, NEW x \in Emits, EmitToThread(x) \/ EmittedToThread(x)
    PROVE  Onward
<1>0. buffer \in Seq(Event) /\ x \notin Runs BY DEF IInv, TypeOK
<1>1. CASE EmitToThread(x) /\ buffer # <<>>
  <2>1. Broadcast(x, "CONTENT") /\ phase' = phase /\ sent' = sent
    BY <1>1 DEF EmitToThread
  <2>2. PICK e \in Event : /\ e.of = x /\ e.kind = "CONTENT"
                           /\ buffer' = Buffered(buffer, e)
                           /\ outgoing' = [outgoing EXCEPT ![x] = e]
    <3>1. "CONTENT" \in Kinds BY DEF Kinds
    <3> QED BY <2>1, <3>1, BroadcastIs
  <2>3. Grows(buffer, buffer', e) /\ buffer' \in Seq(Event)
    BY <1>0, <2>2, BufferedPlaces
  <2>4. \A q \in Runs : outgoing'[q] = outgoing[q] BY <1>0, <2>2 DEF IInv, TypeOK
  <2>5. \A k \in DOMAIN buffer' : buffer'[k].kind = "RUN_STARTED" => k = 1
    <3> SUFFICES ASSUME NEW k \in DOMAIN buffer', buffer'[k].kind = "RUN_STARTED" PROVE k = 1
      OBVIOUS
    <3>1. PICK i \in DOMAIN buffer : buffer'[k] = buffer[i] /\ k <= i BY <2>2, <2>3 DEF Grows
    <3>2. i = 1 BY <3>1 DEF Replayable
    <3>3. k \in Nat /\ k >= 1 BY <2>3
    <3> QED BY <3>1, <3>2, <3>3
  <2>a. \A k \in DOMAIN buffer' : buffer'[k].of \in Emits => buffer'[k].kind = "CONTENT"
    <3>1. \A k \in DOMAIN buffer' : buffer'[k] = e \/ \E i \in DOMAIN buffer : buffer'[k] = buffer[i]
      BY <2>3 DEF Grows
    <3> QED BY <2>2, <3>1 DEF Replayable
  <2>6. \A q \in Runs : Carries(q) /\ ~(outgoing[q].kind = "RUN_STARTED" /\ GoesOn(q, phase', outgoing'))
    BY <1>0, <2>1, <2>2, <2>4, OtherCarries DEF Replayable
  <2> QED BY <2>1, <2>5, <2>a, <2>6 DEF Onward, Replayable, Carries
<1>2. CASE EmitToThread(x) /\ buffer = <<>>
  <2>1. /\ phase' = phase /\ sent' = sent /\ buffer' = buffer
        /\ \A q \in Runs : outgoing'[q] = outgoing[q]
    BY <1>0, <1>2 DEF EmitToThread, IInv, TypeOK
  <2>2. \A q \in Runs : Carries(q) /\ ~(outgoing[q].kind = "RUN_STARTED" /\ GoesOn(q, phase', outgoing'))
    BY <1>0, <2>1, OtherCarries DEF Replayable
  <2> QED BY <2>1, <2>2 DEF Onward, Replayable, Carries
<1>3. CASE EmittedToThread(x)
  <2>1. /\ phase' = phase /\ outgoing[x] # Nothing /\ sent' = Append(sent, outgoing[x])
        /\ outgoing' = [outgoing EXCEPT ![x] = Nothing]
        /\ buffer' = buffer \/ buffer' = <<>>
    BY <1>3 DEF EmittedToThread, Delivered
  <2>2. \A q \in Runs : outgoing'[q] = outgoing[q] BY <1>0, <2>1 DEF IInv, TypeOK
  <2>3. (\A k \in DOMAIN buffer' : buffer'[k].kind = "RUN_STARTED" => k = 1)
      /\ (\A k \in DOMAIN buffer' : buffer'[k].of \in Emits => buffer'[k].kind = "CONTENT")
    BY <2>1 DEF Replayable
  <2>4. \A q \in Runs : Carries(q) /\ ~(outgoing[q].kind = "RUN_STARTED" /\ GoesOn(q, phase', outgoing'))
    BY <1>0, <2>1, <2>2, OtherCarries DEF Replayable
  <2>5. outgoing[x] \in Event /\ outgoing[x].of = x /\ outgoing[x].kind = "CONTENT"
    BY <2>1 DEF IInv, TypeOK, History, Told, EmitsTheirs, Sending
  <2>6. Sends(outgoing[x], phase, outgoing) BY <1>0, <2>5 DEF Sends, Numbered
  <2>7. SentFirst(outgoing[x]) BY <2>4 DEF SentFirst
  <2> QED BY <2>1, <2>3, <2>4, <2>5, <2>6, <2>7 DEF Onward, Replayable, Carries
<1> QED BY <1>1, <1>2, <1>3

(* Every step of the thread. *)
LEMMA NextOnward == IInv /\ History /\ Replayable /\ [Next]_vars => Onward
<1> SUFFICES ASSUME IInv, History, Replayable, [Next]_vars PROVE Onward
  OBVIOUS
<1>0. phase \in [Runs -> Phases] /\ outgoing \in [Runs \cup Emits -> Event \cup {Nothing}]
  BY DEF IInv, TypeOK
<1>1. CASE UNCHANGED vars
  <2>1. \A q \in Runs : Forth(q, phase, outgoing, buffer, phase', outgoing', buffer')
    BY <1>1 DEF Forth, vars
  <2>2. \A q \in Runs : ~(outgoing[q].kind = "RUN_STARTED" /\ GoesOn(q, phase', outgoing'))
    BY <1>1 DEF GoesOn, vars
  <2> QED BY <1>1, <2>1, <2>2 DEF Onward, Replayable, vars
<1>2. ASSUME NEW r \in Runs, HandleRun(r) \/ StartRun(r) \/ Refuse(r) \/ Cancel(r) \/ RunNext(r) PROVE Onward
  <2>1. CASE HandleRun(r) BY <1>0, <2>1, QuietOnward DEF HandleRun, NotStarted
  <2>2. CASE StartRun(r) BY <1>0, <2>2, QuietOnward DEF StartRun, NotStarted
  <2>3. CASE Refuse(r) BY <1>0, <2>3, QuietOnward DEF Refuse, NotStarted
  <2>4. CASE Cancel(r) BY <1>0, <2>4, QuietOnward DEF Cancel
  <2>5. CASE Drive(r) BY <1>0, <2>5, QuietOnward DEF Drive, NotStarted
  <2>6. CASE Emit(r) BY <2>6, EmitOnward
  <2>7. CASE Emitted(r)
    <3>1. /\ phase[r] = "sending"
          /\ phase' = [phase EXCEPT ![r] = IF outgoing[r].kind = "RUN_FINISHED" THEN "returned" ELSE "producing"]
          /\ outgoing[r] # Nothing /\ sent' = Append(sent, outgoing[r])
          /\ outgoing' = [outgoing EXCEPT ![r] = Nothing]
          /\ buffer' = buffer \/ buffer' = <<>>
      BY <2>7 DEF Emitted, Delivered
    <3> QED BY <1>0, <3>1, SentOnward
  <2>8. CASE ProviderRaises(r) BY <1>0, <2>8, QuietOnward DEF ProviderRaises
  <2>9. CASE Stopped(r)
    <3>1. /\ phase[r] \in TaskPhases /\ phase' = [phase EXCEPT ![r] = "stopped"]
          /\ sent' = sent \/ (outgoing[r] # Nothing /\ sent' = Append(sent, outgoing[r]))
          /\ outgoing' = [outgoing EXCEPT ![r] = Nothing]
          /\ buffer' = buffer
      BY <2>9 DEF Stopped
    <3> QED BY <1>0, <3>1, SentOnward
  <2>10. CASE Report(r) BY <2>10, ReportOnward
  <2>11. CASE Reported(r)
    <3>1. /\ phase[r] = "reporting" /\ phase' = [phase EXCEPT ![r] = "over"]
          /\ outgoing[r] # Nothing /\ sent' = Append(sent, outgoing[r])
          /\ outgoing' = [outgoing EXCEPT ![r] = Nothing]
          /\ buffer' = buffer \/ buffer' = <<>>
      BY <2>11 DEF Reported, Delivered
    <3> QED BY <1>0, <3>1, SentOnward
  <2>12. CASE Finished(r) BY <1>0, <2>12, QuietOnward DEF Finished
  <2> QED BY <1>2, <2>1, <2>2, <2>3, <2>4, <2>5, <2>6, <2>7, <2>8, <2>9, <2>10, <2>11, <2>12 DEF RunNext
<1>3. ASSUME NEW x \in Emits, EmitToThread(x) \/ EmittedToThread(x) PROVE Onward
  BY <1>3, EmitToThreadOnward
<1> QED BY <1>1, <1>2, <1>3 DEF Next

-----------------------------------------------------------------------------
(* Events that move along a line leave it as it is.                        *)
LEMMA FirstAndRest ==
    ASSUME NEW S, NEW p \in Seq(S), p # <<>>
    PROVE  Head(p) \in S /\ Tail(p) \in Seq(S) /\ p = <<Head(p)>> \o Tail(p)
<1>1. Head(p) \in S /\ Tail(p) \in Seq(S) BY HeadTailProperties
<1>2. <<Head(p)>> \in Seq(S) /\ Len(<<Head(p)>>) = 1 /\ <<Head(p)>>[1] = p[1] BY <1>1
<1>3. /\ Len(p) \in Nat /\ Len(p) >= 1 /\ Len(Tail(p)) = Len(p) - 1
      /\ \A k \in 1 .. Len(Tail(p)) : Tail(p)[k] = p[k + 1]
  BY HeadTailProperties
<1> DEFINE hd == <<Head(p)>>
           tl == Tail(p)
<1>4. hd \o tl \in Seq(S) /\ Len(hd \o tl) = Len(p)
  BY <1>1, <1>2, <1>3, ConcatProperties
<1>5. ASSUME NEW k \in 1 .. Len(p) PROVE (hd \o tl)[k] = p[k]
  <2>1. (hd \o tl)[k] = IF k <= Len(hd) THEN hd[k] ELSE tl[k - Len(hd)]
    BY <1>1, <1>2, <1>3, ConcatProperties
  <2> HIDE DEF hd, tl
  <2>2. Len(hd) = 1 /\ hd[1] = p[1] BY <1>2 DEF hd
  <2>3. k # 1 => k - 1 \in 1 .. Len(tl) /\ (k - 1) + 1 = k BY <1>3 DEF tl
  <2>4. k # 1 => tl[k - 1] = p[k] BY <1>3, <2>3 DEF tl
  <2> QED BY <1>3, <2>1, <2>2, <2>4
<1> HIDE DEF hd, tl
<1>6. hd \o tl = p BY <1>4, <1>5, SeqEqual
<1> QED BY <1>1, <1>6 DEF hd, tl

(* The first of what waits goes last in front of it.                       *)
LEMMA MovesUp ==
    ASSUME NEW S, NEW w \in Seq(S), NEW p \in Seq(S), p # <<>>
    PROVE  Append(w, Head(p)) \in Seq(S) /\ Append(w, Head(p)) \o Tail(p) = w \o p
<1>1. Head(p) \in S /\ Tail(p) \in Seq(S) /\ p = <<Head(p)>> \o Tail(p) BY FirstAndRest
<1>2. <<Head(p)>> \in Seq(S) BY <1>1
<1>3. Append(w, Head(p)) = w \o <<Head(p)>> BY <1>1, AppendIsConcat
<1>4. (w \o <<Head(p)>>) \o Tail(p) = w \o (<<Head(p)>> \o Tail(p))
  BY <1>1, <1>2, ConcatAssociative
<1>5. Append(w, Head(p)) \in Seq(S) BY <1>1
<1> QED BY <1>1, <1>3, <1>4, <1>5

(* The first of two sequences' concatenation is taken from the first.      *)
LEMMA RestOfBoth ==
    ASSUME NEW S, NEW w \in Seq(S), w # <<>>, NEW p \in Seq(S)
    PROVE  w \o p # <<>> /\ Tail(w \o p) = Tail(w) \o p /\ Head(w \o p) = Head(w)
<1>1. Head(w) \in S /\ Tail(w) \in Seq(S) /\ w = <<Head(w)>> \o Tail(w) BY FirstAndRest
<1>2. <<Head(w)>> \in Seq(S) BY <1>1
<1>3. w \o p = <<Head(w)>> \o (Tail(w) \o p) BY <1>1, <1>2, ConcatAssociative
<1>4. w \o p \in Seq(S) /\ Len(w \o p) = Len(w) + Len(p) /\ Len(w) >= 1 /\ Len(w) \in Nat /\ Len(p) \in Nat
  BY ConcatProperties
<1>5. w \o p # <<>> BY <1>4
<1>6. Head(w \o p) = Head(w)
  <2>1. (w \o p)[1] = w[1] BY <1>4, ConcatProperties
  <2> QED BY <1>4, <1>5, <2>1
<1>7. Tail(w) \o p \in Seq(S) /\ Tail(w \o p) \in Seq(S) BY <1>1, <1>4, <1>5, ConcatProperties
<1>8. w \o p = <<Head(w)>> \o Tail(w \o p) BY <1>4, <1>5, <1>6, FirstAndRest
<1>9. Tail(w \o p) = Tail(w) \o p BY <1>2, <1>3, <1>7, <1>8, ConcatSimplifications
<1> QED BY <1>5, <1>6, <1>9

(* Concatenation, of sequences of events.                                  *)
Together(a, w, p) == (a \o w) \o p = a \o (w \o p)
LEMMA Regroup ==
    ASSUME NEW a \in Seq(Event), NEW w \in Seq(Event), NEW p \in Seq(Event)
    PROVE  Together(a, w, p)
  BY ConcatAssociative DEF Together

\* A line as its four parts: applied, on the wire, to replay, held back.
InAll(a, w, p, h) == a \o w \o p \o h
Behind(a, w, p, h) == a \o (w \o (p \o h))
Aligned(a, w, p, h) == InAll(a, w, p, h) = Behind(a, w, p, h)

(* The line of a tab starts with what it applied.                          *)
LEMMA LineParts ==
    ASSUME NEW a \in Seq(Event), NEW w \in Seq(Event), NEW p \in Seq(Event), NEW h \in Seq(Event)
    PROVE  /\ InAll(a, w, p, h) \in Seq(Event)
           /\ Aligned(a, w, p, h)
           /\ Len(a) \in 0 .. Len(InAll(a, w, p, h))
<1>1. /\ w \o p \in Seq(Event) /\ p \o h \in Seq(Event) /\ w \o (p \o h) \in Seq(Event)
      /\ a \o w \in Seq(Event) /\ (a \o w) \o p \in Seq(Event)
  BY ConcatProperties
<1>t. Together(a, w, p) /\ Together(a, w \o p, h) /\ Together(w, p, h) BY <1>1, Regroup
<1>2. (a \o w) \o p = a \o (w \o p) BY <1>t DEF Together
<1>3. (a \o (w \o p)) \o h = a \o ((w \o p) \o h) BY <1>t DEF Together
<1>4. (w \o p) \o h = w \o (p \o h) BY <1>t DEF Together
<1>5. a \o (w \o (p \o h)) \in Seq(Event)
      /\ Len(a \o (w \o (p \o h))) = Len(a) + Len(w \o (p \o h))
  BY <1>1, ConcatProperties
<1>6. InAll(a, w, p, h) = a \o (w \o (p \o h)) BY <1>2, <1>3, <1>4 DEF InAll
<1>7. Len(a) \in Nat /\ Len(w \o (p \o h)) \in Nat BY <1>1
<1> QED BY <1>5, <1>6, <1>7 DEF Behind, Aligned

(* What moves from the replay to the wire stays where it is in the line;   *)
LEMMA LineMoves ==
    ASSUME NEW a \in Seq(Event), NEW w \in Seq(Event), NEW p \in Seq(Event), NEW h \in Seq(Event), p # <<>>
    PROVE  InAll(a, Append(w, Head(p)), Tail(p), h) = InAll(a, w, p, h)
<1>1. Append(w, Head(p)) \in Seq(Event) /\ Append(w, Head(p)) \o Tail(p) = w \o p BY MovesUp
<1>2. Tail(p) \in Seq(Event) BY FirstAndRest
<1>3. (a \o Append(w, Head(p))) \o Tail(p) = a \o (Append(w, Head(p)) \o Tail(p))
  <2>1. Together(a, Append(w, Head(p)), Tail(p)) BY <1>1, <1>2, Regroup
  <2> QED BY <2>1 DEF Together
<1>4. (a \o w) \o p = a \o (w \o p) BY Regroup DEF Together
<1> QED BY <1>1, <1>3, <1>4 DEF InAll

(* and so does what is applied.                                            *)
LEMMA LineApplies ==
    ASSUME NEW a \in Seq(Event), NEW w \in Seq(Event), NEW p \in Seq(Event), NEW h \in Seq(Event), w # <<>>
    PROVE  InAll(Append(a, Head(w)), Tail(w), p, h) = InAll(a, w, p, h)
<1>1. Append(a, Head(w)) \o Tail(w) = a \o w BY MovesUp
<1> QED BY <1>1 DEF InAll

(* What is sent comes last in a line.                                      *)
ComesLast(a, w, p, h, e) ==
    /\ InAll(a, w, p, Append(h, e)) = Append(InAll(a, w, p, h), e)
    /\ InAll(a, Append(w, e), <<>>, <<>>) = Append(InAll(a, w, <<>>, <<>>), e)
LEMMA LineGrows ==
    ASSUME NEW a \in Seq(Event), NEW w \in Seq(Event), NEW p \in Seq(Event), NEW h \in Seq(Event),
           NEW e \in Event
    PROVE  ComesLast(a, w, p, h, e)
<1>0. /\ a \o w \in Seq(Event) /\ (a \o w) \o p \in Seq(Event) /\ ((a \o w) \o p) \o h \in Seq(Event)
      /\ <<e>> \in Seq(Event)
  BY ConcatProperties
<1>1. ((a \o w) \o p) \o Append(h, e) = Append(((a \o w) \o p) \o h, e)
  <2>1. Append(h, e) = h \o <<e>> BY AppendIsConcat
  <2>2. Append(((a \o w) \o p) \o h, e) = (((a \o w) \o p) \o h) \o <<e>> BY <1>0, AppendIsConcat
  <2>3. (((a \o w) \o p) \o h) \o <<e>> = ((a \o w) \o p) \o (h \o <<e>>)
    <3>1. Together((a \o w) \o p, h, <<e>>) BY <1>0, Regroup
    <3> QED BY <3>1 DEF Together
  <2> QED BY <2>1, <2>2, <2>3
<1>2. a \o Append(w, e) = Append(a \o w, e) /\ (a \o Append(w, e)) \o <<>> = a \o Append(w, e)
      /\ (a \o w) \o <<>> = a \o w
  <2>1. Append(w, e) = w \o <<e>> /\ Append(w, e) \in Seq(Event) BY AppendIsConcat
  <2>2. Append(a \o w, e) = (a \o w) \o <<e>> BY <1>0, AppendIsConcat
  <2>3. (a \o w) \o <<e>> = a \o (w \o <<e>>)
    <3>1. Together(a, w, <<e>>) BY <1>0, Regroup
    <3> QED BY <3>1 DEF Together
  <2>4. a \o Append(w, e) \in Seq(Event) BY <2>1, ConcatProperties
  <2> QED BY <1>0, <2>1, <2>2, <2>3, <2>4, ConcatEmptySeq
<1> QED BY <1>1, <1>2 DEF InAll, ComesLast

-----------------------------------------------------------------------------
(* The inductive invariant of a tab, given that replays go first.          *)
Follows(t) ==
    /\ joined[t] # "joining" => replay[t] = <<>> /\ held[t] = <<>>
    /\ joined[t] = "out" => wire[t] = <<>>
    /\ Watches(Line(t), Len(applied[t]), runId[t], running[t], lastSeq[t], joined[t] # "out",
               phase, outgoing, buffer)
TabsIInv ==
    /\ IInv /\ History /\ Replayable /\ TabsTypeOK
    /\ \A t \in Tabs : Follows(t)

(* The parts of a tab's line.                                              *)
LEMMA TabLine ==
    ASSUME TabsTypeOK, NEW t \in Tabs
    PROVE  /\ applied[t] \in Seq(Event) /\ wire[t] \in Seq(Event)
           /\ replay[t] \in Seq(Event) /\ held[t] \in Seq(Event)
           /\ Line(t) = InAll(applied[t], wire[t], replay[t], held[t])
           /\ Line(t) \in Seq(Event) /\ Len(applied[t]) \in 0 .. Len(Line(t)) /\ Len(applied[t]) \in Nat
<1>1. /\ applied[t] \in Seq(Event) /\ wire[t] \in Seq(Event)
      /\ replay[t] \in Seq(Event) /\ held[t] \in Seq(Event)
  BY DEF TabsTypeOK
<1>2. Line(t) = InAll(applied[t], wire[t], replay[t], held[t]) BY DEF Line, InAll
<1>3. /\ InAll(applied[t], wire[t], replay[t], held[t]) \in Seq(Event)
      /\ Len(applied[t]) \in 0 .. Len(InAll(applied[t], wire[t], replay[t], held[t]))
  BY <1>1, LineParts
<1>4. Len(applied[t]) \in Nat BY <1>1
<1> QED BY <1>1, <1>2, <1>3, <1>4

(* A step that is about another tab.                                       *)
LEMMA OneTab ==
    ASSUME UNCHANGED vars, \A u \in Tabs : Follows(u), NEW t \in Tabs, Follows(t)',
           \A u \in Tabs : u # t =>
              /\ joined'[u] = joined[u] /\ replay'[u] = replay[u] /\ held'[u] = held[u] /\ wire'[u] = wire[u]
              /\ applied'[u] = applied[u] /\ runId'[u] = runId[u] /\ running'[u] = running[u]
              /\ lastSeq'[u] = lastSeq[u]
    PROVE  \A u \in Tabs : Follows(u)'
<1> SUFFICES ASSUME NEW u \in Tabs, u # t PROVE Follows(u)'
  OBVIOUS
<1>1. Follows(u) OBVIOUS
<1>2. Line(u)' = Line(u) BY DEF Line
<1> QED BY <1>1, <1>2 DEF Follows, vars

(* The buffer replays the run that has the thread.                         *)
LEMMA BufferReplays ==
    ASSUME IInv, Replayable
    PROVE  /\ \A k \in DOMAIN buffer :
                 /\ buffer[k].seq >= 1
                 /\ \/ Numbered(buffer[k]) /\ buffer[k].of = active
                    \/ ~Numbered(buffer[k]) /\ buffer[k].kind = "CONTENT"
           /\ \A q \in Runs : StartIn(buffer, q) => q = active
           /\ buffer # <<>> => /\ active \in Runs /\ Recorded(active, phase, outgoing, buffer)
                               /\ phase[active] \notin NotStarted \cup {"over"}
                               /\ \A q \in Runs : q # active => phase[q] \in NotStarted \cup {"over"}
           /\ \A r \in Runs : StartIn(buffer, r) \/ outgoing[r].kind = "RUN_STARTED" => phase[r] # "over"
<1>1. /\ buffer \in Seq(Event) /\ active \in Runs \cup {NoRun} /\ phase \in [Runs -> Phases]
      /\ \A r \in Runs : phase[r] \in Holding <=> active = r
      /\ \A k \in DOMAIN buffer : buffer[k].of \in {active} \cup Emits /\ buffer[k].seq >= 1
      /\ active = NoRun => buffer = <<>>
      /\ \A r \in Runs : phase[r] \in {"claimed", "scheduled", "returned"} => buffer = <<>>
  BY DEF IInv, TypeOK, OneRun, OfTheRun, WellFormed, WellNumbered
<1>2. \A k \in DOMAIN buffer : buffer # <<>> BY <1>1
<1>3. buffer # <<>> => /\ active \in Runs
                       /\ phase[active] \notin NotStarted \cup {"over"}
                       /\ \A q \in Runs : q # active => phase[q] \in NotStarted \cup {"over"}
  BY <1>1 DEF NotStarted, Holding, Phases
<1>4. ASSUME NEW k \in DOMAIN buffer
      PROVE  /\ buffer[k].seq >= 1
             /\ \/ Numbered(buffer[k]) /\ buffer[k].of = active
                \/ ~Numbered(buffer[k]) /\ buffer[k].kind = "CONTENT"
  <2>1. active \in Runs /\ buffer[k].of \in {active} \cup Emits /\ buffer[k].seq >= 1 BY <1>1, <1>2, <1>3
  <2>2. buffer[k].seq # 0 BY <2>1
  <2> QED BY <2>1, <2>2 DEF Numbered, Replayable
<1>5. \A q \in Runs : StartIn(buffer, q) => q = active /\ buffer # <<>>
  BY <1>1, <1>2 DEF StartIn, IsStart
<1>6. \A r \in Runs : outgoing[r].kind = "RUN_STARTED" => phase[r] # "over"
  BY DEF IInv, Sending, Nothing
<1> QED BY <1>3, <1>4, <1>5, <1>6 DEF Replayable

(* on_subscribe reads the buffer.                                          *)
LEMMA JoinFollows ==
    ASSUME TabsIInv, NEW t \in Tabs, Join(t)
    PROVE  TabsTypeOK' /\ \A u \in Tabs : Follows(u)'
<1>0. TabsTypeOK /\ Follows(t) /\ buffer \in Seq(Event) BY DEF TabsIInv, IInv, TypeOK
<1>1. /\ joined[t] = "out" /\ UNCHANGED <<vars, held, wire, lastSeq, runId, running, applied>>
      /\ joined' = [joined EXCEPT ![t] = "joining"]
      /\ joins[t] < MaxJoins /\ joins' = [joins EXCEPT ![t] = @ + 1]
      /\ replay' = [replay EXCEPT ![t] = buffer]
  BY DEF Join
<1>2. TabsTypeOK'
  <2>1. TypeOK' BY <1>0, <1>1 DEF TabsTypeOK, TypeOK, vars
  <2>2. joins[t] + 1 \in 0 .. MaxJoins BY <1>0, <1>1, TabsAssumption DEF TabsTypeOK
  <2> QED BY <1>0, <1>1, <2>1, <2>2 DEF TabsTypeOK
<1>3. /\ applied[t] \in Seq(Event) /\ wire[t] = <<>> /\ replay[t] = <<>> /\ held[t] = <<>>
      /\ Line(t) = InAll(applied[t], <<>>, <<>>, <<>>)
  BY <1>0, <1>1, TabLine DEF Follows
<1>4. Line(t) = applied[t] BY <1>3, ConcatEmptySeq DEF InAll
<1>5. joined'[t] = "joining" /\ replay'[t] = buffer BY <1>0, <1>1 DEF TabsTypeOK
<1>6. Line(t)' = applied[t] \o buffer
  <2>1. applied[t] \o <<>> = applied[t] BY <1>3, ConcatEmptySeq
  <2>2. applied[t] \o buffer \in Seq(Event) BY <1>0, <1>3, ConcatProperties
  <2>3. (applied[t] \o buffer) \o <<>> = applied[t] \o buffer BY <2>2, ConcatEmptySeq
  <2> QED BY <1>1, <1>3, <1>5, <2>1, <2>3 DEF Line
<1>7. Watches(applied[t], Len(applied[t]), runId[t], running[t], lastSeq[t], FALSE, phase, outgoing, buffer)
  BY <1>0, <1>1, <1>4 DEF Follows
<1>8. Watches(applied[t] \o buffer, Len(applied[t]), runId[t], running[t], lastSeq[t], TRUE,
              phase, outgoing, buffer)
  BY <1>0, <1>3, <1>7, BufferReplays, Replayed DEF TabsIInv, Replayable
<1>9. Follows(t)'
  BY <1>1, <1>3, <1>5, <1>6, <1>8 DEF Follows, vars
<1> QED BY <1>0, <1>1, <1>2, <1>9, OneTab DEF TabsIInv, TabsTypeOK

(* A step that moves events along the line of a tab that is joined.        *)
LEMMA SameLine ==
    ASSUME NEW t \in Tabs, Follows(t), UNCHANGED vars, Line(t)' = Line(t),
           applied'[t] = applied[t], runId'[t] = runId[t], running'[t] = running[t], lastSeq'[t] = lastSeq[t],
           joined[t] # "out", joined'[t] # "out",
           joined'[t] # "joining" => replay'[t] = <<>> /\ held'[t] = <<>>
    PROVE  Follows(t)'
  BY DEF Follows, vars

(* Replaying an event moves it from the replay to the wire.                *)
LEMMA ReplayKeepsLine ==
    ASSUME TabsTypeOK, NEW t \in Tabs, Replay(t)
    PROVE  Line(t)' = Line(t)
<1>1. /\ replay[t] # <<>>
      /\ UNCHANGED <<held, applied>>
      /\ wire' = [wire EXCEPT ![t] = Append(@, Head(replay[t]))]
      /\ replay' = [replay EXCEPT ![t] = Tail(@)]
  BY DEF Replay
<1>2. /\ applied[t] \in Seq(Event) /\ wire[t] \in Seq(Event)
      /\ replay[t] \in Seq(Event) /\ held[t] \in Seq(Event)
      /\ Line(t) = InAll(applied[t], wire[t], replay[t], held[t])
  BY TabLine
<1>6. wire'[t] = Append(wire[t], Head(replay[t])) /\ replay'[t] = Tail(replay[t])
  BY <1>1 DEF TabsTypeOK
<1>7. Line(t)' = InAll(applied[t], Append(wire[t], Head(replay[t])), Tail(replay[t]), held[t])
  BY <1>1, <1>6 DEF Line, InAll
<1>8. InAll(applied[t], Append(wire[t], Head(replay[t])), Tail(replay[t]), held[t])
         = InAll(applied[t], wire[t], replay[t], held[t])
  <2>1. PICK a \in Seq(Event), w \in Seq(Event), p \in Seq(Event), h \in Seq(Event) :
            a = applied[t] /\ w = wire[t] /\ p = replay[t] /\ h = held[t]
    BY <1>2
  <2>2. InAll(a, Append(w, Head(p)), Tail(p), h) = InAll(a, w, p, h) BY <1>1, <2>1, LineMoves
  <2> QED BY <2>1, <2>2
<1> QED BY <1>2, <1>7, <1>8

(* send_run_event of a replayed event.                                     *)
LEMMA ReplayFollows ==
    ASSUME TabsIInv, NEW t \in Tabs, Replay(t)
    PROVE  TabsTypeOK' /\ \A u \in Tabs : Follows(u)'
<1>0. TabsTypeOK /\ Follows(t) BY DEF TabsIInv
<1>1. /\ joined[t] = "joining" /\ replay[t] # <<>>
      /\ UNCHANGED <<vars, joined, joins, held, lastSeq, runId, running, applied>>
      /\ wire' = [wire EXCEPT ![t] = Append(@, Head(replay[t]))]
      /\ replay' = [replay EXCEPT ![t] = Tail(@)]
  BY DEF Replay
<1>2. /\ applied[t] \in Seq(Event) /\ wire[t] \in Seq(Event)
      /\ replay[t] \in Seq(Event) /\ held[t] \in Seq(Event)
      /\ Line(t) = InAll(applied[t], wire[t], replay[t], held[t])
  BY <1>0, TabLine
<1>3. Head(replay[t]) \in Event /\ Tail(replay[t]) \in Seq(Event)
  BY <1>1, <1>2, FirstAndRest
<1>4. Append(wire[t], Head(replay[t])) \in Seq(Event) BY <1>2, <1>3, AppendProperties
<1>5. TabsTypeOK'
  <2>1. TypeOK' BY <1>0, <1>1 DEF TabsTypeOK, TypeOK, vars
  <2> QED BY <1>0, <1>1, <1>3, <1>4, <2>1 DEF TabsTypeOK
<1>7. Line(t)' = Line(t) BY <1>0, ReplayKeepsLine
<1>8. Follows(t)' BY <1>0, <1>1, <1>7, SameLine
<1> QED BY <1>0, <1>1, <1>5, <1>8, OneTab DEF TabsIInv, TabsTypeOK

(* What was held back goes behind what is on the wire, and no replay is    *)
(* left between them.                                                      *)
LEMMA JoinedKeepsLine ==
    ASSUME TabsTypeOK, NEW t \in Tabs, Joined(t)
    PROVE  Line(t)' = Line(t)
<1>1. /\ replay[t] = <<>> /\ UNCHANGED <<replay, applied>>
      /\ wire' = [wire EXCEPT ![t] = @ \o held[t]]
      /\ held' = [held EXCEPT ![t] = <<>>]
  BY DEF Joined
<1>2. /\ applied[t] \in Seq(Event) /\ wire[t] \in Seq(Event) /\ held[t] \in Seq(Event)
      /\ Line(t) = InAll(applied[t], wire[t], <<>>, held[t])
  BY <1>1, TabLine
<1>3. wire[t] \o held[t] \in Seq(Event) BY <1>2, ConcatProperties
<1>5. wire'[t] = wire[t] \o held[t] /\ held'[t] = <<>>
  BY <1>1 DEF TabsTypeOK
<1>6. Line(t)' = InAll(applied[t], wire[t] \o held[t], <<>>, <<>>)
  BY <1>1, <1>5 DEF Line, InAll
<1>7. InAll(applied[t], wire[t] \o held[t], <<>>, <<>>) = InAll(applied[t], wire[t], <<>>, held[t])
  <2>1. applied[t] \o wire[t] \in Seq(Event) /\ applied[t] \o (wire[t] \o held[t]) \in Seq(Event)
    BY <1>2, <1>3, ConcatProperties
  <2>2. (applied[t] \o wire[t]) \o held[t] = applied[t] \o (wire[t] \o held[t])
    <3>1. Together(applied[t], wire[t], held[t]) BY <1>2, Regroup
    <3> QED BY <3>1 DEF Together
  <2>3. (applied[t] \o wire[t]) \o <<>> = applied[t] \o wire[t]
        /\ (applied[t] \o (wire[t] \o held[t])) \o <<>> = applied[t] \o (wire[t] \o held[t])
    BY <2>1, ConcatEmptySeq
  <2> QED BY <2>2, <2>3 DEF InAll
<1> QED BY <1>2, <1>6, <1>7

(* on_subscribe is done: what was held back is sent.                       *)
LEMMA JoinedFollows ==
    ASSUME TabsIInv, NEW t \in Tabs, Joined(t)
    PROVE  TabsTypeOK' /\ \A u \in Tabs : Follows(u)'
<1>0. TabsTypeOK /\ Follows(t) BY DEF TabsIInv
<1>1. /\ joined[t] = "joining" /\ replay[t] = <<>>
      /\ UNCHANGED <<vars, joins, replay, lastSeq, runId, running, applied>>
      /\ joined' = [joined EXCEPT ![t] = "in"]
      /\ wire' = [wire EXCEPT ![t] = @ \o held[t]]
      /\ held' = [held EXCEPT ![t] = <<>>]
  BY DEF Joined
<1>2. /\ applied[t] \in Seq(Event) /\ wire[t] \in Seq(Event) /\ held[t] \in Seq(Event)
      /\ Line(t) = InAll(applied[t], wire[t], <<>>, held[t])
  BY <1>0, <1>1, TabLine
<1>3. wire[t] \o held[t] \in Seq(Event) /\ <<>> \in Seq(Event) BY <1>2, ConcatProperties
<1>4. TabsTypeOK'
  <2>1. TypeOK' BY <1>0, <1>1 DEF TabsTypeOK, TypeOK, vars
  <2> QED BY <1>0, <1>1, <1>3, <2>1 DEF TabsTypeOK
<1>5. wire'[t] = wire[t] \o held[t] /\ held'[t] = <<>> /\ joined'[t] = "in"
  BY <1>0, <1>1 DEF TabsTypeOK
<1>6. Line(t)' = Line(t) BY <1>0, JoinedKeepsLine
<1>8. Follows(t)' BY <1>0, <1>1, <1>5, <1>6, SameLine
<1> QED BY <1>0, <1>1, <1>4, <1>8, OneTab DEF TabsIInv, TabsTypeOK

(* The socket drops.                                                       *)
LEMMA DropFollows ==
    ASSUME TabsIInv, NEW t \in Tabs, Drop(t)
    PROVE  TabsTypeOK' /\ \A u \in Tabs : Follows(u)'
<1>0. TabsTypeOK /\ Follows(t) BY DEF TabsIInv
<1>1. /\ UNCHANGED <<vars, joins, lastSeq, runId, running, applied>>
      /\ joined' = [joined EXCEPT ![t] = "out"]
      /\ replay' = [replay EXCEPT ![t] = <<>>]
      /\ held' = [held EXCEPT ![t] = <<>>]
      /\ wire' = [wire EXCEPT ![t] = <<>>]
  BY DEF Drop
<1>2. /\ applied[t] \in Seq(Event) /\ wire[t] \in Seq(Event)
      /\ replay[t] \in Seq(Event) /\ held[t] \in Seq(Event)
      /\ Line(t) = InAll(applied[t], wire[t], replay[t], held[t])
  BY <1>0, TabLine
<1>3. TabsTypeOK'
  <2>1. TypeOK' BY <1>0, <1>1 DEF TabsTypeOK, TypeOK, vars
  <2>2. <<>> \in Seq(Event) OBVIOUS
  <2> QED BY <1>0, <1>1, <2>1, <2>2 DEF TabsTypeOK
<1>4. wire'[t] = <<>> /\ replay'[t] = <<>> /\ held'[t] = <<>> /\ joined'[t] = "out"
  BY <1>0, <1>1 DEF TabsTypeOK
<1>5. Line(t)' = applied[t]
  <2>1. applied[t] \o <<>> = applied[t] BY <1>2, ConcatEmptySeq
  <2> QED BY <1>1, <1>4, <2>1 DEF Line
<1>6. PICK c \in Seq(Event) : Line(t) = applied[t] \o c
  <2>1. wire[t] \o (replay[t] \o held[t]) \in Seq(Event)
    <3>1. replay[t] \o held[t] \in Seq(Event) BY <1>2, ConcatProperties
    <3> QED BY <1>2, <3>1, ConcatProperties
  <2>2. Line(t) = applied[t] \o (wire[t] \o (replay[t] \o held[t]))
    <3>1. PICK a \in Seq(Event), w \in Seq(Event), p \in Seq(Event), h \in Seq(Event) :
              a = applied[t] /\ w = wire[t] /\ p = replay[t] /\ h = held[t]
      BY <1>2
    <3>2. InAll(a, w, p, h) = a \o (w \o (p \o h))
      <4>1. Aligned(a, w, p, h) BY LineParts
      <4> QED BY <4>1 DEF Aligned, Behind
    <3> QED BY <1>2, <3>1, <3>2
  <2> QED BY <2>1, <2>2
<1>7. Watches(applied[t], Len(applied[t]), runId[t], running[t], lastSeq[t], FALSE, phase, outgoing, buffer)
  BY <1>0, <1>2, <1>6, Dropped DEF Follows
<1>8. Follows(t)' BY <1>1, <1>4, <1>5, <1>7 DEF Follows, vars
<1> QED BY <1>0, <1>1, <1>3, <1>8, OneTab DEF TabsIInv, TabsTypeOK

(* The first event behind those applied, and the line without it.          *)
LEMMA TakenOff ==
    ASSUME NEW a \in Seq(Event), NEW c \in Seq(Event), c # <<>>
    PROVE  /\ a \o c \in Seq(Event) /\ a \o Tail(c) \in Seq(Event) /\ Len(a) \in Nat
           /\ Len(a) < Len(a \o c) /\ Len(a \o Tail(c)) = Len(a \o c) - 1
           /\ (a \o c)[Len(a) + 1] = Head(c)
           /\ \A k \in 1 .. Len(a \o Tail(c)) :
                 (a \o Tail(c))[k] = IF k <= Len(a) THEN (a \o c)[k] ELSE (a \o c)[k + 1]
<1> DEFINE s == a \o c
           tl == Tail(c)
           d == a \o tl
           n == Len(a)
           m == Len(c)
<1>1. /\ n \in Nat /\ m \in Nat /\ m >= 1
      /\ tl \in Seq(Event) /\ Len(tl) = m - 1 /\ \A i \in 1 .. m - 1 : tl[i] = c[i + 1]
      /\ Head(c) = c[1]
  BY HeadTailProperties
<1>2. /\ s \in Seq(Event) /\ Len(s) = n + m
      /\ \A i \in 1 .. n + m : s[i] = IF i <= n THEN a[i] ELSE c[i - n]
  BY ConcatProperties
<1>3. /\ d \in Seq(Event) /\ Len(d) = n + Len(tl)
      /\ \A i \in 1 .. n + Len(tl) : d[i] = IF i <= n THEN a[i] ELSE tl[i - n]
  <2>1. tl \in Seq(Event) BY <1>1
  <2> HIDE DEF tl
  <2> QED BY <2>1, ConcatProperties
<1> HIDE DEF s, d, n, m, tl
<1>4. Len(d) = Len(s) - 1 /\ n < Len(s) BY <1>1, <1>2, <1>3
<1>5. s[n + 1] = Head(c)
  <2>1. n + 1 \in 1 .. n + m /\ ~(n + 1 <= n) /\ (n + 1) - n = 1 BY <1>1
  <2> QED BY <1>1, <1>2, <2>1
<1>6. ASSUME NEW k \in 1 .. Len(d) PROVE d[k] = IF k <= n THEN s[k] ELSE s[k + 1]
  <2>0. k \in 1 .. n + (m - 1) /\ k \in 1 .. n + m /\ k + 1 \in 1 .. n + m BY <1>1, <1>3
  <2>1. CASE k <= n BY <1>1, <1>2, <1>3, <2>0, <2>1
  <2>2. CASE ~(k <= n)
    <3>1. /\ k - n \in 1 .. m - 1 /\ (k + 1) - n = (k - n) + 1 /\ ~(k + 1 <= n) BY <1>1, <2>0, <2>2
    <3>2. d[k] = tl[k - n] BY <1>1, <1>3, <2>0, <2>2
    <3>3. tl[k - n] = c[(k - n) + 1] BY <1>1, <3>1
    <3>4. s[k + 1] = c[(k + 1) - n] BY <1>2, <2>0, <3>1
    <3> QED BY <2>2, <3>1, <3>2, <3>3, <3>4
  <2> QED BY <2>1, <2>2
<1>7. n \in Nat /\ s \in Seq(Event) /\ d \in Seq(Event) BY <1>1, <1>2, <1>3
<1> QED BY <1>4, <1>5, <1>6, <1>7 DEF s, d, n, tl

(* The next event of a line is the first on the wire.                      *)
LessNext(s, n, d) ==
    d \in Seq(Event) /\ Len(d) = Len(s) - 1 /\ \A k \in 1 .. Len(d) : d[k] = IF k <= n THEN s[k] ELSE s[k + 1]

(* Apply, of the head of the wire: the event behind what was applied.      *)
LEMMA TakesNext ==
    ASSUME NEW a \in Seq(Event), NEW w \in Seq(Event), NEW p \in Seq(Event), NEW h \in Seq(Event), w # <<>>
    PROVE  /\ Len(a) < Len(InAll(a, w, p, h)) /\ InAll(a, w, p, h)[Len(a) + 1] = Head(w)
           /\ LessNext(InAll(a, w, p, h), Len(a), InAll(a, Tail(w), p, h))
<1>1. InAll(a, w, p, h) = Behind(a, w, p, h) BY LineParts DEF Aligned
<1>2. PICK v \in Seq(Event) : v = Tail(w) BY FirstAndRest
<1>3. InAll(a, v, p, h) = Behind(a, v, p, h) BY LineParts DEF Aligned
<1>4. PICK b \in Seq(Event) : b = p \o h BY ConcatProperties
<1>5. w \o b # <<>> /\ Tail(w \o b) = Tail(w) \o b /\ Head(w \o b) = Head(w) BY RestOfBoth
<1>6. PICK c \in Seq(Event) : c = w \o b BY ConcatProperties
<1>7. c # <<>> /\ Tail(c) = v \o b /\ Head(c) = Head(w) BY <1>2, <1>5, <1>6
<1>8. /\ a \o Tail(c) \in Seq(Event)
      /\ Len(a) < Len(a \o c) /\ Len(a \o Tail(c)) = Len(a \o c) - 1
      /\ (a \o c)[Len(a) + 1] = Head(c)
      /\ \A k \in 1 .. Len(a \o Tail(c)) :
            (a \o Tail(c))[k] = IF k <= Len(a) THEN (a \o c)[k] ELSE (a \o c)[k + 1]
  BY <1>7, TakenOff
<1>9. PICK d \in Seq(Event) : d = a \o Tail(c) BY <1>8
<1>10. InAll(a, w, p, h) = a \o c /\ InAll(a, Tail(w), p, h) = d
  BY <1>1, <1>2, <1>3, <1>4, <1>6, <1>7, <1>9 DEF Behind
<1> QED BY <1>7, <1>8, <1>9, <1>10 DEF LessNext

(* Apply, as a step along the line: its next event is taken out, or is     *)
(* applied.                                                                *)
LEMMA ApplyMoves ==
    ASSUME TabsIInv, NEW t \in Tabs, Apply(t)
    PROVE  /\ Head(wire[t]) \in Event /\ Len(applied[t]) < Len(Line(t))
           /\ Line(t)[Len(applied[t]) + 1] = Head(wire[t])
           /\ Skipped(t, Head(wire[t])) =>
                 /\ UNCHANGED <<lastSeq, runId, running, applied>>
                 /\ LessNext(Line(t), Len(applied[t]), Line(t)')
           /\ ~Skipped(t, Head(wire[t])) =>
                 /\ Line(t)' = Line(t) /\ Len(applied'[t]) = Len(applied[t]) + 1
                 /\ Takes(Head(wire[t]), runId[t], running[t], lastSeq[t], runId'[t], running'[t], lastSeq'[t])
<1> DEFINE e == Head(wire[t])
           ends == e.kind \in Terminal /\ ~Refusal(t, e)
           s == Line(t)
           n == Len(applied[t])
<1>0. TabsTypeOK BY DEF TabsIInv
<1>1. /\ wire[t] # <<>> /\ wire' = [wire EXCEPT ![t] = Tail(@)]
      /\ UNCHANGED <<vars, joined, joins, replay, held>>
  BY DEF Apply
<1>2. /\ applied[t] \in Seq(Event) /\ wire[t] \in Seq(Event)
      /\ replay[t] \in Seq(Event) /\ held[t] \in Seq(Event)
      /\ s = InAll(applied[t], wire[t], replay[t], held[t])
      /\ s \in Seq(Event) /\ n \in Nat
  BY <1>0, TabLine
<1>3. e \in Event /\ Tail(wire[t]) \in Seq(Event) BY <1>1, <1>2, FirstAndRest
<1>4. /\ joined[t] \in {"out", "joining", "in"} /\ lastSeq[t] \in Nat
      /\ runId[t] \in Runs \cup {NoRun} /\ running[t] \in BOOLEAN
      /\ wire'[t] = Tail(wire[t])
  BY <1>0, <1>1 DEF TabsTypeOK
<1>6. n < Len(s) /\ s[n + 1] = e /\ LessNext(s, n, InAll(applied[t], Tail(wire[t]), replay[t], held[t]))
  <2>1. PICK a \in Seq(Event), w \in Seq(Event), p \in Seq(Event), h \in Seq(Event) :
            a = applied[t] /\ w = wire[t] /\ p = replay[t] /\ h = held[t]
    BY <1>2
  <2>2. /\ Len(a) < Len(InAll(a, w, p, h)) /\ InAll(a, w, p, h)[Len(a) + 1] = Head(w)
        /\ LessNext(InAll(a, w, p, h), Len(a), InAll(a, Tail(w), p, h))
    <3>1. w # <<>> BY <1>1, <2>1
    <3> QED BY <3>1, TakesNext
  <2> HIDE DEF s
  <2> QED BY <1>2, <2>1, <2>2
<1>7. ASSUME Skipped(t, e)
      PROVE  UNCHANGED <<lastSeq, runId, running, applied>> /\ LessNext(s, n, Line(t)')
  <2>1. UNCHANGED <<lastSeq, runId, running, applied>> BY <1>7 DEF Apply
  <2>2. Line(t)' = InAll(applied[t], Tail(wire[t]), replay[t], held[t])
    BY <1>1, <1>4, <2>1 DEF Line, InAll
  <2> HIDE DEF s, n, e
  <2> QED BY <1>6, <2>1, <2>2
<1>8. ASSUME ~Skipped(t, e)
      PROVE  /\ Line(t)' = s /\ Len(applied'[t]) = n + 1
             /\ Takes(e, runId[t], running[t], lastSeq[t], runId'[t], running'[t], lastSeq'[t])
  <2>1. /\ lastSeq' = [lastSeq EXCEPT ![t] = NewLastSeq(t, e)]
        /\ runId' = [runId EXCEPT ![t] = IF e.kind = "RUN_STARTED" THEN e.of
                                         ELSE IF ends THEN NoRun ELSE @]
        /\ running' = [running EXCEPT ![t] = e.kind = "RUN_STARTED" \/ (@ /\ ~ends)]
        /\ applied' = [applied EXCEPT ![t] = Append(@, e)]
    BY <1>8 DEF Apply
  <2>5. ends \in BOOLEAN /\ Refusal(t, e) \in BOOLEAN BY DEF Refusal
  <2>6. Append(applied[t], e) \in Seq(Event) /\ Len(Append(applied[t], e)) = n + 1
    BY <1>2, <1>3, AppendProperties
  <2>8. /\ lastSeq'[t] = NewLastSeq(t, e)
        /\ runId'[t] = IF e.kind = "RUN_STARTED" THEN e.of ELSE IF ends THEN NoRun ELSE runId[t]
        /\ running'[t] = (e.kind = "RUN_STARTED" \/ (running[t] /\ ~ends))
        /\ applied'[t] = Append(applied[t], e)
    <3> HIDE DEF e, ends, s, n
    <3> QED BY <1>0, <2>1 DEF TabsTypeOK
  <2>9. Line(t)' = s
    <3>1. Line(t)' = InAll(Append(applied[t], Head(wire[t])), Tail(wire[t]), replay[t], held[t])
      BY <1>1, <1>4, <2>8 DEF Line, InAll
    <3>2. PICK a \in Seq(Event), w \in Seq(Event), p \in Seq(Event), h \in Seq(Event) :
            a = applied[t] /\ w = wire[t] /\ p = replay[t] /\ h = held[t]
      BY <1>2
    <3>3. InAll(Append(a, Head(w)), Tail(w), p, h) = InAll(a, w, p, h) BY <1>1, <3>2, LineApplies
    <3> QED BY <1>2, <3>1, <3>2, <3>3
  <2>11. Takes(e, runId[t], running[t], lastSeq[t], runId'[t], running'[t], lastSeq'[t])
    <3>1. ends <=> Ends(e, running[t], lastSeq[t]) BY DEF Refusal, Ends, Refuses
    <3> HIDE DEF ends, e, s, n
    <3> QED BY <1>8, <2>5, <2>8, <3>1 DEF Takes, Skipped, ReplayedStart, NewLastSeq
  <2> HIDE DEF e, ends, s, n
  <2> QED BY <2>6, <2>8, <2>9, <2>11
<1> HIDE DEF s, n, ends
<1> QED BY <1>3, <1>6, <1>7, <1>8 DEF s, n

(* A tab gets the next event, and skips or applies it.                     *)
LEMMA ApplyFollows ==
    ASSUME TabsIInv, NEW t \in Tabs, Apply(t)
    PROVE  TabsTypeOK' /\ \A u \in Tabs : Follows(u)'
<1> DEFINE e == Head(wire[t])
           ends == e.kind \in Terminal /\ ~Refusal(t, e)
           s == Line(t)
           n == Len(applied[t])
<1>0. TabsTypeOK /\ Follows(t) BY DEF TabsIInv
<1>1. /\ wire[t] # <<>> /\ wire' = [wire EXCEPT ![t] = Tail(@)]
      /\ UNCHANGED <<vars, joined, joins, replay, held>>
  BY DEF Apply
<1>2. /\ applied[t] \in Seq(Event) /\ wire[t] \in Seq(Event)
      /\ replay[t] \in Seq(Event) /\ held[t] \in Seq(Event)
      /\ s \in Seq(Event) /\ n \in Nat
  BY <1>0, TabLine
<1>3. e \in Event /\ Tail(wire[t]) \in Seq(Event) BY <1>1, <1>2, FirstAndRest
<1>4. /\ joined[t] \in {"out", "joining", "in"} /\ lastSeq[t] \in Nat
      /\ runId[t] \in Runs \cup {NoRun} /\ running[t] \in BOOLEAN
      /\ wire'[t] = Tail(wire[t])
  BY <1>0, <1>1 DEF TabsTypeOK
<1>5. joined[t] # "out" BY <1>0, <1>1 DEF Follows
<1>6. /\ n < Len(s) /\ s[n + 1] = e
      /\ Skipped(t, e) => UNCHANGED <<lastSeq, runId, running, applied>> /\ LessNext(s, n, Line(t)')
      /\ ~Skipped(t, e) =>
            /\ Line(t)' = s /\ Len(applied'[t]) = n + 1
            /\ Takes(e, runId[t], running[t], lastSeq[t], runId'[t], running'[t], lastSeq'[t])
  BY ApplyMoves
<1>7. Watches(s, n, runId[t], running[t], lastSeq[t], TRUE, phase, outgoing, buffer)
  BY <1>0, <1>5 DEF Follows
<1>8. TypeOK' BY <1>0, <1>1 DEF TabsTypeOK, TypeOK, vars
<1>9. CASE Skipped(t, e)
  <2>1. UNCHANGED <<lastSeq, runId, running, applied>> BY <1>6, <1>9
  <2>2. PICK d \in Seq(Event) : d = Line(t)' /\ LessNext(s, n, d)
    BY <1>6, <1>9 DEF LessNext
  <2>3. s[n + 1].kind = "RUN_STARTED" => s[n + 1].of = runId[t]
    BY <1>6, <1>9 DEF Skipped, ReplayedStart
  <2> HIDE DEF s, n, e
  <2>4. Watches(d, n, runId[t], running[t], lastSeq[t], TRUE, phase, outgoing, buffer)
    <3>1. PICK l \in Seq(Event), m \in Nat : l = s /\ m = n BY <1>2
    <3>2. PICK id, ru, ls : id = runId[t] /\ ru = running[t] /\ ls = lastSeq[t] OBVIOUS
    <3>3. /\ m < Len(l) /\ Len(d) = Len(l) - 1
          /\ \A k \in 1 .. Len(d) : d[k] = IF k <= m THEN l[k] ELSE l[k + 1]
          /\ Watches(l, m, id, ru, ls, TRUE, phase, outgoing, buffer)
          /\ l[m + 1].kind = "RUN_STARTED" => l[m + 1].of = id
      BY <1>6, <1>7, <2>2, <2>3, <3>1, <3>2 DEF LessNext
    <3>4. Watches(d, m, id, ru, ls, TRUE, phase, outgoing, buffer) BY <3>3, PassedOver
    <3> QED BY <3>1, <3>2, <3>4
  <2>6. Follows(t)'
    BY <1>0, <1>1, <1>5, <2>1, <2>2, <2>4 DEF Follows, vars, n
  <2>7. TabsTypeOK'
    BY <1>0, <1>1, <1>3, <1>8, <2>1 DEF TabsTypeOK
  <2> QED BY <1>0, <1>1, <2>1, <2>6, <2>7, OneTab DEF TabsIInv, TabsTypeOK
<1>10. CASE ~Skipped(t, e)
  <2>1. /\ lastSeq' = [lastSeq EXCEPT ![t] = NewLastSeq(t, e)]
        /\ runId' = [runId EXCEPT ![t] = IF e.kind = "RUN_STARTED" THEN e.of
                                         ELSE IF ends THEN NoRun ELSE @]
        /\ running' = [running EXCEPT ![t] = e.kind = "RUN_STARTED" \/ (@ /\ ~ends)]
        /\ applied' = [applied EXCEPT ![t] = Append(@, e)]
    BY <1>10 DEF Apply
  <2>2. e.kind = "RUN_STARTED" => e.of \in Runs
    <3>1. InLine(s, phase, outgoing) /\ n + 1 \in DOMAIN s BY <1>2, <1>6, <1>7 DEF Watches
    <3> QED BY <1>6, <3>1 DEF InLine, Numbered
  <2>3. e.seq \in Nat BY <1>3 DEF Event
  <2>4. NewLastSeq(t, e) \in Nat BY <1>4, <2>3 DEF NewLastSeq
  <2>5. ends \in BOOLEAN /\ Refusal(t, e) \in BOOLEAN BY DEF Refusal
  <2>6. Append(applied[t], e) \in Seq(Event) /\ Len(Append(applied[t], e)) = n + 1
    BY <1>2, <1>3, AppendProperties
  <2>7. TabsTypeOK'
    <3> HIDE DEF e, ends, s, n
    <3> QED BY <1>0, <1>1, <1>3, <1>4, <1>8, <2>1, <2>2, <2>4, <2>5, <2>6 DEF TabsTypeOK, e
  <2>10. Live(phase, outgoing, buffer) BY BufferReplays DEF TabsIInv, Live
  <2>11. /\ Line(t)' = s /\ Len(applied'[t]) = n + 1
         /\ Takes(e, runId[t], running[t], lastSeq[t], runId'[t], running'[t], lastSeq'[t])
    BY <1>6, <1>10
  <2>12. /\ runId'[t] \in Runs \cup {NoRun} /\ running'[t] \in BOOLEAN /\ lastSeq'[t] \in Nat
    BY <2>7 DEF TabsTypeOK
  <2>14. Watches(s, n + 1, runId'[t], running'[t], lastSeq'[t], TRUE, phase, outgoing, buffer)
    <3> HIDE DEF e, ends, s, n
    <3>1. PICK l \in Seq(Event), m \in Nat, in \in BOOLEAN : l = s /\ m = n /\ in = TRUE BY <1>2
    <3>2. PICK id \in Runs \cup {NoRun}, ru \in BOOLEAN, ls \in Nat : id = runId[t] /\ ru = running[t] /\ ls = lastSeq[t] BY <1>4
    <3>3. PICK id2 \in Runs \cup {NoRun}, ru2 \in BOOLEAN, ls2 \in Nat :
                id2 = runId'[t] /\ ru2 = running'[t] /\ ls2 = lastSeq'[t] BY <2>12
    <3>4. /\ m < Len(l) /\ Watches(l, m, id, ru, ls, in, phase, outgoing, buffer)
          /\ Takes(l[m + 1], id, ru, ls, id2, ru2, ls2)
      BY <1>6, <1>7, <2>11, <3>1, <3>2, <3>3
    <3>5. Watches(l, m + 1, id2, ru2, ls2, in, phase, outgoing, buffer)
      BY <2>10, <3>4, AppliedNext
    <3> QED BY <3>1, <3>3, <3>5
  <2>15. Follows(t)'
    BY <1>0, <1>1, <1>5, <2>11, <2>14 DEF Follows, vars
  <2> HIDE DEF e, ends, s, n
  <2> QED BY <1>0, <1>1, <2>1, <2>7, <2>15, OneTab DEF TabsIInv, TabsTypeOK
<1> QED BY <1>9, <1>10

(* A step of the thread, for a tab: the line grows by what was sent, if    *)
(* anything was sent to it.                                                *)
Hears(t, e) ==
    /\ joined[t] # "out" => Line(t)' = Append(Line(t), e)
    /\ joined[t] = "out" => Line(t)' = Line(t)
NoneStarts == \A q \in Runs : ~(outgoing[q].kind = "RUN_STARTED" /\ GoesOn(q, phase', outgoing'))

(* A line goes on to be true of the thread that sent to it, or did not.    *)
LEMMA Moves ==
    ASSUME TabsTypeOK, Onward, NEW t \in Tabs, Follows(t),
           UNCHANGED <<joined, lastSeq, runId, running, applied>>,
           \/ Line(t)' = Line(t) /\ NoneStarts
           \/ \E e \in Event : Sends(e, phase, outgoing) /\ Hears(t, e) /\ (SentFirst(e) \/ NoneStarts)
                               /\ (Numbered(e) => joined[t] # "out")
           \/ Line(t)' = Line(t) /\ joined[t] = "out"
    PROVE  Watches(Line(t)', Len(applied[t]), runId[t], running[t], lastSeq[t], joined[t] # "out",
                   phase', outgoing', buffer')
<1>0. /\ Line(t) \in Seq(Event) /\ Len(applied[t]) \in 0 .. Len(Line(t)) /\ Len(applied[t]) \in Nat
  BY TabLine
<1>a. PICK s \in Seq(Event) : s = Line(t) BY <1>0
<1>b. PICK n \in 0 .. Len(s) : n = Len(applied[t]) BY <1>0, <1>a
<1>1. s = Line(t) /\ n = Len(applied[t]) BY <1>a, <1>b
<1>2. PICK id, ru, ls : id = runId[t] /\ ru = running[t] /\ ls = lastSeq[t] OBVIOUS
<1> DEFINE in == joined[t] # "out"
<1>c. in \in BOOLEAN OBVIOUS
<1>d. Watches(s, n, id, ru, ls, in, phase, outgoing, buffer) BY <1>1, <1>2 DEF Follows
<1>3. in <=> joined[t] # "out" OBVIOUS
<1>e. in = (joined[t] # "out") OBVIOUS
<1> HIDE DEF in
<1>4. n \in Nat BY <1>0, <1>1
<1>5. Watches(s, n, id, ru, ls, in, phase, outgoing, buffer) BY <1>d
<1>6. \A q \in Runs : Forth(q, phase, outgoing, buffer, phase', outgoing', buffer') BY DEF Onward
<1>7. ASSUME in => NoneStarts
      PROVE  Watches(s, n, id, ru, ls, in, phase', outgoing', buffer')
  <2>1. in => \A r \in Runs : outgoing[r].kind = "RUN_STARTED" /\ GoesOn(r, phase', outgoing') =>
                    StartAfter(s, n, Len(s), r)
    BY <1>7 DEF NoneStarts
  <2> QED BY <1>4, <1>5, <1>6, <1>c, <2>1, LaterOn
<1>8. ASSUME NEW e \in Event, Sends(e, phase, outgoing), Numbered(e) => in, SentFirst(e) \/ NoneStarts
      PROVE  Watches(Append(s, e), n, id, ru, ls, in, phase', outgoing', buffer')
  <2>1. Watches(Append(s, e), n, id, ru, ls, in, phase, outgoing, buffer)
    BY <1>5, <1>8, <1>c, SentOn
  <2>2. PICK a \in Seq(Event) : a = Append(s, e) BY AppendProperties
  <2>3. ASSUME NEW r \in Runs, outgoing[r].kind = "RUN_STARTED", GoesOn(r, phase', outgoing')
        PROVE  StartAfter(a, n, Len(a), r)
    <3>1. IsStart(e, r) BY <1>8, <2>3 DEF SentFirst, NoneStarts
    <3>2. Len(s) + 1 \in DOMAIN a /\ a[Len(s) + 1] = e /\ n < Len(s) + 1 /\ Len(a) = Len(s) + 1
          /\ Len(s) + 1 <= Len(a)
      BY <2>2, OneMoreEvent
    <3> QED BY <3>1, <3>2 DEF StartAfter
  <2>4. Watches(a, n, id, ru, ls, in, phase', outgoing', buffer')
    BY <1>4, <1>6, <1>c, <2>1, <2>2, <2>3, LaterOn
  <2> QED BY <2>2, <2>4
<1>9. CASE Line(t)' = Line(t) /\ NoneStarts BY <1>1, <1>2, <1>3, <1>7, <1>9, <1>e
<1>10. CASE Line(t)' = Line(t) /\ joined[t] = "out" BY <1>1, <1>2, <1>3, <1>7, <1>10, <1>e
<1>11. ASSUME NEW e \in Event, Sends(e, phase, outgoing), Hears(t, e), SentFirst(e) \/ NoneStarts,
              Numbered(e) => joined[t] # "out"
       PROVE  Watches(Line(t)', Len(applied[t]), runId[t], running[t], lastSeq[t], joined[t] # "out",
                   phase', outgoing', buffer')
  <2>1. CASE in
    <3>1. Line(t)' = Append(s, e) BY <1>1, <1>3, <1>11, <2>1 DEF Hears
    <3> QED BY <1>1, <1>2, <1>3, <1>8, <1>11, <2>1, <3>1, <1>e
  <2>2. CASE ~in
    <3>1. Line(t)' = s BY <1>1, <1>3, <1>11, <2>2 DEF Hears
    <3> QED BY <1>1, <1>2, <1>3, <1>7, <2>2, <3>1, <1>e
  <2> QED BY <2>1, <2>2
<1> QED BY <1>9, <1>10, <1>11

(* What a step of the thread sends goes last in the line of every tab that *)
(* is in the group.                                                        *)
LEMMA ThreadHears ==
    ASSUME ReplayFirst = TRUE, TabsTypeOK, NEW u \in Tabs, Follows(u),
           ThreadStep, NEW e \in Event, sent' = Append(sent, e)
    PROVE  Hears(u, e)
<1>0. sent \in Seq(Event) /\ Forward /\ UNCHANGED <<joined, joins, replay, applied>>
  BY DEF TabsTypeOK, TypeOK, ThreadStep
<1>1. sent' # sent /\ sent'[Len(sent')] = e
  <2>1. Len(sent) \in Nat /\ Len(sent') = Len(sent) + 1 /\ sent'[Len(sent) + 1] = e
    BY <1>0, AppendFacts
  <2> QED BY <2>1
<1>2. /\ held' = [t \in Tabs |-> IF joined[t] = "joining" THEN Append(held[t], e) ELSE held[t]]
      /\ wire' = [t \in Tabs |-> IF joined[t] = "in" THEN Append(wire[t], e) ELSE wire[t]]
  <2>1. \A t \in Tabs : joined[t] \in {"out", "joining", "in"} BY DEF TabsTypeOK
  <2>2. \A t \in Tabs : /\ KeepsBack(t) <=> joined[t] = "joining"
                        /\ joined[t] # "out" /\ ~KeepsBack(t) <=> joined[t] = "in"
    BY <2>1 DEF KeepsBack
  <2> QED BY <1>0, <1>1, <2>2 DEF Forward
<1>3. /\ applied[u] \in Seq(Event) /\ wire[u] \in Seq(Event)
      /\ replay[u] \in Seq(Event) /\ held[u] \in Seq(Event)
      /\ Line(u) = InAll(applied[u], wire[u], replay[u], held[u])
  BY TabLine
<1>4. /\ joined[u] \in {"out", "joining", "in"}
      /\ held'[u] = IF joined[u] = "joining" THEN Append(held[u], e) ELSE held[u]
      /\ wire'[u] = IF joined[u] = "in" THEN Append(wire[u], e) ELSE wire[u]
  BY <1>2 DEF TabsTypeOK
<1>5. Line(u)' = InAll(applied[u], wire'[u], replay[u], held'[u]) BY <1>0 DEF Line, InAll
<1>6. PICK a \in Seq(Event), w \in Seq(Event), p \in Seq(Event), h \in Seq(Event) :
          a = applied[u] /\ w = wire[u] /\ p = replay[u] /\ h = held[u]
  BY <1>3
<1>7. InAll(a, w, p, Append(h, e)) = Append(InAll(a, w, p, h), e)
      /\ InAll(a, Append(w, e), <<>>, <<>>) = Append(InAll(a, w, <<>>, <<>>), e)
  <2>1. a \in Seq(Event) /\ w \in Seq(Event) /\ p \in Seq(Event) /\ h \in Seq(Event) BY <1>6
  <2>2. ComesLast(a, w, p, h, e) BY <2>1, LineGrows
  <2> QED BY <2>2 DEF ComesLast
<1>8. CASE joined[u] = "out" BY <1>3, <1>4, <1>5, <1>8 DEF Hears
<1>9. CASE joined[u] = "joining" BY <1>3, <1>4, <1>5, <1>6, <1>7, <1>9 DEF Hears
<1>10. CASE joined[u] = "in"
  <2>1. p = <<>> /\ h = <<>> BY <1>6, <1>10 DEF Follows
  <2> QED BY <1>3, <1>4, <1>5, <1>6, <1>7, <1>10, <2>1 DEF Hears
<1> QED BY <1>4, <1>8, <1>9, <1>10

(* ThreadStep, and what Forward does with what it sent.                    *)
LEMMA ThreadStepFollows ==
    ASSUME ReplayFirst = TRUE, TabsIInv, TypeOK', ThreadStep
    PROVE  Onward /\ TabsTypeOK' /\ \A u \in Tabs : Follows(u)'
<1>0. IInv /\ History /\ Replayable /\ TabsTypeOK /\ sent \in Seq(Event) BY DEF TabsIInv, IInv, TypeOK
<1>1. Next /\ Forward /\ UNCHANGED <<joined, joins, replay, lastSeq, runId, running, applied>>
  BY DEF ThreadStep, Next
<1>2. Onward BY <1>0, <1>1, NextOnward
<1>3. CASE sent' = sent /\ NoneStarts
  <2>1. UNCHANGED <<held, wire>> BY <1>1, <1>3 DEF Forward
  <2>2. TabsTypeOK' BY <1>0, <1>1, <2>1 DEF TabsTypeOK
  <2>3. ASSUME NEW u \in Tabs PROVE Follows(u)'
    <3>1. Follows(u) BY DEF TabsIInv
    <3>2. Line(u)' = Line(u) BY <1>1, <2>1 DEF Line
    <3>3. Watches(Line(u)', Len(applied[u]), runId[u], running[u], lastSeq[u], joined[u] # "out",
                  phase', outgoing', buffer')
      BY <1>0, <1>1, <1>2, <1>3, <3>1, <3>2, Moves
    <3> QED BY <1>1, <2>1, <3>1, <3>3 DEF Follows
  <2> QED BY <1>2, <2>2, <2>3
<1>4. ASSUME NEW e \in Event, sent' = Append(sent, e), Sends(e, phase, outgoing), SentFirst(e)
      PROVE  TabsTypeOK' /\ \A u \in Tabs : Follows(u)'
  <2>1. sent' # sent /\ sent'[Len(sent')] = e
    <3>1. Len(sent) \in Nat /\ Len(sent') = Len(sent) + 1 /\ sent'[Len(sent) + 1] = e
      BY <1>0, <1>4, AppendFacts
    <3> QED BY <3>1
  <2>2. /\ held' = [t \in Tabs |-> IF joined[t] = "joining" THEN Append(held[t], e) ELSE held[t]]
        /\ wire' = [t \in Tabs |-> IF joined[t] = "in" THEN Append(wire[t], e) ELSE wire[t]]
    <3>1. \A t \in Tabs : joined[t] \in {"out", "joining", "in"} BY <1>0 DEF TabsTypeOK
    <3>2. \A t \in Tabs : /\ KeepsBack(t) <=> joined[t] = "joining"
                          /\ joined[t] # "out" /\ ~KeepsBack(t) <=> joined[t] = "in"
      BY <3>1 DEF KeepsBack
    <3> QED BY <1>1, <2>1, <3>2 DEF Forward
  <2>3. TabsTypeOK'
    <3>1. \A t \in Tabs : Append(held[t], e) \in Seq(Event) /\ Append(wire[t], e) \in Seq(Event)
                          /\ held[t] \in Seq(Event) /\ wire[t] \in Seq(Event)
      <4>1. ASSUME NEW t \in Tabs PROVE held[t] \in Seq(Event) /\ wire[t] \in Seq(Event)
        BY <1>0 DEF TabsTypeOK
      <4> QED BY <4>1, AppendProperties
    <3>2. held' \in [Tabs -> Seq(Event)] /\ wire' \in [Tabs -> Seq(Event)] BY <2>2, <3>1
    <3> QED BY <1>0, <1>1, <3>2 DEF TabsTypeOK
  <2>4. ASSUME NEW u \in Tabs PROVE Follows(u)'
    <3>1. Follows(u) BY DEF TabsIInv
    <3>3. /\ joined[u] \in {"out", "joining", "in"}
          /\ held'[u] = IF joined[u] = "joining" THEN Append(held[u], e) ELSE held[u]
          /\ wire'[u] = IF joined[u] = "in" THEN Append(wire[u], e) ELSE wire[u]
      BY <1>0, <2>2 DEF TabsTypeOK
    <3>5. Hears(u, e) BY <1>0, <1>4, <3>1, ThreadHears
    <3>6. Watches(Line(u)', Len(applied[u]), runId[u], running[u], lastSeq[u], joined[u] # "out",
                  phase', outgoing', buffer')
      <4>1. CASE joined[u] # "out" BY <1>0, <1>1, <1>2, <1>4, <3>1, <3>5, <4>1, Moves
      <4>2. CASE joined[u] = "out"
        <5>1. Line(u)' = Line(u) BY <3>5, <4>2 DEF Hears
        <5> QED BY <1>0, <1>1, <1>2, <3>1, <4>2, <5>1, Moves
      <4> QED BY <4>1, <4>2
    <3> QED BY <1>1, <3>1, <3>3, <3>6 DEF Follows
  <2> QED BY <2>3, <2>4
<1>5. (sent' = sent /\ NoneStarts)
      \/ \E e \in Event : sent' = Append(sent, e) /\ Sends(e, phase, outgoing) /\ SentFirst(e)
  BY <1>2 DEF Onward, NoneStarts
<1> QED BY <1>2, <1>3, <1>4, <1>5

(* An answer goes last in the line of the tab that asked.                  *)
LEMMA AskHears ==
    ASSUME TabsTypeOK, NEW t \in Tabs, Follows(t), NEW r \in Runs, AskInVain(t, r)
    PROVE  /\ Hears(t, [of |-> r, kind |-> "RUN_ERROR", seq |-> 0])
           /\ \A u \in Tabs : u # t => Line(u)' = Line(u)
<1> DEFINE e == [of |-> r, kind |-> "RUN_ERROR", seq |-> 0]
<1>1. /\ joined[t] = "in" /\ wire' = [wire EXCEPT ![t] = Append(@, e)]
      /\ UNCHANGED <<replay, held, applied>>
  BY DEF AskInVain
<1>4. e \in Event BY DEF Event, Kinds
<1> HIDE DEF e
<1>6. /\ applied[t] \in Seq(Event) /\ wire[t] \in Seq(Event)
      /\ replay[t] = <<>> /\ held[t] = <<>>
      /\ Line(t) = InAll(applied[t], wire[t], <<>>, <<>>)
  <2>1. replay[t] = <<>> /\ held[t] = <<>> BY <1>1 DEF Follows
  <2> QED BY <2>1, TabLine
<1>9. wire'[t] = Append(wire[t], e) /\ \A u \in Tabs : u # t => wire'[u] = wire[u]
  BY <1>1 DEF TabsTypeOK
<1>10. Hears(t, e)
  <2>1. Line(t)' = InAll(applied[t], Append(wire[t], e), <<>>, <<>>) BY <1>1, <1>6, <1>9 DEF Line, InAll
  <2>2. PICK a \in Seq(Event), w \in Seq(Event) : a = applied[t] /\ w = wire[t] BY <1>6
  <2>3. PICK h \in Seq(Event) : h = <<>> BY EmptySeq
  <2>4. InAll(a, Append(w, e), <<>>, <<>>) = Append(InAll(a, w, <<>>, <<>>), e)
    <3>1. ComesLast(a, w, h, h, e) BY <1>4, LineGrows
    <3> QED BY <3>1 DEF ComesLast
  <2> QED BY <1>1, <1>6, <2>1, <2>2, <2>4 DEF Hears
<1>11. \A u \in Tabs : u # t => Line(u)' = Line(u) BY <1>1, <1>9 DEF Line
<1> QED BY <1>10, <1>11 DEF e

(* The answer to a tab that asks in vain has no number.                    *)
LEMMA AskFollows ==
    ASSUME TabsIInv, TypeOK', NEW t \in Tabs, NEW r \in Runs, AskInVain(t, r)
    PROVE  Onward /\ TabsTypeOK' /\ \A u \in Tabs : Follows(u)'
<1> DEFINE e == [of |-> r, kind |-> "RUN_ERROR", seq |-> 0]
<1>0. IInv /\ History /\ Replayable /\ TabsTypeOK /\ sent \in Seq(Event) BY DEF TabsIInv, IInv, TypeOK
<1>1. /\ joined[t] = "in" /\ Refuse(r) /\ wire' = [wire EXCEPT ![t] = Append(@, e)]
      /\ UNCHANGED <<joined, joins, replay, held, lastSeq, runId, running, applied>>
  BY DEF AskInVain
<1>2. Onward /\ sent' = sent
  <2>1. Next /\ sent' = sent BY <1>1 DEF Next, Refuse
  <2> QED BY <1>0, <2>1, NextOnward
<1>3. NoneStarts
  <2>1. ASSUME NEW f \in Event, sent' = Append(sent, f) PROVE FALSE
    <3>1. Len(sent) \in Nat /\ Len(sent') = Len(sent) + 1 BY <1>0, <2>1, AppendFacts
    <3> QED BY <1>2, <3>1
  <2> QED BY <1>2, <2>1 DEF Onward, NoneStarts
<1>4. e \in Event /\ e.seq = 0 /\ e.kind = "RUN_ERROR" BY DEF Event, Kinds
<1>5. Sends(e, phase, outgoing) /\ ~Numbered(e) BY <1>4 DEF Sends, Numbered
<1> HIDE DEF e
<1>7. Append(wire[t], e) \in Seq(Event)
  <2>1. wire[t] \in Seq(Event) BY <1>0, TabLine
  <2> QED BY <1>4, <2>1, AppendProperties
<1>8. TabsTypeOK' BY <1>0, <1>1, <1>7 DEF TabsTypeOK
<1>9. \A u \in Tabs : u # t => wire'[u] = wire[u]
  BY <1>0, <1>1 DEF TabsTypeOK
<1>10. Hears(t, e) /\ \A u \in Tabs : u # t => Line(u)' = Line(u)
  BY <1>0, AskHears DEF TabsIInv, e
<1>11. ASSUME NEW u \in Tabs PROVE Follows(u)'
  <2>1. Follows(u) BY DEF TabsIInv
  <2>2. Watches(Line(u)', Len(applied[u]), runId[u], running[u], lastSeq[u], joined[u] # "out",
                phase', outgoing', buffer')
    <3>1. CASE u = t BY <1>0, <1>1, <1>2, <1>3, <1>4, <1>5, <1>10, <2>1, <3>1, Moves
    <3>2. CASE u # t
      <4>1. Line(u)' = Line(u) BY <1>10, <3>2
      <4> QED BY <1>0, <1>1, <1>2, <1>3, <2>1, <4>1, Moves
    <3> QED BY <3>1, <3>2
  <2> QED BY <1>1, <1>9, <2>1, <2>2 DEF Follows
<1> QED BY <1>2, <1>8, <1>11

(* Nothing is on the line of a tab that never joined.                      *)
LEMMA InitTabsIInv == TabsInit => TabsIInv
<1> SUFFICES ASSUME TabsInit PROVE TabsIInv
  OBVIOUS
<1>1. Init /\ IInv /\ History BY InitIInv, InitHistory DEF TabsInit
<1>2. buffer = <<>> /\ \A r \in Runs : outgoing[r] = Nothing
  BY <1>1 DEF Init
<1>3. Replayable BY <1>2 DEF Replayable, Recorded, Nothing
<1>4. <<>> \in Seq(Event) BY EmptySeq
<1>5. TypeOK BY <1>1 DEF IInv
<1>6. TabsTypeOK BY <1>4, <1>5, TabsAssumption DEF TabsInit, TabsTypeOK
<1>7. ASSUME NEW t \in Tabs PROVE Follows(t)
  <2>1. /\ applied[t] = <<>> /\ wire[t] = <<>> /\ replay[t] = <<>> /\ held[t] = <<>>
        /\ runId[t] = NoRun /\ joined[t] = "out"
    BY DEF TabsInit
  <2>2. Line(t) = <<>> BY <1>4, <2>1, ConcatEmptySeq DEF Line
  <2>3. DOMAIN <<>> = {} /\ Len(<<>>) = 0 BY EmptySeq
  <2>4. Watches(<<>>, 0, NoRun, running[t], lastSeq[t], FALSE, phase, outgoing, buffer)
    BY <2>3 DEF Watches, InLine, ComesInOrder, StartsFirst, Recognised, Counted, OnScreen, Ordered
  <2> QED BY <2>1, <2>2, <2>3, <2>4 DEF Follows
<1> QED BY <1>1, <1>3, <1>6, <1>7 DEF TabsIInv

(* Every step of the thread and its tabs keeps the inductive invariant.    *)
LEMMA NextTabsIInv ==
    ASSUME ReplayFirst = TRUE, TabsIInv, [TabsNext]_allVars
    PROVE  TabsIInv'
<1>0. IInv /\ History /\ Replayable /\ TabsTypeOK /\ \A u \in Tabs : Follows(u) BY DEF TabsIInv
<1>1. [Next]_vars
  <2>1. CASE ThreadStep BY <2>1 DEF ThreadStep, Next
  <2>2. ASSUME NEW t \in Tabs, NEW r \in Runs, AskInVain(t, r) PROVE Next BY <2>2 DEF AskInVain, Next
  <2>3. ASSUME NEW t \in Tabs, Join(t) \/ Replay(t) \/ Joined(t) \/ Drop(t) \/ Apply(t)
        PROVE  UNCHANGED vars
    BY <2>3 DEF Join, Replay, Joined, Drop, Apply, vars
  <2>4. CASE UNCHANGED allVars BY <2>4 DEF allVars
  <2> QED BY <2>1, <2>2, <2>3, <2>4 DEF TabsNext
<1>2. IInv' /\ History' BY <1>0, <1>1, NextIInv, NextHistory
<1>3. TypeOK' BY <1>2 DEF IInv
<1>4. Onward BY <1>0, <1>1, NextOnward
<1>5. Replayable' BY <1>4 DEF Onward
<1>6. TabsTypeOK' /\ \A u \in Tabs : Follows(u)'
  <2>1. CASE ThreadStep BY <1>3, <2>1, ThreadStepFollows
  <2>2. ASSUME NEW t \in Tabs, NEW r \in Runs, AskInVain(t, r)
        PROVE  TabsTypeOK' /\ \A u \in Tabs : Follows(u)'
    BY <1>3, <2>2, AskFollows
  <2>3. ASSUME NEW t \in Tabs, Join(t) \/ Replay(t) \/ Joined(t) \/ Drop(t) \/ Apply(t)
        PROVE  TabsTypeOK' /\ \A u \in Tabs : Follows(u)'
    BY <2>3, JoinFollows, ReplayFollows, JoinedFollows, DropFollows, ApplyFollows
  <2>4. CASE UNCHANGED allVars
    <3>1. TabsTypeOK' BY <1>0, <1>3, <2>4 DEF allVars, tabVars, TabsTypeOK
    <3>2. ASSUME NEW u \in Tabs PROVE Follows(u)'
      <4>1. Line(u)' = Line(u) BY <2>4 DEF allVars, tabVars, Line
      <4> QED BY <1>0, <2>4, <4>1 DEF allVars, tabVars, vars, Follows
    <3> QED BY <3>1, <3>2
  <2> QED BY <2>1, <2>2, <2>3, <2>4 DEF TabsNext
<1> QED BY <1>2, <1>5, <1>6 DEF TabsIInv

(* What a tab applied is in order because its line is.                     *)
LEMMA LineInOrder == TabsIInv => AppliedInOrder
<1> SUFFICES ASSUME TabsIInv, NEW t \in Tabs, NEW j \in DOMAIN applied[t], NEW k \in DOMAIN applied[t],
                    j < k, applied[t][j].of = applied[t][k].of, applied[t][j].of \in Runs,
                    applied[t][j].seq # 0, applied[t][k].seq # 0
             PROVE  \/ applied[t][j].seq < applied[t][k].seq
                    \/ \E l \in j .. (k - 1) : /\ applied[t][l].of = applied[t][j].of
                                               /\ applied[t][l].kind \in Terminal
  BY DEF AppliedInOrder
<1>1. TabsTypeOK /\ Follows(t) BY DEF TabsIInv
<1>2. /\ applied[t] \in Seq(Event) /\ wire[t] \in Seq(Event)
      /\ replay[t] \in Seq(Event) /\ held[t] \in Seq(Event)
      /\ Line(t) = InAll(applied[t], wire[t], replay[t], held[t])
      /\ Line(t) \in Seq(Event) /\ Len(applied[t]) \in 0 .. Len(Line(t)) /\ Len(applied[t]) \in Nat
  BY <1>1, TabLine
<1>3. \A i \in DOMAIN applied[t] : i \in 1 .. Len(applied[t]) /\ Line(t)[i] = applied[t][i]
  <2>1. PICK a \in Seq(Event), w \in Seq(Event), p \in Seq(Event), h \in Seq(Event) :
            a = applied[t] /\ w = wire[t] /\ p = replay[t] /\ h = held[t]
    BY <1>2
  <2>2. InAll(a, w, p, h) = a \o (w \o (p \o h))
    <3>1. Aligned(a, w, p, h) BY LineParts
    <3> QED BY <3>1 DEF Aligned, Behind
  <2>3. w \o (p \o h) \in Seq(Event) BY ConcatProperties
  <2>4. \A i \in 1 .. Len(a) : (a \o (w \o (p \o h)))[i] = a[i] BY <2>3, ConcatProperties
  <2>5. DOMAIN a = 1 .. Len(a) OBVIOUS
  <2> QED BY <1>2, <2>1, <2>2, <2>4, <2>5
<1>4. Ordered(Line(t), Len(applied[t])) BY <1>1 DEF Follows, Watches
<1>5. PICK a \in Seq(Event), s \in Seq(Event) : a = applied[t] /\ s = Line(t) BY <1>2
<1>6. /\ DOMAIN a = 1 .. Len(a) /\ DOMAIN s = 1 .. Len(s) /\ Len(a) \in Nat /\ Len(s) \in Nat
      /\ Len(a) <= Len(s) /\ j \in 1 .. Len(a) /\ k \in 1 .. Len(a)
  BY <1>2, <1>5
<1>7. \A i \in 1 .. Len(a) : i \in DOMAIN s /\ s[i] = a[i] BY <1>3, <1>5, <1>6
<1>8. Numbered(s[j]) /\ Numbered(s[k]) /\ s[j].of = s[k].of /\ j \in DOMAIN s /\ k \in DOMAIN s /\ k <= Len(a)
  BY <1>5, <1>6, <1>7 DEF Numbered
<1>9. s[j].seq < s[k].seq \/ \E l \in j .. (k - 1) : s[l].of = s[j].of /\ s[l].kind \in Terminal
  BY <1>4, <1>5, <1>8 DEF Ordered
<1>10. \A l \in j .. (k - 1) : l \in 1 .. Len(a) BY <1>6
<1> QED BY <1>5, <1>6, <1>7, <1>9, <1>10

(* Every tab applies each run's events in the order of their numbers, none *)
(* twice, however often it drops and rejoins, whatever of the replay and   *)
(* of the broadcasts it gets again, and whoever emits into the run: as     *)
(* long as the broadcasts are kept back until the replay was sent.         *)
THEOREM AppliedOnce == ASSUME ReplayFirst = TRUE PROVE TabsSpec => []AppliedInOrder
<1>1. TabsIInv /\ [TabsNext]_allVars => TabsIInv' BY NextTabsIInv
<1> QED BY <1>1, InitTabsIInv, LineInOrder, PTL DEF TabsSpec

(* The types of the tabs' state, under the same assumption.                *)
THEOREM TabsTypeCorrect == ASSUME ReplayFirst = TRUE PROVE TabsSpec => []TabsTypeOK
<1>1. TabsIInv /\ [TabsNext]_allVars => TabsIInv' BY NextTabsIInv
<1>2. TabsIInv => TabsTypeOK BY DEF TabsIInv
<1> QED BY <1>1, <1>2, InitTabsIInv, PTL DEF TabsSpec

-----------------------------------------------------------------------------
(* What a step of the thread does with the events: nothing (a broadcast    *)
(* may be given up), or it records one, or tells one to the group.         *)
Counting == Holding \ {"returned"}
Quiet ==
    /\ sent' = sent /\ buffer' = buffer
    /\ \A r \in Runs : outgoing'[r] \in {outgoing[r], Nothing}
Records(e) ==
    /\ sent' = sent /\ buffer' = Buffered(buffer, e) /\ e.seq = NextSeq(buffer)
    /\ \A r \in Runs : outgoing'[r] = IF r = e.of THEN e ELSE outgoing[r]
    /\ e.of \in Runs => phase[e.of] \in Counting
    /\ e.kind = "RUN_STARTED" => /\ e.of \in Runs /\ buffer = <<>>
                                 /\ \A k \in DOMAIN sent : sent[k].of # e.of
Tells(e) ==
    /\ sent' = Append(sent, e)
    /\ e.of \in Runs => outgoing[e.of] = e
    /\ \A r \in Runs : outgoing'[r] = IF r = e.of THEN Nothing ELSE outgoing[r]
    /\ buffer' = buffer \/ (buffer' = <<>> /\ \A r \in Runs : phase'[r] \notin Counting)
Stepped ==
    /\ Quiet \/ (\E e \in Event : Records(e)) \/ (\E e \in Event : Tells(e))
    /\ \A r \in Runs : phase'[r] \in Counting => phase[r] \in Counting \cup NotStarted

(* A run that records an event: none before its start.                     *)
LEMMA RunRecords ==
    ASSUME IInv, History, NEW r \in Runs, NEW kind \in Kinds, Broadcast(r, kind), sent' = sent,
           phase[r] \in {"scheduled", "producing", "stopped", "raised"},
           kind = "RUN_STARTED" => phase[r] = "scheduled"
    PROVE  \E e \in Event : Records(e)
<1>1. kind = "RUN_STARTED" => buffer = <<>> /\ \A k \in DOMAIN sent : sent[k].of # r
  BY DEF IInv, OfTheRun, History, Told, TellsOf, NotStarted
<1>2. PICK e \in Event : /\ e.of = r /\ e.kind = kind
                         /\ buffer' = Buffered(buffer, e)
                         /\ outgoing' = [outgoing EXCEPT ![r] = e]
  BY <1>1, BroadcastIs
<1>3. outgoing'[r] = e /\ \A q \in Runs : q # r => outgoing'[q] = outgoing[q]
  BY <1>2 DEF IInv, TypeOK
<1>4. e.seq = NextSeq(buffer)
  <2>1. CASE kind # "RUN_STARTED" BY <1>3, <2>1, BroadcastNumbers
  <2>2. CASE kind = "RUN_STARTED"
    <3>1. outgoing'[r] = [of |-> r, kind |-> kind, seq |-> NextSeq(<<>>)]
      BY <2>2 DEF Broadcast, IInv, TypeOK
    <3> QED BY <1>1, <1>3, <2>2, <3>1
  <2> QED BY <2>1, <2>2
<1>5. phase[r] \in Counting BY DEF Counting, Holding, Phases, TaskPhases
<1> QED BY <1>1, <1>2, <1>3, <1>4, <1>5 DEF Records

(* Every step of the thread is one of the three.                           *)
LEMMA StepIs == IInv /\ History /\ Replayable /\ [Next]_vars => Stepped
<1> SUFFICES ASSUME IInv, History, Replayable, [Next]_vars PROVE Stepped
  OBVIOUS
<1>0. /\ phase \in [Runs -> Phases] /\ outgoing \in [Runs \cup Emits -> Event \cup {Nothing}]
      /\ \A r \in Runs : r \notin Emits
  BY DEF IInv, TypeOK
<1>1. CASE UNCHANGED vars
  <2>1. Quiet BY <1>1 DEF Quiet, vars
  <2> QED BY <1>1, <2>1 DEF Stepped, vars
<1>2. ASSUME NEW r \in Runs, HandleRun(r) \/ StartRun(r) \/ Refuse(r) \/ Cancel(r) \/ RunNext(r)
      PROVE  Stepped
  <2>1. CASE HandleRun(r) \/ StartRun(r) \/ Refuse(r) \/ Cancel(r) \/ Drive(r) \/ ProviderRaises(r) \/ Finished(r)
    <3>1. Quiet BY <2>1 DEF Quiet, HandleRun, StartRun, Refuse, Cancel, Drive, ProviderRaises, Finished
    <3>2. /\ \A q \in Runs : q # r => phase'[q] = phase[q]
          /\ phase[r] \in Counting \cup NotStarted \/ phase'[r] = "over"
      BY <1>0, <2>1 DEF HandleRun, StartRun, Refuse, Cancel, Drive, ProviderRaises, Finished,
                        Counting, NotStarted, Holding, Phases, TaskPhases
    <3> QED BY <3>1, <3>2 DEF Stepped, Counting, Holding
  <2>2. CASE Emit(r) \/ Report(r)
    <3>1. PICK kind \in Kinds : /\ Broadcast(r, kind) /\ sent' = sent
                                /\ phase[r] \in {"scheduled", "producing", "stopped", "raised"}
                                /\ kind = "RUN_STARTED" => phase[r] = "scheduled"
      BY <2>2 DEF Emit, Yield, Report, Kinds
    <3>2. \E e \in Event : Records(e) BY <3>1, RunRecords
    <3>3. /\ \A q \in Runs : q # r => phase'[q] = phase[q]
          /\ phase[r] \in Counting
      BY <1>0, <2>2, <3>1 DEF Emit, Report, Counting, Holding, Phases, TaskPhases
    <3> QED BY <3>2, <3>3 DEF Stepped
  <2>3. CASE Emitted(r) \/ Reported(r)
    <3>1. /\ Delivered(r) /\ phase[r] \in {"sending", "reporting"}
          /\ \A q \in Runs : q # r => phase'[q] = phase[q]
          /\ phase'[r] = "over" \/ phase'[r] = IF outgoing[r].kind = "RUN_FINISHED" THEN "returned" ELSE "producing"
          /\ phase[r] = "reporting" => phase'[r] = "over"
      BY <1>0, <2>3 DEF Emitted, Reported
    <3>2. outgoing[r] \in Event /\ outgoing[r].of = r BY <3>1, RunSends DEF Delivered
    <3>3. phase[r] \in Counting /\ \A q \in Runs : q # r => phase[q] \notin Counting
      BY <3>1, HolderIsActive DEF Counting, Holding, Phases, TaskPhases
    <3>4. phase[r] = "sending" => outgoing[r].kind # "RUN_ERROR" BY DEF IInv, Sending
    <3>5. outgoing[r].kind \in Terminal => phase'[r] \notin Counting
      BY <3>1, <3>4 DEF Terminal, Counting, Holding
    <3>6. Tells(outgoing[r]) BY <1>0, <3>1, <3>2, <3>3, <3>5 DEF Tells, Delivered
    <3> QED BY <3>1, <3>2, <3>3, <3>6 DEF Stepped
  <2>4. CASE Stopped(r)
    <3>1. /\ buffer' = buffer /\ outgoing' = [outgoing EXCEPT ![r] = Nothing]
          /\ sent' = sent \/ (outgoing[r] # Nothing /\ sent' = Append(sent, outgoing[r]))
          /\ \A q \in Runs : q # r => phase'[q] = phase[q]
          /\ phase[r] \in Counting
      BY <1>0, <2>4 DEF Stopped, Counting, Holding, Phases, TaskPhases
    <3>2. CASE sent' = sent BY <1>0, <3>1, <3>2 DEF Stepped, Quiet
    <3>3. CASE outgoing[r] # Nothing /\ sent' = Append(sent, outgoing[r])
      <4>1. outgoing[r] \in Event /\ outgoing[r].of = r BY <3>3, RunSends
      <4>2. Tells(outgoing[r]) BY <1>0, <3>1, <3>3, <4>1 DEF Tells
      <4> QED BY <3>1, <4>1, <4>2 DEF Stepped
    <3> QED BY <3>1, <3>2, <3>3
  <2> QED BY <1>2, <2>1, <2>2, <2>3, <2>4 DEF RunNext
<1>3. ASSUME NEW x \in Emits, EmitToThread(x) \/ EmittedToThread(x) PROVE Stepped
  <2>0. phase' = phase /\ x \notin Runs BY <1>0, <1>3 DEF EmitToThread, EmittedToThread
  <2>1. CASE EmitToThread(x) /\ buffer # <<>>
    <3>1. Broadcast(x, "CONTENT") /\ sent' = sent BY <2>1 DEF EmitToThread
    <3>2. "CONTENT" \in Kinds BY DEF Kinds
    <3>3. PICK e \in Event : /\ e.of = x /\ e.kind = "CONTENT"
                             /\ buffer' = Buffered(buffer, e)
                             /\ outgoing' = [outgoing EXCEPT ![x] = e]
      BY <3>1, <3>2, BroadcastIs
    <3>4. e.seq = NextSeq(buffer)
      <4>1. outgoing'[x] = e BY <1>0, <3>3
      <4> QED BY <3>1, <3>2, <4>1, BroadcastNumbers
    <3>5. Records(e) BY <1>0, <2>0, <3>1, <3>3, <3>4 DEF Records
    <3> QED BY <2>0, <3>5 DEF Stepped
  <2>2. CASE EmitToThread(x) /\ buffer = <<>>
    <3>1. Quiet BY <1>0, <2>0, <2>2 DEF EmitToThread, Quiet
    <3> QED BY <2>0, <3>1 DEF Stepped
  <2>3. CASE EmittedToThread(x)
    <3>1. Delivered(x) BY <2>3 DEF EmittedToThread
    <3>2. outgoing[x] \in Event /\ outgoing[x].of = x /\ outgoing[x].kind \notin Terminal
      BY <1>0, <3>1 DEF Delivered, History, Told, EmitsTheirs, IInv, Sending, Terminal
    <3>3. Tells(outgoing[x]) BY <1>0, <2>0, <3>1, <3>2 DEF Tells, Delivered
    <3> QED BY <2>0, <3>2, <3>3 DEF Stepped
  <2> QED BY <1>3, <2>1, <2>2, <2>3
<1> QED BY <1>1, <1>2, <1>3 DEF Next

-----------------------------------------------------------------------------
(* Nothing of the run in flight is missing from a buffer that still has    *)
(* its start, and its numbers rise.                                        *)
Holds(s, e) == \E i \in DOMAIN s : s[i] = e
Rising(b) == \A j, k \in DOMAIN b : j < k => b[j].seq < b[k].seq
KeptOf(r, o, b, st) ==
    /\ StartIn(b, r) => /\ \A k \in DOMAIN st : st[k].of = r => Holds(b, st[k])
                        /\ o[r] # Nothing => Holds(b, o[r])
    /\ o[r].kind = "RUN_STARTED" => o[r].seq = 1 /\ \A k \in DOMAIN st : st[k].of # r
    /\ \A k \in DOMAIN st : st[k].of = r => st[k].seq >= 1
Kept ==
    /\ \A r \in Runs : KeptOf(r, outgoing, buffer, sent)
    /\ \A k \in DOMAIN buffer : buffer[k].kind = "RUN_STARTED" => buffer[k].seq = 1
    /\ Rising(buffer)

(* A buffer that drops its first event drops the start of the run.         *)
LEMMA NoneDropped ==
    ASSUME NEW b \in Seq(Event), NEW e \in Event, NEW c, c = Buffered(b, e)
    PROVE  /\ Holds(c, e)
           /\ (\A k \in DOMAIN b : b[k].kind = "RUN_STARTED" => k = 1) /\ e.kind # "RUN_STARTED" =>
                 \A r \in Runs : StartIn(c, r) => StartIn(b, r) /\ \A i \in DOMAIN b : Holds(c, b[i])
<1>1. Len(b) \in Nat /\ DOMAIN b = 1 .. Len(b) OBVIOUS
<1>2. CASE ~(Len(b) >= MaxEvents)
  <2>1. c = Append(b, e) BY <1>2 DEF Buffered
  <2>2. /\ DOMAIN c = 1 .. Len(b) + 1 /\ c[Len(b) + 1] = e
        /\ \A k \in 1 .. Len(b) : c[k] = b[k]
    BY <2>1, AppendFacts
  <2>3. \A k \in DOMAIN c : c[k] = e \/ (k \in DOMAIN b /\ c[k] = b[k]) BY <1>1, <2>2
  <2>4. Holds(c, e) BY <1>1, <2>2 DEF Holds
  <2>5. \A i \in DOMAIN b : Holds(c, b[i]) BY <1>1, <2>2 DEF Holds
  <2>6. \A r : StartIn(c, r) /\ e.kind # "RUN_STARTED" => StartIn(b, r) BY <2>3 DEF StartIn, IsStart
  <2> QED BY <2>4, <2>5, <2>6
<1>3. CASE Len(b) >= MaxEvents
  <2>1. b # <<>> BY <1>3
  <2>2. PICK d \in Seq(Event) : d = Tail(b) /\ Len(d) = Len(b) - 1 /\ \A k \in 1 .. Len(b) - 1 : d[k] = b[k + 1]
    <3>1. Tail(b) \in Seq(Event) /\ Len(Tail(b)) = Len(b) - 1
          /\ \A k \in 1 .. (Len(b) - 1) : Tail(b)[k] = b[k + 1]
      BY <2>1
    <3> QED BY <3>1
  <2>3. c = Append(d, e) BY <1>3, <2>2 DEF Buffered
  <2>4. /\ DOMAIN c = 1 .. Len(d) + 1 /\ c[Len(d) + 1] = e
        /\ \A k \in 1 .. Len(d) : c[k] = d[k]
    BY <2>3, AppendFacts
  <2>5. \A k \in DOMAIN c : c[k] = e \/ (k + 1 \in DOMAIN b /\ k + 1 # 1 /\ c[k] = b[k + 1])
    <3>1. Len(d) \in Nat BY <2>2
    <3>2. \A k \in 1 .. Len(d) + 1 : k = Len(d) + 1 \/ k \in 1 .. Len(d) BY <3>1
    <3>3. \A k \in 1 .. Len(d) : k + 1 \in DOMAIN b /\ k + 1 # 1 /\ k \in 1 .. Len(b) - 1 BY <1>1, <2>2, <3>1
    <3>4. ASSUME NEW k \in 1 .. Len(d) PROVE c[k] = b[k + 1] BY <2>2, <2>4, <3>3
    <3> QED BY <2>4, <3>2, <3>3, <3>4
  <2>6. Holds(c, e)
    <3>1. Len(d) + 1 \in DOMAIN c BY <2>4
    <3> QED BY <2>4, <3>1 DEF Holds
  <2>7. ASSUME \A k \in DOMAIN b : b[k].kind = "RUN_STARTED" => k = 1,
               e.kind # "RUN_STARTED", NEW r, StartIn(c, r)
        PROVE  FALSE
    <3>1. PICK k \in DOMAIN c : c[k].kind = "RUN_STARTED" BY <2>7 DEF StartIn, IsStart
    <3>2. k + 1 \in DOMAIN b /\ k + 1 # 1 /\ c[k] = b[k + 1] BY <2>5, <2>7, <3>1
    <3> QED BY <2>7, <3>1, <3>2
  <2> QED BY <2>6, <2>7
<1> QED BY <1>2, <1>3

(* The numbers of a buffer go on rising, and start where they did.         *)
LEMMA RisesOn ==
    ASSUME IInv, Rising(buffer), NEW e \in Event, e.seq = NextSeq(buffer)
    PROVE  Rising(Buffered(buffer, e)) /\ \A k \in DOMAIN buffer : buffer[k].seq < e.seq
<1>1. buffer \in Seq(Event) /\ Len(buffer) \in Nat /\ DOMAIN buffer = 1 .. Len(buffer) BY DEF IInv, TypeOK
<1>2. \A k \in DOMAIN buffer : buffer[k] \in Event BY <1>1
<1>3. \A k \in DOMAIN buffer : buffer[k].seq \in Nat BY <1>2 DEF Event
<1>4. ASSUME NEW k \in DOMAIN buffer PROVE buffer[k].seq < e.seq
  <2>1. buffer # <<>> /\ Len(buffer) \in DOMAIN buffer BY <1>1, <1>4
  <2>2. e.seq = buffer[Len(buffer)].seq + 1 BY <2>1 DEF NextSeq
  <2>3. k < Len(buffer) \/ k = Len(buffer) BY <1>1, <1>4
  <2>4. buffer[k].seq < buffer[Len(buffer)].seq \/ k = Len(buffer) BY <2>1, <2>3 DEF Rising
  <2> QED BY <1>3, <2>1, <2>2, <2>4
<1>5. PICK c : c = Buffered(buffer, e) OBVIOUS
<1>6. c \in Seq(Event) /\ Grows(buffer, c, e) BY <1>1, <1>5, BufferedPlaces
<1>7. ASSUME NEW j \in DOMAIN c, NEW k \in DOMAIN c, j < k PROVE c[j].seq < c[k].seq
  <2>1. PICK i \in DOMAIN buffer : c[j] = buffer[i] /\ (c[k] = e \/ \E l \in DOMAIN buffer : i < l /\ c[k] = buffer[l])
    BY <1>6, <1>7 DEF Grows
  <2> QED BY <1>4, <2>1 DEF Rising
<1> QED BY <1>4, <1>5, <1>7 DEF Rising

(* Every step of the thread keeps it.                                      *)
LEMMA KeptNext ==
    ASSUME IInv, History, Replayable, Kept, [Next]_vars
    PROVE  Kept'
<1>1. Stepped BY StepIs
<1>2. /\ buffer \in Seq(Event) /\ sent \in Seq(Event)
      /\ \A k \in DOMAIN buffer : buffer[k].kind = "RUN_STARTED" => k = 1
      /\ \A r \in Runs : outgoing[r] # Nothing => outgoing[r].of = r /\ outgoing[r].seq >= 1
      /\ Nothing.kind = "CONTENT"
  BY DEF IInv, TypeOK, Replayable, Recorded, History, Told, TellsOf, Nothing
<1>3. CASE Quiet
  <2>1. ASSUME NEW r \in Runs PROVE KeptOf(r, outgoing', buffer', sent')
    <3>1. KeptOf(r, outgoing, buffer, sent) BY DEF Kept
    <3> QED BY <1>2, <1>3, <3>1 DEF KeptOf, Quiet
  <2> QED BY <1>3, <2>1 DEF Kept, Quiet
<1>4. ASSUME NEW e \in Event, Records(e) PROVE Kept'
  <2>1. PICK c \in Seq(Event) : c = buffer' /\ c = Buffered(buffer, e) /\ Grows(buffer, c, e)
    BY <1>2, <1>4, BufferedPlaces DEF Records
  <2>2. Rising(c) BY <1>4, <2>1, RisesOn DEF Kept, Records
  <2>3. e.kind = "RUN_STARTED" => e.seq = 1 BY <1>4 DEF Records, NextSeq
  <2>4. ASSUME NEW r \in Runs PROVE KeptOf(r, outgoing', c, sent)
    <3>1. KeptOf(r, outgoing, buffer, sent) BY DEF Kept
    <3>2. outgoing'[r] = IF r = e.of THEN e ELSE outgoing[r] BY <1>4 DEF Records
    <3>3. Holds(c, e) BY <1>2, <2>1, NoneDropped
    <3>4. CASE e.kind = "RUN_STARTED"
      <4>1. StartIn(c, r) => r = e.of
        <5>1. \A k \in DOMAIN c : c[k] = e BY <1>4, <2>1, <3>4 DEF Grows, Records
        <5> QED BY <5>1 DEF StartIn, IsStart
      <4> QED BY <1>4, <2>3, <3>1, <3>2, <3>3, <3>4, <4>1 DEF KeptOf, Records
    <3>5. CASE e.kind # "RUN_STARTED"
      <4>1. StartIn(c, r) => StartIn(buffer, r) /\ \A i \in DOMAIN buffer : Holds(c, buffer[i])
        BY <1>2, <2>1, <3>5, NoneDropped
      <4>2. \A f : StartIn(c, r) /\ Holds(buffer, f) => Holds(c, f) BY <4>1 DEF Holds
      <4> QED BY <3>1, <3>2, <3>3, <3>5, <4>1, <4>2 DEF KeptOf
    <3> QED BY <3>4, <3>5
  <2>5. \A k \in DOMAIN c : c[k].kind = "RUN_STARTED" => c[k].seq = 1 BY <2>1, <2>3 DEF Grows, Kept
  <2>6. sent' = sent BY <1>4 DEF Records
  <2> QED BY <2>1, <2>2, <2>4, <2>5, <2>6 DEF Kept
<1>5. ASSUME NEW e \in Event, Tells(e) PROVE Kept'
  <2>1. PICK c : c = buffer' /\ (c = buffer \/ c = <<>>) BY <1>5 DEF Tells
  <2>2. PICK st : st = sent' /\ st = Append(sent, e) BY <1>5 DEF Tells
  <2>3. \A k \in DOMAIN st : st[k] = e \/ (k \in DOMAIN sent /\ st[k] = sent[k])
    <3>1. /\ DOMAIN st = 1 .. Len(sent) + 1 /\ st[Len(sent) + 1] = e
          /\ \A k \in 1 .. Len(sent) : st[k] = sent[k]
          /\ DOMAIN sent = 1 .. Len(sent) /\ Len(sent) \in Nat
      BY <1>2, <2>2, AppendFacts
    <3> QED BY <3>1
  <2>4. ASSUME NEW r \in Runs PROVE KeptOf(r, outgoing', c, st)
    <3>1. KeptOf(r, outgoing, buffer, sent) BY DEF Kept
    <3>2. /\ outgoing'[r] = IF r = e.of THEN Nothing ELSE outgoing[r]
          /\ e.of = r => outgoing[r] = e
      BY <1>5 DEF Tells
    <3>3. e.of = r => e # Nothing /\ e.seq >= 1 BY <1>2, <3>2, EventIsSomething
    <3>4. StartIn(c, r) => c = buffer BY <2>1 DEF StartIn
    <3> QED BY <1>2, <2>3, <3>1, <3>2, <3>3, <3>4 DEF KeptOf
  <2>5. Rising(c) /\ \A k \in DOMAIN c : c[k].kind = "RUN_STARTED" => c[k].seq = 1 BY <2>1 DEF Rising, Kept
  <2> QED BY <2>1, <2>2, <2>4, <2>5 DEF Kept
<1> QED BY <1>1, <1>3, <1>4, <1>5 DEF Stepped

-----------------------------------------------------------------------------
(* A line s that has the start of r lacks nothing of what was told of r:   *)
(* an event of r behind one as new that came since its start is a copy of  *)
(* one before it, and what r will record or tell is newer.                 *)
Since(s, r, j) == \E p \in DOMAIN s : p <= j /\ IsStart(s[p], r)
Complete(s, r, ph, o, b, st) ==
    /\ \A k \in DOMAIN st : st[k].of = r => Holds(s, st[k])
    /\ \A j, k \in DOMAIN s : Since(s, r, j) /\ j < k /\ Numbered(s[k]) /\ s[k].of = r /\ s[j].seq >= s[k].seq =>
            \E i \in DOMAIN s : i < k /\ s[i] = s[k]
    /\ ph[r] \in Counting => \A j \in DOMAIN s : Since(s, r, j) => s[j].seq < NextSeq(b)
    /\ o[r] # Nothing => \A j \in DOMAIN s : Since(s, r, j) /\ s[j].seq >= o[r].seq => Holds(s, o[r])

(* A run of which a line has the start has started.                        *)
LEMMA HasStarted ==
    ASSUME NEW s, NEW ph, NEW o, InLine(s, ph, o), NEW r \in Runs, StartIn(s, r)
    PROVE  ph[r] \notin NotStarted
  BY DEF InLine, StartIn, IsStart, Numbered, Terminal

(* Numbers of a line.                                                      *)
LEMMA LineNumbers ==
    ASSUME NEW s \in Seq(Event)
    PROVE  \A j \in DOMAIN s : s[j] \in Event /\ s[j].seq \in Nat /\ j \in Nat
<1>1. \A j \in DOMAIN s : s[j] \in Event /\ j \in Nat OBVIOUS
<1> QED BY <1>1 DEF Event

(* The next number is above 0.                                             *)
LEMMA NextSeqCounts == ASSUME NEW b \in Seq(Event) PROVE NextSeq(b) \in Nat /\ NextSeq(b) >= 1
<1>1. b # <<>> => Len(b) \in DOMAIN b OBVIOUS
<1> QED BY <1>1, LineNumbers DEF NextSeq

(* A step that tells the group nothing leaves a line complete.             *)
LEMMA CompleteWaits ==
    ASSUME IInv, Stepped, Quiet \/ (\E e \in Event : Records(e)),
           NEW s \in Seq(Event), NEW r \in Runs, phase[r] \notin NotStarted,
           Complete(s, r, phase, outgoing, buffer, sent)
    PROVE  Complete(s, r, phase', outgoing', buffer', sent')
<1>2. phase'[r] \in Counting => phase[r] \in Counting BY DEF Stepped
<1>3. sent' = sent BY DEF Quiet, Records
<1>4. CASE Quiet BY <1>2, <1>4 DEF Complete, Quiet
<1>5. ASSUME NEW e \in Event, Records(e) PROVE Complete(s, r, phase', outgoing', buffer', sent')
  <2>1. NextSeq(buffer') = e.seq + 1 /\ e.seq = NextSeq(buffer) /\ e.seq \in Nat
    BY <1>5, BufferedNext, Numbers DEF Records, IInv, TypeOK
  <2>2. outgoing'[r] = IF r = e.of THEN e ELSE outgoing[r] BY <1>5 DEF Records
  <2>3. r = e.of => phase[r] \in Counting BY <1>5 DEF Records
  <2>4. \A j \in DOMAIN s : s[j].seq \in Nat BY LineNumbers
  <2>5. phase'[r] \in Counting => \A j \in DOMAIN s : Since(s, r, j) => s[j].seq < NextSeq(buffer')
    BY <1>2, <2>1, <2>4 DEF Complete
  <2>6. outgoing'[r] # Nothing =>
          \A j \in DOMAIN s : Since(s, r, j) /\ s[j].seq >= outgoing'[r].seq => Holds(s, outgoing'[r])
    <3>1. CASE r = e.of BY <2>1, <2>2, <2>3, <2>4, <3>1 DEF Complete
    <3>2. CASE r # e.of BY <2>2, <3>2 DEF Complete
    <3> QED BY <3>1, <3>2
  <2> QED BY <1>3, <2>5, <2>6 DEF Complete
<1> QED BY <1>4, <1>5

(* One more event at the end of a line, as Since and Holds see it.         *)
OneMore(s, e, a, r) ==
    /\ Len(s) \in Nat /\ DOMAIN s = 1 .. Len(s) /\ DOMAIN a = 1 .. Len(s) + 1
    /\ \A k \in DOMAIN s : k \in DOMAIN a /\ a[k] = s[k] /\ k <= Len(s)
    /\ Len(s) + 1 \in DOMAIN a /\ a[Len(s) + 1] = e
    /\ \A k \in DOMAIN a : k \in DOMAIN s \/ k = Len(s) + 1
    /\ \A f : Holds(s, f) => Holds(a, f)
    /\ Holds(a, e)
    /\ \A j \in DOMAIN s : Since(a, r, j) <=> Since(s, r, j)
    /\ StartIn(a, r) => StartIn(s, r) \/ IsStart(e, r)
LEMMA OneMoreSince ==
    ASSUME NEW s \in Seq(Event), NEW e \in Event, NEW a, a = Append(s, e), NEW r \in Runs
    PROVE  OneMore(s, e, a, r)
<1>1. /\ a \in Seq(Event) /\ Len(s) \in Nat /\ Len(a) = Len(s) + 1
      /\ DOMAIN s = 1 .. Len(s) /\ DOMAIN a = 1 .. Len(s) + 1
      /\ \A k \in DOMAIN s : k \in DOMAIN a /\ a[k] = s[k]
      /\ a[Len(s) + 1] = e
  BY AppendProperties
<1>2. Len(s) + 1 \in DOMAIN a BY <1>1
<1>3. \A k \in DOMAIN a : k \in DOMAIN s \/ k = Len(s) + 1 BY <1>1
<1>4. \A k \in DOMAIN s : k <= Len(s) BY <1>1
<1>5. \A f : Holds(s, f) => Holds(a, f) BY <1>1 DEF Holds
<1>6. Holds(a, e) BY <1>1, <1>2 DEF Holds
<1>7. ASSUME NEW j \in DOMAIN s PROVE Since(a, r, j) <=> Since(s, r, j)
  <2>1. \A p \in DOMAIN a : p <= j => p \in DOMAIN s BY <1>1, <1>3, <1>4
  <2> QED BY <1>1, <2>1 DEF Since
<1>8. StartIn(a, r) => StartIn(s, r) \/ IsStart(e, r) BY <1>1, <1>3 DEF StartIn
<1> QED BY <1>1, <1>2, <1>3, <1>4, <1>5, <1>6, <1>7, <1>8 DEF OneMore

(* The answer to a tab that asks in vain: it says nothing of a run's.      *)
LEMMA CompleteAnswered ==
    ASSUME IInv, Replayable, NEW s \in Seq(Event), NEW e \in Event, NEW a, a = Append(s, e),
           e.seq = 0, NEW r \in Runs,
           Complete(s, r, phase, outgoing, buffer, sent)
    PROVE  Complete(a, r, phase, outgoing, buffer, sent)
<1>1. /\ Len(s) \in Nat /\ DOMAIN s = 1 .. Len(s)
      /\ \A k \in DOMAIN s : k \in DOMAIN a /\ a[k] = s[k] /\ k <= Len(s)
      /\ a[Len(s) + 1] = e
      /\ \A k \in DOMAIN a : k \in DOMAIN s \/ k = Len(s) + 1
      /\ \A f : Holds(s, f) => Holds(a, f)
      /\ \A j \in DOMAIN s : Since(a, r, j) <=> Since(s, r, j)
  <2>1. OneMore(s, e, a, r) BY OneMoreSince
  <2> QED BY <2>1 DEF OneMore
<1>2. NextSeq(buffer) \in Nat /\ NextSeq(buffer) >= 1 BY NextSeqCounts DEF IInv, TypeOK
<1>3. outgoing[r] # Nothing => outgoing[r].seq >= 1 /\ outgoing[r].seq \in Nat
  BY Numbers DEF Replayable, Recorded
<1>4. ASSUME NEW j \in DOMAIN a, NEW k \in DOMAIN a,
             Since(a, r, j) /\ j < k /\ Numbered(a[k]) /\ a[k].of = r /\ a[j].seq >= a[k].seq
      PROVE  \E i \in DOMAIN a : i < k /\ a[i] = a[k]
  <2>1. k \in DOMAIN s BY <1>1, <1>4 DEF Numbered
  <2>2. j \in DOMAIN s BY <1>1, <1>4, <2>1
  <2>3. PICK i \in DOMAIN s : i < k /\ s[i] = s[k] BY <1>1, <1>4, <2>1, <2>2 DEF Complete
  <2> QED BY <1>1, <2>1, <2>3
<1>5. ASSUME phase[r] \in Counting, NEW j \in DOMAIN a, Since(a, r, j) PROVE a[j].seq < NextSeq(buffer)
  <2>1. CASE j \in DOMAIN s
    <3>1. Since(s, r, j) /\ a[j] = s[j] BY <1>1, <1>5, <2>1
    <3> QED BY <1>5, <2>1, <3>1 DEF Complete
  <2>2. CASE j = Len(s) + 1 BY <1>1, <1>2, <2>2
  <2> QED BY <1>1, <2>1, <2>2
<1>6. ASSUME outgoing[r] # Nothing, NEW j \in DOMAIN a, Since(a, r, j), a[j].seq >= outgoing[r].seq
      PROVE  Holds(a, outgoing[r])
  <2>1. CASE j \in DOMAIN s
    <3>1. Since(s, r, j) /\ a[j] = s[j] BY <1>1, <1>6, <2>1
    <3> QED BY <1>1, <1>6, <2>1, <3>1 DEF Complete
  <2>2. CASE j = Len(s) + 1 BY <1>1, <1>3, <1>6, <2>2
  <2> QED BY <1>1, <2>1, <2>2
<1>7. \A k \in DOMAIN sent : sent[k].of = r => Holds(a, sent[k]) BY <1>1 DEF Complete
<1> QED BY <1>4, <1>5, <1>6, <1>7 DEF Complete

(* What the group is told comes last in a line, after all that was told.   *)
LEMMA CompleteTold ==
    ASSUME IInv, History, Replayable, Kept, Stepped, NEW e \in Event, Tells(e), Sends(e, phase, outgoing),
           NoneEmittedIntoARun',
           NEW s \in Seq(Event), InLine(s, phase, outgoing), NEW a, a = Append(s, e),
           NEW r \in Runs, StartIn(a, r),
           StartIn(s, r) => Complete(s, r, phase, outgoing, buffer, sent)
    PROVE  Complete(a, r, phase', outgoing', buffer', sent')
<1>1. /\ Len(s) \in Nat /\ DOMAIN s = 1 .. Len(s)
      /\ \A k \in DOMAIN s : k \in DOMAIN a /\ a[k] = s[k] /\ k <= Len(s)
      /\ Len(s) + 1 \in DOMAIN a /\ a[Len(s) + 1] = e
      /\ \A k \in DOMAIN a : k \in DOMAIN s \/ k = Len(s) + 1
      /\ \A f : Holds(s, f) => Holds(a, f)
      /\ Holds(a, e)
      /\ \A j \in DOMAIN s : Since(a, r, j) <=> Since(s, r, j)
      /\ StartIn(s, r) \/ IsStart(e, r)
  <2>1. OneMore(s, e, a, r) BY OneMoreSince
  <2> QED BY <2>1 DEF OneMore
<1>2. /\ \A k \in DOMAIN sent : k \in DOMAIN sent' /\ sent'[k] = sent[k]
      /\ Len(sent) + 1 \in DOMAIN sent' /\ sent'[Len(sent) + 1] = e
      /\ \A k \in DOMAIN sent' : k \in DOMAIN sent \/ k = Len(sent) + 1
  BY Grown DEF Tells, IInv, TypeOK
<1>3. /\ outgoing'[r] = IF r = e.of THEN Nothing ELSE outgoing[r]
      /\ e.of = r => outgoing[r] = e
  BY DEF Tells
<1>4. KeptOf(r, outgoing, buffer, sent) BY DEF Kept
<1>5. e.of \in Emits => e.seq = 0 BY <1>2 DEF NoneEmittedIntoARun
<1>6. e.of \in Runs \cup Emits /\ e.seq \in Nat BY DEF Event
<1>7. \A j \in DOMAIN s : Since(s, r, j) => StartIn(s, r) BY DEF Since, StartIn
<1>8. NextSeq(buffer) \in Nat /\ NextSeq(buffer) >= 1 BY NextSeqCounts DEF IInv, TypeOK
<1>9. \A k \in DOMAIN sent' : sent'[k].of = r => Holds(a, sent'[k])
  <2>1. CASE StartIn(s, r) BY <1>1, <1>2, <2>1 DEF Complete
  <2>2. CASE IsStart(e, r) BY <1>1, <1>2, <1>3, <1>4, <2>2 DEF KeptOf, IsStart
  <2> QED BY <1>1, <2>1, <2>2
<1>10. ASSUME NEW j \in DOMAIN a, NEW k \in DOMAIN a,
              Since(a, r, j) /\ j < k /\ Numbered(a[k]) /\ a[k].of = r /\ a[j].seq >= a[k].seq
       PROVE  \E i \in DOMAIN a : i < k /\ a[i] = a[k]
  <2>1. j \in DOMAIN s BY <1>1, <1>10
  <2>2. Since(s, r, j) /\ StartIn(s, r) /\ a[j] = s[j] BY <1>1, <1>7, <1>10, <2>1
  <2>3. CASE k \in DOMAIN s
    <3>1. PICK i \in DOMAIN s : i < k /\ s[i] = s[k] BY <1>1, <1>10, <2>1, <2>2, <2>3 DEF Complete
    <3> QED BY <1>1, <2>3, <3>1
  <2>4. CASE k = Len(s) + 1
    <3>1. a[k] = e /\ e.of = r /\ outgoing[r] = e BY <1>1, <1>3, <1>10, <2>4
    <3>2. Holds(s, e) BY <1>10, <2>1, <2>2, <3>1, EventIsSomething DEF Complete
    <3>3. PICK i \in DOMAIN s : s[i] = e BY <3>2 DEF Holds
    <3> QED BY <1>1, <2>4, <3>1, <3>3
  <2> QED BY <1>1, <2>3, <2>4
<1>11. ASSUME phase'[r] \in Counting, NEW j \in DOMAIN a, Since(a, r, j)
       PROVE  a[j].seq < NextSeq(buffer')
  <2>1. buffer' = buffer BY <1>11 DEF Tells
  <2>2. phase[r] \in Counting \cup NotStarted BY <1>11 DEF Stepped
  <2>3. CASE j \in DOMAIN s
    <3>1. Since(s, r, j) /\ StartIn(s, r) BY <1>1, <1>7, <1>11, <2>3
    <3>2. phase[r] \in Counting BY <2>2, <3>1, HasStarted
    <3> QED BY <1>1, <2>1, <2>3, <3>1, <3>2 DEF Complete
  <2>4. CASE j = Len(s) + 1
    <3>1. a[j] = e BY <1>1, <2>4
    <3>2. CASE e.of = r
      <4>1. e.seq < NextSeq(buffer) BY <1>3, <3>2, EventIsSomething DEF History, Told, TellsOf
      <4> QED BY <2>1, <3>1, <4>1
    <3>3. CASE e.of # r /\ e.seq # 0
      <4>1. e.of \in Runs BY <1>5, <1>6, <3>3
      <4>2. phase[r] \in NotStarted \cup {"over"} BY <3>3, <4>1 DEF Sends, Numbered
      <4>3. phase[r] \in NotStarted BY <2>2, <4>2 DEF Counting, Holding
      <4>4. StartIn(s, r) BY <1>1, <3>3 DEF IsStart
      <4> QED BY <4>3, <4>4, HasStarted
    <3>4. CASE e.seq = 0 BY <1>8, <2>1, <3>1, <3>4
    <3> QED BY <3>2, <3>3, <3>4
  <2> QED BY <1>1, <2>3, <2>4
<1>12. ASSUME outgoing'[r] # Nothing, NEW j \in DOMAIN a, Since(a, r, j), a[j].seq >= outgoing'[r].seq
       PROVE  Holds(a, outgoing'[r])
  <2>1. e.of # r /\ outgoing'[r] = outgoing[r] /\ outgoing[r] # Nothing BY <1>3, <1>12
  <2>2. outgoing[r].seq >= 1 /\ outgoing[r].seq \in Nat BY <2>1, Numbers DEF Replayable, Recorded
  <2>3. StartIn(s, r) BY <1>1, <2>1 DEF IsStart
  <2>4. CASE j \in DOMAIN s BY <1>1, <1>12, <2>1, <2>3, <2>4 DEF Complete
  <2>5. CASE j = Len(s) + 1
    <3>1. a[j] = e /\ e.seq # 0 BY <1>1, <1>6, <1>12, <2>1, <2>2, <2>5
    <3>2. phase[r] \in NotStarted \cup {"over"} BY <1>5, <1>6, <2>1, <3>1 DEF Sends, Numbered
    <3>3. phase[r] \in {"sending", "reporting"} BY <2>1 DEF IInv, Sending
    <3> QED BY <3>2, <3>3 DEF NotStarted
  <2> QED BY <1>1, <2>4, <2>5
<1> QED BY <1>9, <1>10, <1>11, <1>12 DEF Complete

-----------------------------------------------------------------------------
(* What a tab shows after the first n events of a line s: a run (id) whose *)
(* start is among them and no end of it, and lastSeq (ls) is the number of *)
(* one of them, since which no run started.                                *)
OpenRun(s, n, id) ==
    /\ \E i \in DOMAIN s : i <= n /\ IsStart(s[i], id)
    /\ \A i \in DOMAIN s : i <= n /\ Numbered(s[i]) /\ s[i].of = id => s[i].kind \notin Terminal
LastIs(s, n, ls) ==
    \E j \in DOMAIN s : /\ j <= n /\ s[j].seq = ls
                        /\ \A l \in DOMAIN s : j < l /\ l <= n => s[l].kind # "RUN_STARTED"
Shows(s, n, id, ru, ls) ==
    /\ ComesInOrder(s, 0)
    /\ \A k \in DOMAIN s : s[k].kind = "RUN_STARTED" => s[k].seq = 1
    /\ ru => id # NoRun
    /\ id # NoRun => OpenRun(s, n, id)
    /\ ls = 0 \/ LastIs(s, n, ls)

(* A tab that skips an event has a copy of it.                             *)
LEMMA SkipsACopy ==
    ASSUME NEW s \in Seq(Event), NEW n \in Nat, n < Len(s), NEW id, NEW ru, NEW ls \in Nat,
           Shows(s, n, id, ru, ls), NEW ph, NEW o, NEW b, NEW st,
           NEW r \in Runs, StartIn(s, r), Complete(s, r, ph, o, b, st),
           s[n + 1].of = r, s[n + 1].seq # 0, s[n + 1].seq <= ls,
           s[n + 1].kind = "RUN_STARTED" => r = id
    PROVE  \E i \in DOMAIN s : i <= n /\ s[i] = s[n + 1]
<1> DEFINE x == s[n + 1]
<1>1. /\ n + 1 \in DOMAIN s /\ Numbered(x) /\ \A i \in DOMAIN s : i \in Nat /\ (i < n + 1 => i <= n)
      /\ \A i \in DOMAIN s : s[i] \in Event /\ s[i].seq \in Nat
  <2>1. n + 1 \in DOMAIN s /\ \A i \in DOMAIN s : i \in Nat /\ (i < n + 1 => i <= n) OBVIOUS
  <2> QED BY <2>1, LineNumbers DEF Numbered
<1>2. CASE x.kind = "RUN_STARTED"
  <2>1. PICK i \in DOMAIN s : i <= n /\ IsStart(s[i], r)
    BY <1>2 DEF Shows, OpenRun
  <2>2. s[i].seq = 1 /\ x.seq = 1 BY <1>1, <1>2, <2>1 DEF Shows, IsStart
  <2>3. \A f, h \in Event : f.of = h.of /\ f.kind = h.kind /\ f.seq = h.seq => f = h BY DEF Event
  <2>4. s[i] \in Event /\ x \in Event /\ s[i].of = x.of /\ s[i].kind = x.kind
    BY <1>1, <1>2, <2>1 DEF IsStart
  <2>5. s[i] = x
    <3> HIDE DEF x
    <3> QED BY <2>2, <2>3, <2>4
  <2> QED BY <2>1, <2>5
<1>3. CASE x.kind # "RUN_STARTED"
  <2>1. PICK p \in DOMAIN s : IsStart(s[p], r) BY DEF StartIn
  <2>2. s[p].seq = 1 /\ Numbered(s[p]) BY <2>1 DEF Shows, IsStart, Numbered
  <2>3. p # n + 1 /\ ~(n + 1 < p)
    <3>1. p # n + 1 BY <1>3, <2>1 DEF IsStart
    <3>2. ASSUME n + 1 < p PROVE FALSE
      <4>1. 0 < n + 1 OBVIOUS
      <4> QED BY <1>1, <1>3, <2>1, <2>2, <3>2, <4>1 DEF Shows, ComesInOrder, IsStart
    <3> QED BY <3>1, <3>2
  <2>4. p <= n BY <1>1, <2>3
  <2>5. PICK j \in DOMAIN s : /\ j <= n /\ s[j].seq = ls
                              /\ \A l \in DOMAIN s : j < l /\ l <= n => s[l].kind # "RUN_STARTED"
    BY <1>1 DEF Shows, LastIs
  <2>6. p <= j BY <1>1, <2>1, <2>4, <2>5 DEF IsStart
  <2>7. Since(s, r, j) BY <2>1, <2>6 DEF Since
  <2>8. j < n + 1 /\ s[j].seq >= x.seq BY <1>1, <2>5
  <2>9. PICK i \in DOMAIN s : i < n + 1 /\ s[i] = x BY <1>1, <2>7, <2>8 DEF Complete
  <2> QED BY <1>1, <2>9
<1> QED BY <1>2, <1>3

(* A line without one of its events, as indices of the line.               *)
Places(s, n, d, g) ==
    /\ \A k \in DOMAIN d : /\ k \in Nat /\ g[k] \in DOMAIN s /\ d[k] = s[g[k]] /\ g[k] # n + 1
                           /\ k <= n <=> g[k] <= n
                           /\ k <= n => g[k] = k
    /\ \A j, k \in DOMAIN d : j < k <=> g[j] < g[k]
    /\ \A j, k \in DOMAIN d : g[j] <= g[k] => j <= k
    /\ \A i \in DOMAIN s : i # n + 1 => \E k \in DOMAIN d : g[k] = i
LEMMA PlacesOf ==
    ASSUME NEW s \in Seq(Event), NEW n \in Nat, n < Len(s), NEW d, LessNext(s, n, d)
    PROVE  \E g : Places(s, n, d, g)
<1> DEFINE m == Len(s)
           g == [k \in 1 .. m - 1 |-> IF k <= n THEN k ELSE k + 1]
<1>1. /\ m \in Nat /\ n < m /\ DOMAIN s = 1 .. m /\ DOMAIN d = 1 .. m - 1
      /\ \A k \in 1 .. m - 1 : d[k] = IF k <= n THEN s[k] ELSE s[k + 1]
  BY DEF LessNext
<1> HIDE DEF m
<1>2. ASSUME NEW k \in 1 .. m - 1
      PROVE  /\ k \in Nat /\ g[k] \in 1 .. m /\ d[k] = s[g[k]] /\ g[k] # n + 1
             /\ k <= n <=> g[k] <= n
             /\ k <= n => g[k] = k
  BY <1>1
<1>3. ASSUME NEW j \in 1 .. m - 1, NEW k \in 1 .. m - 1
      PROVE  (j < k <=> g[j] < g[k]) /\ (g[j] <= g[k] => j <= k)
  BY <1>1
<1>4. ASSUME NEW i \in 1 .. m, i # n + 1 PROVE \E k \in 1 .. m - 1 : g[k] = i
  <2>1. CASE i <= n
    <3>1. i \in 1 .. m - 1 /\ g[i] = i BY <1>1, <2>1
    <3> QED BY <3>1
  <2>2. CASE ~(i <= n)
    <3>1. i - 1 \in 1 .. m - 1 /\ ~(i - 1 <= n) /\ (i - 1) + 1 = i BY <1>1, <1>4, <2>2
    <3>2. g[i - 1] = i BY <3>1
    <3> QED BY <3>1, <3>2
  <2> QED BY <2>1, <2>2
<1> HIDE DEF g
<1>5. Places(s, n, d, g) BY <1>1, <1>2, <1>3, <1>4 DEF Places
<1> QED BY <1>5

(* A line stays complete without an event of which it has a copy.          *)
LEMMA CompleteSkipped ==
    ASSUME NEW s \in Seq(Event), NEW n \in Nat, n < Len(s), NEW d, LessNext(s, n, d),
           NEW ph, NEW o, NEW b, NEW st, NEW r \in Runs,
           Complete(s, r, ph, o, b, st),
           \A k \in DOMAIN st : st[k] \in Event, o[r] # Nothing => o[r].of = r,
           s[n + 1].of = r => \E i \in DOMAIN s : i <= n /\ s[i] = s[n + 1]
    PROVE  Complete(d, r, ph, o, b, st)
<1>1. PICK g : Places(s, n, d, g) BY PlacesOf
<1>2. /\ \A k \in DOMAIN d : /\ k \in Nat /\ g[k] \in DOMAIN s /\ d[k] = s[g[k]] /\ g[k] # n + 1
                             /\ k <= n <=> g[k] <= n
                             /\ k <= n => g[k] = k
      /\ \A j, k \in DOMAIN d : j < k <=> g[j] < g[k]
      /\ \A j, k \in DOMAIN d : g[j] <= g[k] => j <= k
      /\ \A i \in DOMAIN s : i # n + 1 => \E k \in DOMAIN d : g[k] = i
      /\ \A i \in DOMAIN s : i \in Nat
  BY <1>1 DEF Places
<1>3. ASSUME NEW i \in DOMAIN s, s[i].of = r
      PROVE  \E k \in DOMAIN d : d[k] = s[i] /\ g[k] <= i
  <2>1. PICK h \in DOMAIN s : h <= i /\ h # n + 1 /\ s[h] = s[i]
    <3>1. CASE i # n + 1 BY <1>2, <3>1
    <3>2. CASE i = n + 1
      <4>1. PICK h \in DOMAIN s : h <= n /\ s[h] = s[n + 1] BY <1>3, <3>2
      <4>2. h <= i /\ h # n + 1 BY <1>2, <3>2, <4>1
      <4> QED BY <3>2, <4>1, <4>2
    <3> QED BY <3>1, <3>2
  <2>2. PICK k \in DOMAIN d : g[k] = h BY <1>2, <2>1
  <2> QED BY <1>2, <2>1, <2>2
<1>4. ASSUME NEW f, f.of = r, Holds(s, f) PROVE Holds(d, f)
  BY <1>3, <1>4 DEF Holds
<1>5. ASSUME NEW j \in DOMAIN d, Since(d, r, j) PROVE Since(s, r, g[j])
  <2>1. PICK p \in DOMAIN d : p <= j /\ IsStart(d[p], r) BY <1>5 DEF Since
  <2>2. g[p] <= g[j]
    <3>1. p < j \/ p = j BY <1>2, <2>1
    <3>2. g[p] < g[j] \/ p = j BY <1>2, <3>1
    <3> QED BY <1>2, <3>2
  <2> QED BY <1>2, <2>1, <2>2 DEF Since
<1>6. \A k \in DOMAIN st : st[k].of = r => Holds(d, st[k]) BY <1>4 DEF Complete
<1>7. ASSUME NEW j \in DOMAIN d, NEW k \in DOMAIN d,
             Since(d, r, j) /\ j < k /\ Numbered(d[k]) /\ d[k].of = r /\ d[j].seq >= d[k].seq
      PROVE  \E i \in DOMAIN d : i < k /\ d[i] = d[k]
  <2>1. Since(s, r, g[j]) /\ g[j] < g[k] /\ d[j] = s[g[j]] /\ d[k] = s[g[k]] BY <1>2, <1>5, <1>7
  <2>2. PICK i \in DOMAIN s : i < g[k] /\ s[i] = s[g[k]] BY <1>2, <1>7, <2>1 DEF Complete
  <2>3. PICK h \in DOMAIN d : d[h] = s[i] /\ g[h] <= i BY <1>3, <1>7, <2>1, <2>2
  <2>4. g[h] < g[k]
    <3>1. g[h] \in Nat /\ g[k] \in Nat /\ i \in Nat BY <1>2, <1>7, <2>3
    <3> QED BY <2>2, <2>3, <3>1
  <2> QED BY <1>2, <2>1, <2>2, <2>3, <2>4
<1>8. ph[r] \in Counting => \A j \in DOMAIN d : Since(d, r, j) => d[j].seq < NextSeq(b)
  BY <1>2, <1>5 DEF Complete
<1>9. o[r] # Nothing => \A j \in DOMAIN d : Since(d, r, j) /\ d[j].seq >= o[r].seq => Holds(d, o[r])
  BY <1>2, <1>4, <1>5 DEF Complete
<1> QED BY <1>6, <1>7, <1>8, <1>9 DEF Complete

(* What a tab shows goes on to be true as it skips an event, ...           *)
LEMMA ShowsSkipped ==
    ASSUME NEW s \in Seq(Event), NEW n \in Nat, n < Len(s), NEW d, LessNext(s, n, d),
           NEW id, NEW ru, NEW ls, Shows(s, n, id, ru, ls)
    PROVE  Shows(d, n, id, ru, ls)
<1>1. PICK g : Places(s, n, d, g) BY PlacesOf
<1>2. /\ \A k \in DOMAIN d : k \in Nat /\ g[k] \in DOMAIN s /\ d[k] = s[g[k]] /\ (k <= n => g[k] = k)
      /\ \A j, k \in DOMAIN d : j < k => g[j] < g[k]
      /\ \A i \in DOMAIN s : i \in Nat /\ i >= 1
      /\ \A i \in DOMAIN s : i # n + 1 => \E k \in DOMAIN d : g[k] = i
      /\ \A k \in DOMAIN d : k <= n <=> g[k] <= n
  <2>1. \A i \in DOMAIN s : i \in Nat /\ i >= 1 OBVIOUS
  <2> QED BY <1>1, <2>1 DEF Places
<1>3. \A k \in DOMAIN d : 0 < k /\ 0 < g[k]
  <2>1. \A k \in DOMAIN d : 0 < k BY DEF LessNext
  <2> QED BY <1>2, <2>1
<1>4. ComesInOrder(d, 0) BY <1>2, <1>3 DEF Shows, ComesInOrder
<1>5. ASSUME NEW i \in DOMAIN s, i <= n PROVE i \in DOMAIN d /\ d[i] = s[i]
  <2>1. i # n + 1 BY <1>2, <1>5
  <2>2. PICK k \in DOMAIN d : g[k] = i BY <1>2, <2>1
  <2>3. k = i BY <1>2, <1>5, <2>2
  <2> QED BY <1>2, <2>2, <2>3
<1>6. \A k \in DOMAIN d : k <= n => k \in DOMAIN s /\ d[k] = s[k] BY <1>2
<1>7. id # NoRun => OpenRun(d, n, id) BY <1>5, <1>6 DEF Shows, OpenRun
<1>8. ls = 0 \/ LastIs(d, n, ls) BY <1>5, <1>6 DEF Shows, LastIs
<1>9. \A k \in DOMAIN d : d[k].kind = "RUN_STARTED" => d[k].seq = 1 BY <1>2 DEF Shows
<1>10. ru => id # NoRun BY DEF Shows
<1> QED BY <1>4, <1>7, <1>8, <1>9, <1>10 DEF Shows

(* ... as it applies one, ...                                              *)
LEMMA ShowsApplied ==
    ASSUME NEW s \in Seq(Event), NEW n \in Nat, n < Len(s), NEW id, NEW ru \in BOOLEAN, NEW ls \in Nat,
           Shows(s, n, id, ru, ls), NEW ph, NEW o, InLine(s, ph, o),
           NEW id2, NEW ru2 \in BOOLEAN, NEW ls2, Takes(s[n + 1], id, ru, ls, id2, ru2, ls2)
    PROVE  Shows(s, n + 1, id2, ru2, ls2)
<1> DEFINE e == s[n + 1]
<1>1. /\ n + 1 \in DOMAIN s /\ \A i \in DOMAIN s : i \in Nat /\ 0 < i
      /\ \A i \in DOMAIN s : i <= n + 1 => i <= n \/ i = n + 1
      /\ \A i \in DOMAIN s : i <= n => i <= n + 1
      /\ e \in Event /\ e.seq \in Nat
  <2>1. /\ n + 1 \in DOMAIN s /\ \A i \in DOMAIN s : i \in Nat /\ 0 < i
        /\ \A i \in DOMAIN s : i <= n + 1 => i <= n \/ i = n + 1
        /\ \A i \in DOMAIN s : i <= n => i <= n + 1
    OBVIOUS
  <2> QED BY <2>1, LineNumbers
<1>2. e.kind = "RUN_STARTED" => Numbered(e) /\ e.of \in Runs /\ e.of # NoRun /\ e.seq = 1
  BY <1>1 DEF InLine, Numbered, Shows, Terminal
<1>3. /\ ~(e.seq # 0 /\ (e.kind # "RUN_STARTED" \/ e.of = id) /\ e.seq <= ls)
      /\ id2 = IF e.kind = "RUN_STARTED" THEN e.of ELSE IF Ends(e, ru, ls) THEN NoRun ELSE id
      /\ ru2 <=> (e.kind = "RUN_STARTED" \/ (ru /\ ~Ends(e, ru, ls)))
      /\ ls2 = IF e.seq = 0 THEN ls
               ELSE IF e.kind = "RUN_STARTED" /\ e.of # id THEN e.seq
               ELSE IF e.seq > ls THEN e.seq ELSE ls
  BY DEF Takes
<1> HIDE DEF e
<1>4. ru2 => id2 # NoRun BY <1>2, <1>3 DEF Shows
<1>5. ASSUME id2 # NoRun PROVE OpenRun(s, n + 1, id2)
  <2>1. CASE e.kind = "RUN_STARTED"
    <3>1. id2 = e.of /\ IsStart(e, id2) BY <1>3, <2>1 DEF IsStart
    <3>2. ASSUME NEW i \in DOMAIN s, i <= n + 1, Numbered(s[i]), s[i].of = id2, s[i].kind \in Terminal
          PROVE  FALSE
      <4>1. i # n + 1 BY <2>1, <3>2 DEF Terminal, e
      <4>2. i < n + 1 BY <1>1, <3>2, <4>1
      <4>3. e.kind \in Terminal BY <1>1, <1>2, <2>1, <3>1, <3>2, <4>2 DEF Shows, ComesInOrder, e
      <4> QED BY <2>1, <4>3 DEF Terminal
    <3> QED BY <1>1, <3>1, <3>2 DEF OpenRun, e
  <2>2. CASE e.kind # "RUN_STARTED"
    <3>1. id2 = id /\ ~Ends(e, ru, ls) /\ id # NoRun BY <1>3, <1>5, <2>2
    <3>2. OpenRun(s, n, id) BY <3>1 DEF Shows
    <3>3. Numbered(e) => e.kind \notin Terminal BY <3>1 DEF Ends, Refuses, Numbered
    <3> QED BY <1>1, <3>1, <3>2, <3>3 DEF OpenRun, e
  <2> QED BY <2>1, <2>2
<1>6. ls2 = 0 \/ LastIs(s, n + 1, ls2)
  <2>1. CASE e.seq = 0
    <3>1. ls2 = ls /\ e.kind # "RUN_STARTED" BY <1>2, <1>3, <2>1
    <3>2. CASE LastIs(s, n, ls)
      <4>1. PICK j \in DOMAIN s : /\ j <= n /\ s[j].seq = ls
                                  /\ \A l \in DOMAIN s : j < l /\ l <= n => s[l].kind # "RUN_STARTED"
        BY <3>2 DEF LastIs
      <4>2. \A l \in DOMAIN s : j < l /\ l <= n + 1 => s[l].kind # "RUN_STARTED"
        BY <1>1, <3>1, <4>1 DEF e
      <4> QED BY <1>1, <3>1, <4>1, <4>2 DEF LastIs
    <3> QED BY <3>1, <3>2 DEF Shows
  <2>2. CASE e.seq # 0
    <3>1. ls2 = e.seq
      <4>1. CASE e.kind = "RUN_STARTED" /\ e.of # id BY <1>3, <2>2, <4>1
      <4>2. CASE ~(e.kind = "RUN_STARTED" /\ e.of # id)
        <5>1. e.seq > ls BY <1>1, <1>3, <2>2, <4>2
        <5> QED BY <1>3, <2>2, <4>2, <5>1
      <4> QED BY <4>1, <4>2
    <3>2. \A l \in DOMAIN s : ~(n + 1 < l /\ l <= n + 1) BY <1>1
    <3> QED BY <1>1, <3>1, <3>2 DEF LastIs, e
  <2> QED BY <2>1, <2>2
<1> QED BY <1>4, <1>5, <1>6 DEF Shows

(* ... and as its line grows.                                              *)
LEMMA ShowsSent ==
    ASSUME NEW s \in Seq(Event), NEW n \in 0 .. Len(s), NEW id, NEW ru, NEW ls,
           Shows(s, n, id, ru, ls), NEW ph, NEW o, InLine(s, ph, o),
           NEW e \in Event, Sends(e, ph, o), e.kind = "RUN_STARTED" => e.seq = 1,
           NEW a, a = Append(s, e)
    PROVE  Shows(a, n, id, ru, ls)
<1>1. /\ Len(s) \in Nat /\ DOMAIN s = 1 .. Len(s) /\ DOMAIN a = 1 .. Len(s) + 1
      /\ \A k \in DOMAIN s : k \in DOMAIN a /\ a[k] = s[k]
      /\ a[Len(s) + 1] = e
  BY AppendProperties
<1>2. /\ \A k \in DOMAIN a : k \in DOMAIN s \/ k = Len(s) + 1
      /\ \A k \in DOMAIN a : k <= n => k \in DOMAIN s
      /\ \A j, k \in DOMAIN a : j < k => j \in DOMAIN s
      /\ \A j \in DOMAIN s : 0 < j
  BY <1>1
<1>3. ASSUME NEW j \in DOMAIN a, NEW k \in DOMAIN a, 0 < j /\ j < k, Numbered(a[j]), Numbered(a[k]),
             a[j].of = a[k].of
      PROVE  /\ a[k].kind = "RUN_STARTED" => a[j].kind = "RUN_STARTED"
             /\ a[j].kind \in Terminal => a[k].kind \in Terminal
  <2>1. j \in DOMAIN s /\ a[j] = s[j] BY <1>1, <1>2, <1>3
  <2>2. CASE k \in DOMAIN s BY <1>1, <1>3, <2>1, <2>2 DEF Shows, ComesInOrder
  <2>3. CASE k = Len(s) + 1
    <3>1. a[k] = e /\ Numbered(e) /\ s[j].of = e.of /\ Numbered(s[j]) BY <1>1, <1>3, <2>1, <2>3
    <3>2. /\ e = o[e.of]
          /\ \/ ph[e.of] = "sending" /\ e.kind # "RUN_ERROR"
             \/ ph[e.of] = "reporting" /\ e.kind = "RUN_ERROR"
      BY <3>1 DEF Sends
    <3>3. /\ o[e.of].kind = "RUN_STARTED" => s[j].kind = "RUN_STARTED"
          /\ s[j].kind \in Terminal => Ending(e.of, ph, o)
      BY <2>1, <3>1 DEF InLine
    <3>4. Ending(e.of, ph, o) => e.kind \in Terminal BY <3>2 DEF Ending, Terminal
    <3> QED BY <2>1, <3>1, <3>2, <3>3, <3>4
  <2> QED BY <1>2, <2>2, <2>3
<1>4. ComesInOrder(a, 0) BY <1>3 DEF ComesInOrder
<1>5. \A k \in DOMAIN a : a[k].kind = "RUN_STARTED" => a[k].seq = 1 BY <1>1, <1>2 DEF Shows
<1>6. id # NoRun => OpenRun(a, n, id) BY <1>1, <1>2 DEF Shows, OpenRun
<1>7. ls = 0 \/ LastIs(a, n, ls) BY <1>1, <1>2 DEF Shows, LastIs
<1> QED BY <1>4, <1>5, <1>6, <1>7 DEF Shows

-----------------------------------------------------------------------------
(* The tabs that never lost their socket, and those that never joined.     *)
AllOf(s, ph, o, b, st) == \A r \in Runs : StartIn(s, r) => Complete(s, r, ph, o, b, st)
InTouch(t) ==
    /\ Shows(Line(t), Len(applied[t]), runId[t], running[t], lastSeq[t])
    /\ NoneEmittedIntoARun => AllOf(Line(t), phase, outgoing, buffer, sent)
FirstTime(t) ==
    /\ joins[t] = 0 => /\ joined[t] = "out" /\ applied[t] = <<>>
                       /\ runId[t] = NoRun /\ ~running[t] /\ lastSeq[t] = 0
    /\ joined[t] # "out" /\ joins[t] = 1 => InTouch(t)
KeepsUpInv == TabsIInv /\ Kept /\ \A t \in Tabs : FirstTime(t)

(* The buffer, as the line of a tab that joins for the first time.         *)
LEMMA BufferIsComplete ==
    ASSUME IInv, Replayable, Kept
    PROVE  Shows(buffer, 0, NoRun, FALSE, 0) /\ AllOf(buffer, phase, outgoing, buffer, sent)
<1>1. /\ buffer \in Seq(Event) /\ \A k \in DOMAIN buffer : k \in Nat /\ k >= 1
      /\ \A k \in DOMAIN buffer : buffer[k].seq \in Nat
  <2>1. buffer \in Seq(Event) BY DEF IInv, TypeOK
  <2> QED BY <2>1, LineNumbers
<1>2. ComesInOrder(buffer, 0)
  <2> SUFFICES ASSUME NEW j \in DOMAIN buffer, NEW k \in DOMAIN buffer, j < k,
                      Numbered(buffer[j]), Numbered(buffer[k]), buffer[j].of = buffer[k].of
               PROVE  /\ buffer[k].kind # "RUN_STARTED"
                      /\ buffer[j].kind \in Terminal => buffer[k].kind \in Terminal
    BY DEF ComesInOrder
  <2>1. k # 1 BY <1>1
  <2>2. Recorded(buffer[j].of, phase, outgoing, buffer) BY DEF Replayable, Numbered
  <2> QED BY <2>1, <2>2 DEF Replayable, Recorded
<1>3. Shows(buffer, 0, NoRun, FALSE, 0) BY <1>2 DEF Shows, Kept
<1>4. ASSUME NEW j \in DOMAIN buffer PROVE buffer[j].seq < NextSeq(buffer)
  <2>1. NextSeq(buffer) \in Nat BY <1>1, NextSeqCounts
  <2>2. active \in Runs \/ buffer = <<>> BY DEF IInv, TypeOK, OfTheRun
  <2>3. active \in Runs BY <2>2, <1>4
  <2>4. [of |-> active, kind |-> "CONTENT", seq |-> NextSeq(buffer)] \in Event BY <2>1, <2>3 DEF Event, Kinds
  <2> QED BY <2>4, RisesOn DEF Kept
<1>5. ASSUME NEW r \in Runs, StartIn(buffer, r) PROVE Complete(buffer, r, phase, outgoing, buffer, sent)
  <2>1. KeptOf(r, outgoing, buffer, sent) BY DEF Kept
  <2>2. \A j, k \in DOMAIN buffer : ~(j < k /\ buffer[j].seq >= buffer[k].seq)
    BY <1>1 DEF Kept, Rising
  <2> QED BY <1>4, <1>5, <2>1, <2>2 DEF Complete, KeptOf
<1> QED BY <1>3, <1>5 DEF AllOf

(* A step that is about one tab.                                           *)
LEMMA OneFirst ==
    ASSUME UNCHANGED vars, \A u \in Tabs : FirstTime(u), NEW t \in Tabs, FirstTime(t)',
           \A u \in Tabs : u # t =>
              /\ joined'[u] = joined[u] /\ joins'[u] = joins[u] /\ Line(u)' = Line(u)
              /\ applied'[u] = applied[u] /\ runId'[u] = runId[u] /\ running'[u] = running[u]
              /\ lastSeq'[u] = lastSeq[u]
    PROVE  \A u \in Tabs : FirstTime(u)'
<1> SUFFICES ASSUME NEW u \in Tabs, u # t PROVE FirstTime(u)'
  OBVIOUS
<1>1. FirstTime(u) OBVIOUS
<1>2. NoneEmittedIntoARun' <=> NoneEmittedIntoARun BY DEF NoneEmittedIntoARun, vars
<1> QED BY <1>1, <1>2 DEF FirstTime, InTouch, vars

(* on_subscribe reads the buffer.                                          *)
LEMMA JoinFirst ==
    ASSUME KeepsUpInv, NEW t \in Tabs, Join(t)
    PROVE  \A u \in Tabs : FirstTime(u)'
<1>0. /\ TabsTypeOK /\ Follows(t) /\ FirstTime(t) /\ buffer \in Seq(Event) /\ Len(<<>>) = 0
      /\ IInv /\ Replayable /\ Kept
  BY DEF KeepsUpInv, TabsIInv, IInv, TypeOK
<1>1. /\ joined[t] = "out" /\ UNCHANGED <<vars, held, wire, lastSeq, runId, running, applied>>
      /\ joined' = [joined EXCEPT ![t] = "joining"]
      /\ joins' = [joins EXCEPT ![t] = @ + 1]
      /\ replay' = [replay EXCEPT ![t] = buffer]
  BY DEF Join
<1>2. joins[t] \in Nat /\ joins'[t] = joins[t] + 1 /\ replay'[t] = buffer
  BY <1>0, <1>1, TabsAssumption DEF TabsTypeOK
<1>3. wire[t] = <<>> /\ held[t] = <<>> BY <1>0, <1>1 DEF Follows
<1>4. ASSUME joins'[t] = 1 PROVE InTouch(t)'
  <2>1. applied[t] = <<>> /\ runId[t] = NoRun /\ ~running[t] /\ lastSeq[t] = 0
    <3>1. joins[t] = 0 BY <1>2, <1>4
    <3> QED BY <1>0, <3>1 DEF FirstTime
  <2>2. Line(t)' = buffer
    <3>1. Line(t)' = <<>> \o <<>> \o buffer \o <<>> BY <1>1, <1>2, <1>3, <2>1 DEF Line
    <3>2. <<>> \o <<>> = <<>> /\ <<>> \o buffer = buffer /\ buffer \o <<>> = buffer
      <4>1. <<>> \in Seq(Event) BY EmptySeq
      <4> QED BY <1>0, <4>1, ConcatEmptySeq
    <3> QED BY <3>1, <3>2
  <2>3. Shows(buffer, 0, NoRun, FALSE, 0) /\ AllOf(buffer, phase, outgoing, buffer, sent)
    BY <1>0, BufferIsComplete
  <2>4. Shows(buffer, 0, NoRun, running[t], 0) BY <2>1, <2>3 DEF Shows
  <2> QED BY <1>0, <1>1, <2>1, <2>2, <2>3, <2>4 DEF InTouch, vars
<1>5. FirstTime(t)' BY <1>2, <1>4 DEF FirstTime
<1>6. \A u \in Tabs : u # t =>
         joined'[u] = joined[u] /\ joins'[u] = joins[u] /\ replay'[u] = replay[u]
  BY <1>0, <1>1 DEF TabsTypeOK
<1>7. \A u \in Tabs : u # t => Line(u)' = Line(u) BY <1>1, <1>6 DEF Line
<1> QED BY <1>0, <1>1, <1>5, <1>6, <1>7, OneFirst DEF KeepsUpInv

(* Events that move along the line, and a socket that drops.               *)
LEMMA MoveFirst ==
    ASSUME KeepsUpInv, NEW t \in Tabs, Replay(t) \/ Joined(t) \/ Drop(t)
    PROVE  \A u \in Tabs : FirstTime(u)'
<1>0. TabsTypeOK /\ Follows(t) /\ FirstTime(t) BY DEF KeepsUpInv, TabsIInv
<1>1. /\ joined[t] # "out" /\ UNCHANGED <<vars, joins, lastSeq, runId, running, applied>>
      /\ joined' = [joined EXCEPT ![t] = joined'[t]]
      /\ wire' = [wire EXCEPT ![t] = wire'[t]]
      /\ replay' = [replay EXCEPT ![t] = replay'[t]]
      /\ held' = [held EXCEPT ![t] = held'[t]]
  BY <1>0 DEF Replay, Joined, Drop, TabsTypeOK
<1>2. \A u \in Tabs : u # t => /\ joined'[u] = joined[u] /\ wire'[u] = wire[u]
                               /\ replay'[u] = replay[u] /\ held'[u] = held[u]
  BY <1>0, <1>1 DEF TabsTypeOK
<1>3. \A u \in Tabs : u # t => Line(u)' = Line(u) BY <1>1, <1>2 DEF Line
<1>4. joins[t] # 0 BY <1>0, <1>1 DEF FirstTime
<1>5. FirstTime(t)'
  <2>1. CASE Drop(t)
    <3>1. joined'[t] = "out" BY <1>0, <2>1 DEF Drop, TabsTypeOK
    <3> QED BY <1>1, <1>4, <3>1 DEF FirstTime
  <2>2. CASE Replay(t) \/ Joined(t)
    <3>1. Line(t)' = Line(t) BY <1>0, <2>2, ReplayKeepsLine, JoinedKeepsLine
    <3>2. NoneEmittedIntoARun' <=> NoneEmittedIntoARun BY <1>1 DEF NoneEmittedIntoARun, vars
    <3> QED BY <1>0, <1>1, <1>4, <3>1, <3>2 DEF FirstTime, InTouch, vars
  <2> QED BY <2>1, <2>2
<1> QED BY <1>1, <1>2, <1>3, <1>5, OneFirst DEF KeepsUpInv

(* A tab skips or applies the next event.                                  *)
LEMMA ApplyFirst ==
    ASSUME KeepsUpInv, NEW t \in Tabs, Apply(t)
    PROVE  \A u \in Tabs : FirstTime(u)'
<1> DEFINE e == Head(wire[t])
           s == Line(t)
           n == Len(applied[t])
<1>0. TabsTypeOK /\ Follows(t) /\ FirstTime(t) /\ IInv /\ History BY DEF KeepsUpInv, TabsIInv
<1>1. /\ wire[t] # <<>> /\ wire' = [wire EXCEPT ![t] = Tail(@)]
      /\ UNCHANGED <<vars, joined, joins, replay, held>>
  BY DEF Apply
<1>2. s \in Seq(Event) /\ n \in Nat /\ n \in 0 .. Len(s) BY <1>0, TabLine
<1>3. /\ e \in Event /\ n < Len(s) /\ s[n + 1] = e
      /\ Skipped(t, e) => UNCHANGED <<lastSeq, runId, running, applied>> /\ LessNext(s, n, Line(t)')
      /\ ~Skipped(t, e) =>
            /\ Line(t)' = s /\ Len(applied'[t]) = n + 1
            /\ Takes(e, runId[t], running[t], lastSeq[t], runId'[t], running'[t], lastSeq'[t])
  BY ApplyMoves DEF KeepsUpInv
<1>4. joined[t] # "out" /\ joins[t] # 0 BY <1>0, <1>1 DEF Follows, FirstTime
<1>5. InLine(s, phase, outgoing) BY <1>0 DEF Follows, Watches
<1>6. /\ lastSeq[t] \in Nat /\ runId[t] \in Runs \cup {NoRun} /\ running[t] \in BOOLEAN
  BY <1>0 DEF TabsTypeOK
<1>7. TabsTypeOK' BY ApplyFollows DEF KeepsUpInv
<1>8. /\ lastSeq'[t] \in Nat /\ runId'[t] \in Runs \cup {NoRun} /\ running'[t] \in BOOLEAN
  BY <1>7 DEF TabsTypeOK
<1>9. NoneEmittedIntoARun' <=> NoneEmittedIntoARun BY <1>1 DEF NoneEmittedIntoARun, vars
<1> HIDE DEF s, n, e
<1>10. ASSUME joins[t] = 1 PROVE InTouch(t)'
  <2>1. /\ Shows(s, n, runId[t], running[t], lastSeq[t])
        /\ NoneEmittedIntoARun => AllOf(s, phase, outgoing, buffer, sent)
    BY <1>0, <1>4, <1>10 DEF FirstTime, InTouch, s, n
  <2>2. PICK l \in Seq(Event), m \in Nat, id \in Runs \cup {NoRun}, ru \in BOOLEAN, ls \in Nat :
           l = s /\ m = n /\ id = runId[t] /\ ru = running[t] /\ ls = lastSeq[t]
    BY <1>2, <1>6
  <2>3. /\ m < Len(l) /\ Shows(l, m, id, ru, ls) /\ InLine(l, phase, outgoing) /\ l[m + 1] = e
    BY <1>3, <1>5, <2>1, <2>2
  <2>4. CASE Skipped(t, e)
    <3>1. PICK d \in Seq(Event) : d = Line(t)' /\ LessNext(l, m, d) BY <1>3, <2>2, <2>4 DEF LessNext
    <3>2. UNCHANGED <<lastSeq, runId, running, applied>> BY <1>3, <2>4
    <3>3. Shows(d, m, id, ru, ls) BY <2>3, <3>1, ShowsSkipped
    <3>4. ASSUME NoneEmittedIntoARun, NEW r \in Runs, StartIn(d, r)
          PROVE  Complete(d, r, phase, outgoing, buffer, sent)
      <4>1. StartIn(l, r)
        <5>1. PICK g : Places(l, m, d, g) BY <2>3, <3>1, PlacesOf
        <5>2. \A k \in DOMAIN d : g[k] \in DOMAIN l /\ d[k] = l[g[k]] BY <5>1 DEF Places
        <5> QED BY <3>4, <5>2 DEF StartIn
      <4>2. Complete(l, r, phase, outgoing, buffer, sent) BY <2>1, <2>2, <3>4, <4>1 DEF AllOf
      <4>3. e.seq # 0 /\ e.seq <= ls /\ (e.kind = "RUN_STARTED" => e.of = id)
        BY <2>2, <2>4 DEF Skipped, ReplayedStart
      <4>4. l[m + 1].of = r => \E i \in DOMAIN l : i <= m /\ l[i] = l[m + 1]
        BY <2>3, <4>1, <4>2, <4>3, SkipsACopy
      <4>5. \A k \in DOMAIN sent : sent[k] \in Event BY <1>0, Numbers
      <4>6. outgoing[r] # Nothing => outgoing[r].of = r BY <1>0 DEF History, Told, TellsOf
      <4> QED BY <2>3, <3>1, <4>2, <4>4, <4>5, <4>6, CompleteSkipped
    <3>5. NoneEmittedIntoARun => AllOf(d, phase, outgoing, buffer, sent) BY <3>4 DEF AllOf
    <3> QED BY <1>1, <1>9, <2>2, <3>1, <3>2, <3>3, <3>5 DEF InTouch, vars, n
  <2>5. CASE ~Skipped(t, e)
    <3>1. PICK id2 \in Runs \cup {NoRun}, ru2 \in BOOLEAN, ls2 \in Nat :
                id2 = runId'[t] /\ ru2 = running'[t] /\ ls2 = lastSeq'[t]
      BY <1>8
    <3>2. Takes(l[m + 1], id, ru, ls, id2, ru2, ls2) BY <1>3, <2>2, <2>3, <2>5, <3>1
    <3>3. Shows(l, m + 1, id2, ru2, ls2) BY <2>3, <3>2, ShowsApplied
    <3>4. Line(t)' = l /\ Len(applied'[t]) = m + 1 BY <1>3, <2>2, <2>5
    <3> QED BY <1>1, <1>9, <2>1, <2>2, <3>1, <3>3, <3>4 DEF InTouch, vars
  <2> QED BY <2>4, <2>5
<1>11. FirstTime(t)' BY <1>1, <1>4, <1>10 DEF FirstTime
<1>12. \A u \in Tabs : u # t =>
          /\ wire'[u] = wire[u] /\ applied'[u] = applied[u] /\ runId'[u] = runId[u]
          /\ running'[u] = running[u] /\ lastSeq'[u] = lastSeq[u]
  <2>1. /\ wire' = [wire EXCEPT ![t] = wire'[t]]
        /\ applied' = [applied EXCEPT ![t] = applied'[t]] /\ runId' = [runId EXCEPT ![t] = runId'[t]]
        /\ running' = [running EXCEPT ![t] = running'[t]] /\ lastSeq' = [lastSeq EXCEPT ![t] = lastSeq'[t]]
    BY <1>0, <1>1 DEF Apply, TabsTypeOK
  <2> QED BY <1>0, <2>1 DEF TabsTypeOK
<1>13. \A u \in Tabs : u # t => Line(u)' = Line(u) BY <1>1, <1>12 DEF Line
<1> QED BY <1>1, <1>11, <1>12, <1>13, OneFirst DEF KeepsUpInv

(* What was told to the group is not taken back.                           *)
LEMMA NoneEmittedBefore ==
    ASSUME IInv, NEW e \in Event, Tells(e), NoneEmittedIntoARun'
    PROVE  NoneEmittedIntoARun
<1>1. \A k \in DOMAIN sent : k \in DOMAIN sent' /\ sent'[k] = sent[k] BY Grown DEF Tells, IInv, TypeOK
<1> QED BY <1>1 DEF NoneEmittedIntoARun

(* A step of the thread, for every tab.                                    *)
LEMMA ThreadFirst ==
    ASSUME ReplayFirst = TRUE, KeepsUpInv, ThreadStep
    PROVE  \A u \in Tabs : FirstTime(u)'
<1>0. IInv /\ History /\ Replayable /\ Kept /\ TabsTypeOK /\ sent \in Seq(Event)
  BY DEF KeepsUpInv, TabsIInv, IInv, TypeOK
<1>1. Next /\ Forward /\ UNCHANGED <<joined, joins, replay, lastSeq, runId, running, applied>>
  BY DEF ThreadStep, Next
<1>2. Onward /\ Stepped BY <1>0, <1>1, NextOnward, StepIs
<1> SUFFICES ASSUME NEW u \in Tabs, joined[u] # "out", joins[u] = 1 PROVE InTouch(u)'
  <2>1. \A u \in Tabs : FirstTime(u) BY DEF KeepsUpInv
  <2> QED BY <1>1, <2>1 DEF FirstTime
<1>3. Follows(u) /\ FirstTime(u) BY DEF KeepsUpInv, TabsIInv
<1>4. InTouch(u) BY <1>3 DEF FirstTime
<1>5. PICK s \in Seq(Event) : s = Line(u) /\ Len(applied[u]) \in 0 .. Len(s) BY <1>0, TabLine
<1>6. InLine(s, phase, outgoing) BY <1>3, <1>5 DEF Follows, Watches
<1>7. Shows(s, Len(applied[u]), runId[u], running[u], lastSeq[u]) BY <1>4, <1>5 DEF InTouch
<1>8. ASSUME NEW e \in Event PROVE Append(sent, e) # sent
  <2>1. Len(sent) \in Nat /\ Len(Append(sent, e)) = Len(sent) + 1 BY <1>0, <1>8, AppendFacts
  <2> QED BY <2>1
<1>9. CASE Quiet \/ (\E e \in Event : Records(e))
  <2>1. sent' = sent BY <1>9 DEF Quiet, Records
  <2>2. Line(u)' = s BY <1>1, <1>5, <2>1 DEF Forward, Line
  <2>3. ASSUME NoneEmittedIntoARun', NEW r \in Runs, StartIn(s, r)
        PROVE  Complete(s, r, phase', outgoing', buffer', sent')
    <3>1. NoneEmittedIntoARun BY <2>1, <2>3 DEF NoneEmittedIntoARun
    <3>2. Complete(s, r, phase, outgoing, buffer, sent) BY <1>4, <1>5, <2>3, <3>1 DEF InTouch, AllOf
    <3>3. phase[r] \notin NotStarted BY <1>6, <2>3, HasStarted
    <3> QED BY <1>0, <1>2, <1>9, <3>2, <3>3, CompleteWaits
  <2> QED BY <1>1, <1>7, <2>2, <2>3 DEF InTouch, AllOf
<1>10. ASSUME NEW e \in Event, Tells(e) PROVE InTouch(u)'
  <2>1. sent' = Append(sent, e) /\ sent' # sent BY <1>8, <1>10 DEF Tells
  <2>2. Sends(e, phase, outgoing)
    <3>1. PICK f \in Event : sent' = Append(sent, f) /\ Sends(f, phase, outgoing) BY <1>2, <2>1 DEF Onward
    <3>2. Append(sent, e)[Len(sent) + 1] = e /\ Append(sent, f)[Len(sent) + 1] = f BY <1>0, AppendFacts
    <3> QED BY <2>1, <3>1, <3>2
  <2>3. PICK a : a = Line(u)' /\ a = Append(s, e)
    <3>1. Hears(u, e) BY <1>0, <1>3, <2>1, ThreadHears
    <3> QED BY <1>5, <3>1 DEF Hears
  <2>4. e.kind = "RUN_STARTED" => e.seq = 1
    <3>1. e.kind = "RUN_STARTED" => e.of \in Runs /\ e = outgoing[e.of] BY <2>2 DEF Sends, Numbered
    <3> QED BY <1>0, <3>1 DEF Kept, KeptOf
  <2>5. Shows(a, Len(applied[u]), runId[u], running[u], lastSeq[u])
    <3>1. PICK n, id, ru, ls :
             n \in 0 .. Len(s) /\ n = Len(applied[u]) /\ id = runId[u] /\ ru = running[u] /\ ls = lastSeq[u]
      BY <1>5
    <3>2. Shows(s, n, id, ru, ls) /\ n \in 0 .. Len(s) BY <1>7, <3>1
    <3>3. Shows(a, n, id, ru, ls) BY <1>6, <2>2, <2>3, <2>4, <3>2, ShowsSent
    <3> QED BY <3>1, <3>3
  <2>6. ASSUME NoneEmittedIntoARun', NEW r \in Runs, StartIn(a, r)
        PROVE  Complete(a, r, phase', outgoing', buffer', sent')
    <3>1. NoneEmittedIntoARun BY <1>0, <1>10, <2>6, NoneEmittedBefore
    <3>2. StartIn(s, r) => Complete(s, r, phase, outgoing, buffer, sent) BY <1>4, <1>5, <3>1 DEF InTouch, AllOf
    <3> QED BY <1>0, <1>2, <1>6, <1>10, <2>2, <2>3, <2>6, <3>2, CompleteTold
  <2> QED BY <1>1, <2>3, <2>5, <2>6 DEF InTouch, AllOf
<1> QED BY <1>2, <1>9, <1>10 DEF Stepped

(* The answer to a tab that asks in vain.                                  *)
LEMMA AskFirst ==
    ASSUME KeepsUpInv, NEW t \in Tabs, NEW r \in Runs, AskInVain(t, r)
    PROVE  \A u \in Tabs : FirstTime(u)'
<1> DEFINE e == [of |-> r, kind |-> "RUN_ERROR", seq |-> 0]
<1>0. IInv /\ History /\ Replayable /\ TabsTypeOK
  BY DEF KeepsUpInv, TabsIInv
<1>1. /\ Refuse(r) /\ UNCHANGED <<joined, joins, lastSeq, runId, running, applied>>
      /\ UNCHANGED <<outgoing, buffer, sent>>
  BY DEF AskInVain, Refuse
<1>2. Stepped
  <2>1. Next BY <1>1 DEF Next
  <2> QED BY <1>0, <2>1, StepIs
<1>3. Quiet BY <1>1 DEF Quiet
<1>4. e \in Event /\ e.seq = 0 /\ e.kind = "RUN_ERROR" BY DEF Event, Kinds
<1>5. NoneEmittedIntoARun' <=> NoneEmittedIntoARun BY <1>1 DEF NoneEmittedIntoARun
<1>6. \A u \in Tabs : Follows(u) BY DEF KeepsUpInv, TabsIInv
<1>7. Hears(t, e) /\ \A u \in Tabs : u # t => Line(u)' = Line(u) BY <1>0, <1>6, AskHears
<1> HIDE DEF e
<1> SUFFICES ASSUME NEW u \in Tabs, joined[u] # "out", joins[u] = 1 PROVE InTouch(u)'
  <2>1. \A u \in Tabs : FirstTime(u) BY DEF KeepsUpInv
  <2> QED BY <1>1, <2>1 DEF FirstTime
<1>8. Follows(u) /\ InTouch(u)
  <2>1. FirstTime(u) BY DEF KeepsUpInv
  <2> QED BY <1>6, <2>1 DEF FirstTime
<1>9. PICK s \in Seq(Event) : s = Line(u) BY <1>0, TabLine
<1>15. PICK n \in 0 .. Len(s) : n = Len(applied[u]) BY <1>0, <1>9, TabLine
<1>10. InLine(s, phase, outgoing) BY <1>8, <1>9 DEF Follows, Watches
<1>11. PICK id, ru, ls : id = runId[u] /\ ru = running[u] /\ ls = lastSeq[u] OBVIOUS
<1>12. Shows(s, n, id, ru, ls) /\ (NoneEmittedIntoARun => AllOf(s, phase, outgoing, buffer, sent))
  BY <1>8, <1>9, <1>15, <1>11 DEF InTouch
<1>13. PICK a \in Seq(Event) : /\ a = Line(u)'
                               /\ Shows(a, n, id, ru, ls)
                               /\ NoneEmittedIntoARun => AllOf(a, phase, outgoing, buffer, sent)
                               /\ \A q \in Runs : StartIn(a, q) => StartIn(s, q)
  <2>1. CASE u = t
    <3>1. PICK a \in Seq(Event) : a = Line(u)' /\ a = Append(s, e)
      <4>1. Append(s, e) \in Seq(Event) BY <1>4, <1>9, AppendProperties
      <4> QED BY <1>7, <1>8, <1>9, <2>1, <4>1 DEF Hears
    <3>2. Sends(e, phase, outgoing) BY <1>4 DEF Sends, Numbered
    <3>3. Shows(a, n, id, ru, ls) BY <1>4, <1>10, <1>12, <3>1, <3>2, ShowsSent
    <3>4. ASSUME NEW q \in Runs, StartIn(a, q) PROVE StartIn(s, q)
      <4>1. OneMore(s, e, a, q) BY <1>4, <3>1, OneMoreSince
      <4> QED BY <1>4, <3>4, <4>1 DEF OneMore, IsStart
    <3>5. ASSUME NoneEmittedIntoARun, NEW q \in Runs, StartIn(a, q)
          PROVE  Complete(a, q, phase, outgoing, buffer, sent)
      <4>1. Complete(s, q, phase, outgoing, buffer, sent) BY <1>12, <3>4, <3>5 DEF AllOf
      <4> QED BY <1>0, <1>4, <3>1, <4>1, CompleteAnswered
    <3> QED BY <3>1, <3>3, <3>4, <3>5 DEF AllOf
  <2>2. CASE u # t BY <1>7, <1>9, <1>12, <2>2
  <2> QED BY <2>1, <2>2
<1>14. ASSUME NoneEmittedIntoARun', NEW q \in Runs, StartIn(a, q)
       PROVE  Complete(a, q, phase', outgoing', buffer', sent')
  <2>1. Complete(a, q, phase, outgoing, buffer, sent) BY <1>5, <1>13, <1>14 DEF AllOf
  <2>2. StartIn(s, q) BY <1>13, <1>14
  <2>3. phase[q] \notin NotStarted BY <1>10, <2>2, HasStarted
  <2> QED BY <1>0, <1>2, <1>3, <2>1, <2>3, CompleteWaits
<1> QED BY <1>1, <1>9, <1>15, <1>11, <1>13, <1>14 DEF InTouch, AllOf

(* Every step keeps it.                                                    *)
LEMMA NextKeepsUp ==
    ASSUME ReplayFirst = TRUE, KeepsUpInv, [TabsNext]_allVars
    PROVE  KeepsUpInv'
<1>0. TabsIInv /\ IInv /\ History /\ Replayable /\ Kept BY DEF KeepsUpInv, TabsIInv
<1>1. TabsIInv' BY <1>0, NextTabsIInv
<1>2. [Next]_vars
  <2>1. CASE ThreadStep BY <2>1 DEF ThreadStep, Next
  <2>2. ASSUME NEW t \in Tabs, NEW r \in Runs, AskInVain(t, r) PROVE Next BY <2>2 DEF AskInVain, Next
  <2>3. ASSUME NEW t \in Tabs, Join(t) \/ Replay(t) \/ Joined(t) \/ Drop(t) \/ Apply(t)
        PROVE  UNCHANGED vars
    BY <2>3 DEF Join, Replay, Joined, Drop, Apply, vars
  <2>4. CASE UNCHANGED allVars BY <2>4 DEF allVars
  <2> QED BY <2>1, <2>2, <2>3, <2>4 DEF TabsNext
<1>3. Kept' BY <1>0, <1>2, KeptNext
<1>4. \A u \in Tabs : FirstTime(u)'
  <2>1. CASE ThreadStep BY <2>1, ThreadFirst
  <2>2. ASSUME NEW t \in Tabs, NEW r \in Runs, AskInVain(t, r) PROVE \A u \in Tabs : FirstTime(u)'
    BY <2>2, AskFirst
  <2>3. ASSUME NEW t \in Tabs, Join(t) \/ Replay(t) \/ Joined(t) \/ Drop(t) \/ Apply(t)
        PROVE  \A u \in Tabs : FirstTime(u)'
    BY <2>3, JoinFirst, MoveFirst, ApplyFirst
  <2>4. CASE UNCHANGED allVars
    <3>1. ASSUME NEW u \in Tabs PROVE FirstTime(u)'
      <4>1. Line(u)' = Line(u) BY <2>4 DEF allVars, tabVars, Line
      <4>2. NoneEmittedIntoARun' <=> NoneEmittedIntoARun BY <2>4 DEF NoneEmittedIntoARun, allVars, vars
      <4>3. FirstTime(u) BY DEF KeepsUpInv
      <4> QED BY <2>4, <4>1, <4>2, <4>3 DEF allVars, tabVars, vars, FirstTime, InTouch
    <3> QED BY <3>1
  <2> QED BY <2>1, <2>2, <2>3, <2>4 DEF TabsNext
<1> QED BY <1>1, <1>3, <1>4 DEF KeepsUpInv

(* Nobody has joined at first, and nothing was told.                       *)
LEMMA InitKeepsUp == TabsInit => KeepsUpInv
<1> SUFFICES ASSUME TabsInit PROVE KeepsUpInv
  OBVIOUS
<1>1. TabsIInv BY InitTabsIInv
<1>2. buffer = <<>> /\ sent = <<>> /\ \A r \in Runs : outgoing[r] = Nothing BY DEF TabsInit, Init
<1>3. Kept BY <1>2 DEF Kept, KeptOf, StartIn, Rising, Nothing
<1>4. \A t \in Tabs : FirstTime(t) BY DEF TabsInit, FirstTime
<1> QED BY <1>1, <1>3, <1>4 DEF KeepsUpInv

(* At rest, what a tab has applied is its whole line.                      *)
LEMMA KeepsUp == KeepsUpInv => InStep
<1> SUFFICES ASSUME KeepsUpInv, NEW t \in Tabs, AtRest, Settled(t), joins[t] = 1, NoneEmittedIntoARun
             PROVE  /\ ~running[t]
                    /\ \A j, k \in DOMAIN sent :
                          sent[j].kind = "RUN_STARTED" /\ Has(t, sent[j]) /\ sent[k].of = sent[j].of
                             => Has(t, sent[k])
  BY DEF InStep
<1>1. /\ IInv /\ History /\ Kept /\ TabsTypeOK /\ Follows(t) /\ FirstTime(t) /\ joined[t] = "in" /\ wire[t] = <<>>
  BY DEF KeepsUpInv, TabsIInv, Settled
<1>2. /\ applied[t] \in Seq(Event) /\ replay[t] = <<>> /\ held[t] = <<>>
  BY <1>1, TabLine DEF Follows
<1>3. PICK s \in Seq(Event) : s = applied[t] BY <1>2
<1>4. Line(t) = s
  <2>1. s \o <<>> = s BY ConcatEmptySeq
  <2> QED BY <1>1, <1>2, <1>3, <2>1 DEF Line
<1>5. InTouch(t) /\ InLine(s, phase, outgoing) BY <1>1, <1>4 DEF FirstTime, Follows, Watches
<1>6. Shows(s, Len(s), runId[t], running[t], lastSeq[t]) /\ AllOf(s, phase, outgoing, buffer, sent)
  BY <1>3, <1>4, <1>5 DEF InTouch
<1>7. \A i \in DOMAIN s : i <= Len(s) OBVIOUS
<1>8. ~running[t]
  <2> SUFFICES ASSUME running[t] PROVE FALSE
    OBVIOUS
  <2>1. runId[t] \in Runs BY <1>1, <1>6 DEF Shows, TabsTypeOK
  <2>2. PICK r \in Runs : r = runId[t] BY <2>1
  <2>3. OpenRun(s, Len(s), r) /\ StartIn(s, r) BY <1>6, <2>2 DEF Shows, OpenRun, StartIn
  <2>4. phase[r] = "over"
    <3>1. phase[r] \notin NotStarted BY <1>5, <2>3, HasStarted
    <3>2. phase[r] \in Phases /\ phase[r] \notin Holding BY <1>1 DEF IInv, TypeOK, AtRest
    <3> QED BY <3>1, <3>2 DEF Holding, NotStarted
  <2>5. PICK k \in DOMAIN sent : sent[k].of = r /\ sent[k].kind \in Terminal
    BY <1>1, <2>4 DEF History, Told, EndsOf, Terminals
  <2>6. Holds(s, sent[k]) BY <1>6, <2>3, <2>5 DEF AllOf, Complete
  <2>7. PICK i \in DOMAIN s : s[i] = sent[k] BY <2>6 DEF Holds
  <2>8. sent[k].seq >= 1 /\ sent[k].seq \in Nat BY <1>1, <2>5, Numbers DEF Kept, KeptOf
  <2>9. Numbered(s[i]) BY <2>5, <2>7, <2>8 DEF Numbered
  <2> QED BY <1>7, <2>3, <2>5, <2>7, <2>9 DEF OpenRun
<1>9. ASSUME NEW j \in DOMAIN sent, NEW k \in DOMAIN sent, sent[j].kind = "RUN_STARTED", Has(t, sent[j]),
             sent[k].of = sent[j].of
      PROVE  Has(t, sent[k])
  <2>1. PICK i \in DOMAIN s : s[i] = sent[j] BY <1>3, <1>9 DEF Has
  <2>2. Numbered(s[i]) BY <1>5, <1>9, <2>1 DEF InLine, Terminal
  <2>3. PICK r \in Runs : r = sent[j].of BY <2>1, <2>2 DEF Numbered
  <2>4. StartIn(s, r) BY <1>9, <2>1, <2>3 DEF StartIn, IsStart
  <2>5. Holds(s, sent[k]) BY <1>6, <1>9, <2>3, <2>4 DEF AllOf, Complete
  <2> QED BY <1>3, <2>5 DEF Holds, Has
<1> QED BY <1>8, <1>9

(* A tab that never lost its socket is in step whenever the thread rests:  *)
(* it knows that no run is on, and of a run that it saw start it applied   *)
(* every event, replayed to it or sent, as long as nothing was emitted     *)
(* into a run and broadcasts are kept back until the replay was sent.      *)
THEOREM TabsKeepUp == ASSUME ReplayFirst = TRUE PROVE TabsSpec => []InStep
<1>1. KeepsUpInv /\ [TabsNext]_allVars => KeepsUpInv' BY NextKeepsUp
<1> QED BY <1>1, InitKeepsUp, KeepsUp, PTL DEF TabsSpec
===============================================================================
