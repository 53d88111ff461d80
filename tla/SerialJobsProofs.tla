--------------------------- MODULE SerialJobsProofs ---------------------------
(***************************************************************************)
(* Proofs about the serial jobs of a key, for any jobs, workers and calls  *)
(* of cancel(): what is queued is the end of what was submitted, the       *)
(* registered worker has the only job that runs, and a job that is being   *)
(* stopped is awaited by the cancel() that stops it.                       *)
(***************************************************************************)
EXTENDS SerialJobs, TLAPS

(* TypeOK: every field has the values the code gives it.                   *)
THEOREM TypeCorrect == Spec => []TypeOK
<1>1. Init => TypeOK
  BY NoneAssumption DEF Init, TypeOK, JobStates
<1>2. TypeOK /\ [Next]_vars => TypeOK'
  <2> SUFFICES ASSUME TypeOK, [Next]_vars PROVE TypeOK'
    OBVIOUS
  <2> USE NoneAssumption DEF TypeOK, JobStates
  <2>1. ASSUME NEW j \in Jobs, Submit(j) PROVE TypeOK'
    BY <2>1 DEF Submit, NeedsWorker
  <2>2. ASSUME NEW j \in Jobs, JobNext(j) PROVE TypeOK'
    BY <2>2 DEF JobNext, JobEnds, JobCancelled
  <2>3. ASSUME NEW w \in Workers, TakeJob(w) PROVE TypeOK'
    <3>1. Head(queue) \in Jobs /\ Tail(queue) \in Seq(Jobs)
      BY <2>3 DEF TakeJob
    <3>2. worker # None
      BY <2>3 DEF TakeJob
    <3> QED
      BY <2>3, <3>1, <3>2 DEF TakeJob
  <2>4. ASSUME NEW w \in Workers, WorkerEnds(w) PROVE TypeOK'
    BY <2>4 DEF WorkerEnds, Cleared
  <2>5. ASSUME NEW w \in Workers, WorkerReturns(w) PROVE TypeOK'
    BY <2>5 DEF WorkerReturns, Cleared
  <2>6. ASSUME NEW c \in Cancels, Cancel(c) PROVE TypeOK'
    BY <2>6 DEF Cancel
  <2>7. ASSUME NEW c \in Cancels, CancelReturns(c) PROVE TypeOK'
    BY <2>7 DEF CancelReturns
  <2>8. CASE UNCHANGED vars
    BY <2>8 DEF vars
  <2> QED
    BY <2>1, <2>2, <2>3, <2>4, <2>5, <2>6, <2>7, <2>8 DEF Next, WorkerNext
<1> QED
  BY <1>1, <1>2, PTL DEF Spec

-----------------------------------------------------------------------------
(* The queue is the last of what was submitted, and nothing else is        *)
(* queued; a job is submitted once.                                        *)
Started == Len(order) - Len(queue)
Submitted ==
    /\ \A k, l \in DOMAIN order : order[k] = order[l] => k = l
    /\ \A k \in DOMAIN order : state[order[k]] # "unused"
QueueIsTheRest ==
    /\ Len(queue) <= Len(order)
    /\ \A k \in DOMAIN queue : queue[k] = order[Started + k]
    /\ \A j \in Jobs : state[j] = "queued" => \E k \in DOMAIN queue : j = queue[k]
    /\ \A k \in DOMAIN queue : state[queue[k]] = "queued"

OrderInv == TypeOK /\ Submitted /\ QueueIsTheRest

\* It holds at first.
LEMMA OrderInit == Init => OrderInv
  BY NoneAssumption DEF Init, OrderInv, TypeOK, JobStates, Submitted, QueueIsTheRest, Started

\* submit() appends to the queue and to the order alike.
LEMMA Submitting ==
  ASSUME OrderInv, TypeOK', NEW j \in Jobs, Submit(j)
  PROVE  OrderInv'
<1> USE DEF OrderInv, TypeOK
<1>1. /\ order' = Append(order, j) /\ queue' = Append(queue, j)
      /\ state[j] = "unused" /\ state' = [state EXCEPT ![j] = "queued"]
  BY DEF Submit
<1>2. /\ Len(order') = Len(order) + 1 /\ Len(queue') = Len(queue) + 1
      /\ DOMAIN order' = 1 .. Len(order) + 1 /\ DOMAIN queue' = 1 .. Len(queue) + 1
      /\ order'[Len(order) + 1] = j /\ queue'[Len(queue) + 1] = j
      /\ \A k \in 1 .. Len(order) : order'[k] = order[k]
      /\ \A k \in 1 .. Len(queue) : queue'[k] = queue[k]
      /\ Len(order) \in Nat /\ Len(queue) \in Nat
      /\ DOMAIN order = 1 .. Len(order) /\ DOMAIN queue = 1 .. Len(queue)
  BY <1>1
<1>3. \A k \in 1 .. Len(order) : order[k] # j /\ order[k] \in Jobs
  BY <1>1, <1>2 DEF Submitted
<1>4. Submitted'
  BY <1>1, <1>2, <1>3 DEF Submitted
<1>5. Started' = Started /\ Started \in Nat
  BY <1>2 DEF Started, QueueIsTheRest
<1>6. \A k \in DOMAIN queue' : queue'[k] = order'[Started' + k]
  <2>1. \A k \in 1 .. Len(queue) : queue'[k] = order'[Started' + k]
    <3> TAKE k \in 1 .. Len(queue)
    <3>1. Started + k \in 1 .. Len(order)
      BY <1>2, <1>5 DEF Started
    <3> QED
      BY <1>2, <1>5, <3>1 DEF QueueIsTheRest
  <2>2. Started' + (Len(queue) + 1) = Len(order) + 1
    BY <1>2, <1>5 DEF Started
  <2>3. queue'[Len(queue) + 1] = order'[Started' + (Len(queue) + 1)]
    BY <1>2, <2>2
  <2> QED
    <3> SUFFICES ASSUME NEW k \in 1 .. Len(queue) + 1 PROVE queue'[k] = order'[Started' + k]
      BY <1>2
    <3>1. CASE k \in 1 .. Len(queue)
      BY <2>1, <3>1
    <3>2. CASE k = Len(queue) + 1
      BY <2>3, <3>2
    <3> QED
      BY <1>2, <3>1, <3>2
<1>7. \A i \in Jobs : state'[i] = "queued" => \E k \in DOMAIN queue' : i = queue'[k]
  <2> SUFFICES ASSUME NEW i \in Jobs, state'[i] = "queued"
               PROVE  \E k \in DOMAIN queue' : i = queue'[k]
    OBVIOUS
  <2>1. CASE i = j
    BY <1>2, <2>1
  <2>2. CASE i # j
    <3>1. PICK k \in DOMAIN queue : i = queue[k]
      BY <1>1, <2>2 DEF QueueIsTheRest
    <3> QED
      BY <1>2, <3>1
  <2> QED
    BY <2>1, <2>2
<1>8. \A k \in DOMAIN queue' : state'[queue'[k]] = "queued"
  BY <1>1, <1>2 DEF QueueIsTheRest
<1> QED
  BY <1>2, <1>4, <1>6, <1>7, <1>8 DEF QueueIsTheRest

\* The worker takes the head of the queue.
LEMMA Taking ==
  ASSUME OrderInv, TypeOK', NEW w \in Workers, TakeJob(w)
  PROVE  OrderInv'
<1> USE DEF OrderInv, TypeOK
<1>1. /\ queue # <<>> /\ queue' = Tail(queue) /\ order' = order
      /\ state' = [state EXCEPT ![Head(queue)] = "running"]
  BY DEF TakeJob
<1>2. /\ Len(queue) \in Nat /\ Len(queue) > 0 /\ DOMAIN queue = 1 .. Len(queue)
      /\ Len(queue') = Len(queue) - 1 /\ DOMAIN queue' = 1 .. Len(queue) - 1
      /\ Head(queue) = queue[1] /\ queue[1] \in Jobs
      /\ \A k \in 1 .. Len(queue) - 1 : queue'[k] = queue[k + 1]
      /\ Len(order) \in Nat /\ DOMAIN order = 1 .. Len(order)
  BY <1>1
<1>3. Submitted'
  BY <1>1, <1>2 DEF Submitted
<1>4. Started' = Started + 1 /\ Started \in Nat
  BY <1>1, <1>2 DEF Started, QueueIsTheRest
<1>5. \A k, l \in DOMAIN queue : queue[k] = queue[l] => k = l
  <2> SUFFICES ASSUME NEW k \in DOMAIN queue, NEW l \in DOMAIN queue, queue[k] = queue[l]
               PROVE  k = l
    OBVIOUS
  <2>1. Started + k \in DOMAIN order /\ Started + l \in DOMAIN order
    BY <1>2, <1>4 DEF Started
  <2>2. Started + k = Started + l
    BY <2>1 DEF Submitted, QueueIsTheRest
  <2> QED
    BY <1>2, <1>4, <2>2
<1>6. \A k \in DOMAIN queue' : queue'[k] = order'[Started' + k]
  <2> TAKE k \in DOMAIN queue'
  <2>1. k + 1 \in DOMAIN queue /\ queue'[k] = queue[k + 1]
    BY <1>2
  <2>2. Started' + k = Started + (k + 1)
    BY <1>2, <1>4
  <2> QED
    BY <1>1, <2>1, <2>2 DEF QueueIsTheRest
<1>7. \A i \in Jobs : state'[i] = "queued" => \E k \in DOMAIN queue' : i = queue'[k]
  <2> SUFFICES ASSUME NEW i \in Jobs, state'[i] = "queued"
               PROVE  \E k \in DOMAIN queue' : i = queue'[k]
    OBVIOUS
  <2>1. i # queue[1] /\ state[i] = "queued"
    BY <1>1, <1>2
  <2>2. PICK k \in DOMAIN queue : i = queue[k]
    BY <2>1 DEF QueueIsTheRest
  <2>3. k - 1 \in DOMAIN queue' /\ queue'[k - 1] = i
    BY <1>2, <2>1, <2>2
  <2> QED
    BY <2>3
<1>8. \A k \in DOMAIN queue' : state'[queue'[k]] = "queued"
  <2> TAKE k \in DOMAIN queue'
  <2>1. k + 1 \in DOMAIN queue /\ queue'[k] = queue[k + 1] /\ queue[k + 1] # queue[1]
    BY <1>2, <1>5
  <2> QED
    BY <1>1, <1>2, <2>1 DEF QueueIsTheRest
<1> QED
  BY <1>1, <1>2, <1>3, <1>6, <1>7, <1>8 DEF QueueIsTheRest

\* Every step keeps it.
LEMMA OrderStep == OrderInv /\ TypeOK' /\ [Next]_vars => OrderInv'
<1> SUFFICES ASSUME OrderInv, TypeOK', [Next]_vars PROVE OrderInv'
  OBVIOUS
<1>1. ASSUME NEW j \in Jobs, JobNext(j) PROVE OrderInv'
  <2>1. /\ queue' = queue /\ order' = order
        /\ \A i \in Jobs : (state'[i] = "queued") = (state[i] = "queued")
        /\ \A i \in Jobs : (state'[i] = "unused") = (state[i] = "unused")
    BY <1>1 DEF JobNext, JobEnds, JobCancelled, Active, OrderInv, TypeOK
  <2> QED
    BY <2>1 DEF OrderInv, TypeOK, Submitted, QueueIsTheRest, Started
<1>2. ASSUME NEW w \in Workers, WorkerEnds(w) \/ WorkerReturns(w) PROVE OrderInv'
  <2>1. queue' = queue /\ order' = order /\ state' = state
    BY <1>2 DEF WorkerEnds, WorkerReturns
  <2> QED
    BY <2>1 DEF OrderInv, Submitted, QueueIsTheRest, Started
<1>3. ASSUME NEW c \in Cancels, Cancel(c) PROVE OrderInv'
  <2>1. /\ queue' = <<>> /\ order' = order
        /\ \A i \in Jobs : state'[i] # "queued"
        /\ \A i \in Jobs : state'[i] = "unused" => state[i] = "unused"
    BY <1>3 DEF Cancel, OrderInv, TypeOK, QueueIsTheRest
  <2> QED
    BY <2>1 DEF OrderInv, TypeOK, Submitted, QueueIsTheRest, Started
<1>4. ASSUME NEW c \in Cancels, CancelReturns(c) PROVE OrderInv'
  BY <1>4 DEF CancelReturns, OrderInv, Submitted, QueueIsTheRest, Started
<1>5. CASE UNCHANGED vars
  BY <1>5 DEF vars, OrderInv, Submitted, QueueIsTheRest, Started
<1> QED
  BY <1>1, <1>2, <1>3, <1>4, <1>5, Submitting, Taking DEF Next, WorkerNext

(* StartsInOrder: "in submission order" (README.md:12), with any number of *)
(* submits and cancels between them.                                       *)
THEOREM JobsStartInOrder == Spec => []StartsInOrder
<1>1. OrderInv => StartsInOrder
  <2> SUFFICES ASSUME OrderInv, NEW k \in DOMAIN order, NEW l \in DOMAIN order,
                      k < l, state[order[k]] = "queued"
               PROVE  state[order[l]] = "queued"
    BY DEF StartsInOrder
  <2> USE DEF OrderInv, TypeOK
  <2>1. PICK i \in DOMAIN queue : order[k] = queue[i]
    BY DEF QueueIsTheRest
  <2>2. /\ Len(order) \in Nat /\ DOMAIN order = 1 .. Len(order)
        /\ Len(queue) \in Nat /\ DOMAIN queue = 1 .. Len(queue)
        /\ Started \in Nat /\ Started + Len(queue) = Len(order)
    BY DEF QueueIsTheRest, Started
  <2>3. k = Started + i
    BY <2>1, <2>2 DEF Submitted, QueueIsTheRest
  <2>4. l - Started \in DOMAIN queue /\ Started + (l - Started) = l
    BY <2>2, <2>3
  <2> QED
    BY <2>4 DEF QueueIsTheRest
<1> QED
  BY <1>1, OrderInit, OrderStep, TypeCorrect, PTL DEF Spec

-----------------------------------------------------------------------------
(* The job that runs is the one its registered worker awaits; a worker     *)
(* that has not begun awaits none; a job that is stopping has a cancel()   *)
(* that waits for it, and so has what a cancel() left over.                *)
Awaited(j) == \E d \in Cancels : call[d] = "waiting" /\ awaited[d].job = j
RunsForWorker ==
    /\ \A j \in Jobs : state[j] = "running" =>
            /\ j = current /\ worker \in Workers /\ work[worker] = "running" /\ job[worker] = j
    /\ \A w \in Workers : work[w] \in {"unused", "ready"} => job[w] = None
    /\ \A w \in Workers : work[w] = "running" => job[w] \in Jobs
Swept ==
    /\ \A j \in Jobs : state[j] = "stopping" => Awaited(j)
    /\ \A c \in Cancels : call[c] # "unused" => \A j \in before[c] : state[j] \in Over \/ Awaited(j)

RunInv == OrderInv /\ RunsForWorker

\* Every step keeps it.
LEMMA RunStep == RunInv /\ OrderInv' /\ [Next]_vars => RunInv'
<1> SUFFICES ASSUME RunInv, OrderInv', [Next]_vars PROVE RunsForWorker'
  BY DEF RunInv
<1> USE NoneAssumption DEF RunInv, RunsForWorker, OrderInv, TypeOK
<1>1. ASSUME NEW j \in Jobs, Submit(j) PROVE RunsForWorker'
  BY <1>1 DEF Submit, NeedsWorker
<1>2. ASSUME NEW j \in Jobs, JobNext(j) PROVE RunsForWorker'
  BY <1>2 DEF JobNext, JobEnds, JobCancelled
<1>3. ASSUME NEW w \in Workers, TakeJob(w) PROVE RunsForWorker'
  <2>1. Head(queue) \in Jobs
    BY <1>3 DEF TakeJob
  <2>2. \A j \in Jobs : state[j] # "running"
    BY <1>3 DEF TakeJob, Resumes, Over
  <2> QED
    BY <1>3, <2>1, <2>2 DEF TakeJob
<1>4. ASSUME NEW w \in Workers, WorkerEnds(w) PROVE RunsForWorker'
  <2>1. \A j \in Jobs : state[j] = "running" => w # worker /\ job[w] # j
    BY <1>4 DEF WorkerEnds, Resumes, Over
  <2> QED
    BY <1>4, <2>1 DEF WorkerEnds, Cleared
<1>5. ASSUME NEW w \in Workers, WorkerReturns(w) PROVE RunsForWorker'
  <2>1. \A j \in Jobs : state[j] # "running"
    BY <1>5 DEF WorkerReturns
  <2> QED
    BY <1>5, <2>1 DEF WorkerReturns
<1>6. ASSUME NEW c \in Cancels, Cancel(c) PROVE RunsForWorker'
  <2>1. \A j \in Jobs : state'[j] # "running"
    BY <1>6 DEF Cancel
  <2> QED
    BY <1>6, <2>1 DEF Cancel
<1>7. ASSUME NEW c \in Cancels, CancelReturns(c) PROVE RunsForWorker'
  BY <1>7 DEF CancelReturns
<1>8. CASE UNCHANGED vars
  BY <1>8 DEF vars
<1> QED
  BY <1>1, <1>2, <1>3, <1>4, <1>5, <1>6, <1>7, <1>8 DEF Next, WorkerNext

\* It holds at first, and always.
LEMMA RunInit == Init => RunInv
  BY OrderInit DEF Init, RunInv, RunsForWorker

\* It always holds.
LEMMA RunInvariant == Spec => []RunInv
  BY RunInit, RunStep, OrderInit, OrderStep, TypeCorrect, PTL DEF Spec, RunInv

(* RunningIsCurrent: of the jobs not asked to stop one at most runs, the   *)
(* one cancel() would stop.                                                *)
THEOREM OnlyTheCurrentRuns == Spec => []RunningIsCurrent
<1>1. RunInv => RunningIsCurrent
  BY DEF RunInv, RunsForWorker, RunningIsCurrent
<1> QED
  BY <1>1, RunInvariant, PTL

\* Every step keeps what is said of the cancels.
LEMMA SweptStep == RunInv /\ Swept /\ [Next]_vars => Swept'
<1> SUFFICES ASSUME RunInv, Swept, [Next]_vars PROVE Swept'
  OBVIOUS
<1> USE DEF RunInv, OrderInv, TypeOK
<1>1. ASSUME NEW j \in Jobs, Submit(j) PROVE Swept'
  <2>1. /\ call' = call /\ awaited' = awaited /\ before' = before
        /\ \A i \in Jobs : state[i] \in Over => state'[i] = state[i]
        /\ \A i \in Jobs : state'[i] = "stopping" => state[i] = "stopping"
    BY <1>1 DEF Submit, Over
  <2>2. \A i \in Jobs : Awaited(i) => Awaited(i)'
    BY <2>1 DEF Awaited
  <2> QED
    BY <2>1, <2>2 DEF Swept
<1>2. ASSUME NEW j \in Jobs, JobNext(j) PROVE Swept'
  <2>1. /\ call' = call /\ awaited' = awaited /\ before' = before
        /\ \A i \in Jobs : state[i] \in Over => state'[i] \in Over
        /\ \A i \in Jobs : state'[i] = "stopping" => state[i] = "stopping"
    BY <1>2 DEF JobNext, JobEnds, JobCancelled, Over, Active
  <2> QED
    BY <2>1 DEF Swept, Awaited
<1>3. ASSUME NEW w \in Workers, TakeJob(w) PROVE Swept'
  <2>1. Head(queue) \in Jobs /\ state[Head(queue)] = "queued"
    BY <1>3 DEF TakeJob, QueueIsTheRest
  <2>2. /\ call' = call /\ awaited' = awaited /\ before' = before
        /\ \A i \in Jobs : state[i] \in Over => state'[i] = state[i]
        /\ \A i \in Jobs : state'[i] = "stopping" => state[i] = "stopping"
    BY <1>3, <2>1 DEF TakeJob, Over
  <2> QED
    BY <2>2 DEF Swept, Awaited
<1>4. ASSUME NEW w \in Workers, WorkerEnds(w) \/ WorkerReturns(w) PROVE Swept'
  BY <1>4 DEF WorkerEnds, WorkerReturns, Swept, Awaited
<1>5. ASSUME NEW c \in Cancels, Cancel(c) PROVE Swept'
  <2>1. \A j \in Jobs : Awaited(j) => Awaited(j)'
    BY <1>5 DEF Cancel, Awaited
  <2>2. \A j \in Jobs : j = current => Awaited(j)'
    <3> SUFFICES ASSUME NEW j \in Jobs, j = current PROVE Awaited(j)'
      OBVIOUS
    <3>1. call'[c] = "waiting" /\ awaited'[c].job = j
      BY <1>5 DEF Cancel
    <3> QED
      BY <3>1 DEF Awaited
  <2>3. \A j \in Jobs : state[j] \in Over => state'[j] \in Over
    BY <1>5 DEF Cancel, Over
  <2>4. \A j \in Jobs : state'[j] = "stopping" => Awaited(j)'
    BY <1>5, <2>1, <2>2 DEF Cancel, Swept
  <2>5. \A j \in Jobs : state[j] # "unused" => state'[j] \in Over \/ Awaited(j)'
    <3> SUFFICES ASSUME NEW j \in Jobs, state[j] # "unused", state'[j] \notin Over
                 PROVE  Awaited(j)'
      OBVIOUS
    <3>1. state[j] \in {"running", "stopping"}
      BY <1>5 DEF Cancel, QueueIsTheRest, Over, JobStates
    <3>2. CASE state[j] = "running"
      BY <2>2, <3>2 DEF RunsForWorker
    <3>3. CASE state[j] = "stopping"
      BY <2>1, <3>3 DEF Swept
    <3> QED
      BY <3>1, <3>2, <3>3
  <2>6. ASSUME NEW d \in Cancels, call'[d] # "unused", NEW j \in before'[d]
        PROVE  state'[j] \in Over \/ Awaited(j)'
    <3>1. CASE d = c
      BY <1>5, <2>5, <2>6, <3>1 DEF Cancel
    <3>2. CASE d # c
      BY <1>5, <2>1, <2>3, <2>6, <3>2 DEF Cancel, Swept
    <3> QED
      BY <3>1, <3>2
  <2> QED
    BY <2>4, <2>6 DEF Swept
<1>6. ASSUME NEW c \in Cancels, CancelReturns(c) PROVE Swept'
  <2>1. state' = state /\ before' = before
        /\ \A d \in Cancels : call'[d] # "unused" => call[d] # "unused"
    BY <1>6 DEF CancelReturns
  <2>2. \A j \in Jobs : Awaited(j) => Awaited(j)' \/ state[j] \in Over
    BY <1>6, NoneAssumption DEF CancelReturns, Awaited
  <2>3. \A j \in Jobs : state[j] = "stopping" => state[j] \notin Over
    BY DEF Over
  <2> QED
    BY <2>1, <2>2, <2>3 DEF Swept
<1>7. CASE UNCHANGED vars
  BY <1>7 DEF vars, Swept, Awaited
<1> QED
  BY <1>1, <1>2, <1>3, <1>4, <1>5, <1>6, <1>7 DEF Next, WorkerNext

(* CancelClears: "cancel drops the key's current and queued jobs": once it *)
(* returned, what was submitted before it is over, or another cancel()     *)
(* still waits for it.                                                     *)
THEOREM CancelLeavesNothing == Spec => []CancelClears
<1>1. Init => Swept
  BY DEF Init, Swept
<1>2. Swept => CancelClears
  BY DEF Swept, CancelClears, Awaited
<1> QED
  BY <1>1, <1>2, RunInvariant, SweptStep, PTL DEF Spec
=============================================================================
