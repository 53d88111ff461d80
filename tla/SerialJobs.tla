------------------------------ MODULE SerialJobs ------------------------------
(***************************************************************************)
(* kits/media_stream_out/jobs.py: producers of media, one at a time per    *)
(* key, cancellable as a whole. Keys do not interact: this is one of them. *)
(*                                                                         *)
(* A job and a worker are asyncio tasks; a step is the code between two    *)
(* awaits. cancel() empties the queue it removes, so a worker that is no   *)
(* longer registered has nothing left to take. cancel() is called from     *)
(* outside the jobs.                                                       *)
(***************************************************************************)
EXTENDS Naturals, Sequences, FiniteSets

CONSTANTS
    Jobs,           \* jobs, each submitted at most once
    Workers,        \* the tasks that run _work
    Cancels,        \* calls of cancel()
    None

ASSUME NoneAssumption == None \notin Jobs \cup Workers

VARIABLES
    queue,      \* _queues[key]
    worker,     \* _workers[key]
    current,    \* _current[key]
    work,       \* worker -> "unused", "ready" (to begin), "running" (a job) or "done"
    job,        \* worker -> the job it awaits
    state,      \* job -> where it is
    call,       \* cancel -> "unused", "waiting" or "returned"
    awaited,    \* cancel -> the job and the worker it awaits
    before,     \* history: cancel -> the jobs submitted before it
    order       \* history: the jobs in the order they were submitted

vars == <<queue, worker, current, work, job, state, call, awaited, before, order>>

\* "stopping": cancelled, and not yet done with what it does about it.
JobStates == {"unused", "queued", "running", "stopping", "ended", "cancelled", "dropped"}
Over   == {"ended", "cancelled", "dropped"}
Active == {"running", "stopping"}

TypeOK ==
    /\ queue \in Seq(Jobs) /\ worker \in Workers \cup {None}
    /\ current \in Jobs \cup {None}
    /\ work \in [Workers -> {"unused", "ready", "running", "done"}]
    /\ job \in [Workers -> Jobs \cup {None}] /\ state \in [Jobs -> JobStates]
    /\ call \in [Cancels -> {"unused", "waiting", "returned"}]
    /\ awaited \in [Cancels -> [job : Jobs \cup {None}, worker : Workers \cup {None}]]
    /\ before \in [Cancels -> SUBSET Jobs] /\ order \in Seq(Jobs)
    /\ worker = None => queue = <<>>

Init ==
    /\ queue = <<>> /\ worker = None /\ current = None
    /\ work = [w \in Workers |-> "unused"] /\ job = [w \in Workers |-> None]
    /\ state = [j \in Jobs |-> "unused"] /\ call = [c \in Cancels |-> "unused"]
    /\ awaited = [c \in Cancels |-> [job |-> None, worker |-> None]]
    /\ before = [c \in Cancels |-> {}] /\ order = <<>>

-----------------------------------------------------------------------------
NeedsWorker == worker = None \/ (worker # None /\ work[worker] = "done")

\* Mutant of Submit: the wrong end.
SubmitFirst(j) ==
    /\ state[j] = "unused"
    /\ state' = [state EXCEPT ![j] = "queued"] /\ queue' = <<j>> \o queue
    /\ IF NeedsWorker
       THEN \E w \in Workers : /\ work[w] = "unused"
                               /\ worker' = w /\ work' = [work EXCEPT ![w] = "ready"]
       ELSE UNCHANGED <<worker, work>>
    /\ order' = Append(order, j) /\ UNCHANGED <<current, job, call, awaited, before>>

(* submit *)
Submit(j) ==
    /\ state[j] = "unused"
    /\ state' = [state EXCEPT ![j] = "queued"] /\ queue' = Append(queue, j)
    /\ IF NeedsWorker
       THEN \E w \in Workers : /\ work[w] = "unused"
                               /\ worker' = w /\ work' = [work EXCEPT ![w] = "ready"]
       ELSE UNCHANGED <<worker, work>>
    /\ order' = Append(order, j) /\ UNCHANGED <<current, job, call, awaited, before>>

\* The worker is at an await that is over: it has not begun, or its job is done.
Resumes(w) ==
    \/ work[w] = "ready"
    \/ work[w] = "running" /\ state[job[w]] \in Over

\* `finally: if self._current.get(key) is task`
Cleared(w) == IF current = job[w] THEN None ELSE current

(* _work: the next job.                                                    *)
TakeJob(w) ==
    /\ Resumes(w) /\ w = worker
    /\ work[w] = "running" => state[job[w]] = "ended"
    /\ queue # <<>>
    /\ queue' = Tail(queue) /\ job' = [job EXCEPT ![w] = Head(queue)]
    /\ work' = [work EXCEPT ![w] = "running"]
    /\ state' = [state EXCEPT ![Head(queue)] = "running"] /\ current' = Head(queue)
    /\ UNCHANGED <<worker, call, awaited, before, order>>

\* Mutant of WorkerEnds: `if` for `while`.
WorkerEndsAfterJob(w) ==
    /\ Resumes(w) /\ work[w] = "running"
    /\ worker' = IF w = worker THEN None ELSE worker
    /\ work' = [work EXCEPT ![w] = "done"] /\ current' = Cleared(w)
    /\ UNCHANGED <<queue, job, state, call, awaited, before, order>>

(* _work: no job left; the key is forgotten if the worker still is the     *)
(* registered one. A worker that was removed by cancel() ends as well.     *)
WorkerEnds(w) ==
    /\ Resumes(w)
    /\ \/ /\ w = worker /\ queue = <<>>
          /\ work[w] = "running" => state[job[w]] = "ended"
          /\ worker' = None
       \/ w # worker /\ UNCHANGED worker
    /\ work' = [work EXCEPT ![w] = "done"] /\ current' = Cleared(w)
    /\ UNCHANGED <<queue, job, state, call, awaited, before, order>>

(* _work: the job was cancelled, and not by cancel(): the worker returns   *)
(* and stays registered, with its queue.                                   *)
WorkerReturns(w) ==
    /\ Resumes(w) /\ w = worker
    /\ work[w] = "running" /\ state[job[w]] = "cancelled"
    /\ work' = [work EXCEPT ![w] = "done"] /\ current' = Cleared(w)
    /\ UNCHANGED <<queue, worker, job, state, call, awaited, before, order>>

(* A job returns or raises, also one that was asked to stop.               *)
JobEnds(j) ==
    /\ state[j] \in Active
    /\ state' = [state EXCEPT ![j] = "ended"]
    /\ UNCHANGED <<queue, worker, current, work, job, call, awaited, before, order>>

(* A job ends as cancelled: asked by cancel(), or of its own accord.       *)
JobCancelled(j) ==
    /\ state[j] \in Active
    /\ state' = [state EXCEPT ![j] = "cancelled"]
    /\ UNCHANGED <<queue, worker, current, work, job, call, awaited, before, order>>

(* cancel, up to its first await: everything of the key is removed, and    *)
(* the job that runs is asked to stop.                                     *)
Cancel(c) ==
    /\ call[c] = "unused"
    /\ call' = [call EXCEPT ![c] = "waiting"]
    /\ awaited' = [awaited EXCEPT ![c] = [job |-> current, worker |-> worker]]
    /\ before' = [before EXCEPT ![c] = {j \in Jobs : state[j] # "unused"}]
    /\ queue' = <<>> /\ worker' = None /\ current' = None
    /\ state' = [j \in Jobs |->
                    IF j \in {queue[k] : k \in DOMAIN queue} THEN "dropped"
                    ELSE IF j = current /\ state[j] = "running" THEN "stopping"
                    ELSE state[j]]
    /\ UNCHANGED <<work, job, order>>

\* Mutant of CancelReturns: the job is not awaited.
CancelReturnsEarly(c) ==
    /\ call[c] = "waiting"
    /\ call' = [call EXCEPT ![c] = "returned"]
    /\ UNCHANGED <<queue, worker, current, work, job, state, awaited, before, order>>

(* cancel returns once the job and the worker it found are done.           *)
CancelReturns(c) ==
    /\ call[c] = "waiting"
    /\ awaited[c].job # None => state[awaited[c].job] \in Over
    /\ awaited[c].worker # None => work[awaited[c].worker] = "done"
    /\ call' = [call EXCEPT ![c] = "returned"]
    /\ UNCHANGED <<queue, worker, current, work, job, state, awaited, before, order>>

WorkerNext(w) == TakeJob(w) \/ WorkerEnds(w) \/ WorkerReturns(w)
JobNext(j)    == JobEnds(j) \/ JobCancelled(j)

Next ==
    \/ \E j \in Jobs : Submit(j) \/ JobNext(j)
    \/ \E w \in Workers : WorkerNext(w)
    \/ \E c \in Cancels : Cancel(c) \/ CancelReturns(c)

Spec == Init /\ [][Next]_vars

(* Workers that can go on do, and a job comes to an end. Nobody is obliged *)
(* to submit or cancel.                                                    *)
FairSpec ==
    /\ Spec
    /\ \A w \in Workers : WF_vars(WorkerNext(w))
    /\ \A j \in Jobs : WF_vars(JobNext(j))
    /\ \A c \in Cancels : WF_vars(CancelReturns(c))

-----------------------------------------------------------------------------
(* "Run jobs one at a time per key" (jobs.py:14). The code breaks it: a    *)
(* submit while cancel() awaits the job it stops starts a second worker.   *)
OneAtATime == \A i, j \in Jobs : state[i] \in Active /\ state[j] \in Active => i = j

(* What does hold of it, across any cancels: of the jobs that have not     *)
(* been asked to stop one at most runs, and it is the one cancel() would   *)
(* stop.                                                                   *)
RunningIsCurrent == \A j \in Jobs : state[j] = "running" => j = current

(* "cancel drops the key's current and queued jobs" (jobs.py:14): once it  *)
(* returned, nothing submitted before it runs or will run. A second cancel *)
(* finds nothing to wait for and returns first; what is left then is what  *)
(* the first still waits for.                                              *)
CancelClears ==
    \A c \in Cancels : call[c] = "returned" =>
        \A j \in before[c] :
            state[j] \in Over \/ \E d \in Cancels : call[d] = "waiting" /\ awaited[d].job = j

(* "in submission order" (README.md:12): no job starts while one that was  *)
(* submitted before it is still queued, whoever cancels.                   *)
StartsInOrder ==
    \A k, l \in DOMAIN order :
        k < l /\ state[order[k]] = "queued" => state[order[l]] = "queued"

(* A submitted job is started or dropped, whatever its predecessors and    *)
(* any cancel() do, unless a job ended as cancelled of its own accord: its *)
(* worker then returned, still registered, and the queue waits for the     *)
(* next submit.                                                            *)
Stranded == worker # None /\ work[worker] = "done"
JobsAreServed ==
    \A j \in Jobs : (state[j] = "queued") ~> (state[j] # "queued" \/ Stranded)
=============================================================================
