------------------------------ MODULE MediaIntake ------------------------------
(***************************************************************************)
(* kits/media_stream_in/intake.py: a bounded queue between a socket and    *)
(* one task that hands the chunks to a sink (a provider's send), in order. *)
(*                                                                         *)
(* A chunk is the number of its feed(), from 1. Feed and End are           *)
(* synchronous and act between any two steps of the task; each step of the *)
(* task runs from one await of _run to the next. A chunk fed in the very   *)
(* turn of the event loop in which a wait times out counts as fed after    *)
(* the time-out.                                                           *)
(***************************************************************************)
EXTENDS Naturals, Sequences

CONSTANTS
    MaxChunks,      \* capacity of the queue (max_chunks)
    ReadyWins,      \* asyncio.wait_for(queue.get(), 0) with a chunk ready: TRUE, it
                    \* returns the chunk (Python 3.12 on); FALSE, it times out (3.11)
    MaxFed          \* bound: chunks fed in one behaviour

ASSUME CapacityAssumption == MaxChunks \in Nat \ {0} /\ MaxFed \in Nat
ASSUME SwitchAssumption   == ReadyWins \in BOOLEAN

VARIABLES
    keepalive,  \* _keepalive: keepalive_seconds is set
    idle,       \* _idle: idle_seconds is set
    queue,      \* _queue: chunks, oldest first, and End
    dropped,    \* dropped
    task,       \* where _task is
    stopping,   \* stop() cancelled the task and awaits it
    overdue,    \* idle_seconds have passed since last_chunk
    fed,        \* history: how many chunks were fed
    ended,      \* the owner called end(), and feeds no more
    handled     \* history: the chunks given to the sink, in order

settings == <<keepalive, idle>>
vars == <<settings, queue, dropped, task, stopping, overdue, fed, ended, handled>>

End == 0        \* the None that end() enqueues

Awaiting == {"get", "sink", "keepalive", "idle", "end"}
Done     == {"returned", "failed", "cancelled"}
running  == task \in Awaiting

TypeOK ==
    /\ queue \in Seq(0..MaxFed) /\ Len(queue) <= MaxChunks /\ dropped \in 0..MaxFed
    /\ task \in {"none"} \cup Awaiting \cup Done
    /\ {keepalive, idle, stopping, overdue, ended} \subseteq BOOLEAN
    /\ fed \in 0..MaxFed /\ handled \in Seq(1..MaxFed)

Init ==
    /\ keepalive \in BOOLEAN /\ idle \in BOOLEAN /\ queue = <<>> /\ dropped = 0
    /\ task = "none" /\ stopping = FALSE /\ overdue = FALSE
    /\ fed = 0 /\ ended = FALSE /\ handled = <<>>

-----------------------------------------------------------------------------
(* start *)
Start ==
    /\ task = "none"
    /\ task' = "get"
    /\ UNCHANGED <<settings, queue, dropped, stopping, overdue, fed, ended, handled>>

full == Len(queue) = MaxChunks

\* The idle deadline of a wait for the first chunk to come has passed, and the
\* task is about to see it.
atDeadline == idle /\ task = "get" /\ queue = <<>> /\ overdue

\* Mutants of Enqueue: the newest is dropped; the wrong end.
EnqueueDropsNewest(item) ==
    /\ queue' = IF full THEN queue ELSE Append(queue, item)
    /\ dropped' = IF full THEN dropped + 1 ELSE dropped
EnqueueAtHead(item) ==
    /\ queue' = <<item>> \o (IF full THEN Tail(queue) ELSE queue)
    /\ dropped' = IF full THEN dropped + 1 ELSE dropped

\* What feed and end have in common: make room by dropping the oldest.
Enqueue(item) ==
    /\ queue' = Append(IF full THEN Tail(queue) ELSE queue, item)
    /\ dropped' = IF full THEN dropped + 1 ELSE dropped

(* feed. audio_stream_in feeds nothing once end_requested is set or the    *)
(* session is closed; it does feed a task that failed.                     *)
Feed ==
    /\ task \notin {"none", "returned", "cancelled"} /\ ~ended /\ ~stopping
    /\ ~atDeadline /\ fed < MaxFed
    /\ fed' = fed + 1
    /\ Enqueue(fed + 1)
    /\ UNCHANGED <<settings, task, stopping, overdue, ended, handled>>

(* end *)
EndFeed ==
    /\ task \notin {"none", "returned", "cancelled"} /\ ~ended /\ ~stopping
    /\ ~atDeadline
    /\ ended' = TRUE
    /\ Enqueue(End)
    /\ UNCHANGED <<settings, task, stopping, overdue, fed, handled>>

(* _run: get returns a chunk, or the end. With a deadline already past,    *)
(* whether get is given its chance depends on wait_for.                    *)
Get ==
    /\ task = "get" /\ ~stopping /\ queue # <<>>
    /\ overdue /\ idle => ReadyWins
    /\ queue' = Tail(queue)
    /\ IF Head(queue) = End
       THEN task' = "end" /\ UNCHANGED <<overdue, handled>>
       ELSE /\ task' = "sink"
            /\ overdue' = FALSE /\ handled' = Append(handled, Head(queue))
    /\ UNCHANGED <<settings, dropped, stopping, fed, ended>>

\* Mutants of TimesOut: the idle deadline never wins over the keepalive; the
\* deadline passes whatever is queued.
TimesOutToKeepalive ==
    /\ task = "get" /\ ~stopping /\ queue = <<>>
    /\ keepalive /\ task' = "keepalive"
    /\ UNCHANGED <<settings, queue, dropped, stopping, overdue, fed, ended, handled>>
TimesOutRegardless ==
    /\ task = "get" /\ ~stopping
    /\ idle /\ overdue /\ task' = "idle"
    /\ UNCHANGED <<settings, queue, dropped, stopping, overdue, fed, ended, handled>>

(* _run: the wait times out, because idle_seconds or keepalive_seconds     *)
(* passed. Only a deadline that was past before the wait began can find a  *)
(* chunk ready.                                                            *)
TimesOut ==
    /\ task = "get" /\ ~stopping
    /\ \/ queue = <<>>
       \/ overdue /\ idle /\ ~ReadyWins
    /\ \/ idle /\ overdue /\ task' = "idle"
       \/ keepalive /\ ~(idle /\ overdue) /\ task' = "keepalive"
    /\ UNCHANGED <<settings, queue, dropped, stopping, overdue, fed, ended, handled>>

(* idle_seconds pass with no chunk taken from the queue: last_chunk is     *)
(* only moved by get, so a slow sink makes the next wait overdue as well.  *)
IdlePasses ==
    /\ ~overdue
    /\ task \in {"get", "sink", "keepalive"} /\ (task = "get" => queue = <<>>)
    /\ overdue' = TRUE
    /\ UNCHANGED <<settings, queue, dropped, task, stopping, fed, ended, handled>>

(* _run: what it awaited is done; "idle" and "end" were its last act.      *)
Returns ==
    /\ task \in {"sink", "keepalive", "idle", "end"} /\ ~stopping
    /\ task' = IF task \in {"sink", "keepalive"} THEN "get" ELSE "returned"
    /\ UNCHANGED <<settings, queue, dropped, stopping, overdue, fed, ended, handled>>

(* _run: the sink, keepalive() or finish() raises, which ends the task.    *)
Fails ==
    /\ task \in {"sink", "keepalive", "end"} /\ ~stopping
    /\ task' = "failed"
    /\ UNCHANGED <<settings, queue, dropped, stopping, overdue, fed, ended, handled>>

(* stop, called from another task. From inside on_quiet it does nothing.   *)
Stop ==
    /\ running /\ ~stopping
    /\ stopping' = TRUE
    /\ UNCHANGED <<settings, queue, dropped, task, overdue, fed, ended, handled>>

(* The cancelled task gets its CancelledError and stop returns.            *)
Cancelled ==
    /\ stopping
    /\ task' = "cancelled" /\ stopping' = FALSE
    /\ UNCHANGED <<settings, queue, dropped, overdue, fed, ended, handled>>

Next ==
    \/ Start \/ Feed \/ EndFeed
    \/ Get \/ TimesOut \/ IdlePasses \/ Returns \/ Fails
    \/ Stop \/ Cancelled

Spec == Init /\ [][Next]_vars

(* The event loop runs a task that can go on, time passes, and what the    *)
(* task awaits from the provider comes back (or raises). Nothing obliges   *)
(* the owner to feed, end or stop.                                         *)
FairSpec ==
    /\ Spec /\ WF_vars(Get) /\ WF_vars(TimesOut) /\ WF_vars(IdlePasses)
    /\ WF_vars(Returns) /\ WF_vars(Cancelled)

-----------------------------------------------------------------------------
\* The chunks of a queue: nothing is fed behind the end.
EndQueued(q) == q # <<>> /\ q[Len(q)] = End
Chunks(q) == IF EndQueued(q) THEN SubSeq(q, 1, Len(q) - 1) ELSE q

(* "drop the oldest when full" (intake.py:14): the queue is always the     *)
(* newest chunks, unbroken up to the last one fed; what was handed over,   *)
(* waits or counts as dropped is everything that was fed; and a chunk is   *)
(* never handed over twice or behind a newer one.                          *)
KeepsNewest ==
    LET waiting == Chunks(queue) IN
    /\ \A k \in DOMAIN waiting : waiting[k] = fed - Len(waiting) + k
    /\ Len(handled) + Len(waiting) + dropped = fed
    /\ \A j, k \in DOMAIN handled : j < k => handled[j] < handled[k]
    /\ \A k \in DOMAIN handled : handled[k] <= fed - Len(waiting)

(* "Finish after the chunks already queued" (intake.py:52): with a         *)
(* provider that answers, a task whose owner called end() always finishes, *)
(* with or without deadlines: making room never drops the end.             *)
EndFinishes == ended ~> task \in Done

(* A stream nobody feeds or stops does not stay open: with idle_seconds    *)
(* set, the task finishes once the feeding does (it does, by MaxFed).      *)
IdleStops == (idle /\ task # "none") ~> (task \in Done)

(* Whichever of the two applies, the task of a stream comes to an end and  *)
(* with it the claim and the provider stream that wait for it.             *)
StreamEnds == EndFinishes /\ IdleStops

(* "While nothing arrives ... on_quiet(idle) once idle_seconds pass"       *)
(* (README.md:46-48): a task never goes idle with media in its queue.      *)
IdleOnlyWhenDrained ==
    [][task = "get" /\ task' = "idle" => queue = <<>>]_vars
=============================================================================
