------------------------------ MODULE AgUiThread ------------------------------
(***************************************************************************)
(* kits/ag_ui: the runs of one AG-UI thread with broadcast_run_events, as  *)
(* the server produces them: the claim that lets one run at a time onto    *)
(* the thread (ActiveRunStore), the driver and the task of each run        *)
(* (_drive, _stream_run), the buffer that replays the run in flight        *)
(* (RunEventStore), and broadcast_run_event, which numbers each event and  *)
(* sends it to the thread's group.                                         *)
(*                                                                         *)
(* The in-memory stores do not yield, so a step runs from one await of the *)
(* channel layer, the provider or another task to the next. Run ids are    *)
(* never used twice.                                                       *)
(***************************************************************************)
EXTENDS Naturals, Sequences, FiniteSets

CONSTANTS
    Runs,           \* run ids
    Emits,          \* calls of emit_to_thread, with an event that is no lifecycle event
    MaxContent,     \* bound: content events one run produces
    MaxEvents,      \* max_events_per_run
    NoRun           \* None

ASSUME NoRunAssumption == NoRun \notin Runs
ASSUME EmitsAssumption == Emits \cap (Runs \cup {NoRun}) = {}
ASSUME BoundAssumption == MaxContent \in Nat /\ MaxEvents \in Nat \ {0}

VARIABLES
    active,         \* InMemoryActiveRunStore._active, for this thread
    phase,          \* run -> where its driver and its task are
    cancelled,      \* run -> task.cancel() was called on its task
    produced,       \* run -> the content events its provider has produced
    outgoing,       \* run or emit -> the event whose broadcast it awaits, if any
    buffer,         \* InMemoryRunEventStore._runs, for this thread
    sent            \* history: the events that reached the group, in order

vars == <<active, phase, cancelled, produced, outgoing, buffer, sent>>

\* The task of a run and its driver. "claimed": start_run has the thread, the
\* driver has not begun. "scheduled": the task has not begun. "producing":
\* the task awaits the provider. "sending": the task awaits the broadcast of
\* an event. Then the task is done: it returned, was cancelled or raised.
\* "reporting": the driver awaits the broadcast of RUN_ERROR.
TaskPhases == {"scheduled", "producing", "sending"}
Phases == {"unused", "refused", "claimed"} \cup TaskPhases
              \cup {"returned", "stopped", "raised", "reporting", "over"}
Holding == Phases \ {"unused", "refused", "over"}

Kinds == {"RUN_STARTED", "CONTENT", "RUN_FINISHED", "RUN_ERROR"}
Terminal == {"RUN_FINISHED", "RUN_ERROR"}
Event == [of : Runs \cup Emits, kind : Kinds, seq : Nat]
\* seq 0: sent without a sequence number.
Nothing == [of |-> NoRun, kind |-> "CONTENT", seq |-> 0]

TypeOK ==
    /\ active \in Runs \cup {NoRun} /\ phase \in [Runs -> Phases]
    /\ cancelled \in [Runs -> BOOLEAN] /\ produced \in [Runs -> 0..MaxContent]
    /\ outgoing \in [Runs \cup Emits -> Event \cup {Nothing}]
    /\ buffer \in Seq(Event) /\ Len(buffer) <= MaxEvents /\ sent \in Seq(Event)

Init ==
    /\ active = NoRun /\ phase = [r \in Runs |-> "unused"]
    /\ cancelled = [r \in Runs |-> FALSE] /\ produced = [r \in Runs |-> 0]
    /\ outgoing = [x \in Runs \cup Emits |-> Nothing] /\ buffer = <<>>
    /\ sent = <<>>

-----------------------------------------------------------------------------
(* InMemoryRunEventStore.append: number the event, drop the oldest at the  *)
(* bound.                                                                  *)
NextSeq(b) == IF b = <<>> THEN 1 ELSE b[Len(b)].seq + 1
Buffered(b, e) == Append(IF Len(b) >= MaxEvents THEN Tail(b) ELSE b, e)

(* broadcast_run_event, up to the await of the broadcast: RUN_STARTED      *)
(* clears the buffer, then the event is appended.                          *)
Broadcast(x, kind) ==
    LET kept == IF kind = "RUN_STARTED" THEN <<>> ELSE buffer
        e    == [of |-> x, kind |-> kind, seq |-> NextSeq(kept)]
    IN  /\ buffer' = Buffered(kept, e)
        /\ outgoing' = [outgoing EXCEPT ![x] = e]

(* broadcast_run_event, once the event is with the group: a terminal event *)
(* clears the buffer.                                                      *)
Delivered(x) ==
    /\ outgoing[x] # Nothing
    /\ sent' = Append(sent, outgoing[x]) /\ outgoing' = [outgoing EXCEPT ![x] = Nothing]
    /\ buffer' = IF outgoing[x].kind \in Terminal THEN <<>> ELSE buffer

-----------------------------------------------------------------------------
\* Mutant of HandleRun: the store is not asked.
HandleRunUnclaimed(r) ==
    /\ phase[r] = "unused"
    /\ active' = r /\ phase' = [phase EXCEPT ![r] = "scheduled"]
    /\ UNCHANGED <<cancelled, produced, outgoing, buffer, sent>>

(* handle_ag_ui_run: the thread is free, and the driver begins at once.    *)
HandleRun(r) ==
    /\ phase[r] = "unused" /\ active = NoRun
    /\ active' = r /\ phase' = [phase EXCEPT ![r] = "scheduled"]
    /\ UNCHANGED <<cancelled, produced, outgoing, buffer, sent>>

(* start_run: the same from the server, with the driver in a task.         *)
StartRun(r) ==
    /\ phase[r] = "unused" /\ active = NoRun
    /\ active' = r /\ phase' = [phase EXCEPT ![r] = "claimed"]
    /\ UNCHANGED <<cancelled, produced, outgoing, buffer, sent>>

(* handle_ag_ui_run or start_run on a busy thread: on_run_refused answers  *)
(* the asking connection alone; ThreadBusyError.                           *)
Refuse(r) ==
    /\ phase[r] = "unused" /\ active # NoRun
    /\ phase' = [phase EXCEPT ![r] = "refused"]
    /\ UNCHANGED <<active, cancelled, produced, outgoing, buffer, sent>>

(* _drive begins: the task is made and registered in _run_tasks.           *)
Drive(r) ==
    /\ phase[r] = "claimed"
    /\ phase' = [phase EXCEPT ![r] = "scheduled"]
    /\ UNCHANGED <<active, cancelled, produced, outgoing, buffer, sent>>

(* run_events: RUN_STARTED, what run_agent yields, RUN_FINISHED.           *)
Yield(r) ==
    \/ /\ phase[r] = "scheduled"
       /\ Broadcast(r, "RUN_STARTED")
       /\ UNCHANGED produced
    \/ /\ phase[r] = "producing"
       /\ produced[r] < MaxContent /\ Broadcast(r, "CONTENT")
       /\ produced' = [produced EXCEPT ![r] = @ + 1]
    \/ /\ phase[r] = "producing"
       /\ Broadcast(r, "RUN_FINISHED")
       /\ UNCHANGED produced

(* _stream_run: emit the next event, up to the await of its broadcast.     *)
Emit(r) ==
    /\ ~cancelled[r] /\ Yield(r)
    /\ phase' = [phase EXCEPT ![r] = "sending"] /\ UNCHANGED <<active, cancelled, sent>>

\* Mutant of Emitted: the stream goes on after RUN_FINISHED.
EmittedGoesOn(r) ==
    /\ phase[r] = "sending" /\ ~cancelled[r]
    /\ phase' = [phase EXCEPT ![r] = "producing"]
    /\ Delivered(r)
    /\ UNCHANGED <<active, cancelled, produced>>

(* _stream_run: the broadcast returns.                                     *)
Emitted(r) ==
    /\ phase[r] = "sending" /\ ~cancelled[r]
    /\ phase' = [phase EXCEPT ![r] =
                    IF outgoing[r].kind = "RUN_FINISHED" THEN "returned" ELSE "producing"]
    /\ Delivered(r)
    /\ UNCHANGED <<active, cancelled, produced>>

(* _stream_run: the provider raises.                                       *)
ProviderRaises(r) ==
    /\ phase[r] = "producing" /\ ~cancelled[r]
    /\ phase' = [phase EXCEPT ![r] = "raised"]
    /\ UNCHANGED <<active, cancelled, produced, outgoing, buffer, sent>>

(* handle_ag_ui_cancel, cancel_run: the task is registered and not done. A *)
(* driver that is cancelled itself cancels the task it awaits.             *)
Cancel(r) ==
    /\ phase[r] \in TaskPhases /\ ~cancelled[r]
    /\ cancelled' = [cancelled EXCEPT ![r] = TRUE]
    /\ UNCHANGED <<active, phase, produced, outgoing, buffer, sent>>

\* Mutants of Stopped: the thread is released before the end is reported; a
\* cancelled run is not reported.
StoppedReleases(r) ==
    /\ phase[r] \in TaskPhases /\ cancelled[r]
    /\ phase' = [phase EXCEPT ![r] = "stopped"] /\ outgoing' = [outgoing EXCEPT ![r] = Nothing]
    /\ active' = NoRun /\ UNCHANGED <<cancelled, produced, buffer, sent>>
StoppedSilently(r) ==
    /\ phase[r] \in TaskPhases /\ cancelled[r]
    /\ phase' = [phase EXCEPT ![r] = "over"] /\ outgoing' = [outgoing EXCEPT ![r] = Nothing]
    /\ active' = NoRun /\ UNCHANGED <<cancelled, produced, buffer, sent>>

(* The task gets its CancelledError at the await it is in. An event whose  *)
(* broadcast was under way may or may not have reached the group; the rest *)
(* of broadcast_run_event does not run.                                    *)
Stopped(r) ==
    /\ phase[r] \in TaskPhases /\ cancelled[r]
    /\ phase' = [phase EXCEPT ![r] = "stopped"] /\ outgoing' = [outgoing EXCEPT ![r] = Nothing]
    /\ \/ UNCHANGED sent
       \/ outgoing[r] # Nothing /\ sent' = Append(sent, outgoing[r])
    /\ UNCHANGED <<active, cancelled, produced, buffer>>

(* _drive: on_run_cancelled or on_run_error emits RUN_ERROR.               *)
Report(r) ==
    /\ phase[r] \in {"stopped", "raised"}
    /\ phase' = [phase EXCEPT ![r] = "reporting"]
    /\ Broadcast(r, "RUN_ERROR")
    /\ UNCHANGED <<active, cancelled, produced, sent>>

(* _drive, finally: InMemoryActiveRunStore.end releases the thread.        *)
Release(r) == active' = IF active = r THEN NoRun ELSE active

\* Mutant of Reported: no finally.
ReportedKeepsClaim(r) ==
    /\ phase[r] = "reporting"
    /\ phase' = [phase EXCEPT ![r] = "over"]
    /\ Delivered(r)
    /\ UNCHANGED <<active, cancelled, produced>>

Reported(r) ==
    /\ phase[r] = "reporting"
    /\ phase' = [phase EXCEPT ![r] = "over"]
    /\ Delivered(r) /\ Release(r)
    /\ UNCHANGED <<cancelled, produced>>

Finished(r) ==
    /\ phase[r] = "returned"
    /\ phase' = [phase EXCEPT ![r] = "over"]
    /\ Release(r)
    /\ UNCHANGED <<cancelled, produced, outgoing, buffer, sent>>

-----------------------------------------------------------------------------
(* emit_to_thread, from a worker or a tool: recorded when a run is in the  *)
(* buffer, sent live without a number otherwise.                           *)
Fresh(x) == outgoing[x] = Nothing /\ \A k \in DOMAIN sent : sent[k].of # x

\* Mutant of EmitToThread: recorded in any case.
EmitRecorded(x) ==
    /\ Fresh(x) /\ Broadcast(x, "CONTENT")
    /\ UNCHANGED <<active, phase, cancelled, produced, sent>>

EmitToThread(x) ==
    /\ Fresh(x)
    /\ IF buffer # <<>>
       THEN Broadcast(x, "CONTENT")
       ELSE /\ outgoing' = [outgoing EXCEPT ![x] = [of |-> x, kind |-> "CONTENT", seq |-> 0]]
            /\ UNCHANGED buffer
    /\ UNCHANGED <<active, phase, cancelled, produced, sent>>

EmittedToThread(x) ==
    /\ Delivered(x)
    /\ UNCHANGED <<active, phase, cancelled, produced>>

RunNext(r) ==
    \/ Drive(r) \/ Emit(r) \/ Emitted(r) \/ ProviderRaises(r)
    \/ Stopped(r) \/ Report(r) \/ Reported(r) \/ Finished(r)

Next ==
    \/ \E r \in Runs : HandleRun(r) \/ StartRun(r) \/ Refuse(r) \/ Cancel(r) \/ RunNext(r)
    \/ \E x \in Emits : EmitToThread(x) \/ EmittedToThread(x)

Spec == Init /\ [][Next]_vars

(* A task that can go on does: the provider yields or raises, a broadcast  *)
(* returns. Nobody is obliged to start, cancel or emit anything.           *)
FairSpec == Spec /\ \A r \in Runs : WF_vars(RunNext(r))

-----------------------------------------------------------------------------
(* "A thread runs one run at a time" (README.md:51): the claim is held by  *)
(* the one run whose driver has not ended, and by none when there is none. *)
OneRun == \A r \in Runs : phase[r] \in Holding <=> active = r

(* The buffer replays the run in flight and nothing else: its own events   *)
(* and those emitted into it, numbered without a gap, and none while no    *)
(* run holds the thread. "it always sees a stream beginning at RUN_STARTED"*)
(* (README.md:157), but for a run longer than the buffer, and one that was *)
(* cancelled before it started, which is only its RUN_ERROR.               *)
ReplayIsTheRun ==
    /\ buffer # <<>> => active # NoRun
    /\ \A k \in DOMAIN buffer : buffer[k].of \in {active} \cup Emits
    /\ \A k \in 1..(Len(buffer) - 1) : buffer[k+1].seq = buffer[k].seq + 1
    /\ buffer # <<>> /\ buffer[1].seq = 1 =>
            buffer[1].kind \in {"RUN_STARTED", "RUN_ERROR"}

(* Runs do not mix: between two events of a run the group gets no event of *)
(* another, and a run's own events reach it in the order of their numbers. *)
SentInOrder ==
    \A j, l \in DOMAIN sent :
        j < l /\ sent[j].of = sent[l].of /\ sent[j].of \in Runs =>
            /\ sent[j].seq < sent[l].seq
            /\ \A k \in j..l : sent[k].of \in {sent[j].of} \cup Emits

(* "Run a claimed run to its end ... however it ends" (topics.py:173):     *)
(* a run that is over told the group so.                                   *)
EveryRunCloses ==
    \A r \in Runs : phase[r] = "over" =>
        \E k \in DOMAIN sent : sent[k].of = r /\ sent[k].kind \in Terminal

(* A claimed thread is released: a run ends with its provider, or with an  *)
(* exception, or with a cancel.                                            *)
ThreadIsReleased == \A r \in Runs : (active = r) ~> (active # r)

(* A run has one outcome: a run that ended on its own "has already told    *)
(* every client so" (topics.py:274) and is not reported again. A cancel    *)
(* that meets RUN_FINISHED on its way to the group is the one exception:   *)
(* RUN_ERROR may follow it.                                                *)
Terminals(r) == {k \in DOMAIN sent : sent[k].of = r /\ sent[k].kind \in Terminal}
OneOutcome ==
    \A r \in Runs : \A j, k \in Terminals(r) :
        j < k => /\ cancelled[r]
                 /\ sent[j].kind = "RUN_FINISHED" /\ sent[k].kind = "RUN_ERROR"

(* The end of a run is told, and told once: every client leaves the run    *)
(* (core.ts:138-149) and none is sent out of the next one.                 *)
ClosesOnce == EveryRunCloses /\ OneOutcome
=============================================================================
