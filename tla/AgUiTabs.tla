------------------------------- MODULE AgUiTabs -------------------------------
(***************************************************************************)
(* The tabs that watch an AG-UI thread: AgUiThread.on_subscribe, which     *)
(* replays the run in flight to a joining connection (kits/ag_ui), and the *)
(* AgentThread of each tab, which applies what it receives (ui/ag-ui).     *)
(*                                                                         *)
(* A connection joins the thread's group, then on_subscribe runs           *)
(* (docs/authoring-a-kit.md:46): what is broadcast from then on is sent to *)
(* the same socket, by another task than the one that replays.             *)
(***************************************************************************)
EXTENDS AgUiThread

CONSTANTS
    Tabs,
    ReplayFirst,    \* TRUE: chanx keeps broadcasts back until on_subscribe is done;
                    \* FALSE: it forwards them as they come
    MaxJoins        \* bound: how often one tab joins (1: it never reconnects)

ASSUME TabsAssumption == ReplayFirst \in BOOLEAN /\ MaxJoins \in Nat \ {0}

VARIABLES
    joined,     \* tab -> "out", "joining" (in the group, on_subscribe not done) or "in"
    joins,      \* tab -> how often it joined
    replay,     \* tab -> the replayed events on_subscribe has still to send
    held,       \* tab -> broadcasts kept back until the replay is done
    wire,       \* tab -> the events on their way to the client
    lastSeq,    \* tab -> lastSeq
    runId,      \* tab -> snapshot.runId
    running,    \* tab -> snapshot.running
    applied     \* history: tab -> the events applied, in order

tabVars == <<joined, joins, replay, held, wire, lastSeq, runId, running, applied>>
allVars == <<vars, tabVars>>

TabsTypeOK ==
    /\ TypeOK /\ joined \in [Tabs -> {"out", "joining", "in"}]
    /\ joins \in [Tabs -> 0..MaxJoins]
    /\ {replay, held, wire, applied} \subseteq [Tabs -> Seq(Event)]
    /\ lastSeq \in [Tabs -> Nat] /\ runId \in [Tabs -> Runs \cup {NoRun}]
    /\ running \in [Tabs -> BOOLEAN]

TabsInit ==
    /\ Init /\ joined = [t \in Tabs |-> "out"] /\ joins = [t \in Tabs |-> 0]
    /\ replay = [t \in Tabs |-> <<>>] /\ held = [t \in Tabs |-> <<>>]
    /\ wire = [t \in Tabs |-> <<>>] /\ lastSeq = [t \in Tabs |-> 0]
    /\ runId = [t \in Tabs |-> NoRun] /\ running = [t \in Tabs |-> FALSE]
    /\ applied = [t \in Tabs |-> <<>>]

-----------------------------------------------------------------------------
(* on_subscribe: the buffer is read once, after the group was joined.      *)
Join(t) ==
    /\ joined[t] = "out" /\ joins[t] < MaxJoins
    /\ joined' = [joined EXCEPT ![t] = "joining"] /\ joins' = [joins EXCEPT ![t] = @ + 1]
    /\ replay' = [replay EXCEPT ![t] = buffer]
    /\ UNCHANGED <<vars, held, wire, lastSeq, runId, running, applied>>

(* on_subscribe: send_run_event of the next replayed event, with its seq.  *)
Replay(t) ==
    /\ joined[t] = "joining" /\ replay[t] # <<>>
    /\ wire' = [wire EXCEPT ![t] = Append(@, Head(replay[t]))]
    /\ replay' = [replay EXCEPT ![t] = Tail(@)]
    /\ UNCHANGED <<vars, joined, joins, held, lastSeq, runId, running, applied>>

Joined(t) ==
    /\ joined[t] = "joining" /\ replay[t] = <<>>
    /\ joined' = [joined EXCEPT ![t] = "in"] /\ wire' = [wire EXCEPT ![t] = @ \o held[t]]
    /\ held' = [held EXCEPT ![t] = <<>>]
    /\ UNCHANGED <<vars, joins, replay, lastSeq, runId, running, applied>>

(* The socket drops: what is on its way is lost, the client keeps its      *)
(* state, and the run goes on (on_unsubscribe does nothing to it).         *)
Drop(t) ==
    /\ joined[t] # "out" /\ joins[t] < MaxJoins
    /\ joined' = [joined EXCEPT ![t] = "out"] /\ replay' = [replay EXCEPT ![t] = <<>>]
    /\ held' = [held EXCEPT ![t] = <<>>] /\ wire' = [wire EXCEPT ![t] = <<>>]
    /\ UNCHANGED <<vars, joins, lastSeq, runId, running, applied>>

(* A step of the thread: what reaches the group is sent to every member.   *)
KeepsBack(t) == ReplayFirst /\ joined[t] = "joining"
Forward ==
    IF sent' = sent
    THEN UNCHANGED <<held, wire>>
    ELSE LET e == sent'[Len(sent')] IN
         /\ held' = [t \in Tabs |-> IF KeepsBack(t) THEN Append(held[t], e) ELSE held[t]]
         /\ wire' = [t \in Tabs |-> IF joined[t] # "out" /\ ~KeepsBack(t)
                                    THEN Append(wire[t], e) ELSE wire[t]]

ThreadStep ==
    /\ \/ \E r \in Runs : HandleRun(r) \/ StartRun(r) \/ Cancel(r) \/ RunNext(r)
       \/ \E x \in Emits : EmitToThread(x) \/ EmittedToThread(x)
    /\ Forward
    /\ UNCHANGED <<joined, joins, replay, lastSeq, runId, running, applied>>

(* A tab asks for a run on a busy thread: on_run_refused answers it alone. *)
AskInVain(t, r) ==
    /\ joined[t] = "in" /\ Refuse(r)
    /\ wire' = [wire EXCEPT ![t] = Append(@, [of |-> r, kind |-> "RUN_ERROR", seq |-> 0])]
    /\ UNCHANGED <<joined, joins, replay, held, lastSeq, runId, running, applied>>

-----------------------------------------------------------------------------
(* apply(event, seq) of ui/ag-ui/core.ts *)
ReplayedStart(t, e) == e.kind = "RUN_STARTED" /\ e.of = runId[t]

\* Mutant of Skipped: every RUN_STARTED is taken for a new run.
SkippedButStarts(t, e) ==
    /\ e.seq # 0 /\ e.kind # "RUN_STARTED" /\ e.seq <= lastSeq[t]
Skipped(t, e) ==
    /\ e.seq # 0
    /\ e.kind # "RUN_STARTED" \/ ReplayedStart(t, e)
    /\ e.seq <= lastSeq[t]

\* A new run counts from its own first number.
NewLastSeq(t, e) ==
    IF e.seq = 0 THEN lastSeq[t]
    ELSE IF e.kind = "RUN_STARTED" /\ ~ReplayedStart(t, e) THEN e.seq
    ELSE IF e.seq > lastSeq[t] THEN e.seq ELSE lastSeq[t]

\* Mutant of Refusal: any error while a run is on.
RefusalAnyError(t, e) == e.kind = "RUN_ERROR" /\ lastSeq[t] > 0 /\ running[t]
\* A seq-less refusal while a run is on: the thread's run carries on.
Refusal(t, e) == e.kind = "RUN_ERROR" /\ e.seq = 0 /\ lastSeq[t] > 0 /\ running[t]

Apply(t) ==
    LET e == Head(wire[t])
        ends == e.kind \in Terminal /\ ~Refusal(t, e)
    IN
    /\ wire[t] # <<>>
    /\ wire' = [wire EXCEPT ![t] = Tail(@)]
    /\ IF Skipped(t, e)
       THEN UNCHANGED <<lastSeq, runId, running, applied>>
       ELSE /\ lastSeq' = [lastSeq EXCEPT ![t] = NewLastSeq(t, e)]
            /\ runId' = [runId EXCEPT ![t] = IF e.kind = "RUN_STARTED" THEN e.of
                                             ELSE IF ends THEN NoRun ELSE @]
            /\ running' = [running EXCEPT ![t] = e.kind = "RUN_STARTED" \/ (@ /\ ~ends)]
            /\ applied' = [applied EXCEPT ![t] = Append(@, e)]
    /\ UNCHANGED <<vars, joined, joins, replay, held>>

TabsNext ==
    \/ ThreadStep
    \/ \E t \in Tabs : \/ Join(t) \/ Replay(t) \/ Joined(t) \/ Drop(t) \/ Apply(t)
                       \/ \E r \in Runs : AskInVain(t, r)

TabsSpec == TabsInit /\ [][TabsNext]_allVars

-----------------------------------------------------------------------------
(* A run's numbered events are applied in the order of their numbers, and  *)
(* so none of them twice, though a replay resends what a tab may already   *)
(* have ("skip what was already applied", core.ts:76). Only a run whose    *)
(* end the tab has applied can start over: a tab that rejoins before the   *)
(* buffer is cleared no longer knows which run it was.                     *)
AppliedInOrder ==
    \A t \in Tabs : \A j, k \in DOMAIN applied[t] :
        LET e == applied[t][j]
            f == applied[t][k]
        IN  j < k /\ e.of = f.of /\ e.of \in Runs /\ e.seq # 0 /\ f.seq # 0 =>
                \/ e.seq < f.seq
                \/ \E l \in j..(k-1) : applied[t][l].of = e.of /\ applied[t][l].kind \in Terminal

(* A tab that drops and rejoins takes up the run in flight: content it     *)
(* applies after a RUN_STARTED is that run's, or was emitted into it, and  *)
(* nothing applied since is as new or newer.                               *)
OneRunOnScreen ==
    \A t \in Tabs : \A j, k \in DOMAIN applied[t] :
        LET s == applied[t] IN
        /\ j < k /\ s[j].kind = "RUN_STARTED" /\ s[k].kind = "CONTENT" /\ s[k].seq # 0
        /\ \A l \in (j+1)..k : s[l].kind # "RUN_STARTED"
        => /\ s[k].of \in {s[j].of} \cup Emits
           /\ \A l \in j..(k-1) : s[l].seq < s[k].seq

(* Nothing is on its way, and no run is.                                   *)
Settled(t) == joined[t] = "in" /\ wire[t] = <<>>
AtRest ==
    /\ \A r \in Runs : phase[r] \notin Holding
    /\ \A x \in DOMAIN outgoing : outgoing[x] = Nothing

(* "every tab watching it learns it is over" (kits/ag_ui/README.md:91).    *)
(* The code breaks it: a tab whose socket was down when the run ended is   *)
(* replayed nothing, and keeps showing the run.                            *)
TabsLearnTheEnd == \A t \in Tabs : AtRest /\ Settled(t) => ~running[t]

(* append and broadcast of an event are two awaits: an event emitted into  *)
(* a run may overtake one of the run's own between them, or come after the *)
(* start of the next run, and make every tab drop what is numbered below   *)
(* it. This says none was emitted into a run.                              *)
NoneEmittedIntoARun == \A k \in DOMAIN sent : sent[k].of \in Emits => sent[k].seq = 0

(* "a client applies them in order" (kits/ag_ui/README.md:165): whenever a *)
(* tab that never lost its socket joined, it has learnt that the run is    *)
(* over, and of a run that it saw start it applied every event.            *)
Has(t, e) == \E i \in DOMAIN applied[t] : applied[t][i] = e
InStep ==
    \A t \in Tabs : AtRest /\ Settled(t) /\ joins[t] = 1 /\ NoneEmittedIntoARun =>
        /\ ~running[t]
        /\ \A j, k \in DOMAIN sent :
              /\ sent[j].kind = "RUN_STARTED" /\ Has(t, sent[j])
              /\ sent[k].of = sent[j].of
              => Has(t, sent[k])
=============================================================================
