-------------------------------- MODULE Player --------------------------------
(***************************************************************************)
(* ui/player: what a synthesizer topic speaks, played by one browser tab.  *)
(*                                                                         *)
(* A chunk is one unit of samples, and so is what the worklet plays at a   *)
(* time; prebuffer and marks are counted in units. JavaScript runs one     *)
(* handler at a time, so a message, a report of the worklet and a click    *)
(* are a step each. What the page posts to the worklet is handled at once: *)
(* its delay only adds to what the last report does not know yet.          *)
(*                                                                         *)
(* The server (audio_stream_out) is here as what a client sees of it: one  *)
(* utterance after another, a replay of the one in flight to who rejoins,  *)
(* and `clear`, which may be overtaken by the next utterance.              *)
(***************************************************************************)
EXTENDS Naturals, Sequences, Lists

CONSTANTS
    Chunks,         \* bound: the most chunks of each utterance; fewer when it is cut or fails
    Prebuffer,      \* prebufferMs, in units
    MaxReports,     \* bound: reports of the worklet on their way
    MaxDrops,       \* bound: lost sockets
    MaxStops        \* bound: clears of the server and silences, each

ASSUME PlayerAssumption ==
    /\ Chunks \in Seq(Nat) /\ {MaxDrops, MaxStops} \subseteq Nat
    /\ {Prebuffer, MaxReports} \subseteq Nat \ {0}

VARIABLES
    \* The server.
    utterance,  \* the last one begun, 0 for none
    sent,       \* chunks of it sent
    phase,      \* "between" utterances, "speaking", or "ended" and still in the replay buffer
    clearing,   \* a clear() that has cut the speech and not yet told the group
    \* The socket.
    online, wire, drops, stops,
    \* The page.
    speaker,    \* "none", "opening" or "open"
    suspended,  \* the browser holds audio until a gesture
    pending,    \* messages that wait for the speaker
    page,       \* tracks, timeline and snapshot of the player, with the queue of its worklet
    closed,     \* the component is gone
    \* The worklet.
    sounded,    \* units played, its `played`
    reports,    \* totals posted and not yet handled
    \* History.
    heard,      \* utterance -> units of it that sounded
    lastOut,    \* the last unit that sounded
    unreported, \* the most that had sounded and was not reported when tracks were dropped
    gone,       \* utterances whose track was done or dropped: [done, stopped]
    replayed    \* utterances sent again to a tab that rejoined

server  == <<utterance, sent, phase, clearing>>
worklet == <<sounded, reports>>
history == <<heard, lastOut, unreported, gone, replayed>>
vars    == <<server, online, wire, drops, stops, speaker, suspended, pending, page, closed,
             worklet, history>>

Utterances == DOMAIN Chunks

(* The worklet's queue: emptied, written to, told to play out what it has.  *)
Emptied       == [blocks |-> <<>>, waiting |-> TRUE, draining |-> FALSE]
Written(q, b) == [q EXCEPT !.blocks = Append(@, b)]
Drained(q)    == [q EXCEPT !.draining = TRUE]

(* Messages of the topic, by what the player does with them.               *)
Start(u)    == [kind |-> "audio_start", u |-> u]
Chunk(u, i) == [kind |-> "audio_chunk", u |-> u, i |-> i]
End(u)      == [kind |-> "audio_end", u |-> u]
Clear       == [kind |-> "clear"]
Messages ==
    {Start(u) : u \in Utterances} \cup {End(u) : u \in Utterances} \cup {Clear}
        \cup UNION {{Chunk(u, i) : i \in 0 .. Chunks[u] - 1} : u \in Utterances}

Track == [last : Nat, start : Nat, length : Nat, ended : BOOLEAN]

Init ==
    /\ utterance = 0 /\ sent = 0 /\ phase = "between" /\ clearing = FALSE
    /\ online = TRUE /\ wire = <<>> /\ drops = 0 /\ stops = [cleared |-> 0, silenced |-> 0]
    /\ speaker = "none" /\ suspended = FALSE /\ pending = <<>> /\ closed = FALSE
    /\ page = [tracks |-> <<>>, written |-> 0, played |-> 0, shown |-> 0, status |-> "idle",
               queue |-> Emptied, marked |-> [u \in Utterances |-> 0]]
    /\ sounded = 0 /\ reports = <<>>
    /\ heard = [u \in Utterances |-> 0] /\ lastOut = <<0, 0>> /\ unreported = 0
    /\ gone = [done |-> {}, stopped |-> {}] /\ replayed = {}

-----------------------------------------------------------------------------
(* The player's handlers, each as what it makes of the page.               *)
Larger(a, b)  == IF a > b THEN a ELSE b
Smaller(a, b) == IF a < b THEN a ELSE b
Without(f, S) == [x \in DOMAIN f \ S |-> f[x]]

\* Mutant of PlayedOf: what was written counts as heard.
PlayedOfWritten(p, u) == p.tracks[u].length

\* playedOf: how much of a track has been heard, by the last report.
PlayedOf(p, u) ==
    LET t == p.tracks[u]
    IN  Smaller(IF p.played > t.start THEN p.played - t.start ELSE 0, t.length)

(* mark: the server keeps the most it was told (InMemoryPlaybackStore).    *)
Mark(p, S) ==
    [p EXCEPT !.marked = [u \in Utterances |->
        IF u \in S THEN Larger(@[u], PlayedOf(p, u)) ELSE @[u]]]

\* Mutants of DropAll: the timeline is left behind what was dropped; the worklet's queue stays.
DropAllKeepsTimeline(p) ==
    [Mark(p, DOMAIN p.tracks) EXCEPT !.tracks = <<>>, !.queue = Emptied]
DropAllKeepsTracks(p) ==
    [Mark(p, DOMAIN p.tracks) EXCEPT !.queue = Emptied, !.written = p.played]

DropAll(p) ==
    [Mark(p, DOMAIN p.tracks) EXCEPT !.tracks = <<>>, !.queue = Emptied,
                                     !.written = p.played]

OnStart(p, u) ==
    IF u \in DOMAIN p.tracks THEN p
    ELSE [p EXCEPT !.tracks = [v \in DOMAIN @ \cup {u} |->
                        IF v = u THEN [last |-> 0, start |-> p.written, length |-> 0, ended |-> FALSE]
                        ELSE @[v]],
                   !.status = "playing", !.shown = u]

Longer(t, i) == [t EXCEPT !.last = i + 1, !.length = @ + 1]

\* Mutant of OnChunk: a replayed chunk is not recognised by its index.
OnChunkReplayed(p, u, i) ==
    IF u \notin DOMAIN p.tracks THEN p
    ELSE [p EXCEPT !.tracks[u] = Longer(@, i), !.written = @ + 1, !.queue = Written(@, <<u, i>>)]

\* `last` is lastIndex + 1, so that it is 0 before the first chunk.
OnChunk(p, u, i) ==
    IF u \notin DOMAIN p.tracks THEN p
    ELSE IF i < p.tracks[u].last THEN p
    ELSE [p EXCEPT !.tracks[u] = Longer(@, i), !.written = @ + 1, !.queue = Written(@, <<u, i>>)]

\* Mutants of OnEnd: the speaker is not drained; an empty utterance ends the rest with it.
OnEndUndrained(p, u) ==
    IF u \notin DOMAIN p.tracks THEN p
    ELSE LET q == [p EXCEPT !.tracks[u].ended = TRUE]
         IN  IF q.tracks[u].length > 0 THEN q
             ELSE [Mark(q, {u}) EXCEPT !.tracks = Without(@, {u}),
                                       !.status = IF DOMAIN q.tracks = {u} THEN "idle" ELSE @]
OnEndGoesIdle(p, u) ==
    IF u \notin DOMAIN p.tracks THEN p
    ELSE LET q == [p EXCEPT !.tracks[u].ended = TRUE, !.queue = Drained(@)]
         IN  IF q.tracks[u].length > 0 THEN q
             ELSE [Mark(q, {u}) EXCEPT !.tracks = Without(@, {u}), !.status = "idle"]

(* An utterance without audio is over at once.                             *)
OnEnd(p, u) ==
    IF u \notin DOMAIN p.tracks THEN p
    ELSE LET q == [p EXCEPT !.tracks[u].ended = TRUE, !.queue = Drained(@)]
         IN  IF q.tracks[u].length > 0 THEN q
             ELSE [Mark(q, {u}) EXCEPT !.tracks = Without(@, {u}),
                                       !.status = IF DOMAIN q.tracks = {u} THEN "idle" ELSE @]

(* `clear` and `silence`.                                                  *)
Silenced(p) == [DropAll(p) EXCEPT !.status = "idle"]

(* `on`: one message.                                                      *)
Handle(p, m) ==
    CASE m.kind = "audio_start" -> OnStart(p, m.u)
      [] m.kind = "audio_chunk" -> OnChunk(p, m.u, m.i)
      [] m.kind = "audio_end"   -> OnEnd(p, m.u)
      [] OTHER                  -> Silenced(p)

\* What a step that makes q of the page does to the history.
Dropping(q) == DOMAIN page.tracks \ DOMAIN q.tracks
Over(q)     == gone' = [gone EXCEPT !.done = @ \cup Dropping(q)]
Stopped(q)  == gone' = [gone EXCEPT !.stopped = @ \cup Dropping(q)]
Unreported  == Larger(unreported, sounded - page.played)

-----------------------------------------------------------------------------
(* The server: SynthesizerTopic as its listeners see it, for as long as    *)
(* this one is there.                                                      *)
Tell(m) == wire' = IF online THEN Append(wire, m) ELSE wire

\* The replay buffer: the utterance in flight, from its start.
Buffer ==
    IF phase = "between" THEN <<>>
    ELSE <<Start(utterance)>> \o [k \in 1 .. sent |-> Chunk(utterance, k - 1)]
            \o (IF phase = "ended" THEN <<End(utterance)>> ELSE <<>>)

tabVars == <<online, drops, stops, speaker, suspended, pending, page, closed, worklet, history>>

Begin ==
    /\ ~closed /\ phase = "between" /\ utterance < Len(Chunks)
    /\ utterance' = utterance + 1 /\ sent' = 0 /\ phase' = "speaking"
    /\ Tell(Start(utterance + 1))
    /\ UNCHANGED <<clearing, tabVars>>

Produce ==
    /\ ~closed /\ phase = "speaking" /\ sent < Chunks[utterance]
    /\ sent' = sent + 1
    /\ Tell(Chunk(utterance, sent))
    /\ UNCHANGED <<utterance, phase, clearing, tabVars>>

Finish ==
    /\ ~closed /\ phase = "speaking" /\ phase' = "ended"
    /\ Tell(End(utterance))
    /\ UNCHANGED <<utterance, sent, clearing, tabVars>>

\* `replay_store.clear`, after the broadcast of the end.
Forget ==
    /\ ~closed /\ phase = "ended" /\ phase' = "between"
    /\ UNCHANGED <<utterance, sent, clearing, wire, tabVars>>

(* clear(), by any listener or the agent: the job is cancelled and the     *)
(* buffer cleared, then the group is told.                                 *)
CutShort ==
    /\ ~closed /\ ~clearing /\ clearing' = TRUE /\ phase' = "between"
    /\ stops.cleared < MaxStops /\ stops' = [stops EXCEPT !.cleared = @ + 1]
    /\ UNCHANGED <<utterance, sent, wire, online, drops, speaker, suspended, pending, page,
                   closed, worklet, history>>
TellClear ==
    /\ ~closed /\ clearing /\ clearing' = FALSE
    /\ Tell(Clear)
    /\ UNCHANGED <<utterance, sent, phase, tabVars>>

(* What <Player> shows to be clicked: "Enable audio" while the browser      *)
(* holds it, "Stop" while something plays.                                 *)
Shown == [unlock |-> speaker = "open" /\ suspended, stop |-> page.status # "idle"]

(* The listener's own Stop.                                                *)
Stop == online /\ Shown.stop /\ CutShort

(* The socket is lost with what is on it; a rejoin is replayed.            *)
Drop ==
    /\ online /\ ~closed /\ drops < MaxDrops
    /\ online' = FALSE /\ wire' = <<>> /\ drops' = drops + 1
    /\ UNCHANGED <<server, stops, speaker, suspended, pending, page, closed, worklet, history>>
Rejoin ==
    /\ ~online /\ ~closed
    /\ online' = TRUE /\ wire' = Buffer
    /\ replayed' = IF phase = "between" THEN replayed ELSE replayed \cup {utterance}
    /\ UNCHANGED <<server, drops, stops, speaker, suspended, pending, page, closed, worklet,
                   heard, lastOut, unreported, gone>>

-----------------------------------------------------------------------------
(* The page.                                                               *)
(* withSpeaker: at once if the speaker is open, else when it is.           *)
Receive ==
    /\ wire # <<>> /\ wire' = Tail(wire)
    /\ IF speaker = "open"
       THEN /\ page' = Handle(page, Head(wire))
            /\ IF Head(wire) = Clear THEN Stopped(page') /\ unreported' = Unreported
               ELSE Over(page') /\ UNCHANGED unreported
            /\ UNCHANGED <<pending, speaker>>
       ELSE /\ pending' = Append(pending, Head(wire))
            /\ speaker' = "opening" /\ UNCHANGED <<page, gone, unreported>>
    /\ UNCHANGED <<server, online, drops, stops, suspended, closed, worklet, heard, lastOut,
                   replayed>>

(* openSpeaker: the device and its worklet come, held by the browser or     *)
(* not, or they fail.                                                      *)
OpenSpeaker(comes) ==
    /\ speaker = "opening" /\ speaker' = IF comes THEN "open" ELSE "none"
    /\ IF comes THEN suspended' \in BOOLEAN ELSE UNCHANGED suspended

(* ensureSpeaker: opened, and what waited runs in the order it came.       *)
SpeakerOpens ==
    /\ OpenSpeaker(TRUE)
    /\ page' = FoldLeft(Handle, page, pending) /\ pending' = <<>>
    /\ gone' = [gone EXCEPT !.done = @ \cup
                    ({m.u : m \in {pending[k] : k \in DOMAIN pending} \ {Clear}}
                        \ DOMAIN page'.tracks)]
    /\ UNCHANGED <<server, online, wire, drops, stops, closed, worklet, heard, lastOut,
                   unreported, replayed>>
SpeakerFails ==
    /\ OpenSpeaker(FALSE)
    /\ pending' = <<>>
    /\ UNCHANGED <<server, online, wire, drops, stops, page, closed, worklet, history>>

(* unlock, from a click on "Enable audio" or on Speak.                     *)
Unlock ==
    /\ ~closed
    /\ \/ speaker = "none" /\ speaker' = "opening" /\ UNCHANGED suspended
       \/ Shown.unlock /\ suspended' = FALSE /\ UNCHANGED speaker
    /\ UNCHANGED <<server, online, wire, drops, stops, pending, page, closed, worklet, history>>

(* silence: the listener speaks over it.                                   *)
Silence ==
    /\ ~closed /\ stops.silenced < MaxStops
    /\ stops' = [stops EXCEPT !.silenced = @ + 1]
    /\ page' = Silenced(page) /\ Stopped(page') /\ unreported' = Unreported
    /\ UNCHANGED <<server, online, wire, drops, speaker, suspended, pending, closed, worklet,
                   heard, lastOut, replayed>>

\* Mutant of Unmount: what waits for the speaker still does.
UnmountKeepsPending ==
    /\ ~closed /\ closed' = TRUE
    /\ online' = FALSE /\ wire' = <<>>
    /\ page' = DropAll(page) /\ Stopped(page') /\ unreported' = Unreported
    /\ speaker' = IF speaker = "open" THEN "none" ELSE speaker
    /\ reports' = <<>>
    /\ UNCHANGED <<server, drops, stops, suspended, sounded, pending, heard, lastOut, replayed>>

(* The component goes: close, and the topic is left. A speaker that is being opened comes all  *)
(* the same, and nobody closes it.                                         *)
Unmount ==
    /\ ~closed /\ closed' = TRUE
    /\ online' = FALSE /\ wire' = <<>>
    /\ page' = DropAll(page) /\ Stopped(page') /\ unreported' = Unreported
    /\ speaker' = IF speaker = "open" THEN "none" ELSE speaker
    /\ pending' = <<>> /\ reports' = <<>>
    /\ UNCHANGED <<server, drops, stops, suspended, sounded, heard, lastOut, replayed>>

-----------------------------------------------------------------------------
(* The worklet.                                                            *)
Ready(q) == Len(q.blocks) >= Prebuffer \/ (q.draining /\ q.blocks # <<>>)

(* process: one unit, once there is a prebuffer or the utterance has ended. *)
Process ==
    /\ speaker = "open" /\ ~suspended /\ page.queue.blocks # <<>>
    /\ ~page.queue.waiting \/ Ready(page.queue)
    /\ LET dry == Len(page.queue.blocks) = 1
           out == Head(page.queue.blocks)
       IN  /\ page' = [page EXCEPT !.queue = [blocks |-> Tail(@.blocks), waiting |-> dry,
                                              draining |-> @.draining /\ ~dry]]
           /\ heard' = [heard EXCEPT ![out[1]] = Larger(@, out[2] + 1)] /\ lastOut' = out
    /\ sounded' = sounded + 1
    /\ UNCHANGED <<server, online, wire, drops, stops, speaker, suspended, pending, closed,
                   reports, unreported, gone, replayed>>

(* Every 1024 samples, heard or silent.                                    *)
Report ==
    /\ speaker = "open" /\ ~suspended /\ Len(reports) < MaxReports
    /\ reports' = Append(reports, sounded)
    /\ UNCHANGED <<server, online, wire, drops, stops, speaker, suspended, pending, page, closed,
                   sounded, history>>

Done(p) == {u \in DOMAIN p.tracks : p.tracks[u].ended
                /\ p.played >= p.tracks[u].start + p.tracks[u].length}

(* onPlayed: a track that is done gets its last mark, the others one if    *)
(* the last is long enough ago. The status follows the utterance shown.    *)
OnPlayed ==
    /\ reports # <<>> /\ reports' = Tail(reports)
    /\ LET p    == [page EXCEPT !.played = Head(reports)]
           left == Without(p.tracks, Done(p))
       IN  \E due \in SUBSET DOMAIN left :
               page' = [Mark(p, due \cup Done(p)) EXCEPT
                            !.tracks = left,
                            !.status = IF p.shown \notin DOMAIN p.tracks THEN @
                                       ELSE IF DOMAIN left = {} THEN "idle" ELSE "playing"]
    /\ Over(page')
    /\ UNCHANGED <<server, online, wire, drops, stops, speaker, suspended, pending, closed,
                   sounded, heard, lastOut, unreported, replayed>>

Server == Begin \/ Produce \/ Finish \/ Forget \/ CutShort \/ TellClear
Socket == Drop \/ Rejoin
Page   == Stop \/ Receive \/ SpeakerOpens \/ SpeakerFails \/ Unlock \/ Silence \/ Unmount \/ OnPlayed
Device == Process \/ Report
Next   == Server \/ Socket \/ Page \/ Device

Spec == Init /\ [][Next]_vars

(* The audio device plays what it has, and JavaScript handles its reports. *)
FairSpec == Spec /\ WF_vars(Process) /\ WF_vars(Report) /\ WF_vars(OnPlayed)

-----------------------------------------------------------------------------
TypeOK ==
    /\ utterance \in 0 .. Len(Chunks) /\ sent \in Nat
    /\ phase \in {"between", "speaking", "ended"} /\ clearing \in BOOLEAN
    /\ wire \in Seq(Messages) /\ pending \in Seq(Messages)
    /\ speaker \in {"none", "opening", "open"}
    /\ DOMAIN page.tracks \subseteq Utterances
    /\ \A u \in DOMAIN page.tracks : page.tracks[u] \in Track
    /\ page.status \in {"idle", "playing"} /\ page.shown \in 0 .. Len(Chunks)
    /\ page.queue.blocks = <<>> => page.queue.waiting

(* "writes each chunk once, in order, even when replayed" (core.test.ts):  *)
(* what sounds goes forward, across lost sockets, clears that come late    *)
(* and barge-ins, and an utterance begins again only if it was over or     *)
(* silenced when a rejoin replayed it.                                     *)
Forward(a, b) == a[1] < b[1] \/ (a[1] = b[1] /\ a[2] < b[2])
PlaysForward ==
    [][sounded' # sounded =>
          \/ sounded = 0 \/ Forward(lastOut, lastOut')
          \/ lastOut'[1] \in (gone.done \cup gone.stopped) \cap replayed]_vars

(* "Stop playing now, locally", "clear empties the buffer at once": of an  *)
(* utterance that was silenced, cleared or closed nothing sounds any more, *)
(* though its chunks go on coming, unless a rejoin replays it. After       *)
(* close() nothing sounds at all.                                          *)
StoppedIsSilent ==
    /\ \A k \in DOMAIN page.queue.blocks :
            page.queue.blocks[k][1] \in gone.stopped => page.queue.blocks[k][1] \in replayed
    /\ closed => page.queue.blocks = <<>>

(* "so the server knows how much was actually heard" (README.md): a mark   *)
(* claims no more than was heard, but for what had sounded unreported when *)
(* tracks were last dropped, which the next utterance is credited with.    *)
HonestMarks == \A u \in Utterances : page.marked[u] <= heard[u] + unreported

(* What an utterance that ended owes: it plays out, "regardless" of the    *)
(* prebuffer, and is over, unless the browser holds audio.                 *)
EndsPlayOut ==
    \A u \in Utterances :
        (u \in DOMAIN page.tracks /\ page.tracks[u].ended)
            ~> (u \notin DOMAIN page.tracks \/ suspended)

(* The status shown is that of the tracks: idle only with nothing left to  *)
(* play; and nothing left to play shows idle, unless the utterance shown   *)
(* had no audio and went while an earlier one was still playing: what      *)
(* onPlayed then finds done, it does not show (AlwaysGoesIdle).            *)
StatusIsTrue == ~closed =>
    /\ page.status = "idle" => DOMAIN page.tracks = {}
    /\ DOMAIN page.tracks = {} /\ page.status = "playing" =>
            page.shown \in gone.done /\ heard[page.shown] = 0

(* "goes idle" plainly, which the code breaks.                             *)
AlwaysGoesIdle == DOMAIN page.tracks = {} => page.status = "idle"
=============================================================================
