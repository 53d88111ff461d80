------------------------------- MODULE Recorder -------------------------------
(***************************************************************************)
(* From the microphone to the provider: ui/transcriber records blocks of   *)
(* samples, resamples them to the rate of the server, cuts them in chunks  *)
(* and sends them between audio_start and audio_end; TranscriberTopic      *)
(* takes what comes to the stream it opens for each audio_start.           *)
(*                                                                         *)
(* How streams are opened, closed and counted is TranscriberSession; chunks *)
(* out of order are ChunkSequencer; the queue to the provider is           *)
(* MediaIntake. Here messages are handled in the order they were sent.     *)
(***************************************************************************)
EXTENDS Integers, Sequences, Lists

CONSTANTS
    MaxBlocks,   \* bound: the recordings of the session, and blocks captured by each
    MaxDrops,    \* bound: lost sockets
    Block,       \* frames of a block of the capture worklet
    From, To,    \* sample rates of the device and of audio_config
    Size         \* samples of a chunk of chunk_ms

ASSUME RecorderAssumption ==
    /\ MaxBlocks \in Seq(Nat) /\ MaxDrops \in Nat
    /\ {Block, From, To, Size} \subseteq Nat \ {0}

VARIABLES
    \* The page.
    recorder,   \* status, generation and microphone of createRecorder
    capture,    \* recording -> its device and what start() keeps of it
    left,       \* the component is gone
    \* The socket: messages to the server, errors to the client.
    online, up, down, drops,
    \* The topic.
    current,    \* the recording whose audio_start made self._session, 0 for None
    session,    \* recording -> the session of its audio_start
    \* History.
    cutOff      \* recordings an error ended

page   == <<recorder, capture, left>>
socket == <<online, up, down, drops>>
topic  == <<current, session>>
vars   == <<page, socket, topic, cutOff>>

R == DOMAIN MaxBlocks
None == 0

AudioStart(r)       == [action |-> "audio_start", r |-> r]
AudioChunk(r, i, n) == [action |-> "audio_chunk", r |-> r, index |-> i, samples |-> n]
AudioEnd            == [action |-> "audio_end"]
Leave               == [action |-> "unsubscribe"]
ToServer ==
    {AudioStart(r) : r \in R} \cup {AudioEnd, Leave}
        \cup [action : {"audio_chunk"}, r : R, index : Nat, samples : 1 .. Size]

NoDevice == [device |-> "none", generation |-> 0, position |-> 0, blocks |-> 0, rest |-> 0,
             index |-> 0, started |-> FALSE, held |-> <<>>]
NoSession == [phase |-> "none", closed |-> FALSE, endRequested |-> FALSE,
              received |-> <<>>, held |-> <<>>, fed |-> <<>>]

Init ==
    /\ recorder = [status |-> "idle", generation |-> 0, microphone |-> None]
    /\ capture = [r \in R |-> NoDevice] /\ left = FALSE
    /\ online = TRUE /\ up = <<>> /\ down = <<>> /\ drops = 0
    /\ current = None /\ session = [r \in R |-> NoSession] /\ cutOff = {}

-----------------------------------------------------------------------------
(* Resampler.process: output sample k of a recording is taken at k * From  *)
(* / To input samples. `position` is where the next one lies from the      *)
(* start of the next block, times To; -To .. -1 is between the last sample *)
(* of this block and the first of the next.                                *)
CeilDiv(a, b) == (a + b - 1) \div b
Outputs(position) ==
    IF From = To THEN Block
    ELSE IF position >= (Block - 1) * To THEN 0
    ELSE CeilDiv((Block - 1) * To - position, From)

\* Mutant of Position: it starts anew with every block.
PositionAnew(position) == 0

Position(position) ==
    IF From = To THEN position ELSE position + Outputs(position) * From - Block * To

(* What a whole recording of b blocks comes to, resampled in one piece.     *)
Resampled(b) ==
    IF b = 0 THEN 0 ELSE IF From = To THEN b * Block ELSE CeilDiv((b * Block - 1) * To, From)

(* Chunker: n more samples make whole chunks and a rest.                   *)
Whole(c, n) == [k \in 1 .. (c.rest + n) \div Size |-> Size]
Rest(c, n)  == (c.rest + n) % Size

\* onChunk: chunks of these sizes are numbered and sent, or held.
Numbered(r, c, sizes) == [k \in DOMAIN sizes |-> AudioChunk(r, c.index + k - 1, sizes[k])]
Chunks(r, c, sizes)   == IF c.started THEN Numbered(r, c, sizes) ELSE <<>>
Chunked(c, sizes) ==
    IF c.started THEN [c EXCEPT !.index = @ + Len(sizes)] ELSE [c EXCEPT !.held = @ \o sizes]

\* What is sent while the socket is down is lost.
Send(messages) == up' = IF online THEN up \o messages ELSE up

-----------------------------------------------------------------------------
(* The recorder.                                                           *)
Started == {r \in R : capture[r].device # "none"}

\* <Recorder>: the button starts or stops, and is disabled while there is no socket to start on.
Enabled == ~left /\ (online \/ recorder.status # "idle")

(* start.                                                                  *)
Start ==
    /\ Enabled /\ recorder.status = "idle"
    /\ \E r \in R \ Started :
        /\ \A q \in R : q < r => q \in Started
        /\ capture' = [capture EXCEPT ![r].device = "asked",
                                      ![r].generation = recorder.generation + 1]
    /\ recorder' = [recorder EXCEPT !.status = "starting", !.generation = @ + 1]
    /\ UNCHANGED <<left, socket, topic, cutOff>>

(* openMicrophone: the user grants the device and its worklet is there; or *)
(* not, and the tracks are stopped.                                        *)
Granted(r) ==
    /\ capture[r].device = "asked" /\ capture' = [capture EXCEPT ![r].device = "granted"]
    /\ UNCHANGED <<recorder, left, socket, topic, cutOff>>
OpenFails(r) ==
    /\ capture[r].device = "asked" /\ capture' = [capture EXCEPT ![r].device = "off"]
    /\ recorder' = IF capture[r].generation = recorder.generation
                   THEN [recorder EXCEPT !.status = "idle"] ELSE recorder
    /\ UNCHANGED <<left, socket, topic, cutOff>>

\* The device stopped: the chunker flushes its rest through onChunk.
Flush(c)   == IF c.rest > 0 THEN <<c.rest>> ELSE <<>>
Off(c)     == [Chunked(c, Flush(c)) EXCEPT !.device = "off", !.rest = 0]

\* Mutants of OpenReturns: what was held is not sent; a start that was stopped goes on, or
\* keeps its device.
OpenReturnsUnheld(r) ==
    /\ capture[r].device = "granted"
    /\ IF capture[r].generation # recorder.generation
       THEN capture' = [capture EXCEPT ![r] = Off(@)] /\ UNCHANGED <<recorder, up>>
       ELSE /\ capture' = [capture EXCEPT ![r].device = "live", ![r].started = TRUE, ![r].held = <<>>]
            /\ recorder' = [recorder EXCEPT !.status = "recording", !.microphone = r]
            /\ Send(<<AudioStart(r)>>)
    /\ UNCHANGED <<left, online, down, drops, topic, cutOff>>
OpenReturnsAnyway(r) ==
    /\ capture[r].device = "granted"
    /\ LET c == capture[r]
           s == [c EXCEPT !.device = "live", !.started = TRUE, !.held = <<>>]
       IN  /\ capture' = [capture EXCEPT ![r] = Chunked(s, c.held)]
           /\ recorder' = [recorder EXCEPT !.status = "recording", !.microphone = r]
           /\ Send(<<AudioStart(r)>> \o Chunks(r, s, c.held))
    /\ UNCHANGED <<left, online, down, drops, topic, cutOff>>

OpenReturnsKept(r) ==
    /\ capture[r].device = "granted" /\ capture[r].generation = recorder.generation
    /\ LET c == capture[r]
           s == [c EXCEPT !.device = "live", !.started = TRUE, !.held = <<>>]
       IN  /\ capture' = [capture EXCEPT ![r] = Chunked(s, c.held)]
           /\ recorder' = [recorder EXCEPT !.status = "recording", !.microphone = r]
           /\ Send(<<AudioStart(r)>> \o Chunks(r, s, c.held))
    /\ UNCHANGED <<left, online, down, drops, topic, cutOff>>

(* open returns to start: the recording begins, unless it was stopped or   *)
(* ended meanwhile.                                                        *)
OpenReturns(r) ==
    /\ capture[r].device = "granted"
    /\ IF capture[r].generation # recorder.generation
       THEN capture' = [capture EXCEPT ![r] = Off(@)] /\ UNCHANGED <<recorder, up>>
       ELSE LET c == capture[r]
                s == [c EXCEPT !.device = "live", !.started = TRUE, !.held = <<>>]
            IN  /\ capture' = [capture EXCEPT ![r] = Chunked(s, c.held)]
                /\ recorder' = [recorder EXCEPT !.status = "recording", !.microphone = r]
                /\ Send(<<AudioStart(r)>> \o Chunks(r, s, c.held))
    /\ UNCHANGED <<left, online, down, drops, topic, cutOff>>

\* CAPTURE_WORKLET: a block is posted when the buffer is full.
Fills(r) == capture[r].device \in {"granted", "live"} /\ capture[r].blocks < MaxBlocks[r]

(* The block is resampled, cut in chunks, and they go to onChunk.          *)
Captured(r) ==
    /\ Fills(r)
    /\ LET c == capture[r]
           n == Outputs(c.position)
       IN  /\ capture' = [capture EXCEPT ![r] =
                [Chunked(c, Whole(c, n)) EXCEPT !.position = Position(@), !.blocks = @ + 1,
                                                !.rest = Rest(c, n)]]
           /\ Send(Chunks(r, c, Whole(c, n)))
    /\ UNCHANGED <<recorder, left, online, down, drops, topic, cutOff>>

\* release: the microphone stops, and what it still sends.
Released == IF recorder.microphone = None THEN capture
            ELSE [capture EXCEPT ![recorder.microphone] = Off(@)]
LastWords ==
    IF recorder.microphone = None THEN <<>>
    ELSE LET r == recorder.microphone IN Chunks(r, capture[r], Flush(capture[r]))
Idle == [status |-> "idle", generation |-> recorder.generation + 1, microphone |-> None]

\* Mutant of Halt: the end is sent before the rest.
HaltEndFirst(last) ==
    /\ recorder.status # "idle"
    /\ recorder' = Idle /\ capture' = Released
    /\ Send((IF recorder.status = "recording" THEN <<AudioEnd>> ELSE <<>>) \o LastWords \o last)

Halt(last) ==
    /\ recorder.status # "idle"
    /\ recorder' = Idle /\ capture' = Released
    /\ Send(LastWords \o (IF recorder.status = "recording" THEN <<AudioEnd>> ELSE <<>>) \o last)

(* stop; and useTranscriber's, when the component goes.                    *)
Stop ==
    /\ Enabled /\ Halt(<<>>)
    /\ UNCHANGED <<left, online, down, drops, topic, cutOff>>
Unmount ==
    /\ ~left /\ left' = TRUE
    /\ \/ Halt(<<Leave>>)
       \/ recorder.status = "idle" /\ Send(<<Leave>>) /\ UNCHANGED <<recorder, capture>>
    /\ UNCHANGED <<online, down, drops, topic, cutOff>>

(* transcriber_error, of any code but audio_gap.                           *)
TranscriberError ==
    /\ down # <<>> /\ down' = Tail(down)
    /\ IF recorder.status = "idle" \/ left THEN UNCHANGED <<recorder, capture, up, cutOff>>
       ELSE /\ recorder' = Idle /\ capture' = Released
            /\ Send(LastWords)
            /\ cutOff' = cutOff \cup ({recorder.microphone} \ {None})
    /\ UNCHANGED <<left, online, drops, topic>>

-----------------------------------------------------------------------------
(* The topic.                                                              *)
Tell(code)  == down' = IF online THEN Append(down, code) ELSE down
Accepts     == current # None /\ ~session[current].closed /\ ~session[current].endRequested

\* Mutant of HandleStart: the new session takes over once the old one is closed.
HandleStartLate(r) ==
    /\ current' = IF current = None THEN r ELSE current
    /\ session' = [s \in R |->
         IF s = r THEN [NoSession EXCEPT !.phase = "opening"] ELSE session[s]]
    /\ UNCHANGED down

(* handle_audio_start, until it awaits: the session of r takes over at     *)
(* once, and the previous one is closed.                                   *)
HandleStart(r) ==
    /\ current' = r
    /\ session' = [s \in R |->
         IF s = r THEN [NoSession EXCEPT !.phase = "opening"]
         ELSE IF s = current THEN [session[s] EXCEPT !.closed = TRUE]
         ELSE session[s]]
    /\ UNCHANGED down

\* session.feed: to the intake, or held until there is one.
Fed(s, m)  == IF s.phase = "live" THEN [s EXCEPT !.fed = Append(@, m)]
              ELSE [s EXCEPT !.held = Append(@, m)]
Took(s, m) == Fed([s EXCEPT !.received = Append(@, m)], m)

\* Mutant of HandleChunk: audio without a stream is ignored.
HandleChunkQuietly(m) ==
    /\ session' = IF Accepts
                  THEN [session EXCEPT ![current] = Took(@, m)] ELSE session
    /\ UNCHANGED <<current, down>>

HandleChunk(m) ==
    /\ IF Accepts
       THEN session' = [session EXCEPT ![current] = Took(@, m)] /\ UNCHANGED down
       ELSE Tell("not_started") /\ UNCHANGED session
    /\ UNCHANGED current

HandleEnd ==
    /\ session' = IF ~Accepts THEN session
                  ELSE [session EXCEPT ![current].endRequested = TRUE,
                            ![current].fed = IF session[current].phase = "live"
                                             THEN Append(@, AudioEnd) ELSE @]
    /\ UNCHANGED <<current, down>>

CloseSession ==
    /\ session' = IF current = None THEN session ELSE [session EXCEPT ![current].closed = TRUE]
    /\ current' = None

Handle ==
    /\ up # <<>> /\ up' = Tail(up)
    /\ LET m == Head(up)
       IN  CASE m.action = "audio_start" -> HandleStart(m.r)
             [] m.action = "audio_chunk" -> HandleChunk(m)
             [] m.action = "audio_end"   -> HandleEnd
             [] OTHER                    -> CloseSession /\ UNCHANGED down
    /\ UNCHANGED <<page, online, drops, cutOff>>

(* The audio_start of r is refused, or its open_stream raises.             *)
Abandon(r) ==
    /\ session[r].phase = "opening"
    /\ session' = [session EXCEPT ![r].phase = "over", ![r].closed = TRUE]
    /\ current' = IF current = r THEN None ELSE current
    /\ Tell("refused")
    /\ UNCHANGED <<page, online, up, drops, cutOff>>

\* Mutant of Opened: what was held stays there.
OpenedUnfed(r) ==
    /\ session[r].phase = "opening"
    /\ session' = [session EXCEPT ![r].phase = IF session[r].closed THEN "over" ELSE "live"]
    /\ UNCHANGED <<page, socket, current, cutOff>>

\* The intake gets what was held, and the end if it has come.
End(s)  == IF s.endRequested THEN <<AudioEnd>> ELSE <<>>
Live(s) == [s EXCEPT !.phase = "live", !.held = <<>>, !.fed = @ \o s.held \o End(s)]

(* open_stream returns: the stream goes live; or it is closed, for its     *)
(* session is.                                                             *)
Opened(r) ==
    /\ session[r].phase = "opening"
    /\ session' = [session EXCEPT ![r] =
                        IF @.closed THEN [@ EXCEPT !.phase = "over"] ELSE Live(@)]
    /\ UNCHANGED <<page, socket, current, cutOff>>

(* A stream is over: the client is told when it failed, idled or took too  *)
(* long, and not when the provider closed it or it had its end.            *)
Over(r) ==
    /\ session[r].phase = "live" /\ ~session[r].closed
    /\ session' = [session EXCEPT ![r].closed = TRUE]
    /\ current' = IF current = r THEN None ELSE current
    /\ Tell("over") \/ UNCHANGED down
    /\ UNCHANGED <<page, online, up, drops, cutOff>>

(* The socket is lost with what is on it; on_unsubscribe closes the        *)
(* session. The recorder goes on.                                          *)
Drop ==
    /\ online /\ ~left /\ drops < MaxDrops
    /\ online' = FALSE /\ drops' = drops + 1 /\ up' = <<>> /\ down' = <<>>
    /\ CloseSession
    /\ UNCHANGED <<page, cutOff>>
Rejoin ==
    /\ ~online /\ ~left /\ online' = TRUE
    /\ UNCHANGED <<page, up, down, drops, topic, cutOff>>

Next ==
    \/ Start \/ Stop \/ Unmount \/ TranscriberError
    \/ \E r \in R : Granted(r) \/ OpenFails(r) \/ OpenReturns(r) \/ Captured(r)
    \/ Handle \/ \E r \in R : Abandon(r) \/ Opened(r) \/ Over(r)
    \/ Drop \/ Rejoin

Spec == Init /\ [][Next]_vars

(* Promises and the event loop go on, messages are handled. Nobody *)
(* is bound to click, to grant, to speak or to fail.                       *)
FairSpec ==
    /\ Spec /\ WF_vars(Handle) /\ WF_vars(TranscriberError)
    /\ \A r \in R : WF_vars(OpenReturns(r))

-----------------------------------------------------------------------------
TypeOK ==
    /\ recorder \in [status : {"idle", "starting", "recording"}, generation : Nat,
                     microphone : R \cup {None}]
    /\ \A r \in R :
        /\ capture[r].device \in {"none", "asked", "granted", "live", "off"}
        /\ capture[r].position \in Int /\ capture[r].rest \in 0 .. Size - 1
        /\ session[r].phase \in {"none", "opening", "live", "over"}
    /\ up \in Seq(ToServer) /\ current \in R \cup {None}

(* "Release the microphone" (useTranscriber.ts): a device captures only    *)
(* for the recording shown, or for a start whose open has not returned;    *)
(* nothing is left on by a stop or an error that came while it was asked   *)
(* for.                                                                    *)
MicrophoneIsShown ==
    /\ \A r \in R : capture[r].device = "live" <=>
            recorder.status = "recording" /\ recorder.microphone = r
    /\ recorder.microphone # None => recorder.status = "recording"

(* A stream gets the chunks of its own audio_start, from index 0 and none  *)
(* left out, whatever was stopped, failed, lost or begun again before it.  *)
StreamsAreWhole ==
    \A r \in R : \A k \in DOMAIN session[r].received :
        session[r].received[k].r = r /\ session[r].received[k].index = k - 1

(* When audio_end is taken the stream has had every sample of the          *)
(* recording: resampled block by block as if in one piece, cut in chunks,  *)
(* with the last partial one.                                              *)
NothingUnsent ==
    \A r \in R : session[r].endRequested =>
        FoldLeft(LAMBDA n, m : n + m.samples, 0, session[r].received)
            = Resampled(capture[r].blocks)

(* The provider gets what came in the order it came, what came while it    *)
(* connected first, and the end after all of it, even if it came before    *)
(* the stream was there.                                                   *)
FedInOrder ==
    \A r \in R : session[r].phase = "live" =>
        session[r].fed = session[r].received \o End(session[r])

(* A start that was stopped while the user was asked frees the device it   *)
(* is granted all the same.                                                *)
CancelledStartsRelease ==
    \A r \in R : (capture[r].device = "granted" /\ capture[r].generation # recorder.generation)
                    ~> capture[r].device = "off"

(* A recording no stream listens to, because the socket was lost or the    *)
(* provider closed its stream, is ended by the server's answer to the next *)
(* chunk.                                                                  *)
Deaf(r) ==
    /\ recorder.status = "recording" /\ recorder.microphone = r
    /\ online /\ current = None /\ AudioStart(r) \notin {up[k] : k \in DOMAIN up}
DeafRecordingsEnd ==
    \A r \in R :
        (Deaf(r) /\ \E k \in DOMAIN up : up[k].action = "audio_chunk") ~> ~Deaf(r)

(* "everything else ends the stream server-side" (core.ts:214): a          *)
(* recording the client gave up for an error has no stream left. The code  *)
(* breaks it: the error may be about the recording before.                 *)
ErrorMeansOver == \A r \in cutOff : session[r].phase = "none" \/ session[r].closed
===============================================================================
