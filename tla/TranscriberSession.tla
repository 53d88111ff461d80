-------------------------- MODULE TranscriberSession --------------------------
(***************************************************************************)
(* kits/audio_stream_in/topics.py: the life of the provider streams behind *)
(* TranscriberTopic, and the count that limits them per user.              *)
(*                                                                         *)
(* Everything runs on one event loop: a handler or a background task runs  *)
(* from one await to the next without interruption, and chanx handles each *)
(* incoming frame in a task of its own, so two audio_start handlers of one *)
(* topic may both be half way. A step of a session is the code between two *)
(* awaits. Where handle_audio_start calls _close and goes on without       *)
(* yielding, `turn` names the session whose handler keeps the event loop.  *)
(*                                                                         *)
(* The audio itself is in MediaIntake and ChunkSequencer; here an intake   *)
(* is running or over. Message sends are left out: nothing follows them    *)
(* but code that looks at `closed` again.                                  *)
(***************************************************************************)
EXTENDS Naturals, FiniteSets

CONSTANTS
    Topics,         \* TranscriberTopic instances, one per subscribed connection
    Sessions,       \* _Session objects: one per audio_start there will be
    Users,          \* what _identity() returns
    User,           \* the user a topic's streams count against
    Limit,          \* max_sessions_per_user
    HookRaises,     \* TRUE: on_utterance_end, which broadcasts, may raise
    NoSession       \* None

ASSUME UserAssumption    == User \in [Topics -> Users]
ASSUME LimitAssumption   == Limit \in Nat \ {0}
ASSUME HookAssumption == HookRaises \in BOOLEAN
ASSUME TopicsAssumption == IsFiniteSet(Topics)
ASSUME NoSessionAssumption == NoSession \notin Sessions

VARIABLES
    current,    \* topic -> _session
    counted,    \* topic -> _counted is set
    open,       \* user -> _open
    left,       \* topic -> on_unsubscribe ran
    owner,      \* session -> its topic, once there was an audio_start
    start,      \* session -> where its handle_audio_start is
    turn,       \* the session whose handle_audio_start holds the event loop
    closed,     \* session -> closed
    ended,      \* session -> end_requested
    intake,     \* session -> the state of its MediaIntake task
    listening,  \* session -> its _listen task is running
    closing,    \* session -> where the _close that set `closed` is
    graceful,   \* session -> that _close was called with graceful=True
    heir,       \* session -> the session whose handle_audio_start awaits that _close
    provider,   \* session -> the provider's end of the stream
    overlapped  \* history: an audio_start came before the last session of its topic
                \* was opened or closed to the end

topicVars   == <<current, counted, open, left>>
sessionVars == <<owner, start, closed, ended, intake, listening, closing, graceful, heir, provider>>
vars == <<topicVars, turn, sessionVars, overlapped>>

StartSteps == {"unused", "replacing", "opening", "discarding", "started", "over"}
CloseSteps == {"no", "stopping", "shutting", "done"}
Provider   == {"none", "connecting", "live", "ended", "shut"}

TypeOK ==
    /\ current \in [Topics -> Sessions \cup {NoSession}]
    /\ counted \in [Topics -> BOOLEAN] /\ open \in [Users -> Nat]
    /\ left \in [Topics -> BOOLEAN]
    /\ owner \in [Sessions -> Topics \cup {NoSession}]
    /\ start \in [Sessions -> StartSteps] /\ turn \in Sessions \cup {NoSession}
    /\ closed \in [Sessions -> BOOLEAN] /\ ended \in [Sessions -> BOOLEAN]
    /\ intake \in [Sessions -> {"none", "running", "over"}]
    /\ listening \in [Sessions -> BOOLEAN] /\ closing \in [Sessions -> CloseSteps]
    /\ graceful \in [Sessions -> BOOLEAN]
    /\ heir \in [Sessions -> Sessions \cup {NoSession}]
    /\ provider \in [Sessions -> Provider] /\ overlapped \in BOOLEAN

Init ==
    /\ current = [t \in Topics |-> NoSession] /\ counted = [t \in Topics |-> FALSE]
    /\ open = [u \in Users |-> 0] /\ left = [t \in Topics |-> FALSE]
    /\ owner = [s \in Sessions |-> NoSession]
    /\ start = [s \in Sessions |-> "unused"] /\ turn = NoSession
    /\ closed = [s \in Sessions |-> FALSE] /\ ended = [s \in Sessions |-> FALSE]
    /\ intake = [s \in Sessions |-> "none"]
    /\ listening = [s \in Sessions |-> FALSE] /\ closing = [s \in Sessions |-> "no"]
    /\ graceful = [s \in Sessions |-> FALSE]
    /\ heir = [s \in Sessions |-> NoSession]
    /\ provider = [s \in Sessions |-> "none"] /\ overlapped = FALSE

-----------------------------------------------------------------------------
(* _claim and _release, for topic t *)
CanClaim(t) == open[User[t]] < Limit

Claim(t) ==
    /\ open' = [open EXCEPT ![User[t]] = @ + 1] /\ counted' = [counted EXCEPT ![t] = TRUE]

\* Mutant of Release: without a look at _counted.
ReleaseUnclaimed(t) ==
    /\ counted' = [counted EXCEPT ![t] = FALSE] /\ open' = [open EXCEPT ![User[t]] = @ - 1]

Release(t) ==
    /\ counted' = [counted EXCEPT ![t] = FALSE]
    /\ open' = IF counted[t] /\ open[User[t]] > 0
               THEN [open EXCEPT ![User[t]] = @ - 1]
               ELSE open

\* Mutant of Forget: whatever session the topic has by now.
ForgetAny(s) == current' = [current EXCEPT ![owner[s]] = NoSession]

\* "if self._session is session: self._session = None"
Forget(s) ==
    current' = [t \in Topics |-> IF current[t] = s THEN NoSession ELSE current[t]]

(* The end of _close: its tasks are cancelled, the session is forgotten,   *)
(* the claim is given back.                                                *)
FinishClose(s) ==
    /\ Forget(s) /\ Release(owner[s])
    /\ listening' = [listening EXCEPT ![s] = FALSE]

(* _close(s) once it has seen that s is not closed: stop the intake, then  *)
(* close the stream, awaiting each that there is, then finish. Called from *)
(* the intake's own task (onQuiet), stop() returns at once.                *)
NextClose(s, kind, onQuiet) ==
    IF intake[s] = "running" /\ ~onQuiet THEN "stopping"
    ELSE IF ~kind /\ start[s] = "started" THEN "shutting" ELSE "done"

(* `next` is the session whose handle_audio_start is waiting for it.       *)
Close(s, kind, onQuiet, next) ==
    /\ ~closed[s]
    /\ closed' = [closed EXCEPT ![s] = TRUE] /\ graceful' = [graceful EXCEPT ![s] = kind]
    /\ closing' = [closing EXCEPT ![s] = NextClose(s, kind, onQuiet)]
    /\ heir' = [heir EXCEPT ![s] = next]

-----------------------------------------------------------------------------
\* Nothing of topic t is under way.
Quiet(t) == \A s \in Sessions : owner[s] = t =>
                /\ start[s] \in {"started", "over"}
                /\ start[s] = "started" => closing[s] = "done"

(* handle_audio_start, up to its first await: the new session replaces the *)
(* topic's session, which is closed.                                       *)
HandleAudioStart(t, s) ==
    LET previous == current[t] IN
    /\ turn = NoSession /\ ~left[t] /\ start[s] = "unused"
    /\ overlapped' = (overlapped \/ ~Quiet(t))
    /\ owner' = [owner EXCEPT ![s] = t] /\ start' = [start EXCEPT ![s] = "replacing"]
    /\ IF previous = NoSession \/ (previous # NoSession /\ closed[previous])
       THEN /\ current' = [current EXCEPT ![t] = s]
            /\ turn' = s
            /\ UNCHANGED <<counted, open, closed, listening, closing, graceful, heir>>
       ELSE /\ current' = [current EXCEPT ![t] = s]
            /\ Close(previous, FALSE, FALSE, s)
            /\ IF closing'[previous] = "done"
               THEN Release(t) /\ turn' = s
               ELSE UNCHANGED <<counted, open>> /\ turn' = NoSession
            /\ UNCHANGED listening
    /\ UNCHANGED <<left, ended, intake, provider>>

(* handle_audio_start goes on: _refuse, or _claim fails, and the session   *)
(* is abandoned ...                                                        *)
Abandon(s) ==
    /\ turn = s
    /\ turn' = NoSession /\ start' = [start EXCEPT ![s] = "over"]
    /\ closed' = [closed EXCEPT ![s] = TRUE]
    /\ Forget(s)
    /\ UNCHANGED <<overlapped, counted, open, left, owner, ended, intake, listening, closing, graceful,
                   heir, provider>>

(* ... or the stream is claimed and open_stream awaited.                   *)
ClaimStream(s) ==
    /\ turn = s /\ CanClaim(owner[s])
    /\ turn' = NoSession
    /\ Claim(owner[s])
    /\ start' = [start EXCEPT ![s] = "opening"]
    /\ provider' = [provider EXCEPT ![s] = "connecting"]
    /\ UNCHANGED <<overlapped, current, left, owner, closed, ended, intake, listening, closing, graceful,
                   heir>>

(* open_stream raised: release, abandon. *)
OpenFails(s) ==
    /\ turn = NoSession /\ start[s] = "opening"
    /\ start' = [start EXCEPT ![s] = "over"] /\ provider' = [provider EXCEPT ![s] = "shut"]
    /\ closed' = [closed EXCEPT ![s] = TRUE]
    /\ Forget(s) /\ Release(owner[s])
    /\ UNCHANGED <<overlapped, left, owner, turn, ended, intake, listening, closing, graceful, heir>>

(* open_stream returned, but the session was closed meanwhile.             *)
OpensTooLate(s) ==
    /\ turn = NoSession /\ start[s] = "opening" /\ closed[s]
    /\ start' = [start EXCEPT ![s] = "discarding"] /\ provider' = [provider EXCEPT ![s] = "live"]
    /\ UNCHANGED <<overlapped, topicVars, owner, turn, closed, ended, intake, listening, closing,
                   graceful, heir>>

Discarded(s) ==
    /\ turn = NoSession /\ start[s] = "discarding"
    /\ start' = [start EXCEPT ![s] = "over"] /\ provider' = [provider EXCEPT ![s] = "shut"]
    /\ UNCHANGED <<overlapped, topicVars, owner, turn, closed, ended, intake, listening, closing,
                   graceful, heir>>

\* Mutant of Opens: session.closed is not looked at again after the await.
OpensRegardless(s) ==
    /\ turn = NoSession /\ start[s] = "opening"
    /\ start' = [start EXCEPT ![s] = "started"] /\ provider' = [provider EXCEPT ![s] = "live"]
    /\ intake' = [intake EXCEPT ![s] = "running"] /\ listening' = [listening EXCEPT ![s] = TRUE]
    /\ UNCHANGED <<overlapped, topicVars, owner, turn, closed, ended, closing, graceful, heir>>

(* open_stream returned: listener and intake run. If audio_end came first, *)
(* ended[s] is already set, and _end runs here.                            *)
Opens(s) ==
    /\ turn = NoSession /\ start[s] = "opening" /\ ~closed[s]
    /\ start' = [start EXCEPT ![s] = "started"] /\ provider' = [provider EXCEPT ![s] = "live"]
    /\ intake' = [intake EXCEPT ![s] = "running"] /\ listening' = [listening EXCEPT ![s] = TRUE]
    /\ UNCHANGED <<overlapped, topicVars, owner, turn, closed, ended, closing, graceful, heir>>

(* handle_audio_end *)
HandleAudioEnd(t) ==
    LET s == current[t] IN
    /\ turn = NoSession /\ ~left[t] /\ s # NoSession /\ ~closed[s] /\ ~ended[s]
    /\ ended' = [ended EXCEPT ![s] = TRUE]
    /\ UNCHANGED <<overlapped, topicVars, turn, owner, start, closed, intake, listening, closing,
                   graceful, heir, provider>>

-----------------------------------------------------------------------------
(* Each of the following ends the session with _close, from a task of its  *)
(* own; when nothing has to be awaited the close finishes in the same step.*)
BackgroundClose(s, kind, onQuiet) ==
    /\ turn = NoSession /\ Close(s, kind, onQuiet, NoSession)
    /\ IF closing'[s] = "done"
       THEN FinishClose(s)
       ELSE UNCHANGED <<current, counted, open, listening>>
    /\ UNCHANGED <<overlapped, left, turn, owner, start, ended>>

\* Mutants of Expire and FinishTimesOut: the stream is left to end by itself.
ExpireGracefully(s) ==
    /\ start[s] = "started" /\ BackgroundClose(s, TRUE, FALSE)
    /\ UNCHANGED <<intake, provider>>
FinishGracefully(s) ==
    /\ ended[s] /\ listening[s] /\ BackgroundClose(s, TRUE, FALSE)
    /\ UNCHANGED <<intake, provider>>

(* _expire: max_session_seconds passed. *)
Expire(s) ==
    /\ start[s] = "started" /\ BackgroundClose(s, FALSE, FALSE)
    /\ UNCHANGED <<intake, provider>>

(* _on_quiet("idle"), in the intake's task. *)
GoIdle(s) ==
    /\ intake[s] = "running" /\ BackgroundClose(s, FALSE, TRUE)
    /\ UNCHANGED <<intake, provider>>

(* _finish_or_abort: finish_timeout_seconds passed, the listener is not    *)
(* done. (When it is done it has closed the session itself.)               *)
FinishTimesOut(s) ==
    /\ ended[s] /\ listening[s] /\ BackgroundClose(s, FALSE, FALSE)
    /\ UNCHANGED <<intake, provider>>

(* _listen: the provider's frames ended ...                                *)
ListenerEnds(s) ==
    /\ listening[s] /\ provider[s] = "ended" /\ BackgroundClose(s, TRUE, FALSE)
    /\ UNCHANGED <<intake, provider>>

(* ... or receiving or publishing one raised.                              *)
ListenerFails(s) ==
    /\ listening[s] /\ BackgroundClose(s, FALSE, FALSE)
    /\ UNCHANGED <<intake, provider>>

(* _listen: the frames ended in mid-utterance, and on_utterance_end, which *)
(* is called outside the try, raises: the listener dies and closes nothing.*)
(* A _finish_or_abort that awaits it raises the same.                      *)
ListenerDies(s) ==
    /\ HookRaises /\ turn = NoSession
    /\ listening[s] /\ provider[s] = "ended" /\ ~closed[s]
    /\ listening' = [listening EXCEPT ![s] = FALSE]
    /\ UNCHANGED <<overlapped, topicVars, turn, owner, start, closed, ended, intake, closing, graceful,
                   heir, provider>>

(* on_unsubscribe: close_session *)
Leave(t) ==
    LET s == current[t] IN
    /\ turn = NoSession /\ ~left[t]
    /\ left' = [left EXCEPT ![t] = TRUE] /\ current' = [current EXCEPT ![t] = NoSession]
    /\ IF s = NoSession \/ (s # NoSession /\ closed[s])
       THEN UNCHANGED <<counted, open, closed, listening, closing, graceful, heir>>
       ELSE /\ Close(s, FALSE, FALSE, NoSession)
            /\ IF closing'[s] = "done" THEN Release(t) ELSE UNCHANGED <<counted, open>>
            /\ UNCHANGED listening
    /\ UNCHANGED <<overlapped, turn, owner, start, ended, intake, provider>>

-----------------------------------------------------------------------------
(* _close, when intake.stop() returned: close the stream, or finish and go *)
(* on with the handle_audio_start that waits, if one does.                 *)
Stopped(s) ==
    /\ turn = NoSession /\ closing[s] = "stopping"
    /\ intake' = [intake EXCEPT ![s] = "over"]
    /\ IF graceful[s]
       THEN /\ closing' = [closing EXCEPT ![s] = "done"]
            /\ FinishClose(s)
            /\ turn' = heir[s]
       ELSE /\ closing' = [closing EXCEPT ![s] = "shutting"]
            /\ UNCHANGED <<current, counted, open, listening, turn>>
    /\ UNCHANGED <<overlapped, left, owner, start, closed, ended, graceful, heir, provider>>

(* _close, when stream.close() returned or raised. An intake that called   *)
(* it from on_quiet returns too.                                           *)
Shut(s) ==
    /\ turn = NoSession /\ closing[s] = "shutting"
    /\ closing' = [closing EXCEPT ![s] = "done"] /\ provider' = [provider EXCEPT ![s] = "shut"]
    /\ intake' = [intake EXCEPT ![s] = "over"]
    /\ FinishClose(s)
    /\ turn' = heir[s]
    /\ UNCHANGED <<overlapped, left, owner, start, closed, ended, graceful, heir>>

(* The intake's task is over: the end was handled, or a send, a keepalive  *)
(* or the finish raised, which nobody is told of.                          *)
IntakeOver(s) ==
    /\ turn = NoSession /\ intake[s] = "running" /\ closing[s] = "no"
    /\ intake' = [intake EXCEPT ![s] = "over"]
    /\ UNCHANGED <<overlapped, topicVars, turn, owner, start, closed, ended, listening, closing, graceful,
                   heir, provider>>

(* The provider closes its end: after finish(), or on its own.             *)
ProviderEnds(s) ==
    /\ turn = NoSession /\ provider[s] = "live" /\ start[s] = "started"
    /\ provider' = [provider EXCEPT ![s] = "ended"]
    /\ UNCHANGED <<overlapped, topicVars, turn, owner, start, closed, ended, intake, listening, closing,
                   graceful, heir>>

HandlerNext(s) ==
    \/ Abandon(s) \/ ClaimStream(s)
    \/ OpenFails(s) \/ OpensTooLate(s) \/ Discarded(s) \/ Opens(s)

CloseNext(s) == Stopped(s) \/ Shut(s)

TaskNext(s) ==
    \/ Expire(s) \/ GoIdle(s) \/ FinishTimesOut(s)
    \/ ListenerEnds(s) \/ ListenerFails(s) \/ ListenerDies(s)
    \/ IntakeOver(s) \/ ProviderEnds(s)

Next ==
    \/ \E t \in Topics : \E s \in Sessions : HandleAudioStart(t, s)
    \/ \E t \in Topics : HandleAudioEnd(t) \/ Leave(t)
    \/ \E s \in Sessions : HandlerNext(s) \/ CloseNext(s) \/ TaskNext(s)

Spec == Init /\ [][Next]_vars

(* open_stream returns or raises, intake.stop() and stream.close() return, *)
(* and a finish that takes finish_timeout_seconds is cut short.            *)
FairSpec ==
    /\ Spec
    /\ \A s \in Sessions :
          WF_vars(HandlerNext(s)) /\ WF_vars(CloseNext(s)) /\ WF_vars(FinishTimesOut(s))

(* The same with max_session_seconds set.                                  *)
BoundedSpec == FairSpec /\ \A s \in Sessions : WF_vars(Expire(s))

-----------------------------------------------------------------------------
(* A session that was not closed is the one its topic knows: chunks, the   *)
(* end, a replacement and on_unsubscribe all reach it through _session,    *)
(* and no two sessions of a topic publish transcripts side by side.        *)
NoRival ==
    \A s \in Sessions :
        start[s] \in {"replacing", "opening", "started"} /\ ~closed[s] =>
            current[owner[s]] = s

(* A live provider stream, billed by the second, is never forgotten: its   *)
(* session can still be closed, is being closed, or its handler is about   *)
(* to close the stream it opened too late (topics.py:210).                 *)
NoOrphan ==
    \A s \in Sessions : provider[s] = "live" =>
        \/ start[s] = "started" /\ ~closed[s]
        \/ closing[s] \in {"stopping", "shutting"}
        \/ start[s] = "discarding"

(* A topic gives back only what it claimed: the count of a user covers the *)
(* topics that hold a claim, and never exceeds the limit.                  *)
Claimants(u) == {t \in Topics : counted[t] /\ User[t] = u}
ClaimsCovered ==
    \A u \in Users : /\ Cardinality(Claimants(u)) <= open[u]
                     /\ open[u] <= Limit

(* "max_sessions_per_user" (README.md:57): no user has more open streams   *)
(* than the limit, those being closed aside. The code breaks it: an        *)
(* audio_start during _close takes its claim before _close gives one back. *)
Streams(u) ==
    {s \in Sessions : /\ start[s] \in {"opening", "started"} /\ ~closed[s]
                      /\ User[owner[s]] = u}
WithinLimit == \A u \in Users : Cardinality(Streams(u)) <= Limit

(* "assert TranscriberTopic._open == {}" (tests/test_audio_stream_in.py:115)*)
(* after the topic was left: once every topic was left and nothing of it   *)
(* is under way, no claim remains. The code breaks it: two audio_starts at *)
(* once claim twice, and one _counted flag gives back one.                 *)
AtRest ==
    /\ turn = NoSession
    /\ \A t \in Topics : left[t]
    /\ \A s \in Sessions :
          /\ start[s] \in {"unused", "started", "over"}
          /\ closing[s] \notin {"stopping", "shutting"}
NothingLeaks == AtRest => \A u \in Users : open[u] = 0

(* Both of them do hold where no audio_start comes while the last session  *)
(* of its topic is still being opened or closed: the count then follows    *)
(* the streams, whatever fails on the way.                                 *)
SpacedStartsAreCounted == ~overlapped => WithinLimit /\ NothingLeaks

(* audio_end closes the session, whatever the provider does (topics.py:409)*)
EndCloses == \A s \in Sessions : ended[s] ~> (closed[s] /\ provider[s] # "live")

(* "every stream is bounded" (README.md:51): no stream stays open.         *)
StreamsEnd == \A s \in Sessions : (provider[s] = "live") ~> (provider[s] # "live")
=============================================================================
