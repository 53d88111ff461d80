-------------------------------- MODULE UiKits --------------------------------
(***************************************************************************)
(* The sandbox's page, and on it the UI kits with the server kits behind   *)
(* them. App shows one demo at a time, named by the hash of the URL and    *)
(* keyed by it, so a demo that is left is torn down with all its state.    *)
(* The kits of one demo share the socket and nothing else ("Two            *)
(* independent kits, chat and presence, over a single connection"), nor do *)
(* the recorder and the transcript of the transcriber kit, so a behaviour  *)
(* here is that of one kit of the demo shown; the voice agent, which does  *)
(* combine kits, is a module of its own.                                   *)
(***************************************************************************)
EXTENDS Naturals, Sequences

CONSTANTS
    Words, Limit, MaxFrames, MaxLosses,
    MaxBlocks, Block, From, To, Size, MaxDrops,
    MaxUnits, Prebuffer, MaxReports,
    BacklogLimit, MaxPosts, MaxReads,
    Ids, Topics, FeedLimit, MaxCopies,
    Conns, Owner, MaxVisits,
    MaxThreadRuns, MaxSeq, MaxAsks, MaxAways, CallsFirst, Resumes,
    MaxRuns, MaxTurns, MaxSentences, MaxStops

\* What the proofs need of them: whole numbers, and sizes that are not zero.
ASSUME DictationConstants ==
    MaxBlocks \in Seq(Nat) /\ MaxDrops \in Nat /\ {Block, From, To, Size} \subseteq Nat \ {0}
ASSUME SpeechConstants ==
    MaxUnits \in Seq(Nat) /\ MaxStops \in Nat /\ {Prebuffer, MaxReports} \subseteq Nat \ {0}
ASSUME AssistantConstants == MaxRuns \in Nat
ASSUME CaptionsConstants == Limit \in Nat \ {0}
ASSUME RoomConstants == BacklogLimit \in Nat
ASSUME FeedConstants == FeedLimit \in Nat

VARIABLES
    demo, kit,  \* shown, and the one followed: neither changes
    stream, current, ids, settled, reached, frames, tied, losses, captions, last, received,
    recorder, capture, left, linkUp, up, down, cuts, recording, session, cutOff,
    utterance, sent, phase, clearing, online, audio, drops, clears, speaker, suspended,
    pending, player, closed, sounded, reports, units, lastOut, unreported, gone, replayed,
    made, saving, store, saved, member, reads, asked, wire, entries, overtaken,
    copies, linked, items, acks, acked, arrivals, putAway,
    step, fresh, answer, asking, hash, held, roster, visits, shared, crossed,
    active, begun, ended, buffer, here, aways, asks, thread, again, mixed,
    run, runs, said, spoken, reply, memory, queue, ears, cutting, turns,
    speaking, voice, clicks, stops, heard, slipped, late, stale, cut

Captions  == INSTANCE Transcript
Dictation == INSTANCE Recorder WITH online <- linkUp, drops <- cuts, current <- recording
Speech    == INSTANCE Player WITH Chunks <- MaxUnits, wire <- audio, stops <- clears, page <- player, heard <- units
Room      == INSTANCE ChatRoom
Feed      == INSTANCE NotificationFeed
Scope     == INSTANCE Presence
Panel     == INSTANCE AgentThread
Assistant == INSTANCE VoiceAgent

page       == <<demo, kit>>
transcript == <<stream, current, ids, settled, reached, frames, tied, losses, captions, last, received>>
dictation  == <<recorder, capture, left, linkUp, up, down, cuts, recording, session, cutOff>>
speech     == <<utterance, sent, phase, clearing, online, audio, drops, clears, speaker, suspended,
                pending, player, closed, sounded, reports, units, lastOut, unreported, gone, replayed>>
chat       == <<made, saving, store, saved, member, reads, asked, wire, entries, overtaken>>
feed       == <<copies, linked, items, acks, acked, arrivals, putAway>>
presence   == <<step, fresh, answer, asking, hash, held, roster, visits, shared, crossed>>
agent      == <<active, begun, ended, buffer, here, aways, asks, thread, again, mixed>>
assistant  == <<run, runs, said, spoken, reply, memory, queue, ears, cutting, turns,
                speaking, voice, clicks, stops, heard, slipped, late, stale, cut>>
vars       == <<page, transcript, dictation, speech, chat, feed, presence, agent, assistant>>

\* DEMOS: the UI kits of each (`ui`), the transcriber's two parts apart.
DEMOS == [notifications |-> {"notification"},
          room          |-> {"chat", "presence"},
          agent         |-> {"ag-ui"},
          speechToText  |-> {"recorder", "transcript"},
          textToSpeech  |-> {"player"},
          voiceAgent    |-> {"voice-agent"}]

Init ==
    /\ demo \in DOMAIN DEMOS /\ kit \in DEMOS[demo]
    /\ Captions!Init /\ Dictation!Init /\ Speech!Init
    /\ Room!Init /\ Feed!Init /\ Scope!Init /\ Panel!Init /\ Assistant!Init

-----------------------------------------------------------------------------
CaptionsOfVoicePanel ==
    /\ kit = "transcript" /\ Captions!Next
    /\ UNCHANGED <<page, dictation, speech, chat, feed, presence, agent, assistant>>
RecorderOfVoicePanel ==
    /\ kit = "recorder" /\ Dictation!Next
    /\ UNCHANGED <<page, transcript, speech, chat, feed, presence, agent, assistant>>
SpeechPanel ==
    /\ kit = "player" /\ Speech!Next
    /\ UNCHANGED <<page, transcript, dictation, chat, feed, presence, agent, assistant>>
ChatOfRoomPanel ==
    /\ kit = "chat" /\ Room!Next
    /\ UNCHANGED <<page, transcript, dictation, speech, feed, presence, agent, assistant>>
NotificationPanel ==
    /\ kit = "notification" /\ Feed!Next
    /\ UNCHANGED <<page, transcript, dictation, speech, chat, presence, agent, assistant>>
RosterOfRoomPanel ==
    /\ kit = "presence" /\ Scope!Next
    /\ UNCHANGED <<page, transcript, dictation, speech, chat, feed, agent, assistant>>
AgentPanel ==
    /\ kit = "ag-ui" /\ Panel!Next
    /\ UNCHANGED <<page, transcript, dictation, speech, chat, feed, presence, assistant>>
AssistantPanel ==
    /\ kit = "voice-agent" /\ Assistant!Next
    /\ UNCHANGED <<page, transcript, dictation, speech, chat, feed, presence, agent>>

Next ==
    \/ CaptionsOfVoicePanel \/ RecorderOfVoicePanel \/ SpeechPanel
    \/ ChatOfRoomPanel \/ NotificationPanel
    \/ RosterOfRoomPanel \/ AgentPanel \/ AssistantPanel

Spec == Init /\ [][Next]_vars

-----------------------------------------------------------------------------
(* The finals a tab is sent of an utterance are the text it shows of it:   *)
(* in order, each once, whatever is replayed after a lost socket.          *)
FinalsInOrder == Captions!FinalsInOrder
(* Text a tab has shown as final is not taken back while its utterance is  *)
(* shown.                                                                  *)
SettledStays == Captions!SettledStays
(* "leaving a demo closes its socket and frees the microphone" (App.tsx):  *)
(* a device captures for the recording shown and for no other.             *)
MicrophoneIsShown == Dictation!MicrophoneIsShown
(* Nothing sounds of what was silenced, cleared or left with its demo.     *)
StoppedIsSilent == Speech!StoppedIsSilent
(* A room's log shows no entry twice and none unsaved, and once all is     *)
(* quiet what a new tab would be shown, but what was overtaken.            *)
LogIsTrue == Room!LogIsTrue
(* A feed shows every notification that reached the tab and is not put     *)
(* away, newest first, once, and no more than its limit.                   *)
FeedIsTrue == Feed!FeedIsTrue
(* Where nobody has two connections, a tab's roster is the members that    *)
(* are present once every broadcast is delivered.                          *)
RostersAgree == Scope!RostersAgree
(* A tab that rejoins a thread shows every piece of the run, each once.    *)
ShowsTheRun == Panel!ShowsTheRun
(* What the user speaks over is not heard on: neither a sentence queued    *)
(* nor one a run had still to say.                                         *)
InterruptedIsSilent == Assistant!InterruptedIsSilent
(* The agent's memory holds what was said to it, and of each interrupted   *)
(* reply no more than the user heard.                                      *)
RemembersTheConversation == Assistant!RemembersTheConversation

(* What the kits' documents promise, or a reader would expect, and the     *)
(* code breaks; each is explained in its module.                           *)

(* kits/presence: "A member with several connections open produces one     *)
(* join and one leave": every tab's roster is who is present.              *)
RostersConverge == Scope!RostersConverge
(* kits/voice_agent: "the conversation keeps only what the user actually   *)
(* heard", whenever the user speaks over the agent.                        *)
RemembersTheHeard == Assistant!RemembersTheHeard
(* The agent is silent once it is interrupted.                             *)
BargeInSilences == Assistant!BargeInSilences
(* "An utterance is its finals in order": every one the tab was sent.      *)
EveryFinalShown == Captions!EveryFinalShown
(* A tab's log has every entry a new tab's backlog would.                  *)
LogIsComplete == Room!LogIsComplete
(* What the user wrote stays as it was written.                            *)
UserTextStays == Panel!UserTextStays
(* No piece of a message is shown twice.                                   *)
NothingTwice == Panel!NothingTwice
=============================================================================
