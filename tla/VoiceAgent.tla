------------------------------ MODULE VoiceAgent ------------------------------
(***************************************************************************)
(* kits/voice_agent and ui/voice-agent: a user who talks to an agent, in   *)
(* one tab. A turn is an utterance of the user, a reply is its sentences,  *)
(* each an utterance of the synthesizer, heard or not.                     *)
(*                                                                         *)
(* The listener of the transcriber handles one frame at a time. The stores *)
(* are the in-memory ones, which do not suspend; stopping the synthesizer  *)
(* does, and so do the steps of a run. What a step sends the tab it gets   *)
(* at once.                                                                *)
(***************************************************************************)
EXTENDS Naturals, Sequences, Lists, FiniteSets

CONSTANTS
    MaxRuns,        \* bound: runs
    MaxTurns,       \* bound: utterances of the user
    MaxSentences,   \* bound: sentences of a reply
    MaxStops        \* bound: clicks on "Stop the reply"

VARIABLES
    \* The agent.
    run,        \* the run in flight: [id, step], id 0 for none
    runs,       \* runs begun
    said,       \* run -> sentences of it put to the synthesizer
    spoken,     \* the run whose list _spoken[session] is, 0 for none
    reply,      \* _reply[session], the run of the last finished reply, 0 for none
    memory,     \* the conversation
    \* The synthesizer.
    queue,      \* sentences being sent or waiting: <<run, sentence>>
    \* The transcriber, its hook.
    ears,       \* what the listener does: "listening", or how far interrupt() is
    cutting,    \* the run whose list interrupt() has popped
    turns,      \* utterances of the user that ended
    \* The tab.
    speaking,   \* the user is, as its transcript shows
    voice,      \* sentences its player has and has not played
    clicks,     \* messages of "Stop the reply" on their way
    stops,
    \* History.
    heard,      \* run -> sentences of it heard, and marked so
    slipped,    \* sentences queued while interrupt() was stopping the synthesizer
    late,       \* runs of which the last sentence had been sent when the user spoke over it
    stale,      \* runs interrupted when another had begun
    cut         \* runs interrupted by the user's voice, none having begun since

agent   == <<run, runs, said, spoken, reply, memory>>
tab     == <<speaking, voice, clicks, stops>>
history == <<slipped, late, stale, cut>>
vars    == <<agent, queue, ears, cutting, turns, tab, heard, history>>

NoRun == [id |-> 0, step |-> "none"]
User(k)      == [role |-> "user", of |-> k, length |-> 0]
Reply(n, k)  == [role |-> "assistant", of |-> n, length |-> k]

Init ==
    /\ run = NoRun /\ runs = 0 /\ said = [n \in 1 .. MaxRuns |-> 0] /\ spoken = 0 /\ reply = 0
    /\ memory = <<>> /\ queue = <<>>
    /\ ears = "listening" /\ cutting = 0 /\ turns = 0
    /\ speaking = FALSE /\ voice = <<>> /\ clicks = {} /\ stops = 0
    /\ heard = [n \in 1 .. MaxRuns |-> 0] /\ slipped = {} /\ late = {} /\ stale = {} /\ cut = {}

Running == run # NoRun

\* voiceStatus, with the microphone on.
VoiceStatus == IF voice # <<>> THEN "speaking" ELSE IF Running THEN "thinking" ELSE "listening"

-----------------------------------------------------------------------------
(* A run: begun by respond() or by a typed message, its driver starts, its *)
(* sentences are said as they are complete, and the reply is remembered.   *)
StartRun == runs < MaxRuns /\ runs' = runs + 1 /\ run' = [id |-> runs + 1, step |-> "starting"]

Typed ==
    /\ ~Running /\ StartRun
    /\ UNCHANGED <<said, spoken, reply, memory, queue, ears, cutting, turns, tab, heard, history>>

RunBegins ==
    /\ run.step = "starting" /\ run' = [run EXCEPT !.step = "talking"]
    /\ spoken' = run.id /\ reply' = 0
    /\ UNCHANGED <<runs, said, memory, queue, ears, cutting, turns, tab, heard, history>>

Say ==
    /\ run.step = "talking" /\ said[run.id] < MaxSentences
    /\ said' = [said EXCEPT ![run.id] = @ + 1]
    /\ queue' = Append(queue, <<run.id, said[run.id] + 1>>)
    /\ slipped' = IF ears \in {"cleared", "told"} THEN slipped \cup {<<run.id, said[run.id] + 1>>} ELSE slipped
    /\ UNCHANGED <<run, runs, spoken, reply, memory, ears, cutting, turns, tab, heard, late, stale, cut>>

RunEnds ==
    /\ run.step = "talking" /\ run' = [run EXCEPT !.step = "ending"]
    /\ IF said[run.id] > 0
       THEN memory' = Append(memory, Reply(run.id, said[run.id])) /\ reply' = run.id
       ELSE UNCHANGED <<memory, reply>>
    /\ UNCHANGED <<runs, said, spoken, queue, ears, cutting, turns, tab, heard, history>>
RunOver ==
    /\ run.step = "ending" /\ run' = NoRun
    /\ UNCHANGED <<runs, said, spoken, reply, memory, queue, ears, cutting, turns, tab, heard, history>>

(* The synthesizer sends the tab a sentence, faster than it is played.     *)
Produce ==
    /\ queue # <<>> /\ queue' = Tail(queue)
    /\ voice' = Append(voice, Head(queue))
    /\ UNCHANGED <<agent, ears, cutting, turns, speaking, clicks, stops, heard, history>>

(* A sentence is played and marked.                                        *)
Play ==
    /\ voice # <<>> /\ voice' = Tail(voice)
    /\ heard' = [heard EXCEPT ![Head(voice)[1]] = IF Head(voice)[2] > @ THEN Head(voice)[2] ELSE @]
    /\ UNCHANGED <<agent, queue, ears, cutting, turns, speaking, clicks, stops, history>>

-----------------------------------------------------------------------------
(* Local barge-in: on the edge, and while something plays.                 *)
BargesIn == ~speaking /\ voice # <<>>

\* The reply that is silenced had been sent to its last sentence.
TooLate == ~Running /\ queue = <<>>

(* on_speech_started: the tab is told, then interrupt() pops the list and  *)
(* goes on if there is anything to stop.                                   *)
SpeechStarts ==
    /\ ears = "listening" /\ turns < MaxTurns /\ ~speaking /\ speaking' = TRUE
    /\ voice' = IF BargesIn THEN <<>> ELSE voice
    /\ late' = IF BargesIn /\ TooLate THEN late \cup {voice[k][1] : k \in DOMAIN voice} ELSE late
    /\ spoken' = 0
    /\ IF TooLate THEN UNCHANGED <<ears, cutting>> ELSE ears' = "clearing" /\ cutting' = spoken
    /\ UNCHANGED <<run, runs, said, reply, memory, queue, turns, clicks, stops, heard, slipped, stale, cut>>

\* Mutant of Clears: what is queued is left to be said.
ClearsNothing ==
    /\ ears = "clearing" /\ ears' = "cleared" /\ queue' = queue
    /\ UNCHANGED <<agent, cutting, turns, tab, heard, history>>

(* clear: the queue and its worker, then the listeners.                    *)
Clears ==
    /\ ears = "clearing" /\ ears' = "cleared" /\ queue' = <<>>
    /\ UNCHANGED <<agent, cutting, turns, tab, heard, history>>
Tells ==
    /\ ears = "cleared" /\ ears' = "told" /\ voice' = <<>>
    /\ UNCHANGED <<agent, queue, cutting, turns, speaking, clicks, stops, heard, history>>

\* Mutant of Kept: the reply that was remembered whole stays.
KeptWhole(ms, n) ==
    IF cutting # 0 /\ heard[cutting] > 0 THEN Append(ms, Reply(cutting, heard[cutting])) ELSE ms

\* The conversation, of a reply remembered whole what was heard.
Kept(ms, n) ==
    LET others == Among(ms, {t \in ToSet(ms) : n = 0 \/ t # Reply(n, said[n])})
    IN  IF cutting # 0 /\ heard[cutting] > 0 THEN Append(others, Reply(cutting, heard[cutting])) ELSE others

(* The rest of interrupt(): the run is cancelled, what was heard is kept.  *)
Keeps ==
    /\ ears = "told" /\ ears' = "listening" /\ cutting' = 0
    /\ run' = NoRun /\ memory' = Kept(memory, reply) /\ reply' = 0
    /\ cut' = cut \cup ({cutting} \cap {runs}) /\ stale' = stale \cup ({cutting} \ {0, runs})
    /\ UNCHANGED <<runs, said, spoken, queue, turns, tab, heard, slipped, late>>

(* on_utterance_end: respond(), to a busy thread in vain.                  *)
UtteranceEnds ==
    /\ ears = "listening" /\ speaking /\ speaking' = FALSE
    /\ turns' = turns + 1 /\ memory' = Append(memory, User(turns + 1))
    /\ IF Running THEN UNCHANGED <<run, runs>> ELSE StartRun
    /\ UNCHANGED <<said, spoken, reply, queue, ears, cutting, voice, clicks, stops, heard, history>>

\* The button is there while the agent speaks or thinks.
StopOffered == VoiceStatus # "listening"

(* interrupt of the UI kit, "Stop the reply": the player is silenced, the  *)
(* synthesizer and the run are asked to stop, each by a message.           *)
StopReply ==
    /\ StopOffered /\ stops < MaxStops /\ stops' = stops + 1
    /\ voice' = <<>> /\ clicks' = clicks \cup {<<"clear", 0>>}
                                \cup (IF Running THEN {<<"cancel", run.id>>} ELSE {})
    /\ UNCHANGED <<agent, queue, ears, cutting, turns, speaking, heard, history>>
HandleClear ==
    /\ <<"clear", 0>> \in clicks /\ clicks' = clicks \ {<<"clear", 0>>}
    /\ queue' = <<>> /\ voice' = <<>>
    /\ UNCHANGED <<agent, ears, cutting, turns, speaking, stops, heard, history>>
HandleCancel == \E n \in 1 .. MaxRuns :
    /\ <<"cancel", n>> \in clicks /\ clicks' = clicks \ {<<"cancel", n>>}
    /\ run' = IF run.id = n THEN NoRun ELSE run
    /\ UNCHANGED <<runs, said, spoken, reply, memory, queue, ears, cutting, turns, speaking, voice,
                   stops, heard, history>>

Next ==
    \/ Typed \/ RunBegins \/ Say \/ RunEnds \/ RunOver \/ Produce \/ Play
    \/ SpeechStarts \/ Clears \/ Tells \/ Keeps \/ UtteranceEnds
    \/ StopReply \/ HandleClear \/ HandleCancel

-----------------------------------------------------------------------------
Coming == ToSet(queue) \cup ToSet(voice)

(* Barge-in: once interrupt() is done, no sentence of a run it stopped is  *)
(* queued or played, but those said while it waited for the synthesizer    *)
(* (BargeInSilences).                                                      *)
InterruptedIsSilent ==
    \A p \in Coming : p[1] \in cut => p \in slipped

\* What the memory holds of run n.
Remembered(n) == {k \in DOMAIN memory : memory[k].role = "assistant" /\ memory[k].of = n}

(* "The conversation keeps only what the user actually heard": the turns   *)
(* of the user are all there and in order; no reply is there twice, but    *)
(* one that was over when the user spoke over the run begun after it; and  *)
(* of one the user spoke over there is what was heard, unless it had all   *)
(* been sent by then (RemembersTheHeard).                                  *)
RemembersTheConversation ==
    /\ Among(memory, {t \in ToSet(memory) : t.role = "user"}) = [k \in 1 .. turns |-> User(k)]
    /\ \A n \in 1 .. runs :
        /\ n \notin stale => Cardinality(Remembered(n)) <= 1
        /\ n \in cut => \A k \in Remembered(n) : memory[k].length <= heard[n]

(* What the README promises, and the code breaks.                          *)
BargeInSilences == \A p \in Coming : p[1] \notin cut
RemembersTheHeard ==
    \A n \in late : \A k \in Remembered(n) : memory[k].length <= heard[n]
=============================================================================
