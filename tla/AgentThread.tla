----------------------------- MODULE AgentThread ------------------------------
(***************************************************************************)
(* ui/ag-ui createAgentThread: the messages one tab makes of the events of *)
(* a thread's runs. AgUiThread has the server side of the runs, AgUiTabs   *)
(* how their events reach tabs; here events reach the tab when they are    *)
(* broadcast, those of a run in flight are replayed when it rejoins, and   *)
(* what matters is the text and the tool calls the tab puts together.      *)
(*                                                                         *)
(* A piece of text or of a tool call's arguments is the seq of its event.  *)
(* A run has one tool call and one result. Events that only onEvent sees,  *)
(* and the snapshots an agent may send, are left out.                      *)
(***************************************************************************)
EXTENDS Naturals, Sequences, Lists, FiniteSets, Functions

CONSTANTS
    MaxThreadRuns,  \* bound: runs of the thread
    MaxSeq,         \* bound: events of a run
    MaxAsks,        \* bound: runs this tab asks for
    MaxAways,       \* bound: lost sockets
    CallsFirst,     \* an agent may put a tool call in a message before it starts its text
    Resumes         \* after a result an agent may go on with an earlier text without its id

VARIABLES
    \* The thread.
    active,     \* the run in flight, 0 for none
    begun,      \* runs begun
    ended,      \* its end was broadcast, its buffer is not cleared
    buffer,     \* its events, each [type, run, seq, id, parent]
    \* The tab.
    here, aways, asks,
    thread,     \* its snapshot, with lastSeq
    \* History.
    again,      \* runs the tab was replayed after it had applied their end
    mixed       \* runs during which the tab added a message of its own

server == <<active, begun, ended, buffer>>
vars   == <<server, here, aways, asks, thread, again, mixed>>

\* Ids: of the messages and the tool call of a run, of its result, and of what the user wrote.
Text(r, k) == <<"text", r, k>>
Call(r)    == <<"call", r, 0>>
Result(r)  == <<"result", r, 0>>
Written(k) == <<"user", 0, k>>
None       == <<"none", 0, 0>>

Event(type, id, parent) ==
    [type |-> type, run |-> active, seq |-> Len(buffer) + 1, id |-> id, parent |-> parent]

Init ==
    /\ active = 0 /\ begun = 0 /\ ended = FALSE /\ buffer = <<>>
    /\ here = TRUE /\ aways = 0 /\ asks = 0 /\ again = {} /\ mixed = {}
    /\ thread = [messages |-> <<>>, runId |-> 0, running |-> FALSE, error |-> FALSE, lastSeq |-> 0]

-----------------------------------------------------------------------------
\* `bare`: an assistant's message made for a tool call, which has no content.
Message(id, role) == [id |-> id, role |-> role, content |-> <<>>, calls |-> <<>>, bare |-> FALSE]

Index(ms, id) == SelectInSeq(ms, LAMBDA m : m.id = id)

\* upsert: the message there is, or the new one, changed where it is or added.
Existing(ms, new) == IF Index(ms, new.id) = 0 THEN new ELSE ms[Index(ms, new.id)]
Upsert(ms, m) ==
    IF Index(ms, m.id) = 0 THEN Append(ms, m) ELSE [ms EXCEPT ![Index(ms, m.id)] = m]

\* appendText: a message with no content is made anew, without its calls.
AppendText(ms, id, piece) ==
    LET m == Existing(ms, Message(id, "assistant"))
    IN  Upsert(ms, [(IF m.bare THEN Message(id, "assistant") ELSE m)
                        EXCEPT !.content = Append(@, piece)])

\* TEXT_MESSAGE_CHUNK may leave out the id, and then goes to the last message. (Its parent here
\* is the message it continues, which the tab is not told.)
ChunkTo(ms, e) == IF e.id # None \/ ms = <<>> THEN e.id ELSE Last(ms).id

\* assistantFor: the parent, the last message if an assistant's, or one of the call's own.
AssistantFor(ms, e) ==
    IF e.parent # None THEN e.parent
    ELSE IF ms # <<>> /\ Last(ms).role = "assistant" THEN Last(ms).id ELSE e.id

HasCall(m, id) == \E k \in DOMAIN m.calls : m.calls[k].id = id

\* Mutant of StartToolCall: a call is added whenever it is started.
StartToolCallAgain(ms, e) ==
    Upsert(ms, [Existing(ms, Message(AssistantFor(ms, e), "assistant"))
                    EXCEPT !.calls = Append(@, [id |-> e.id, args |-> <<>>])])

StartToolCall(ms, e) ==
    LET m == Existing(ms, [Message(AssistantFor(ms, e), "assistant") EXCEPT !.bare = TRUE])
    IN  Upsert(ms, IF HasCall(m, e.id) THEN m
                   ELSE [m EXCEPT !.calls = Append(@, [id |-> e.id, args |-> <<>>])])

\* toolCallParent and appendArgs: of a call that is nowhere, the arguments are dropped.
MoreArgs(call, e) == IF call.id = e.id THEN [call EXCEPT !.args = Append(@, e.seq)] ELSE call
AppendArgs(ms, e) ==
    LET p == SelectInSeq(ms, LAMBDA m : HasCall(m, e.id))
    IN  IF p = 0 THEN ms ELSE [ms EXCEPT ![p].calls = [k \in DOMAIN @ |-> MoreArgs(@[k], e)]]

Messages(ms, e) ==
    CASE e.type = "TEXT_MESSAGE_START"   -> Upsert(ms, Existing(ms, Message(e.id, "assistant")))
      [] e.type = "TEXT_MESSAGE_CONTENT" -> AppendText(ms, e.id, e.seq)
      [] e.type = "TEXT_MESSAGE_CHUNK"   -> AppendText(ms, ChunkTo(ms, e), e.seq)
      [] e.type = "TOOL_CALL_START"      -> StartToolCall(ms, e)
      [] e.type = "TOOL_CALL_ARGS"       -> AppendArgs(ms, e)
      [] e.type = "TOOL_CALL_CHUNK"      ->
            AppendArgs(IF \E k \in DOMAIN ms : HasCall(ms[k], e.id) THEN ms ELSE StartToolCall(ms, e), e)
      [] e.type = "TOOL_CALL_RESULT"     -> Upsert(ms, [Message(e.id, "tool") EXCEPT !.content = <<e.seq>>])
      [] OTHER                           -> ms

\* Mutant of Skipped: what was applied is not told from what was not.
SkippedNothing(t, e) == FALSE

\* "A rejoining tab is replayed the run from seq 1; skip what was already applied."
ReplayedStart(t, e) == e.type = "RUN_STARTED" /\ e.run = t.runId
Skipped(t, e)       == (e.type # "RUN_STARTED" \/ ReplayedStart(t, e)) /\ e.seq <= t.lastSeq

(* apply, of a numbered event.                                             *)
Apply(t, e) ==
    IF Skipped(t, e) THEN t
    ELSE LET s == [t EXCEPT !.lastSeq = IF e.type = "RUN_STARTED" /\ ~ReplayedStart(t, e) THEN e.seq
                                        ELSE IF e.seq > @ THEN e.seq ELSE @]
         IN CASE e.type = "RUN_STARTED"  -> [s EXCEPT !.runId = e.run, !.running = TRUE, !.error = FALSE]
              [] e.type = "RUN_FINISHED" -> [s EXCEPT !.runId = 0, !.running = FALSE]
              [] e.type = "RUN_ERROR"    -> [s EXCEPT !.runId = 0, !.running = FALSE, !.error = TRUE]
              [] OTHER                   -> [s EXCEPT !.messages = Messages(@, e)]

(* A refusal has no seq: "the thread's run carries on".                    *)
Refused(t) ==
    IF t.lastSeq > 0 /\ t.running THEN [t EXCEPT !.error = TRUE]
    ELSE [t EXCEPT !.runId = 0, !.running = FALSE, !.error = TRUE]

-----------------------------------------------------------------------------
(* The thread's runs, one at a time. Of the same name in the UI's contract *)
(* are the events.                                                         *)
Broadcast(e) ==
    /\ buffer' = Append(buffer, e)
    /\ thread' = IF here THEN Apply(thread, e) ELSE thread
    /\ UNCHANGED <<here, aways, asks, again>>

Started(r) == [type |-> "RUN_STARTED", run |-> r, seq |-> 1, id |-> None, parent |-> None]

\* A run of someone else; of this tab in Ask.
Begin ==
    /\ active = 0 /\ begun < MaxThreadRuns
    /\ active' = begun + 1 /\ begun' = begun + 1
    /\ Broadcast(Started(begun + 1))
    /\ UNCHANGED <<ended, mixed>>

Emitted(types) == {buffer[k].id : k \in {j \in DOMAIN buffer : buffer[j].type \in types}}
Texts          == Emitted({"TEXT_MESSAGE_START"})
Calls          == Emitted({"TOOL_CALL_START", "TOOL_CALL_CHUNK"})
LastText       == IF Texts = {} THEN None ELSE Text(active, Cardinality(Texts))
Parents        == {None, LastText} \cup {Text(active, k) : k \in IF CallsFirst THEN {1} ELSE {}}

TextStart      == Event("TEXT_MESSAGE_START", Text(active, Cardinality(Texts) + 1), None)
TextContent    == Event("TEXT_MESSAGE_CONTENT", LastText, None)
TextChunk(id)  == Event("TEXT_MESSAGE_CHUNK", id, LastText)
CallStart(p)   == Event("TOOL_CALL_START", Call(active), p)
CallArgs       == Event("TOOL_CALL_ARGS", Call(active), None)
CallChunk(p)   == Event("TOOL_CALL_CHUNK", Call(active), p)
CallResult     == Event("TOOL_CALL_RESULT", Result(active), None)

\* What an agent may send next: text once a message of its is started, a chunk without an id
\* right after text, arguments and one result once the call is there.
InText ==
    /\ Last(buffer).type \in {"TEXT_MESSAGE_START", "TEXT_MESSAGE_CONTENT", "TEXT_MESSAGE_CHUNK"}
    /\ \/ Resumes
       \/ \A j, k \in DOMAIN buffer :
             buffer[j].type = "TOOL_CALL_RESULT" /\ buffer[k].id = LastText /\ buffer[k].type = "TEXT_MESSAGE_START"
             => j < k
Steps ==
    {TextStart} \cup {e \in {TextContent, TextChunk(LastText)} : Texts # {}}
        \cup {e \in {TextChunk(None)} : InText}
        \cup {e \in {CallStart(p) : p \in Parents} \cup {CallChunk(p) : p \in Parents} : Calls = {}}
        \cup {e \in {CallArgs, CallChunk(None)} : Calls # {}}
        \cup {e \in {CallResult} : Calls # {} /\ Emitted({"TOOL_CALL_RESULT"}) = {}}

Emit ==
    /\ active # 0 /\ ~ended /\ Len(buffer) < MaxSeq - 1
    /\ \E e \in Steps : Broadcast(e)
    /\ UNCHANGED <<active, begun, ended, mixed>>

End ==
    /\ active # 0 /\ ~ended /\ ended' = TRUE
    /\ \E type \in {"RUN_FINISHED", "RUN_ERROR"} : Broadcast(Event(type, None, None))
    /\ UNCHANGED <<active, begun, mixed>>

Clear ==
    /\ ended /\ ended' = FALSE /\ active' = 0 /\ buffer' = <<>>
    /\ UNCHANGED <<begun, here, aways, asks, thread, again, mixed>>

(* run: the panel offers it when the tab is connected and knows of no run. *)
(* The message is shown at once; a busy thread refuses the run.            *)
Ask ==
    /\ here /\ ~thread.running /\ asks < MaxAsks /\ asks' = asks + 1
    /\ LET t == [thread EXCEPT !.error = FALSE,
                               !.messages = Append(@, [Message(Written(asks + 1), "user") EXCEPT
                                                           !.content = <<asks + 1>>])]
       IN  IF active # 0
           THEN /\ thread' = Refused(t) /\ mixed' = mixed \cup {active}
                /\ UNCHANGED server
           ELSE /\ begun < MaxThreadRuns /\ begun' = begun + 1 /\ active' = begun + 1
                /\ buffer' = <<Started(begun + 1)>> /\ thread' = Apply(t, Started(begun + 1))
                /\ UNCHANGED <<ended, mixed>>
    /\ UNCHANGED <<here, aways, again>>

GoAway ==
    /\ here /\ aways < MaxAways /\ here' = FALSE /\ aways' = aways + 1
    /\ UNCHANGED <<server, asks, thread, again, mixed>>
ComeBack ==
    /\ ~here /\ here' = TRUE
    /\ thread' = FoldLeft(Apply, thread, buffer)
    /\ again' = IF ended /\ thread.runId # active /\ thread.lastSeq = Len(buffer)
                THEN again \cup {active} ELSE again
    /\ UNCHANGED <<server, aways, asks, mixed>>

Next == Begin \/ Emit \/ End \/ Clear \/ Ask \/ GoAway \/ ComeBack

-----------------------------------------------------------------------------
TypeOK ==
    /\ active \in 0 .. begun /\ Len(buffer) <= MaxSeq
    /\ thread.runId \in 0 .. begun /\ thread.lastSeq \in 0 .. MaxSeq

\* The pieces of text and of arguments a run has been broadcast with, and those the tab shows.
Of(e, id) == id = IF e.id = None THEN e.parent ELSE e.id
Pieces(types, id) ==
    {buffer[k].seq : k \in {j \in DOMAIN buffer : buffer[j].type \in types /\ Of(buffer[j], id)}}
Shown == thread.messages

(* "skip what was already applied": across lost sockets and replays, what  *)
(* the tab shows of the run in flight is the whole of it so far, every     *)
(* piece once and in its order: text in its message, arguments in its      *)
(* call, which is in one message. But for a run whose end it had applied   *)
(* when it was replayed to it (NothingTwice), and one during which it      *)
(* asked for another (UserTextStays).                                      *)
InOrder(s) == \A j, k \in DOMAIN s : j < k => s[j] < s[k]
ShowsTheRun ==
    here /\ active # 0 /\ active \notin again \cup mixed =>
        /\ \A id \in Texts : \E k \in DOMAIN Shown :
              /\ Shown[k].id = id /\ InOrder(Shown[k].content)
              /\ Pieces({"TEXT_MESSAGE_CONTENT", "TEXT_MESSAGE_CHUNK"}, id) = ToSet(Shown[k].content)
        /\ \A id \in Calls :
              \E k \in DOMAIN Shown : \E c \in DOMAIN Shown[k].calls :
                /\ Shown[k].calls[c].id = id /\ InOrder(Shown[k].calls[c].args)
                /\ ToSet(Shown[k].calls[c].args) = Pieces({"TOOL_CALL_ARGS", "TOOL_CALL_CHUNK"}, id)
                /\ \A l \in DOMAIN Shown : \A d \in DOMAIN Shown[l].calls :
                      Shown[l].calls[d].id = id => l = k /\ d = c

(* What the code breaks: text of the run of another, left without an id,   *)
(* is added to what the user wrote meanwhile; and a run replayed after its *)
(* end is put together a second time.                                      *)
UserTextStays == \A k \in DOMAIN Shown : Shown[k].role = "user" => Len(Shown[k].content) = 1
NothingTwice  == \A k \in DOMAIN Shown : IsInjective(Shown[k].content)
=============================================================================
