------------------------------- MODULE ChatRoom -------------------------------
(***************************************************************************)
(* kits/room_chat and ui/chat: a room's history, what is posted to it, and *)
(* the log of one tab that joins, leaves and joins again.                  *)
(*                                                                         *)
(* An entry is the number of its making, which is also its id and its      *)
(* sent_at. The store suspends at each call, as one with a database does,  *)
(* and gives entries by sent_at (kits/django_message_store). Broadcasts to *)
(* a tab that is joining are not kept back until it has its backlog.       *)
(***************************************************************************)
EXTENDS Naturals, Sequences, Lists, Functions, FiniteSets

CONSTANTS
    BacklogLimit,   \* backlog_limit
    MaxPosts,       \* bound: entries made
    MaxReads        \* bound: backlogs read for the tab

VARIABLES
    made,       \* entries made
    saving,     \* made, and not in the store
    store,      \* the entries of the room
    saved,      \* in the store, and not broadcast
    member,     \* the tab is in the topic's group
    reads,
    asked,      \* the backlogs read for the tab and not sent: none or one
    wire,       \* messages on their way to the tab
    entries,    \* its log: snapshot.entries
    overtaken   \* history: entries stored after one that was made after them

room == <<made, saving, store, saved, overtaken>>
page == <<member, reads, asked, wire, entries>>
vars == <<room, page>>

Backlog(es) == [action |-> "chat_backlog", entries |-> es]
Message(e)  == [action |-> "chat_message", entry |-> e]

Init ==
    /\ made = 0 /\ saving = {} /\ store = {} /\ saved = {} /\ overtaken = {}
    /\ member = FALSE /\ reads = 0 /\ asked = <<>> /\ wire = <<>> /\ entries = <<>>

-----------------------------------------------------------------------------
(* The log's handlers.                                                     *)
\* Mutants of OnBacklog: it replaces the log; what it has is not taken out of the log.
OnBacklogReplaces(log, es) == es
OnBacklogRepeats(log, es)  == es \o Among(log, {e \in ToSet(log) : es = <<>> \/ e >= Last(es)})

\* "keep live messages newer than it"
OnBacklog(log, es) ==
    LET newest == IF es = <<>> THEN 0 ELSE Last(es)
    IN  es \o Among(log, {e \in ToSet(log) : e \notin ToSet(es) /\ e > newest})

OnMessage(log, e) == IF e \in ToSet(log) THEN log ELSE Append(log, e)

-----------------------------------------------------------------------------
(* handle_chat_send and post_to_room, of anyone: the entry is made, kept   *)
(* by the store and then broadcast, "Persist first, publish second".       *)
Make ==
    /\ made < MaxPosts /\ made' = made + 1
    /\ saving' = saving \cup {made + 1} /\ UNCHANGED <<store, saved, overtaken, page>>

Save(e) ==
    /\ e \in saving /\ saving' = saving \ {e}
    /\ store' = store \cup {e} /\ saved' = saved \cup {e}
    /\ overtaken' = IF \E f \in store : f > e THEN overtaken \cup {e} ELSE overtaken
    /\ UNCHANGED <<made, page>>

Publish(e) ==
    /\ e \in saved /\ saved' = saved \ {e}
    /\ wire' = IF member THEN Append(wire, Message(e)) ELSE wire
    /\ UNCHANGED <<made, saving, store, overtaken, member, reads, asked, entries>>

(* chat_backlog: the store is read, for on_subscribe or because the client *)
(* asks again, and the answer is sent.                                     *)
Upto(S, e) == Cardinality({f \in S : f <= e})
Latest     == {e \in store : Cardinality({f \in store : f > e}) < BacklogLimit}
Recent     == [k \in 1 .. Cardinality(Latest) |-> CHOOSE e \in Latest : Upto(Latest, e) = k]

Read == reads < MaxReads /\ reads' = reads + 1 /\ asked = <<>> /\ asked' = <<Recent>>

Join ==
    /\ ~member /\ member' = TRUE
    /\ Read
    /\ UNCHANGED <<room, wire, entries>>
HandleBacklogRequest ==
    /\ member /\ Read
    /\ UNCHANGED <<room, member, wire, entries>>
Answer ==
    /\ asked # <<>> /\ asked' = <<>>
    /\ wire' = Append(wire, Backlog(Head(asked))) /\ UNCHANGED <<room, member, reads, entries>>

(* The socket is lost, with what is on its way; the log stays.             *)
Drop ==
    /\ member /\ member' = FALSE /\ asked' = <<>> /\ wire' = <<>>
    /\ UNCHANGED <<room, reads, entries>>

Receive ==
    /\ wire # <<>> /\ wire' = Tail(wire)
    /\ entries' = IF Head(wire).action = "chat_backlog" THEN OnBacklog(entries, Head(wire).entries)
                  ELSE OnMessage(entries, Head(wire).entry)
    /\ UNCHANGED <<room, member, reads, asked>>

Next ==
    \/ Make \/ Join \/ HandleBacklogRequest \/ Answer \/ Drop \/ Receive
    \/ \E e \in 1 .. made : Save(e) \/ Publish(e)

-----------------------------------------------------------------------------
TypeOK ==
    /\ made \in 0 .. MaxPosts /\ saving \subseteq 1 .. made /\ saved \subseteq store
    /\ store \subseteq 1 .. made /\ entries \in Seq(1 .. made)

\* Nothing is on its way to the tab, or to its room.
Quiet == member /\ asked = <<>> /\ wire = <<>> /\ saving = {} /\ saved = {}

(* The log against the history: an entry is never shown twice, nor before  *)
(* it is saved; and when all is quiet a tab that is in the room shows what *)
(* a new one would, whatever it missed and whichever way backlogs and live *)
(* messages crossed. An entry overtaken in the store may be missing        *)
(* (LogIsComplete).                                                        *)
LogIsTrue ==
    /\ IsInjective(entries) /\ ToSet(entries) \subseteq store
    /\ Quiet => ToSet(Recent) \subseteq ToSet(entries) \cup overtaken

(* What a reader would expect, and the code breaks: an entry that comes    *)
(* before a backlog without it is dropped if the backlog has a later one.  *)
LogIsComplete == Quiet => ToSet(Recent) \subseteq ToSet(entries)
=============================================================================
