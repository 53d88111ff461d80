------------------------------- MODULE Presence -------------------------------
(***************************************************************************)
(* kits/presence over kits/redis_presence_store, and the roster each tab   *)
(* shows (ui/presence). Every call of the store suspends, and so does a    *)
(* broadcast, so what connections do overlaps. chanx is taken to keep what *)
(* is broadcast to a connection until its on_subscribe is done, and to run *)
(* each frame it receives as a task of its own. The hash does not expire,  *)
(* as it does after `ttl` without a write.                                 *)
(***************************************************************************)
EXTENDS Naturals, Sequences, Lists, FiniteSets

CONSTANTS
    Conns,      \* connections of tabs
    Owner,      \* connection -> the member it is of
    MaxVisits   \* bound: subscriptions

VARIABLES
    step,       \* connection -> what it does: see Steps
    fresh,      \* connection -> the member was not present before it, nor is after it
    answer,     \* connection -> the members it has read and not sent
    asking,     \* connections with a presence_request not answered
    hash,       \* the connections in the hash of the scope
    held,       \* connection -> broadcasts to deliver when it is done
    roster,     \* connection -> the members its tab shows, which it keeps while it is away
    visits,
    shared,     \* history: members that had two connections at a time
    crossed     \* history: connection -> members announced to it between the
                \* reading and the sending of the last roster it asked for

vars == <<step, fresh, answer, asking, hash, held, roster, visits, shared, crossed>>

Steps == {"out", "adding", "added", "reading", "stated", "in", "leaving", "left"}

Members == {Owner[c] : c \in Conns}
Present == {Owner[c] : c \in hash}

\* In the group of the topic: from before on_subscribe until the socket is gone.
Group == {c \in Conns : step[c] \notin {"out", "leaving", "left"}}

Init ==
    /\ step = [c \in Conns |-> "out"] /\ fresh = [c \in Conns |-> FALSE]
    /\ answer = [c \in Conns |-> {}] /\ asking = {} /\ hash = {}
    /\ held = [c \in Conns |-> <<>>] /\ roster = [c \in Conns |-> {}]
    /\ visits = 0 /\ shared = {} /\ crossed = [c \in Conns |-> {}]

-----------------------------------------------------------------------------
Join(m)  == [action |-> "presence_join", member |-> m]
Leave(m) == [action |-> "presence_leave", member |-> m]

(* The roster's handlers; presence_state replaces it.                      *)
Shows(ms, e) == IF e.action = "presence_join" THEN ms \cup {e.member} ELSE ms \ {e.member}

\* A broadcast: what is kept back with it, and what is shown at once.
HeldWith(e)   == [c \in Conns |-> IF c \in Group /\ step[c] # "in" THEN Append(held[c], e) ELSE held[c]]
RosterWith(e) == [c \in Conns |-> IF step[c] = "in" THEN Shows(roster[c], e) ELSE roster[c]]
Crossing(e)   == [c \in Conns |-> IF c \in asking THEN crossed[c] \cup {e.member} ELSE crossed[c]]

\* The connection is done, and what was kept back is delivered.
Done(c, h, r) ==
    /\ step' = [step EXCEPT ![c] = "in"] /\ held' = [h EXCEPT ![c] = <<>>]
    /\ roster' = [r EXCEPT ![c] = FoldLeft(Shows, @, h[c])]

-----------------------------------------------------------------------------
(* on_subscribe: add, which reads who is there and then writes itself;     *)
(* the roster is read and sent; and a member newly present is announced.   *)
Subscribe(c) ==
    /\ step[c] = "out" /\ visits < MaxVisits /\ visits' = visits + 1
    /\ step' = [step EXCEPT ![c] = "adding"]
    /\ fresh' = [fresh EXCEPT ![c] = Owner[c] \notin Present]
    /\ shared' = IF \E d \in Conns \ {c} : step[d] # "out" /\ Owner[d] = Owner[c]
                 THEN shared \cup {Owner[c]} ELSE shared
    /\ crossed' = [crossed EXCEPT ![c] = {}] /\ UNCHANGED <<answer, asking, hash, held, roster>>

Add(c) ==
    /\ step[c] = "adding" /\ step' = [step EXCEPT ![c] = "added"]
    /\ hash' = hash \cup {c}
    /\ UNCHANGED <<fresh, answer, asking, held, roster, visits, shared, crossed>>

ReadMembers(c) ==
    /\ step[c] = "added" /\ step' = [step EXCEPT ![c] = "reading"]
    /\ answer' = [answer EXCEPT ![c] = Present]
    /\ UNCHANGED <<fresh, asking, hash, held, roster, visits, shared, crossed>>

\* Mutant of SendState: the members are added to those the tab shows.
SendStateMerged(c) ==
    /\ step[c] = "reading" /\ answer' = [answer EXCEPT ![c] = {}]
    /\ IF fresh[c]
       THEN /\ step' = [step EXCEPT ![c] = "stated"]
            /\ roster' = [roster EXCEPT ![c] = @ \cup answer[c]] /\ UNCHANGED held
       ELSE Done(c, held, [roster EXCEPT ![c] = @ \cup answer[c]])
    /\ UNCHANGED <<fresh, asking, hash, visits, shared, crossed>>

SendState(c) ==
    /\ step[c] = "reading" /\ answer' = [answer EXCEPT ![c] = {}]
    /\ IF fresh[c]
       THEN /\ step' = [step EXCEPT ![c] = "stated"]
            /\ roster' = [roster EXCEPT ![c] = answer[c]] /\ UNCHANGED held
       ELSE Done(c, held, [roster EXCEPT ![c] = answer[c]])
    /\ UNCHANGED <<fresh, asking, hash, visits, shared, crossed>>

AnnounceJoin(c) ==
    /\ step[c] = "stated" /\ fresh' = [fresh EXCEPT ![c] = FALSE]
    /\ Done(c, HeldWith(Join(Owner[c])), RosterWith(Join(Owner[c])))
    /\ crossed' = Crossing(Join(Owner[c])) /\ UNCHANGED <<answer, asking, hash, visits, shared>>

(* handle_presence_request: read, and then sent, with broadcasts between.  *)
Request(c) ==
    /\ step[c] = "in" /\ c \notin asking
    /\ asking' = asking \cup {c}
    /\ answer' = [answer EXCEPT ![c] = Present] /\ crossed' = [crossed EXCEPT ![c] = {}]
    /\ UNCHANGED <<step, fresh, hash, held, roster, visits, shared>>

AnswerRequest(c) ==
    /\ c \in asking /\ asking' = asking \ {c}
    /\ roster' = [roster EXCEPT ![c] = answer[c]] /\ answer' = [answer EXCEPT ![c] = {}]
    /\ UNCHANGED <<step, fresh, hash, held, visits, shared, crossed>>

(* on_unsubscribe, when the socket is gone: discard takes the connection   *)
(* out and then reads who remains, and a member gone is announced.         *)
Unsubscribe(c) ==
    /\ step[c] = "in" /\ step' = [step EXCEPT ![c] = "leaving"]
    /\ asking' = asking \ {c} /\ answer' = [answer EXCEPT ![c] = {}]
    /\ UNCHANGED <<fresh, hash, held, roster, visits, shared, crossed>>

Discard(c) ==
    /\ step[c] = "leaving" /\ c \in hash
    /\ hash' = hash \ {c}
    /\ UNCHANGED <<step, fresh, answer, asking, held, roster, visits, shared, crossed>>

ReadRemaining(c) ==
    /\ step[c] = "leaving" /\ c \notin hash
    /\ step' = [step EXCEPT ![c] = "left"]
    /\ fresh' = [fresh EXCEPT ![c] = Owner[c] \notin Present]
    /\ UNCHANGED <<answer, asking, hash, held, roster, visits, shared, crossed>>

AnnounceLeave(c) ==
    /\ step[c] = "left" /\ step' = [step EXCEPT ![c] = "out"]
    /\ fresh' = [fresh EXCEPT ![c] = FALSE]
    /\ held' = IF fresh[c] THEN HeldWith(Leave(Owner[c])) ELSE held
    /\ roster' = IF fresh[c] THEN RosterWith(Leave(Owner[c])) ELSE roster
    /\ crossed' = IF fresh[c] THEN Crossing(Leave(Owner[c])) ELSE crossed
    /\ UNCHANGED <<answer, asking, hash, visits, shared>>

Next == \E c \in Conns :
    \/ Subscribe(c) \/ Add(c) \/ ReadMembers(c) \/ SendState(c) \/ AnnounceJoin(c)
    \/ Request(c) \/ AnswerRequest(c)
    \/ Unsubscribe(c) \/ Discard(c) \/ ReadRemaining(c) \/ AnnounceLeave(c)

-----------------------------------------------------------------------------
TypeOK ==
    /\ step \in [Conns -> Steps] /\ hash \subseteq Conns
    /\ roster \in [Conns -> SUBSET Members] /\ answer \in [Conns -> SUBSET Members]

Quiet  == asking = {} /\ \A c \in Conns : step[c] \in {"out", "in"}
Here   == {c \in Conns : step[c] = "in"}

(* Every tab's roster against who is there, when nobody is coming, going   *)
(* or asking: it shows a member if and only if one of its connections is   *)
(* there. Exempt are members of whom two connections overlapped (see       *)
(* RostersConverge), and those announced while the roster the tab asked    *)
(* for was on its way, which then took the news back.                      *)
RostersAgree ==
    /\ Quiet => hash = Here
    /\ Quiet => \A c \in Here : \A m \in Members \ (shared \cup crossed[c]) :
          (m \in roster[c]) = (m \in Present)

(* "A member with several connections open produces one join and one       *)
(* leave, not one per tab." The code breaks it when the connections come   *)
(* and go together: both joins, or both leaves, or neither leave, and a    *)
(* leave may be announced after the join that followed it.                 *)
RostersConverge == Quiet => \A c \in Here : \A m \in Members \ crossed[c] :
                                (m \in roster[c]) = (m \in Present)
=============================================================================
