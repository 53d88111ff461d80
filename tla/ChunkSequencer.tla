---------------------------- MODULE ChunkSequencer ----------------------------
(***************************************************************************)
(* kits/media_stream_in/sequencer.py: chunks back in index order, with     *)
(* gaps reported rather than papered over.                                 *)
(*                                                                         *)
(* The frames of a connection are handled by tasks of their own, so push   *)
(* sees indices in any order, late, or not at all; a chunk is its index.   *)
(* push and flush run to completion: nothing but the loop of _release acts *)
(* while `call` is not "idle". Each turn of that loop is one step.         *)
(***************************************************************************)
EXTENDS Naturals, Sequences, FiniteSets

CONSTANTS
    Window,     \* how many chunks may wait for a missing one (window)
    Indices     \* the indices a client may send

ASSUME WindowAssumption  == Window \in Nat
ASSUME IndicesAssumption == Indices \subseteq Nat

VARIABLES
    expected,   \* the index to release next
    pending,    \* the indices held, the keys of _pending
    call,       \* the running call: "idle", "push" (give_up=False) or "flush" (True)
    log,        \* history: what ready and gaps returned since the stream began
    accepted    \* history: the indices ever stored in _pending

vars == <<expected, pending, call, log, accepted>>

Delivery == INSTANCE OrderedDelivery WITH cursor <- expected

TypeOK ==
    /\ expected \in Nat /\ pending \in SUBSET Indices
    /\ call \in {"idle", "push", "flush"} /\ log \in Seq(Delivery!Entry)
    /\ accepted \in SUBSET Indices

Init ==
    /\ expected = 0 /\ pending = {} /\ call = "idle" /\ log = <<>> /\ accepted = {}

\* Mutant of Least.
Greatest(S) == CHOOSE i \in S : \A j \in S : i >= j
Least(S) == CHOOSE i \in S : \A j \in S : i <= j

-----------------------------------------------------------------------------
\* Mutant of Reset: the next stream goes on counting.
ResetKeepsCursor ==
    /\ call = "idle"
    /\ pending' = {} /\ log' = <<>> /\ accepted' = {} /\ UNCHANGED <<expected, call>>

(* reset *)
Reset ==
    /\ call = "idle"
    /\ expected' = 0 /\ pending' = {} /\ log' = <<>> /\ accepted' = {} /\ UNCHANGED call

\* Mutant of Push: a chunk given up on is stored again.
PushLate(i) ==
    /\ call = "idle" /\ i \notin pending
    /\ pending' = pending \cup {i} /\ accepted' = accepted \cup {i} /\ call' = "push"
    /\ UNCHANGED <<expected, log>>

(* push: a chunk already released, given up on, or held is ignored. *)
Push(i) ==
    /\ call = "idle" /\ i >= expected /\ i \notin pending
    /\ pending' = pending \cup {i} /\ accepted' = accepted \cup {i} /\ call' = "push"
    /\ UNCHANGED <<expected, log>>

(* flush *)
Flush ==
    /\ call = "idle"
    /\ call' = "flush" /\ UNCHANGED <<expected, pending, log, accepted>>

(* _release, one turn of the loop: the expected chunk is there. *)
ReleaseExpected ==
    /\ call # "idle" /\ expected \in pending
    /\ pending' = pending \ {expected} /\ expected' = expected + 1
    /\ log' = Append(log, [kind |-> "chunk", from |-> expected, to |-> expected + 1])
    /\ UNCHANGED <<call, accepted>>

GivesUp == call = "flush" \/ Cardinality(pending) > Window

(* _release, one turn: it is not there, and waiting for it is over. *)
ReleaseGap ==
    /\ call # "idle" /\ pending # {} /\ expected \notin pending /\ GivesUp
    /\ expected' = Least(pending)
    /\ log' = Append(log, [kind |-> "gap", from |-> expected, to |-> Least(pending)])
    /\ UNCHANGED <<pending, call, accepted>>

(* _release returns: nothing is held, or what is held may still wait. *)
ReleaseDone ==
    /\ call # "idle"
    /\ \/ pending = {}
       \/ expected \notin pending /\ ~GivesUp
    /\ call' = "idle" /\ UNCHANGED <<expected, pending, log, accepted>>

Release == ReleaseExpected \/ ReleaseGap \/ ReleaseDone

Next ==
    \/ Reset
    \/ \E i \in Indices : Push(i)
    \/ Flush
    \/ Release

Spec     == Init /\ [][Next]_vars
\* The loop of _release runs on without an await.
FairSpec == Spec /\ WF_vars(Release)

-----------------------------------------------------------------------------
(* What was returned accounts for every index below `expected` exactly     *)
(* once and in order: no chunk out of order, twice, or silently missing.   *)
ReturnedInOrder == Delivery!Tiled

(* A chunk that was stored is still held or was released, and no reported  *)
(* gap covers it: "gaps reported rather than papered over" (sequencer.py:1)*)
(* never reports a chunk that did arrive in time.                          *)
Released == {i \in accepted : \E k \in DOMAIN log : log[k].kind = "chunk" /\ log[k].from = i}
HeldOrReleased == accepted \subseteq pending \cup Released
GapsAreHonest ==
    \A k \in DOMAIN log : \A i \in accepted :
        log[k].kind = "gap" => ~(log[k].from <= i /\ i < log[k].to)
NothingStoredIsLost == HeldOrReleased /\ GapsAreHonest

(* Between calls at most Window chunks wait for a missing one, and the     *)
(* missing one is really missing.                                          *)
HoldsWithinWindow ==
    call = "idle" => /\ Cardinality(pending) <= Window
                     /\ \A i \in pending : i > expected

(* flush terminates, and holds nothing back when it does.                  *)
FlushDrains == (call = "flush") ~> (call = "idle" /\ pending = {})

(* The sequencer implements in-order delivery.                             *)
ImplementsOrderedDelivery == Delivery!Spec
=============================================================================
