--------------------------- MODULE OrderedDelivery ---------------------------
(***************************************************************************)
(* What kits/media_stream_in promises of the chunks of one stream: chunk 0 *)
(* onwards leaves in index order, each at most once, and a stretch that    *)
(* never arrived is reported as one gap, at its place in the order.        *)
(*                                                                         *)
(* The state is the order itself: a log whose entries say what became of   *)
(* the indices from .. to-1, and the cursor, the first index not yet       *)
(* accounted for.                                                          *)
(***************************************************************************)
EXTENDS Naturals, Sequences

CONSTANT Indices    \* the indices a chunk may have

VARIABLES
    cursor,     \* the first index with no entry in the log
    log         \* the entries, oldest first

vars == <<cursor, log>>

Kinds == {"chunk", "gap"}
Entry == [kind : Kinds, from : Nat, to : Nat]

TypeOK == cursor \in Nat /\ log \in Seq(Entry)

Init == cursor = 0 /\ log = <<>>

\* The next chunk in index order is released.
Deliver ==
    /\ log' = Append(log, [kind |-> "chunk", from |-> cursor, to |-> cursor + 1])
    /\ cursor' = cursor + 1

\* The indices from the cursor up to a chunk that did arrive were lost: one
\* gap says so.
Skip(next) ==
    /\ next > cursor
    /\ log' = Append(log, [kind |-> "gap", from |-> cursor, to |-> next]) /\ cursor' = next

\* A new stream counts from 0 again.
Restart == cursor' = 0 /\ log' = <<>>

Next == Deliver \/ (\E next \in Indices : Skip(next)) \/ Restart

Spec == Init /\ [][Next]_vars

-----------------------------------------------------------------------------
(* The entries tile the indices below the cursor: each index below it is   *)
(* accounted for by exactly one entry, and the entries are in index order. *)
Tiled ==
    /\ \A k \in 1..Len(log) :
          /\ log[k].from < log[k].to
          /\ log[k].from = IF k = 1 THEN 0 ELSE log[k-1].to
          /\ log[k].kind = "chunk" => log[k].to = log[k].from + 1
    /\ cursor = IF log = <<>> THEN 0 ELSE log[Len(log)].to
=============================================================================
