--------------------------- MODULE NotificationFeed ---------------------------
(***************************************************************************)
(* kits/notification and ui/notification: what reaches one tab on the      *)
(* topics it joined, the feed it shows, and what it acknowledges. A        *)
(* notification may be sent to several topics; each copy has its id. Those *)
(* sent while the socket is lost never come: nothing is stored.            *)
(***************************************************************************)
EXTENDS Naturals, Sequences, Lists, FiniteSets

CONSTANTS
    Ids, Topics,
    FeedLimit,  \* `limit`
    MaxCopies   \* bound: notifications sent, each to a topic

VARIABLES
    copies,     \* <<id, topic>> sent
    linked,     \* the tab is connected
    items,      \* snapshot.items: [id, topic], newest first
    acks,       \* acknowledgements sent and not handled: [topic, ids]
    acked,      \* <<id, topic>> that on_notifications_acked was given
    \* History.
    arrivals,   \* the copies that reached the tab, in order
    putAway     \* id -> arrivals when it was last acknowledged or dismissed

vars == <<copies, linked, items, acks, acked, arrivals, putAway>>

Init ==
    /\ copies = {} /\ linked = TRUE /\ items = <<>> /\ acks = <<>> /\ acked = {}
    /\ arrivals = <<>> /\ putAway = [i \in Ids |-> 0]

\* `items.filter`: those whose id is not in S, in their order.
Without(is, S) == Among(is, {item \in ToSet(is) : item.id \notin S})
Shown          == {items[k].id : k \in DOMAIN items}

\* Mutants of OnNotification: the second copy is dropped; it is shown again.
OnNotificationKeepsFirst(is, item) ==
    IF \E k \in DOMAIN is : is[k].id = item.id THEN is
    ELSE SubSeq(<<item>> \o is, 1, IF Len(is) < FeedLimit THEN Len(is) + 1 ELSE FeedLimit)
OnNotificationTwice(is, item) ==
    SubSeq(<<item>> \o is, 1, IF Len(is) < FeedLimit THEN Len(is) + 1 ELSE FeedLimit)

\* "A notification sent to two joined topics arrives twice with one id."
OnNotification(is, item) ==
    LET next == <<item>> \o Without(is, {item.id})
    IN  SubSeq(next, 1, IF Len(next) < FeedLimit THEN Len(next) ELSE FeedLimit)

(* notify: a copy to everyone on a topic.                                  *)
Notify(i, t) ==
    /\ <<i, t>> \notin copies /\ Cardinality(copies) < MaxCopies
    /\ copies' = copies \cup {<<i, t>>}
    /\ IF linked
       THEN /\ items' = OnNotification(items, [id |-> i, topic |-> t])
            /\ arrivals' = Append(arrivals, [id |-> i, topic |-> t])
       ELSE UNCHANGED <<items, arrivals>>
    /\ UNCHANGED <<linked, acks, acked, putAway>>

PutAway(S) ==
    /\ items' = Without(items, S)
    /\ putAway' = [i \in Ids |-> IF i \in S THEN Len(arrivals) ELSE putAway[i]]

(* ackAll, from "Acknowledge all": one message per topic shown, in the     *)
(* order of their newest items.                                            *)
On(t)  == {items[k].id : k \in {j \in DOMAIN items : items[j].topic = t}}
Newest == Without(items, {items[k].id : k \in {j \in DOMAIN items : \E h \in 1 .. j - 1 : items[h].topic = items[j].topic}})
AckAll ==
    /\ items # <<>> /\ linked
    /\ acks' = acks \o [k \in DOMAIN Newest |-> [topic |-> Newest[k].topic, ids |-> On(Newest[k].topic)]]
    /\ PutAway(Shown)
    /\ UNCHANGED <<copies, linked, acked, arrivals>>

Dismiss(i) ==
    /\ i \in Shown /\ PutAway({i})
    /\ UNCHANGED <<copies, linked, acks, acked, arrivals>>

(* handle_notification_ack; what it answers, the feed does not read.       *)
HandleAck ==
    /\ acks # <<>> /\ acks' = Tail(acks)
    /\ acked' = acked \cup {<<i, Head(acks).topic>> : i \in Head(acks).ids}
    /\ UNCHANGED <<copies, linked, items, arrivals, putAway>>

Unlink ==
    /\ linked /\ linked' = FALSE /\ acks' = <<>>
    /\ UNCHANGED <<copies, items, acked, arrivals, putAway>>
Link ==
    /\ ~linked /\ linked' = TRUE
    /\ UNCHANGED <<copies, items, acks, acked, arrivals, putAway>>

Next ==
    \/ \E i \in Ids, t \in Topics : Notify(i, t)
    \/ \E i \in Ids : Dismiss(i)
    \/ AckAll \/ HandleAck \/ Unlink \/ Link

-----------------------------------------------------------------------------
TypeOK ==
    /\ copies \subseteq Ids \X Topics /\ acked \subseteq copies
    /\ Len(items) <= FeedLimit
    /\ \A j, k \in DOMAIN items : items[j].id = items[k].id => j = k

LastArrival(i) ==
    LET at == {k \in DOMAIN arrivals : arrivals[k].id = i}
    IN  IF at = {} THEN 0 ELSE CHOOSE k \in at : \A j \in at : j <= k
Later(i)       == {arrivals[k].id : k \in LastArrival(i) + 1 .. Len(arrivals)}

(* The feed against what arrived: an id is shown once, in the order of the *)
(* last copies and on the topic of its last; one that came since it was    *)
(* last put away is there, unless enough others came after it to push it   *)
(* out; and the server is told of an id only for a topic it was shown on.  *)
FeedIsTrue ==
    /\ Len(items) <= FeedLimit
    /\ \A j, k \in DOMAIN items : j < k => LastArrival(items[j].id) > LastArrival(items[k].id)
    /\ \A k \in DOMAIN items : items[k] = arrivals[LastArrival(items[k].id)]
    /\ \A i \in Ids : IF LastArrival(i) > putAway[i] /\ Cardinality(Later(i)) < FeedLimit
                      THEN i \in Shown ELSE LastArrival(i) <= putAway[i] => i \notin Shown
    /\ \A p \in acked : \E k \in DOMAIN arrivals : p = <<arrivals[k].id, arrivals[k].topic>>
=============================================================================
