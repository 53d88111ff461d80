------------------------------ MODULE Transcript ------------------------------
(***************************************************************************)
(* ui/transcriber createTranscript: the captions one tab shows of the      *)
(* frames a transcriber session publishes (audio_stream_in, _on_frame).    *)
(*                                                                         *)
(* The tab handles a frame when it is published: a frame late on its way   *)
(* changes nothing the properties see. What is published while its socket  *)
(* is lost never comes, except that the last final may be replayed, which  *)
(* the tab is made to expect, unless its utterance was shown and has since *)
(* been pushed out by newer ones. A text is a member of Words.             *)
(***************************************************************************)
EXTENDS Naturals, Sequences, Lists

CONSTANTS
    Words,      \* what a segment may say
    Limit,      \* `limit`, the most utterances shown
    MaxFrames,  \* bound: frames of the provider
    MaxLosses   \* bound: lost sockets

VARIABLES
    \* The session, and what its provider has heard.
    stream,     \* "open", or "closed" until the next audio_start
    current,    \* session.utterance_id, 0 for none
    ids,        \* utterance ids given
    settled,    \* end_ms of the last final
    reached,    \* the largest end_ms of a frame
    frames,
    \* The tab.
    tied, losses,
    captions,   \* its snapshot
    \* History.
    last,       \* the last final published, none at first
    received    \* id -> the finals the tab was sent since it was last cleared, each once

session == <<stream, current, ids, settled, reached, frames>>
tab     == <<tied, losses, captions, received>>
vars    == <<session, tab, last>>

Started             == [action |-> "speech_started"]
Partial(id, w, ms)  == [action |-> "transcript_partial", id |-> id, text |-> w, ms |-> ms]
Final(id, w, ms)    == [action |-> "transcript_final", id |-> id, text |-> w, ms |-> ms]
Ended(id)           == [action |-> "utterance_end", id |-> id]

Blank(id) == [id |-> id, finals |-> <<>>, partial |-> "", done |-> FALSE, endMs |-> 0]

Init ==
    /\ stream = "closed" /\ current = 0 /\ ids = 0 /\ settled = 0 /\ reached = 0 /\ frames = 0
    /\ tied = TRUE /\ losses = 0
    /\ captions = [utterances |-> <<>>, speaking |-> FALSE]
    /\ last = Ended(0) /\ received = <<>>

-----------------------------------------------------------------------------
(* `on`: the snapshot a message makes of the snapshot s.                   *)
Slice(us) == SubSeq(us, IF Len(us) > Limit THEN Len(us) - Limit + 1 ELSE 1, Len(us))

Has(s, id) == \E k \in DOMAIN s.utterances : s.utterances[k].id = id

\* update: the utterance is changed where it is shown, else a new one is shown last.
Known(s, id) ==
    IF Has(s, id) THEN CHOOSE u \in ToSet(s.utterances) : u.id = id ELSE Blank(id)
Update(s, u) ==
    [s EXCEPT !.utterances =
        Slice(IF Has(s, u.id) THEN [k \in DOMAIN @ |-> IF @[k].id = u.id THEN u ELSE @[k]]
              ELSE Append(@, u))]

OnPartial(s, m) == Update(s, [Known(s, m.id) EXCEPT !.partial = m.text, !.endMs = m.ms])

\* Mutants of Replayed: by its time alone; not at all.
ReplayedByTime(u, m) == u.finals # <<>> /\ u.endMs >= m.ms
ReplayedNever(u, m)  == FALSE

\* "A final replayed after a reconnect must not be added twice."
Replayed(u, m) == u.finals # <<>> /\ Last(u.finals) = m.text /\ u.endMs >= m.ms

OnFinal(s, m) ==
    LET u == Known(s, m.id)
    IN  Update(s, IF Replayed(u, m) THEN u
                  ELSE [u EXCEPT !.finals = Append(@, m.text), !.partial = "", !.endMs = m.ms])

OnUtteranceEnd(s, m) ==
    LET quiet == [s EXCEPT !.speaking = FALSE]
    IN  IF Has(s, m.id) THEN Update(quiet, [Known(s, m.id) EXCEPT !.partial = "", !.done = TRUE])
        ELSE quiet

On(s, m) ==
    CASE m.action = "speech_started"     -> [s EXCEPT !.speaking = TRUE]
      [] m.action = "transcript_partial" -> OnPartial(s, m)
      [] m.action = "transcript_final"   -> OnFinal(s, m)
      [] OTHER                           -> OnUtteranceEnd(s, m)

(* publish: to the session's watchers, this tab when it is connected.      *)
Sent(m) == m.action = "transcript_final" /\
    (m.id \notin DOMAIN received \/ ~ \E k \in DOMAIN received[m.id] : received[m.id][k] = m)
Received(m) ==
    IF Sent(m)
    THEN [i \in DOMAIN received \cup {m.id} |->
            (IF i \in DOMAIN received THEN received[i] ELSE <<>>) \o (IF i = m.id THEN <<m>> ELSE <<>>)]
    ELSE received
Publish(m) ==
    /\ IF tied THEN captions' = On(captions, m) /\ received' = Received(m)
       ELSE UNCHANGED <<captions, received>>
    /\ last' = IF m.action = "transcript_final" THEN m ELSE last
    /\ UNCHANGED <<tied, losses>>

-----------------------------------------------------------------------------
(* The session: a stream is begun, the provider's frames are published     *)
(* under the utterance they belong to, and the stream ends or fails.       *)
Begin ==
    /\ stream = "closed" /\ frames < MaxFrames
    /\ stream' = "open" /\ current' = 0 /\ settled' = 0 /\ reached' = 0
    /\ UNCHANGED <<ids, frames, tab, last>>

Listening == stream = "open" /\ frames < MaxFrames /\ frames' = frames + 1 /\ UNCHANGED stream

SpeechStarts ==
    /\ Listening /\ Publish(Started)
    /\ UNCHANGED <<current, ids, settled, reached>>

\* _utterance: the id is made by the first frame that needs one.
Utterance == IF current = 0 THEN ids + 1 ELSE current

\* A segment has a length, so it ends after the last one that was settled.
Segment(ms) == ms \in {reached, reached + 1} /\ ms > settled

Hears(w, ms) ==
    /\ Listening /\ Segment(ms) /\ reached' = ms
    /\ current' = Utterance /\ ids' = IF current = 0 THEN ids + 1 ELSE ids
    /\ \/ Publish(Partial(Utterance, w, ms)) /\ UNCHANGED settled
       \/ Publish(Final(Utterance, w, ms)) /\ settled' = ms

Pauses ==
    /\ Listening /\ current' = 0 /\ UNCHANGED <<ids, settled, reached>>
    /\ IF current # 0 THEN Publish(Ended(current)) ELSE UNCHANGED <<tab, last>>

(* The end of _listen; and a failure, which closes the session at once.    *)
Closes ==
    /\ stream = "open" /\ stream' = "closed" /\ current' = 0
    /\ IF current # 0 THEN Publish(Ended(current)) ELSE UNCHANGED <<tab, last>>
    /\ UNCHANGED <<ids, settled, reached, frames>>
Fails ==
    /\ stream = "open" /\ stream' = "closed" /\ current' = 0
    /\ UNCHANGED <<ids, settled, reached, frames, tab, last>>

Lose ==
    /\ tied /\ losses < MaxLosses /\ tied' = FALSE /\ losses' = losses + 1
    /\ UNCHANGED <<session, captions, received, last>>
Return ==
    /\ ~tied /\ tied' = TRUE
    /\ \/ UNCHANGED <<captions, received>>
       \/ /\ last.id # 0 /\ (last.id \in DOMAIN received => Has(captions, last.id))
          /\ captions' = On(captions, last) /\ received' = Received(last)
    /\ UNCHANGED <<session, losses, last>>

(* clear, by the page.                                                     *)
Wipe ==
    /\ captions.utterances # <<>> /\ captions' = [utterances |-> <<>>, speaking |-> FALSE]
    /\ received' = <<>> /\ UNCHANGED <<session, tied, losses, last>>

Next ==
    \/ Begin \/ SpeechStarts \/ Pauses \/ Closes \/ Fails \/ Lose \/ Return \/ Wipe
    \/ \E w \in Words, ms \in reached .. reached + 1 : Hears(w, ms)

-----------------------------------------------------------------------------
(* TranscriptView: the settled text is what is announced, the partial is   *)
(* only seen.                                                              *)
Announced(u) == u.finals

TypeOK ==
    /\ Len(captions.utterances) <= Limit
    /\ \A j, k \in DOMAIN captions.utterances :
            captions.utterances[j].id = captions.utterances[k].id => j = k

\* A sequence without the items that repeat the one before.
Unrepeated(s) ==
    LET kept[n \in 0 .. Len(s)] ==
            IF n = 0 THEN <<>> ELSE IF n > 1 /\ s[n] = s[n - 1] THEN kept[n - 1] ELSE Append(kept[n - 1], s[n])
    IN  kept[Len(s)]
Texts(id) == [k \in DOMAIN received[id] |-> received[id][k].text]

(* "An utterance is its finals in order": what is shown of an utterance is *)
(* the finals the tab was sent, in order and none twice, though one that   *)
(* says what the one before said may be missing (EveryFinalShown).         *)
FinalsInOrder ==
    \A k \in DOMAIN captions.utterances :
        LET u == captions.utterances[k]
            sent == IF u.id \in DOMAIN received THEN Texts(u.id) ELSE <<>>
        IN  Unrepeated(Announced(u)) = Unrepeated(sent) /\ Len(Announced(u)) <= Len(sent)

(* "A segment that will not change": what was announced stays as it is,    *)
(* and an utterance that is done gets nothing more, but for a final it had *)
(* missed.                                                                 *)
SettledStays ==
    [][\A j \in DOMAIN captions.utterances, k \in DOMAIN captions'.utterances :
          LET u == captions.utterances[j]
              v == captions'.utterances[k]
          IN  u.id = v.id => /\ IsPrefix(Announced(u), Announced(v))
                             /\ u.done /\ received' = received => v = u]_vars

(* contract.ts: "An utterance is its finals in order." The code breaks it: *)
(* a final is taken for a replay when it repeats the last one and a partial *)
(* has already moved the utterance's end to where this final ends.         *)
EveryFinalShown ==
    \A k \in DOMAIN captions.utterances :
        LET u == captions.utterances[k]
        IN  u.id \in DOMAIN received => Announced(u) = Texts(u.id)
=============================================================================
