----------------------------- MODULE PlayerProofs -----------------------------
(***************************************************************************)
(* What holds of the player for every bound: TypeOK, StoppedIsSilent,      *)
(* HonestMarks, PlaysForward and StatusIsTrue.                             *)
(*                                                                         *)
(* The first part says what is true of a page, whatever it is shown next:  *)
(* where its tracks lie on the timeline of what was written, what of them  *)
(* has been heard, what may sound again. The second says what the messages *)
(* still to come are to it. Then: every handler keeps the first part of a  *)
(* page and a message it may be given, so does any number of them in turn  *)
(* (what waited for the speaker), and so does every step of the player.    *)
(* The last part adds what the status needs: an utterance that has audio   *)
(* is not ended before the page has some of it.                            *)
(***************************************************************************)
EXTENDS Player, SequenceTheorems, WellFoundedInduction, TLAPS

-----------------------------------------------------------------------------
(* What the variables hold.                                                *)
Blocks == Utterances \X Nat
Queues == [blocks : Seq(Blocks), waiting : BOOLEAN, draining : BOOLEAN]
TrackSets == UNION {[D -> Track] : D \in SUBSET Utterances}
Pages  == [tracks : TrackSets, written : Nat, played : Nat,
           shown : 0 .. Len(Chunks), status : {"idle", "playing"}, queue : Queues,
           marked : [Utterances -> Nat]]

Typed ==
    /\ utterance \in 0 .. Len(Chunks) /\ sent \in Nat
    /\ phase \in {"between", "speaking", "ended"} /\ clearing \in BOOLEAN
    /\ phase # "between" => utterance \in Utterances /\ sent <= Chunks[utterance]
    /\ wire \in Seq(Messages) /\ pending \in Seq(Messages) /\ online \in BOOLEAN /\ closed \in BOOLEAN
    /\ speaker \in {"none", "opening", "open"} /\ page \in Pages /\ sounded \in Nat /\ reports \in Seq(Nat)
    /\ heard \in [Utterances -> Nat] /\ lastOut \in Nat \X Nat /\ unreported \in Nat
    /\ gone \in [done : SUBSET Utterances, stopped : SUBSET Utterances] /\ replayed \subseteq Utterances

(* Nothing waits but for a speaker being opened, nothing is on the page of *)
(* a speaker that was never open, nothing comes from a lost socket, and    *)
(* nothing is left of a player that is closed.                             *)
Untouched ==
    /\ speaker # "opening" => pending = <<>>
    /\ speaker # "open" /\ ~closed =>
          /\ sounded = 0 /\ reports = <<>> /\ page.played = 0 /\ page.written = 0 /\ page.shown = 0
          /\ DOMAIN page.tracks = {} /\ page.queue.blocks = <<>>
    /\ ~online => wire = <<>>
    /\ closed => /\ ~online /\ pending = <<>>
                 /\ DOMAIN page.tracks = {} /\ page.queue.blocks = <<>>

(* Tracks lie one after another on the timeline of units written, in the   *)
(* order of their utterances, and the one shown is the last.               *)
Timeline(p) ==
    /\ \A u \in DOMAIN p.tracks : LET t == p.tracks[u] IN
          /\ u <= p.shown /\ t.length <= t.last /\ t.start + t.length <= p.written
          /\ u = p.shown => t.start + t.length = p.written
          /\ \A v \in DOMAIN p.tracks : u < v => t.start + t.length <= p.tracks[v].start
    /\ \A k \in DOMAIN p.queue.blocks : p.queue.blocks[k][1] <= p.shown

(* Where on the timeline the k-th unit of the queue was written.           *)
Place(p, k) == p.written - Len(p.queue.blocks) + k - 1

(* What is queued in a track's stretch is of its utterance, and no earlier *)
(* in it than its place; and what of the track is not queued any more has  *)
(* been heard.                                                             *)
HeardOf(p, h, u) ==
    LET t == p.tracks[u] IN
    /\ \A k \in DOMAIN p.queue.blocks :
          t.start <= Place(p, k) /\ Place(p, k) < t.start + t.length =>
              p.queue.blocks[k][1] = u /\ Place(p, k) - t.start <= p.queue.blocks[k][2]
    /\ h[u] >= t.length \/ h[u] + t.start + Len(p.queue.blocks) >= p.written
(* The last report lags, and what is written is what sounded and what is   *)
(* queued, but for `un` units that sounded of tracks dropped unreported.   *)
Lags(p, s, un) ==
    /\ p.played <= s /\ p.written <= s + Len(p.queue.blocks) /\ s + Len(p.queue.blocks) <= p.written + un
(* Marks claim no more than was heard, and the reports to come will not    *)
(* make them.                                                              *)
Heard(p, s, h, un) ==
    /\ Lags(p, s, un)
    /\ \A u \in DOMAIN p.tracks : HeardOf(p, h, u)
    /\ \A u \in Utterances : p.marked[u] <= h[u] + un

(* Of what was stopped nothing is on the page but what a rejoin replays.   *)
Silent(p, stopped, again) ==
    /\ \A u \in stopped : u <= p.shown
    /\ \A u \in DOMAIN p.tracks \cap stopped : u \in again
    /\ \A k \in DOMAIN p.queue.blocks : p.queue.blocks[k][1] \in stopped => p.queue.blocks[k][1] \in again

(* What sounded last and what is queued goes forward, but for utterances   *)
(* in `back`: those that were over or stopped when they were replayed.     *)
Onward(p, s, last, back) ==
    /\ \A j, k \in DOMAIN p.queue.blocks : j < k =>
          Forward(p.queue.blocks[j], p.queue.blocks[k]) \/ p.queue.blocks[k][1] \in back
    /\ s # 0 =>
          /\ last[1] <= p.shown
          /\ \A k \in DOMAIN p.queue.blocks : Forward(last, p.queue.blocks[k]) \/ p.queue.blocks[k][1] \in back
(* A track of an utterance with units queued, or sounding last, goes on    *)
(* after them: an earlier chunk of it is not written again.                *)
Begun(p, s, last, back) ==
    \A u \in DOMAIN p.tracks \ back :
        /\ \A k \in DOMAIN p.queue.blocks : p.queue.blocks[k][1] = u =>
                p.queue.blocks[k][2] < p.tracks[u].last /\ p.tracks[u].length > 0
        /\ s # 0 /\ last[1] = u => last[2] < p.tracks[u].last /\ p.tracks[u].length > 0
(* The utterance shown has its track, or has lost it, or it was empty: if  *)
(* it starts again, what sounded of it is not forgotten.                   *)
Recalled(p, s, last, over) ==
    p.shown \in DOMAIN p.tracks \cup over \/ 
        /\ \A k \in DOMAIN p.queue.blocks : p.queue.blocks[k][1] # p.shown
        /\ s # 0 => last[1] # p.shown

(* Messages in a row, of utterances lo .. hi: none goes back, and only a   *)
(* replay starts one again.                                                *)
InRow(c, lo, hi) ==
    /\ \A k \in DOMAIN c : c[k].kind # "clear" => c[k].u \in lo .. hi
    /\ \A j, k \in DOMAIN c : j < k /\ c[j].kind # "clear" /\ c[k].kind # "clear" => c[j].u <= c[k].u
Firsts(c, lo, again) ==
    \A k \in DOMAIN c : c[k].kind = "audio_start" /\ c[k].u \notin again =>
          /\ c[k].u > lo
          /\ \A j \in DOMAIN c : c[j] = c[k] => j = k

(* The page in all, of what sounded before.                                *)
Sound(p, s, last, un, over) ==
    /\ p \in Pages /\ Timeline(p) /\ Heard(p, s, heard, un) /\ Silent(p, gone.stopped, replayed)
    /\ Onward(p, s, last, over \cap replayed) /\ Begun(p, s, last, over \cap replayed)
    /\ Recalled(p, s, last, over)

(* What will be handled: the messages that wait, then those on the wire.   *)
Coming == pending \o wire
GoneBy == gone.done \cup gone.stopped

(* What comes is of the utterance shown or later ones, in their order; the *)
(* page is sound; and no report runs ahead of what has sounded.            *)
InTurn    == page.shown <= utterance /\ InRow(Coming, page.shown, utterance) /\ Firsts(Coming, page.shown, replayed)
PageSound == Sound(page, sounded, lastOut, unreported, GoneBy)
Reported  == \A k \in DOMAIN reports : reports[k] <= sounded

(* An empty queue waits for a prebuffer.                                   *)
Waits(p) == p.queue.blocks = <<>> => p.queue.waiting

Inv == Typed /\ Waits(page) /\ Untouched /\ InTurn /\ PageSound /\ Reported

-----------------------------------------------------------------------------
(* What a handler does to the page.                                        *)
Starts(p, u, q) ==
    /\ u \in Utterances /\ u \notin DOMAIN p.tracks /\ DOMAIN q.tracks = DOMAIN p.tracks \cup {u}
    /\ q.tracks[u] = [last |-> 0, start |-> p.written, length |-> 0, ended |-> FALSE]
    /\ \A v \in DOMAIN p.tracks : q.tracks[v] = p.tracks[v]
    /\ q.written = p.written /\ q.played = p.played /\ q.queue = p.queue
    /\ q.marked = p.marked /\ q.shown = u /\ q.status = "playing"
Grows(p, u, i, q) ==
    /\ u \in DOMAIN p.tracks /\ i \in Nat /\ i >= p.tracks[u].last /\ DOMAIN q.tracks = DOMAIN p.tracks
    /\ q.tracks[u].last = i + 1 /\ q.tracks[u].start = p.tracks[u].start
    /\ q.tracks[u].length = p.tracks[u].length + 1 /\ q.tracks[u].ended = p.tracks[u].ended
    /\ \A v \in DOMAIN p.tracks : v # u => q.tracks[v] = p.tracks[v]
    /\ q.queue.blocks = Append(p.queue.blocks, <<u, i>>) /\ q.written = p.written + 1 /\ q.played = p.played
    /\ q.marked = p.marked /\ q.shown = p.shown /\ q.status = p.status
SameTracks(p, q) ==
    /\ DOMAIN q.tracks \subseteq DOMAIN p.tracks
    /\ \A v \in DOMAIN q.tracks :
          /\ q.tracks[v].start = p.tracks[v].start /\ q.tracks[v].length = p.tracks[v].length
          /\ q.tracks[v].last = p.tracks[v].last
Ends(p, u, q) ==
    /\ u \in DOMAIN p.tracks /\ SameTracks(p, q)
    /\ DOMAIN q.tracks = IF p.tracks[u].length > 0 THEN DOMAIN p.tracks ELSE DOMAIN p.tracks \ {u}
    /\ u \in DOMAIN q.tracks => q.tracks[u].ended
    /\ \A v \in DOMAIN q.tracks \ {u} : q.tracks[v] = p.tracks[v]
    /\ q.queue.blocks = p.queue.blocks /\ q.queue.waiting = p.queue.waiting
    /\ q.written = p.written /\ q.played = p.played
    /\ \A v \in Utterances : q.marked[v] = p.marked[v]
    /\ q.shown = p.shown
    /\ q.status = IF p.tracks[u].length = 0 /\ DOMAIN p.tracks = {u} THEN "idle" ELSE p.status
Drops(p, q) ==
    /\ DOMAIN q.tracks = {} /\ q.queue.blocks = <<>> /\ q.queue.waiting
    /\ q.written = p.played /\ q.played = p.played /\ q.shown = p.shown
    /\ \A v \in Utterances : q.marked[v] =
          IF v \in DOMAIN p.tracks THEN Larger(p.marked[v], PlayedOf(p, v)) ELSE p.marked[v]

(* The sets of tracks a page may have.                                     *)
LEMMA TracksTyped ==
    /\ \A D \in SUBSET Utterances : [D -> Track] \subseteq TrackSets
    /\ \A f \in TrackSets : DOMAIN f \in SUBSET Utterances /\ f \in [DOMAIN f -> Track]
    /\ <<>> \in TrackSets /\ DOMAIN <<>> = {}
<1>1. \A D \in SUBSET Utterances : [D -> Track] \subseteq TrackSets BY DEF TrackSets
<1>2. \A f \in TrackSets : DOMAIN f \in SUBSET Utterances /\ f \in [DOMAIN f -> Track] BY DEF TrackSets
<1>3. <<>> \in [{} -> Track] OBVIOUS
<1> QED BY <1>1, <1>2, <1>3

(* mark changes the marks of S, and nothing else.                          *)
LEMMA MarkPage ==
    ASSUME NEW p \in Pages, NEW S \in SUBSET DOMAIN p.tracks
    PROVE  /\ Mark(p, S) \in Pages
           /\ \A u \in Utterances : Mark(p, S).marked[u] =
                    IF u \in S THEN Larger(p.marked[u], PlayedOf(p, u)) ELSE p.marked[u]
           /\ Mark(p, S).tracks = p.tracks /\ Mark(p, S).written = p.written /\ Mark(p, S).played = p.played
           /\ Mark(p, S).shown = p.shown /\ Mark(p, S).status = p.status /\ Mark(p, S).queue = p.queue
<1> DEFINE f == [u \in Utterances |-> IF u \in S THEN Larger(p.marked[u], PlayedOf(p, u)) ELSE p.marked[u]]
<1>1. ASSUME NEW u \in S PROVE PlayedOf(p, u) \in Nat /\ p.marked[u] \in Nat
  <2>1. p.tracks[u] \in Track /\ u \in Utterances BY TracksTyped DEF Pages
  <2> QED BY <2>1 DEF PlayedOf, Smaller, Pages, Track
<1>2. f \in [Utterances -> Nat] BY <1>1 DEF Larger, Pages
<1>3. Mark(p, S) = [p EXCEPT !.marked = f] BY DEF Mark
<1>4. \A u \in Utterances : f[u] = IF u \in S THEN Larger(p.marked[u], PlayedOf(p, u)) ELSE p.marked[u]
  OBVIOUS
<1> HIDE DEF f
<1> QED BY <1>2, <1>3, <1>4 DEF Pages

(* audio_start of a new utterance puts an empty track at the end.          *)
LEMMA StartPage ==
    ASSUME NEW p \in Pages, NEW u \in Utterances, u \notin DOMAIN p.tracks
    PROVE  OnStart(p, u) \in Pages /\ Starts(p, u, OnStart(p, u))
<1> DEFINE t == [last |-> 0, start |-> p.written, length |-> 0, ended |-> FALSE]
           f == [v \in DOMAIN p.tracks \cup {u} |-> IF v = u THEN t ELSE p.tracks[v]]
<1>1. f \in TrackSets
  <2>1. t \in Track BY DEF Track, Pages
  <2>2. DOMAIN p.tracks \in SUBSET Utterances /\ p.tracks \in [DOMAIN p.tracks -> Track]
    BY TracksTyped DEF Pages
  <2> HIDE DEF t
  <2>3. f \in [DOMAIN p.tracks \cup {u} -> Track] BY <2>1, <2>2
  <2>4. DOMAIN p.tracks \cup {u} \in SUBSET Utterances BY <2>2
  <2> QED BY <2>3, <2>4, TracksTyped
<1>2. OnStart(p, u) = [p EXCEPT !.tracks = f, !.status = "playing", !.shown = u]
  BY DEF OnStart
<1>3. u \in 0 .. Len(Chunks) BY PlayerAssumption DEF Utterances
<1>4. /\ DOMAIN f = DOMAIN p.tracks \cup {u} /\ f[u] = t
      /\ \A v \in DOMAIN p.tracks : f[v] = p.tracks[v]
  OBVIOUS
<1> HIDE DEF f
<1>5. LET q == OnStart(p, u) IN
        /\ q \in Pages /\ q.tracks = f /\ q.written = p.written /\ q.played = p.played /\ q.queue = p.queue
        /\ q.marked = p.marked /\ q.shown = u /\ q.status = "playing"
  BY <1>1, <1>2, <1>3 DEF Pages
<1> QED BY <1>4, <1>5 DEF Starts

(* A track with one more chunk.                                            *)
LEMMA LongerTrack ==
    ASSUME NEW t \in Track, NEW i \in Nat
    PROVE  /\ Longer(t, i) \in Track
           /\ Longer(t, i).last = i + 1 /\ Longer(t, i).start = t.start
           /\ Longer(t, i).length = t.length + 1 /\ Longer(t, i).ended = t.ended
<1> DEFINE a == i + 1
           b == t.length + 1
<1>1. a \in Nat /\ b \in Nat BY DEF Track
<1>2. Longer(t, i) = [t EXCEPT !.last = a, !.length = b] BY DEF Longer
<1>3. a = i + 1 /\ b = t.length + 1 OBVIOUS
<1> HIDE DEF a, b
<1>4. /\ Longer(t, i) \in Track /\ Longer(t, i).last = a /\ Longer(t, i).start = t.start
      /\ Longer(t, i).length = b /\ Longer(t, i).ended = t.ended
  BY <1>1, <1>2 DEF Track
<1> QED BY <1>3, <1>4

(* audio_chunk, not a repeated one, makes its track and the queue longer.  *)
LEMMA ChunkPage ==
    ASSUME NEW p \in Pages, NEW u \in DOMAIN p.tracks, NEW i \in Nat, i >= p.tracks[u].last
    PROVE  OnChunk(p, u, i) \in Pages /\ Grows(p, u, i, OnChunk(p, u, i))
<1> DEFINE t == Longer(p.tracks[u], i)
           f == [p.tracks EXCEPT ![u] = t]
           r == Written(p.queue, <<u, i>>)
<1>1. DOMAIN p.tracks \in SUBSET Utterances /\ p.tracks \in [DOMAIN p.tracks -> Track]
  BY TracksTyped DEF Pages
<1>2. /\ t \in Track /\ t.last = i + 1 /\ t.start = p.tracks[u].start
      /\ t.length = p.tracks[u].length + 1 /\ t.ended = p.tracks[u].ended
  <2>1. p.tracks[u] \in Track BY <1>1
  <2> QED BY <2>1, LongerTrack
<1>3. r \in Queues /\ r.blocks = Append(p.queue.blocks, <<u, i>>)
  <2>1. <<u, i>> \in Blocks BY <1>1 DEF Blocks
  <2>2. p.queue \in Queues BY DEF Pages
  <2>3. Append(p.queue.blocks, <<u, i>>) \in Seq(Blocks) BY <2>1, <2>2, AppendProperties DEF Queues
  <2> QED BY <2>2, <2>3 DEF Queues, Written
<1>4. OnChunk(p, u, i) = [p EXCEPT !.tracks = f, !.written = @ + 1, !.queue = r]
  <2>1. ~ (i < p.tracks[u].last)
    <3>1. p.tracks[u].last \in Nat BY <1>1 DEF Track
    <3> QED BY <3>1
  <2> QED BY <2>1 DEF OnChunk
<1> HIDE DEF t, r
<1>5. /\ f \in [DOMAIN p.tracks -> Track] /\ f[u] = t
      /\ \A v \in DOMAIN p.tracks : v # u => f[v] = p.tracks[v]
  BY <1>1, <1>2
<1> HIDE DEF f
<1>6. f \in TrackSets /\ DOMAIN f = DOMAIN p.tracks BY <1>1, <1>5, TracksTyped
<1>7. LET q == OnChunk(p, u, i) IN
        /\ q \in Pages /\ q.tracks = f /\ q.queue = r
        /\ q.written = p.written + 1 /\ q.played = p.played
        /\ q.marked = p.marked /\ q.shown = p.shown /\ q.status = p.status
  <2> DEFINE w == p.written + 1
  <2>1. w \in Nat BY DEF Pages
  <2>2. OnChunk(p, u, i) = [p EXCEPT !.tracks = f, !.written = w, !.queue = r] BY <1>4
  <2> HIDE DEF w
  <2>3. LET q == OnChunk(p, u, i) IN
        /\ q \in Pages /\ q.tracks = f /\ q.queue = r
        /\ q.written = w /\ q.played = p.played
        /\ q.marked = p.marked /\ q.shown = p.shown /\ q.status = p.status
    BY <1>3, <1>6, <2>1, <2>2 DEF Pages
  <2> QED BY <2>3 DEF w
<1> QED BY <1>2, <1>3, <1>5, <1>6, <1>7 DEF Grows

(* Tracks without those of S.                                              *)
LEMMA WithoutTracks ==
    ASSUME NEW f \in TrackSets, NEW S
    PROVE  /\ Without(f, S) \in TrackSets /\ DOMAIN Without(f, S) = DOMAIN f \ S
           /\ \A v \in DOMAIN f \ S : Without(f, S)[v] = f[v]
<1>1. DOMAIN f \in SUBSET Utterances /\ f \in [DOMAIN f -> Track] BY TracksTyped
<1>2. Without(f, S) \in [DOMAIN f \ S -> Track] /\ DOMAIN f \ S \in SUBSET Utterances
  BY <1>1 DEF Without
<1>3. Without(f, S) \in TrackSets BY <1>2, TracksTyped
<1> QED BY <1>3 DEF Without

(* A track that is told to have ended, and the queue told to play out.     *)
LEMMA EndedPage ==
    ASSUME NEW p \in Pages, NEW u \in DOMAIN p.tracks
    PROVE  LET q == [p EXCEPT !.tracks[u].ended = TRUE, !.queue = Drained(@)] IN
           /\ q \in Pages /\ SameTracks(p, q) /\ DOMAIN q.tracks = DOMAIN p.tracks
           /\ q.tracks[u].ended /\ \A v \in DOMAIN p.tracks \ {u} : q.tracks[v] = p.tracks[v]
           /\ q.queue.blocks = p.queue.blocks /\ q.queue.waiting = p.queue.waiting
           /\ q.written = p.written /\ q.played = p.played
           /\ q.marked = p.marked /\ q.shown = p.shown /\ q.status = p.status
<1> DEFINE t == [p.tracks[u] EXCEPT !.ended = TRUE]
           f == [p.tracks EXCEPT ![u] = t]
           r == Drained(p.queue)
           q == [p EXCEPT !.tracks[u].ended = TRUE, !.queue = Drained(@)]
<1>1. DOMAIN p.tracks \in SUBSET Utterances /\ p.tracks \in [DOMAIN p.tracks -> Track]
  BY TracksTyped DEF Pages
<1>2. /\ t \in Track /\ t.last = p.tracks[u].last /\ t.start = p.tracks[u].start
      /\ t.length = p.tracks[u].length /\ t.ended
  <2>1. p.tracks[u] \in Track BY <1>1
  <2> QED BY <2>1 DEF Track
<1>3. r \in Queues /\ r.blocks = p.queue.blocks /\ r.waiting = p.queue.waiting
  BY DEF Pages, Queues, Drained
<1>4. q = [p EXCEPT !.tracks = f, !.queue = r] OBVIOUS
<1> HIDE DEF t, r, q
<1>5. /\ f \in [DOMAIN p.tracks -> Track] /\ f[u] = t
      /\ \A v \in DOMAIN p.tracks : v # u => f[v] = p.tracks[v]
  BY <1>1, <1>2
<1> HIDE DEF f
<1>6. f \in TrackSets /\ DOMAIN f = DOMAIN p.tracks BY <1>1, <1>5, TracksTyped
<1>7.   /\ q \in Pages /\ q.tracks = f /\ q.queue = r
        /\ q.written = p.written /\ q.played = p.played
        /\ q.marked = p.marked /\ q.shown = p.shown /\ q.status = p.status
  BY <1>3, <1>4, <1>6 DEF Pages
<1>8. SameTracks(p, q)
  BY <1>2, <1>5, <1>6, <1>7 DEF SameTracks
<1>9. q.tracks[u].ended /\ \A v \in DOMAIN p.tracks \ {u} : q.tracks[v] = p.tracks[v]
  BY <1>2, <1>5, <1>7
<1> QED BY <1>3, <1>6, <1>7, <1>8, <1>9 DEF q

(* audio_end ends a track, and removes one that is empty.                  *)
LEMMA EndPage ==
    ASSUME NEW p \in Pages, NEW u \in DOMAIN p.tracks
    PROVE  OnEnd(p, u) \in Pages /\ Ends(p, u, OnEnd(p, u))
<1> DEFINE r == [p EXCEPT !.tracks[u].ended = TRUE, !.queue = Drained(@)]
           g == Without(r.tracks, {u})
           s == IF DOMAIN r.tracks = {u} THEN "idle" ELSE r.status
           q == OnEnd(p, u)
<1>1. /\ r \in Pages /\ SameTracks(p, r) /\ DOMAIN r.tracks = DOMAIN p.tracks
      /\ r.tracks[u].ended /\ \A v \in DOMAIN p.tracks \ {u} : r.tracks[v] = p.tracks[v]
      /\ r.queue.blocks = p.queue.blocks /\ r.queue.waiting = p.queue.waiting
      /\ r.written = p.written /\ r.played = p.played
      /\ r.marked = p.marked /\ r.shown = p.shown /\ r.status = p.status
  BY EndedPage
<1>2. q = IF r.tracks[u].length > 0 THEN r
          ELSE [Mark(r, {u}) EXCEPT !.tracks = Without(@, {u}),
                                    !.status = IF DOMAIN r.tracks = {u} THEN "idle" ELSE @]
  BY DEF OnEnd
<1> HIDE DEF r, q
<1>m. /\ Mark(r, {u}) \in Pages /\ Mark(r, {u}).tracks = r.tracks /\ Mark(r, {u}).status = r.status
      /\ Mark(r, {u}).written = r.written /\ Mark(r, {u}).played = r.played
      /\ Mark(r, {u}).shown = r.shown /\ Mark(r, {u}).queue = r.queue
      /\ \A v \in Utterances : Mark(r, {u}).marked[v] = IF v \in {u} THEN Larger(r.marked[v], PlayedOf(r, v)) ELSE r.marked[v]
  <2>1. {u} \in SUBSET DOMAIN r.tracks BY <1>1
  <2> QED BY <1>1, <2>1, MarkPage
<1>3. r.tracks[u].length = p.tracks[u].length /\ r.tracks[u] \in Track /\ u \in Utterances
  BY <1>1, TracksTyped DEF SameTracks, Pages
<1>4. CASE r.tracks[u].length > 0
  <2>1. q = r BY <1>2, <1>4
  <2>2. p.tracks[u].length # 0 BY <1>3, <1>4
  <2> QED BY <2>1, <2>2, <1>1, <1>3, <1>4 DEF q, Ends
<1>5. CASE ~ (r.tracks[u].length > 0)
  <2>1. r.tracks[u].length = 0 BY <1>3, <1>5 DEF Track
  <2>3. ASSUME NEW v \in Utterances PROVE Mark(r, {u}).marked[v] = p.marked[v]
    <3>1. Mark(r, {u}).marked[v] = IF v = u THEN Larger(r.marked[v], PlayedOf(r, v)) ELSE r.marked[v]
      BY <1>m
    <3>2. r.marked[v] \in Nat BY <1>1 DEF Pages
    <3>3. PlayedOf(r, u) = 0
      <4>1. r.played \in Nat /\ r.tracks[u].start \in Nat BY <1>1, <1>3 DEF Pages, Track
      <4> QED BY <2>1, <4>1 DEF PlayedOf, Smaller
    <3> QED BY <1>1, <3>1, <3>2, <3>3 DEF Larger
  <2>4. /\ g \in TrackSets /\ DOMAIN g = DOMAIN p.tracks \ {u}
        /\ \A v \in DOMAIN p.tracks \ {u} : g[v] = r.tracks[v]
    <3>1. r.tracks \in TrackSets BY <1>1 DEF Pages
    <3>2. /\ g \in TrackSets /\ DOMAIN g = DOMAIN r.tracks \ {u}
          /\ \A v \in DOMAIN r.tracks \ {u} : g[v] = r.tracks[v]
      BY <3>1, WithoutTracks, Zenon
    <3>3. DOMAIN r.tracks = DOMAIN p.tracks BY <1>1
    <3> QED BY <3>2, <3>3
  <2>5. s \in {"idle", "playing"} /\ s = IF DOMAIN p.tracks = {u} THEN "idle" ELSE p.status
    BY <1>1 DEF Pages
  <2>6. q = [Mark(r, {u}) EXCEPT !.tracks = g, !.status = s] BY <1>2, <1>5, <1>m
  <2> HIDE DEF g, s
  <2>7. /\ q \in Pages /\ q.tracks = g /\ q.status = s
        /\ q.written = r.written /\ q.played = r.played /\ q.shown = r.shown /\ q.queue = r.queue
        /\ q.marked = Mark(r, {u}).marked
    BY <1>m, <2>4, <2>5, <2>6 DEF Pages
  <2>8. SameTracks(p, q)
    BY <1>1, <2>4, <2>7 DEF SameTracks
  <2>9. \A v \in DOMAIN q.tracks \ {u} : q.tracks[v] = p.tracks[v]
    BY <1>1, <2>4, <2>7
  <2> QED BY <1>1, <1>3, <1>5, <2>1, <2>3, <2>4, <2>5, <2>7, <2>8, <2>9 DEF q, Ends
<1> QED BY <1>4, <1>5

(* silence, clear and close leave no track and no queue.                   *)
LEMMA DroppedPage ==
    ASSUME NEW p \in Pages
    PROVE  /\ DropAll(p) \in Pages /\ Drops(p, DropAll(p)) /\ DropAll(p).status = p.status
           /\ Silenced(p) \in Pages /\ Drops(p, Silenced(p)) /\ Silenced(p).status = "idle"
<1>1. Emptied \in Queues /\ Emptied.blocks = <<>> /\ Emptied.waiting BY DEF Emptied, Queues
<1>2. /\ Mark(p, DOMAIN p.tracks) \in Pages
      /\ Mark(p, DOMAIN p.tracks).played = p.played /\ Mark(p, DOMAIN p.tracks).shown = p.shown
      /\ Mark(p, DOMAIN p.tracks).status = p.status
      /\ \A v \in Utterances : Mark(p, DOMAIN p.tracks).marked[v] =
            IF v \in DOMAIN p.tracks THEN Larger(p.marked[v], PlayedOf(p, v)) ELSE p.marked[v]
  <2>1. DOMAIN p.tracks \in SUBSET DOMAIN p.tracks OBVIOUS
  <2> QED BY <2>1, MarkPage
<1>3. /\ DropAll(p) \in Pages /\ DropAll(p).tracks = <<>> /\ DropAll(p).queue = Emptied
      /\ DropAll(p).written = p.played /\ DropAll(p).played = p.played /\ DropAll(p).shown = p.shown
      /\ DropAll(p).status = p.status /\ DropAll(p).marked = Mark(p, DOMAIN p.tracks).marked
  BY <1>1, <1>2, TracksTyped DEF DropAll, Pages
<1>4. /\ Silenced(p) \in Pages /\ Silenced(p).tracks = <<>> /\ Silenced(p).queue = Emptied
      /\ Silenced(p).written = p.played /\ Silenced(p).played = p.played /\ Silenced(p).shown = p.shown
      /\ Silenced(p).status = "idle" /\ Silenced(p).marked = Mark(p, DOMAIN p.tracks).marked
  BY <1>3 DEF Silenced, Pages
<1> QED BY <1>1, <1>2, <1>3, <1>4, TracksTyped DEF Drops

-----------------------------------------------------------------------------
(* What the messages to come are to the page that handles them next.       *)
Awaits(p, m) ==
    /\ m \in Messages
    /\ m.kind # "clear" => m.u >= p.shown
    /\ m.kind = "audio_start" => m.u > p.shown \/ m.u \in replayed

(* The kinds of message and what each carries.                             *)
LEMMA MessageKinds ==
    ASSUME NEW m \in Messages
    PROVE  /\ m.kind \in {"audio_start", "audio_chunk", "audio_end", "clear"}
           /\ m.kind # "clear" => m.u \in Utterances
           /\ m.kind = "audio_chunk" => m.i \in Nat
           /\ m.kind = "clear" <=> m = Clear
           /\ m.kind = "audio_start" => m = Start(m.u)
  BY PlayerAssumption DEF Messages, Start, Chunk, End, Clear, Utterances

(* A message is ignored, or it starts, lengthens or ends a track, or it    *)
(* empties the page.                                                       *)
Handles(p, m, q) ==
    \/ q = p
    \/ m.kind = "audio_start" /\ Starts(p, m.u, q)
    \/ m.kind = "audio_chunk" /\ Grows(p, m.u, m.i, q)
    \/ m.kind = "audio_end" /\ Ends(p, m.u, q)
    \/ m.kind = "clear" /\ Drops(p, q) /\ q.status = "idle"

(* Every message has one of those effects.                                 *)
LEMMA HandleCases ==
    ASSUME NEW p \in Pages, NEW m \in Messages
    PROVE  Handle(p, m) \in Pages /\ Handles(p, m, Handle(p, m))
<1> DEFINE q == Handle(p, m)
<1>1. CASE m.kind = "audio_start"
  <2>1. q = OnStart(p, m.u) /\ m.u \in Utterances BY <1>1, MessageKinds DEF Handle
  <2>2. CASE m.u \in DOMAIN p.tracks BY <2>1, <2>2 DEF OnStart, Handles
  <2>3. CASE m.u \notin DOMAIN p.tracks BY <1>1, <2>1, <2>3, StartPage DEF Handles
  <2> QED BY <2>2, <2>3
<1>2. CASE m.kind = "audio_chunk"
  <2>1. q = OnChunk(p, m.u, m.i) /\ m.i \in Nat BY <1>2, MessageKinds DEF Handle
  <2>2. CASE m.u \notin DOMAIN p.tracks BY <2>1, <2>2 DEF OnChunk, Handles
  <2>3. CASE m.u \in DOMAIN p.tracks /\ m.i < p.tracks[m.u].last BY <2>1, <2>3 DEF OnChunk, Handles
  <2>4. CASE m.u \in DOMAIN p.tracks /\ ~ (m.i < p.tracks[m.u].last)
    <3>1. p.tracks[m.u].last \in Nat BY <2>4, TracksTyped DEF Pages, Track
    <3>2. m.i >= p.tracks[m.u].last BY <2>1, <2>4, <3>1
    <3>3. q \in Pages /\ Grows(p, m.u, m.i, q) BY <2>1, <2>4, <3>2, ChunkPage
    <3> QED BY <1>2, <3>3 DEF Handles
  <2> QED BY <2>2, <2>3, <2>4
<1>3. CASE m.kind = "audio_end"
  <2>1. q = OnEnd(p, m.u) BY <1>3 DEF Handle
  <2>2. CASE m.u \notin DOMAIN p.tracks BY <2>1, <2>2 DEF OnEnd, Handles
  <2>3. CASE m.u \in DOMAIN p.tracks BY <1>3, <2>1, <2>3, EndPage DEF Handles
  <2> QED BY <2>2, <2>3
<1>4. CASE m.kind = "clear"
  BY <1>4, DroppedPage DEF Handle, Handles
<1> QED BY <1>1, <1>2, <1>3, <1>4, MessageKinds

(* The numbers on a page are natural.                                      *)
LEMMA PageNumbers ==
    ASSUME NEW p \in Pages
    PROVE  /\ p.written \in Nat /\ p.played \in Nat /\ p.shown \in Nat
           /\ \A u \in DOMAIN p.tracks :
                /\ u \in Utterances /\ u \in Nat
                /\ p.tracks[u].start \in Nat /\ p.tracks[u].length \in Nat /\ p.tracks[u].last \in Nat
                /\ p.tracks[u].ended \in BOOLEAN
           /\ p.queue.blocks \in Seq(Blocks) /\ Len(p.queue.blocks) \in Nat
           /\ \A k \in DOMAIN p.queue.blocks :
                /\ k \in 1 .. Len(p.queue.blocks) /\ p.queue.blocks[k] \in Blocks
                /\ p.queue.blocks[k][1] \in Nat /\ p.queue.blocks[k][2] \in Nat
           /\ \A u \in Utterances : p.marked[u] \in Nat
<1>1. Utterances \subseteq Nat BY PlayerAssumption DEF Utterances
<1>2. p.queue.blocks \in Seq(Blocks) BY DEF Pages, Queues
<1>3. \A k \in DOMAIN p.queue.blocks :
                /\ k \in 1 .. Len(p.queue.blocks) /\ p.queue.blocks[k] \in Blocks
  BY <1>2
<1>4. \A b \in Blocks : b[1] \in Nat /\ b[2] \in Nat BY <1>1 DEF Blocks
<1>5. \A u \in DOMAIN p.tracks : u \in Utterances /\ p.tracks[u] \in Track BY TracksTyped DEF Pages
<1>6. Len(p.queue.blocks) \in Nat BY <1>2
<1>7. p.written \in Nat /\ p.played \in Nat /\ p.shown \in Nat BY DEF Pages
<1>8. \A u \in Utterances : p.marked[u] \in Nat BY DEF Pages
<1> QED BY <1>1, <1>2, <1>3, <1>4, <1>5, <1>6, <1>7, <1>8 DEF Track

(* The queue after one more unit: the same units, and it.                  *)
LEMMA GrownQueue ==
    ASSUME NEW p \in Pages, NEW q \in Pages, NEW u, NEW i, Grows(p, u, i, q)
    PROVE  /\ Len(q.queue.blocks) = Len(p.queue.blocks) + 1
           /\ DOMAIN q.queue.blocks = DOMAIN p.queue.blocks \cup {Len(p.queue.blocks) + 1}
           /\ DOMAIN p.queue.blocks = 1 .. Len(p.queue.blocks)
           /\ q.queue.blocks[Len(p.queue.blocks) + 1] = <<u, i>>
           /\ \A k \in DOMAIN p.queue.blocks : q.queue.blocks[k] = p.queue.blocks[k]
<1>1. p.queue.blocks \in Seq(Blocks) /\ <<u, i>> \in Blocks
  BY PageNumbers DEF Grows, Blocks
<1>2. q.queue.blocks = Append(p.queue.blocks, <<u, i>>) BY DEF Grows
<1> QED BY <1>1, <1>2, AppendProperties

(* A message that may come keeps the tracks in line.                       *)
LEMMA HandleTimeline ==
    ASSUME NEW p \in Pages, NEW q \in Pages, NEW m \in Messages, Awaits(p, m), Handles(p, m, q),
           Timeline(p)
    PROVE  Timeline(q)
<1>0. CASE q = p BY <1>0
<1>1. CASE m.kind = "audio_start" /\ Starts(p, m.u, q)
  <2> DEFINE u == m.u
  <2>1. u >= p.shown /\ u \in Nat /\ q.shown = u /\ q.written = p.written /\ q.queue = p.queue
    BY <1>1, MessageKinds, PlayerAssumption DEF Awaits, Starts, Utterances
  <2>2. /\ DOMAIN q.tracks = DOMAIN p.tracks \cup {u}
        /\ q.tracks[u].start = p.written /\ q.tracks[u].length = 0 /\ q.tracks[u].last = 0
        /\ \A v \in DOMAIN p.tracks : q.tracks[v] = p.tracks[v] /\ v # u
    BY <1>1 DEF Starts
  <2> HIDE DEF u
  <2>3. ASSUME NEW v \in DOMAIN q.tracks
        PROVE  /\ v <= q.shown /\ q.tracks[v].length <= q.tracks[v].last
               /\ q.tracks[v].start + q.tracks[v].length <= q.written
               /\ v = q.shown => q.tracks[v].start + q.tracks[v].length = q.written
               /\ \A w \in DOMAIN q.tracks : v < w => q.tracks[v].start + q.tracks[v].length <= q.tracks[w].start
    <3>1. CASE v = u
      <4>1. \A w \in DOMAIN q.tracks : ~ (v < w)
        BY <2>1, <2>2, <3>1, PageNumbers DEF Timeline
      <4> QED BY <2>1, <2>2, <3>1, <4>1, PageNumbers
    <3>2. CASE v \in DOMAIN p.tracks
      <4>1. v <= p.shown /\ v # u /\ q.tracks[v] = p.tracks[v] BY <2>2, <3>2 DEF Timeline
      <4>2. /\ q.tracks[v].length <= q.tracks[v].last
            /\ q.tracks[v].start + q.tracks[v].length <= q.written
        BY <2>1, <3>2, <4>1 DEF Timeline
      <4>3. v <= q.shown /\ v # q.shown BY <2>1, <4>1, <3>2, PageNumbers
      <4>4. ASSUME NEW w \in DOMAIN q.tracks, v < w PROVE q.tracks[v].start + q.tracks[v].length <= q.tracks[w].start
        <5>1. CASE w = u BY <5>1, <2>1, <2>2, <4>2
        <5>2. CASE w \in DOMAIN p.tracks BY <5>2, <2>2, <3>2, <4>1, <4>4 DEF Timeline
        <5> QED BY <5>1, <5>2, <2>2
      <4> QED BY <4>2, <4>3, <4>4
    <3> QED BY <3>1, <3>2, <2>2
  <2>4. \A k \in DOMAIN q.queue.blocks : q.queue.blocks[k][1] <= q.shown
    BY <2>1, PageNumbers DEF Timeline
  <2>5. Timeline(q) BY <2>3, <2>4 DEF Timeline
  <2> QED BY <2>5, <1>1
<1>2. CASE m.kind = "audio_chunk" /\ Grows(p, m.u, m.i, q)
  <2> DEFINE u == m.u
  <2>1. /\ u = p.shown /\ u \in DOMAIN p.tracks
        /\ q.shown = p.shown /\ q.written = p.written + 1 /\ DOMAIN q.tracks = DOMAIN p.tracks
        /\ q.tracks[u].start = p.tracks[u].start /\ q.tracks[u].length = p.tracks[u].length + 1
        /\ q.tracks[u].last = m.i + 1 /\ m.i >= p.tracks[u].last /\ m.i \in Nat
        /\ \A v \in DOMAIN p.tracks : v # u => q.tracks[v] = p.tracks[v]
    BY <1>2, PageNumbers DEF Awaits, Grows, Timeline
  <2> HIDE DEF u
  <2>2. ASSUME NEW v \in DOMAIN q.tracks
        PROVE  /\ v <= q.shown /\ q.tracks[v].length <= q.tracks[v].last
               /\ q.tracks[v].start + q.tracks[v].length <= q.written
               /\ v = q.shown => q.tracks[v].start + q.tracks[v].length = q.written
               /\ \A w \in DOMAIN q.tracks : v < w => q.tracks[v].start + q.tracks[v].length <= q.tracks[w].start
    <3>1. CASE v = u
      <4>1. \A w \in DOMAIN q.tracks : ~ (v < w)
        BY <2>1, <3>1, PageNumbers DEF Timeline
      <4>2. p.tracks[u].length <= p.tracks[u].last /\ p.tracks[u].start + p.tracks[u].length = p.written
        BY <2>1 DEF Timeline
      <4>3. /\ p.tracks[u].start \in Nat /\ p.tracks[u].length \in Nat /\ p.tracks[u].last \in Nat
            /\ p.written \in Nat /\ u \in Nat
        BY <2>1, PageNumbers
      <4>4. q.tracks[u].length <= q.tracks[u].last BY <2>1, <4>2, <4>3
      <4>5. q.tracks[u].start + q.tracks[u].length = q.written BY <2>1, <4>2, <4>3
      <4>6. q.written \in Nat BY <2>1, <4>3
      <4> QED BY <2>1, <3>1, <4>1, <4>3, <4>4, <4>5, <4>6
    <3>2. CASE v # u
      <4>1. v <= p.shown /\ v # u /\ q.tracks[v] = p.tracks[v] /\ v \in DOMAIN p.tracks
        BY <2>1, <3>2 DEF Timeline
      <4>2. /\ q.tracks[v].length <= q.tracks[v].last
            /\ q.tracks[v].start + q.tracks[v].length <= p.written
        BY <4>1 DEF Timeline
      <4>3. q.tracks[v].start + q.tracks[v].length <= q.written
        BY SMTT(20), <2>1, <4>1, <4>2, PageNumbers
      <4>4. ASSUME NEW w \in DOMAIN q.tracks, v < w PROVE q.tracks[v].start + q.tracks[v].length <= q.tracks[w].start
        <5>1. q.tracks[w].start = p.tracks[w].start /\ w \in DOMAIN p.tracks BY <2>1
        <5> QED BY <5>1, <4>1, <4>4 DEF Timeline
      <4> QED BY <2>1, <4>1, <4>2, <4>3, <4>4
    <3> QED BY <3>1, <3>2
  <2>3. ASSUME NEW k \in DOMAIN q.queue.blocks PROVE q.queue.blocks[k][1] <= q.shown
    <3>1. CASE k \in DOMAIN p.queue.blocks BY <3>1, <2>1, <1>2, GrownQueue DEF Timeline
    <3>2. CASE k \notin DOMAIN p.queue.blocks
      <4>1. q.queue.blocks[k] = <<m.u, m.i>> BY <3>2, <1>2, GrownQueue
      <4> QED BY <4>1, <2>1, PageNumbers DEF u
    <3> QED BY <3>1, <3>2
  <2>4. Timeline(q) BY <2>2, <2>3 DEF Timeline
  <2> QED BY <2>1, <2>4 DEF u
<1>3. CASE m.kind = "audio_end" /\ Ends(p, m.u, q)
  <2>1. /\ SameTracks(p, q) /\ q.written = p.written /\ q.shown = p.shown
        /\ q.queue.blocks = p.queue.blocks
    BY <1>3 DEF Ends
  <2> QED BY <2>1, <1>3 DEF Timeline, SameTracks
<1>4. CASE m.kind = "clear" /\ Drops(p, q)
  <2>1. DOMAIN q.tracks = {} /\ DOMAIN q.queue.blocks = {} BY <1>4, EmptySeq DEF Drops
  <2> QED BY <2>1, <1>4 DEF Timeline
<1> QED BY <1>0, <1>1, <1>2, <1>3, <1>4 DEF Handles

(* playedOf counts no more of a track than was heard.                      *)
LEMMA PlayedIsHeard ==
    ASSUME NEW p \in Pages, NEW s \in Nat, NEW h \in [Utterances -> Nat], NEW un \in Nat,
           Heard(p, s, h, un), NEW u \in DOMAIN p.tracks
    PROVE  PlayedOf(p, u) \in Nat /\ PlayedOf(p, u) <= h[u] + un
<1> DEFINE t == p.tracks[u]
           n == Len(p.queue.blocks)
<1>1. /\ t.start \in Nat /\ t.length \in Nat /\ n \in Nat /\ p.played \in Nat /\ p.written \in Nat
      /\ u \in Utterances /\ h[u] \in Nat
  BY PageNumbers
<1>2. p.played <= s /\ s + n <= p.written + un BY DEF Heard, Lags
<1>3. h[u] >= t.length \/ h[u] + t.start + n >= p.written BY DEF Heard, HeardOf
<1>4. PlayedOf(p, u) = Smaller(IF p.played > t.start THEN p.played - t.start ELSE 0, t.length)
  BY DEF PlayedOf
<1> HIDE DEF t, n
<1>5. PlayedOf(p, u) \in Nat /\ PlayedOf(p, u) <= t.length
      /\ (p.played > t.start => PlayedOf(p, u) <= p.played - t.start)
      /\ (~ (p.played > t.start) => PlayedOf(p, u) = 0)
  BY <1>1, <1>4 DEF Smaller
<1>6. CASE h[u] >= t.length BY <1>1, <1>5, <1>6
<1>7. CASE h[u] + t.start + n >= p.written
  <2>1. p.played <= h[u] + t.start + un BY <1>1, <1>2, <1>7
  <2> QED BY <1>1, <1>5, <2>1
<1> QED BY <1>3, <1>6, <1>7

(* Nor does the mark made of it.                                           *)
LEMMA MarkIsHeard ==
    ASSUME NEW p \in Pages, NEW s \in Nat, NEW h \in [Utterances -> Nat], NEW un \in Nat,
           Heard(p, s, h, un), NEW u \in DOMAIN p.tracks
    PROVE  Larger(p.marked[u], PlayedOf(p, u)) <= h[u] + un
BY PlayedIsHeard, PageNumbers DEF Larger, Heard

(* A message keeps the marks honest, a clear if what sounded unreported is *)
(* allowed for.                                                            *)
LEMMA HandleHeard ==
    ASSUME NEW p \in Pages, NEW q \in Pages, NEW m \in Messages, Awaits(p, m), Handles(p, m, q),
           Timeline(p), NEW s \in Nat, NEW h \in [Utterances -> Nat], NEW un \in Nat,
           Heard(p, s, h, un), m.kind = "clear" => s <= p.played + un
    PROVE  Heard(q, s, h, un)
<1>0. CASE q = p BY <1>0
<1>h. Lags(p, s, un) /\ \A u \in DOMAIN p.tracks : HeardOf(p, h, u) BY DEF Heard
<1>1. CASE m.kind = "audio_start" /\ Starts(p, m.u, q)
  <2>1. /\ q.written = p.written /\ q.played = p.played /\ q.queue = p.queue /\ q.marked = p.marked
        /\ DOMAIN q.tracks = DOMAIN p.tracks \cup {m.u}
        /\ q.tracks[m.u].length = 0 /\ q.tracks[m.u].start = p.written
        /\ \A v \in DOMAIN p.tracks : q.tracks[v] = p.tracks[v]
        /\ m.u \in Utterances
    BY <1>1 DEF Starts
  <2>2. ASSUME NEW v \in DOMAIN p.tracks PROVE HeardOf(q, h, v)
    BY <1>h, <2>1 DEF HeardOf, Place
  <2>3. HeardOf(q, h, m.u)
    <3>1. \A k \in DOMAIN q.queue.blocks :
              ~ (q.tracks[m.u].start <= Place(q, k) /\ Place(q, k) < q.tracks[m.u].start + q.tracks[m.u].length)
      <4>1. q.tracks[m.u].start + q.tracks[m.u].length = q.tracks[m.u].start /\ q.tracks[m.u].start \in Nat
        BY <2>1, PageNumbers
      <4>2. \A k \in DOMAIN q.queue.blocks : Place(q, k) \in Int
        BY SMTT(20), <2>1, PageNumbers DEF Place
      <4> QED BY <4>1, <4>2
    <3>2. h[m.u] >= q.tracks[m.u].length BY <2>1
    <3> QED BY <3>1, <3>2 DEF HeardOf
  <2>4. Lags(q, s, un) BY <1>h, <2>1 DEF Lags
  <2> QED BY <2>1, <2>2, <2>3, <2>4 DEF Heard
<1>2. CASE m.kind = "audio_chunk" /\ Grows(p, m.u, m.i, q)
  <2> DEFINE u == m.u
             n == Len(p.queue.blocks)
             w == p.written
  <2>1. /\ u = p.shown /\ u \in DOMAIN p.tracks
        /\ q.written = w + 1 /\ q.played = p.played /\ q.marked = p.marked /\ DOMAIN q.tracks = DOMAIN p.tracks
        /\ q.tracks[u].start = p.tracks[u].start /\ q.tracks[u].length = p.tracks[u].length + 1
        /\ m.i >= p.tracks[u].last /\ m.i \in Nat
        /\ \A v \in DOMAIN p.tracks : v # u => q.tracks[v] = p.tracks[v]
    <3>1. u = p.shown
      <4>1. u \in DOMAIN p.tracks BY <1>2 DEF Grows
      <4>2. u <= p.shown BY <4>1 DEF Timeline
      <4>3. u >= p.shown BY <1>2 DEF Awaits
      <4> QED BY <4>1, <4>2, <4>3, PageNumbers
    <3>2. /\ q.written = w + 1 /\ q.tracks[u].length = p.tracks[u].length + 1
          /\ m.i >= p.tracks[u].last /\ m.i \in Nat
      BY <1>2 DEF Grows
    <3>3. /\ u \in DOMAIN p.tracks
          /\ q.played = p.played /\ q.marked = p.marked /\ DOMAIN q.tracks = DOMAIN p.tracks
          /\ q.tracks[u].start = p.tracks[u].start
          /\ \A v \in DOMAIN p.tracks : v # u => q.tracks[v] = p.tracks[v]
      BY <1>2 DEF Grows
    <3> QED BY <3>1, <3>2, <3>3
  <2>2. /\ Len(q.queue.blocks) = n + 1 /\ DOMAIN q.queue.blocks = DOMAIN p.queue.blocks \cup {n + 1}
        /\ q.queue.blocks[n + 1] = <<u, m.i>> /\ DOMAIN p.queue.blocks = 1 .. n
        /\ \A k \in DOMAIN p.queue.blocks : q.queue.blocks[k] = p.queue.blocks[k]
    BY <1>2, GrownQueue
  <2>3. n \in Nat /\ w \in Nat BY PageNumbers
  <2>4. /\ Place(q, n + 1) = w
        /\ \A k \in DOMAIN p.queue.blocks : Place(q, k) = Place(p, k) /\ Place(p, k) < w /\ Place(p, k) \in Int
    <3>1. Place(q, n + 1) = w
      <4>1. Place(q, n + 1) = (w + 1) - (n + 1) + (n + 1) - 1 BY <2>1, <2>2 DEF Place
      <4> HIDE DEF n, w
      <4> QED BY <2>3, <4>1
    <3>2. ASSUME NEW k \in DOMAIN p.queue.blocks
          PROVE Place(q, k) = Place(p, k) /\ Place(p, k) < w /\ Place(p, k) \in Int
      <4>1. Place(q, k) = (w + 1) - (n + 1) + k - 1 /\ Place(p, k) = w - n + k - 1 /\ k \in 1 .. n
        BY <2>1, <2>2 DEF Place
      <4> HIDE DEF n, w
      <4> QED BY <2>3, <4>1
    <3> QED BY <3>1, <3>2
  <2> HIDE DEF u, n, w
  <2>5. w = p.written /\ n = Len(p.queue.blocks) BY DEF w, n
  <2>6. Lags(q, s, un)
    <3>1. p.played <= s /\ w <= s + n /\ s + n <= w + un BY <1>h, <2>5 DEF Lags
    <3>2. w + 1 <= s + (n + 1) /\ s + (n + 1) <= (w + 1) + un BY <2>3, <3>1
    <3> QED BY <2>1, <2>2, <3>1, <3>2 DEF Lags
  <2>7. ASSUME NEW v \in DOMAIN p.tracks PROVE HeardOf(q, h, v)
    <3>1. /\ p.tracks[v].start \in Nat /\ p.tracks[v].length \in Nat /\ p.tracks[v].last \in Nat
          /\ v \in Utterances /\ h[v] \in Nat
      BY PageNumbers
    <3>2. /\ p.tracks[v].length <= p.tracks[v].last
          /\ p.tracks[v].start + p.tracks[v].length <= w
          /\ v = u => p.tracks[v].start + p.tracks[v].length = w
      BY <2>1, <2>5 DEF Timeline
    <3>3. h[v] >= p.tracks[v].length \/ h[v] + p.tracks[v].start + n >= w
      BY <1>h, <2>5 DEF HeardOf
    <3>4. \A k \in DOMAIN p.queue.blocks :
          p.tracks[v].start <= Place(p, k) /\ Place(p, k) < p.tracks[v].start + p.tracks[v].length =>
              p.queue.blocks[k][1] = v /\ Place(p, k) - p.tracks[v].start <= p.queue.blocks[k][2]
      BY <1>h DEF HeardOf
    <3>5. q.tracks[v].start = p.tracks[v].start BY <2>1
    <3>6. CASE v = u
      <4>1. q.tracks[v].length = p.tracks[v].length + 1 BY <2>1, <3>6
      <4>2. h[v] + q.tracks[v].start + Len(q.queue.blocks) >= q.written
        <5>1. h[v] + p.tracks[v].start + (n + 1) >= w + 1 BY <2>3, <3>1, <3>2, <3>3, <3>6
        <5> QED BY <5>1, <2>1, <2>2, <3>5
      <4>3. ASSUME NEW k \in DOMAIN p.queue.blocks, q.tracks[v].start <= Place(q, k)
            PROVE  q.queue.blocks[k][1] = v /\ Place(q, k) - q.tracks[v].start <= q.queue.blocks[k][2]
        BY <2>2, <2>4, <3>2, <3>4, <3>5, <3>6, <4>3
      <4>4. q.queue.blocks[n + 1][1] = v /\ Place(q, n + 1) - q.tracks[v].start <= q.queue.blocks[n + 1][2]
        <5>1. w - p.tracks[v].start <= m.i
          <6>1. m.i >= p.tracks[v].last BY <2>1, <3>6
          <6> QED BY <2>1, <2>3, <3>1, <3>2, <3>6, <6>1
        <5> QED BY <5>1, <2>2, <2>4, <3>5, <3>6
      <4> QED BY <2>2, <4>2, <4>3, <4>4 DEF HeardOf
    <3>7. CASE v # u
      <4>1. q.tracks[v] = p.tracks[v] BY <2>1, <3>7
      <4>2. h[v] >= q.tracks[v].length \/ h[v] + q.tracks[v].start + Len(q.queue.blocks) >= q.written
        <5>1. h[v] >= p.tracks[v].length \/ h[v] + p.tracks[v].start + (n + 1) >= w + 1
          BY <2>3, <3>1, <3>3
        <5> QED BY <5>1, <2>1, <2>2, <4>1
      <4>3. ~ (Place(q, n + 1) < q.tracks[v].start + q.tracks[v].length)
        BY <2>3, <2>4, <3>1, <3>2, <4>1
      <4>4. \A k \in DOMAIN p.queue.blocks :
              q.tracks[v].start <= Place(q, k) /\ Place(q, k) < q.tracks[v].start + q.tracks[v].length =>
                  q.queue.blocks[k][1] = v /\ Place(q, k) - q.tracks[v].start <= q.queue.blocks[k][2]
        BY <2>2, <2>4, <3>4, <4>1
      <4> QED BY <2>2, <4>2, <4>3, <4>4 DEF HeardOf
    <3> QED BY <3>6, <3>7
  <2>8. \A v \in Utterances : q.marked[v] <= h[v] + un BY <2>1 DEF Heard
  <2> QED BY <2>1, <2>6, <2>7, <2>8 DEF Heard
<1>3. CASE m.kind = "audio_end" /\ Ends(p, m.u, q)
  <2>1. /\ SameTracks(p, q) /\ q.written = p.written /\ q.played = p.played
        /\ q.queue.blocks = p.queue.blocks /\ \A v \in Utterances : q.marked[v] = p.marked[v]
    BY <1>3 DEF Ends
  <2>2. ASSUME NEW v \in DOMAIN q.tracks PROVE HeardOf(q, h, v)
    BY SMTT(20), <1>h, <2>1 DEF HeardOf, SameTracks, Place
  <2>3. Lags(q, s, un) BY <1>h, <2>1 DEF Lags
  <2>4. DOMAIN q.tracks \subseteq Utterances BY PageNumbers
  <2> QED BY <2>1, <2>2, <2>3, <2>4 DEF Heard
<1>4. CASE m.kind = "clear" /\ Drops(p, q)
  <2>1. DOMAIN q.tracks = {} /\ Len(q.queue.blocks) = 0 /\ q.written = p.played /\ q.played = p.played
    BY <1>4 DEF Drops
  <2>2. \A u \in Utterances : q.marked[u] <= h[u] + un
    BY <1>4, MarkIsHeard DEF Drops, Heard
  <2>3. p.played <= s /\ s <= p.played + un BY <1>4, <1>h DEF Lags
  <2>4. Lags(q, s, un)
    BY <2>1, <2>3, PageNumbers DEF Lags
  <2> QED BY <2>1, <2>2, <2>4 DEF Heard
<1> QED BY <1>0, <1>1, <1>2, <1>3, <1>4 DEF Handles

(* A message brings nothing back of what was stopped.                      *)
LEMMA HandleSilent ==
    ASSUME NEW p \in Pages, NEW q \in Pages, NEW m \in Messages, Awaits(p, m), Handles(p, m, q),
           NEW stopped \in SUBSET Utterances, Silent(p, stopped, replayed)
    PROVE  Silent(q, stopped, replayed)
<1>0. CASE q = p BY <1>0
<1>u. Utterances \subseteq Nat BY PlayerAssumption DEF Utterances
<1>1. CASE m.kind = "audio_start" /\ Starts(p, m.u, q)
  <2>1. /\ q.queue = p.queue /\ q.shown = m.u /\ DOMAIN q.tracks = DOMAIN p.tracks \cup {m.u}
        /\ m.u >= p.shown /\ (m.u > p.shown \/ m.u \in replayed) /\ m.u \in Nat
    BY <1>1, <1>u DEF Starts, Awaits
  <2>2. ASSUME NEW u \in stopped PROVE u <= m.u
    <3>1. u \in Nat /\ u <= p.shown BY <1>u DEF Silent
    <3>2. p.shown \in Nat BY PageNumbers
    <3> QED BY <2>1, <3>1, <3>2
  <2>3. m.u \in stopped => m.u \in replayed BY <2>1, PageNumbers DEF Silent
  <2> QED BY <2>1, <2>2, <2>3 DEF Silent
<1>2. CASE m.kind = "audio_chunk" /\ Grows(p, m.u, m.i, q)
  <2>1. q.shown = p.shown /\ DOMAIN q.tracks = DOMAIN p.tracks /\ m.u \in DOMAIN p.tracks
    BY <1>2 DEF Grows
  <2>2. ASSUME NEW k \in DOMAIN q.queue.blocks, q.queue.blocks[k][1] \in stopped
        PROVE  q.queue.blocks[k][1] \in replayed
    <3>1. CASE k \in DOMAIN p.queue.blocks BY <1>2, <2>2, <3>1, GrownQueue DEF Silent
    <3>2. CASE k \notin DOMAIN p.queue.blocks
      <4>1. q.queue.blocks[k] = <<m.u, m.i>> BY <1>2, <3>2, GrownQueue
      <4> QED BY <4>1, <2>1, <2>2 DEF Silent
    <3> QED BY <3>1, <3>2
  <2> QED BY <2>1, <2>2 DEF Silent
<1>3. CASE m.kind = "audio_end" /\ Ends(p, m.u, q)
  BY <1>3 DEF Ends, SameTracks, Silent
<1>4. CASE m.kind = "clear" /\ Drops(p, q)
  BY <1>4, EmptySeq DEF Drops, Silent
<1> QED BY <1>0, <1>1, <1>2, <1>3, <1>4 DEF Handles

(* A message keeps what is to sound going forward.                         *)
LEMMA HandleOnward ==
    ASSUME NEW p \in Pages, NEW q \in Pages, NEW m \in Messages, Awaits(p, m), Handles(p, m, q),
           Timeline(p), NEW s \in Nat, NEW last \in Nat \X Nat, NEW over \in SUBSET Utterances,
           NEW wider \in SUBSET Utterances, over \subseteq wider,
           Onward(p, s, last, over \cap replayed), Begun(p, s, last, over \cap replayed),
           Recalled(p, s, last, over),
           m.kind = "clear" /\ s # 0 => DOMAIN p.tracks \subseteq wider
    PROVE  /\ Onward(q, s, last, over \cap replayed) /\ Begun(q, s, last, over \cap replayed)
           /\ Recalled(q, s, last, wider)
<1> DEFINE back == over \cap replayed
<1>0. CASE q = p BY <1>0 DEF Recalled
<1>1. CASE m.kind = "audio_start" /\ Starts(p, m.u, q)
  <2>1. /\ q.queue = p.queue /\ q.shown = m.u /\ DOMAIN q.tracks = DOMAIN p.tracks \cup {m.u}
        /\ \A v \in DOMAIN p.tracks : q.tracks[v] = p.tracks[v]
        /\ m.u >= p.shown /\ (m.u > p.shown \/ m.u \in replayed) /\ m.u \notin DOMAIN p.tracks
    BY <1>1 DEF Starts, Awaits
  <2>2. m.u \in Nat BY <1>1, PlayerAssumption DEF Starts, Utterances
  <2>3. Onward(q, s, last, back)
    <3>1. s # 0 => last[1] <= q.shown
      BY <2>1, <2>2, PageNumbers DEF Onward
    <3> QED BY <2>1, <3>1 DEF Onward
  <2>4. ASSUME m.u \notin back
        PROVE  /\ \A k \in DOMAIN p.queue.blocks : p.queue.blocks[k][1] # m.u
               /\ s # 0 => last[1] # m.u
    <3>1. CASE m.u > p.shown
      BY <3>1, <2>2, PageNumbers DEF Timeline, Onward
    <3>2. CASE m.u = p.shown
      <4>1. p.shown \notin over BY <2>1, <2>2, <2>4, <3>2, PageNumbers
      <4> QED BY <2>1, <3>2, <4>1 DEF Recalled
    <3> QED BY <3>1, <3>2, <2>1, <2>2, PageNumbers
  <2>5. Begun(q, s, last, back) BY <2>1, <2>4 DEF Begun
  <2>6. Recalled(q, s, last, wider) BY <2>1 DEF Recalled
  <2> QED BY <2>3, <2>5, <2>6
<1>2. CASE m.kind = "audio_chunk" /\ Grows(p, m.u, m.i, q)
  <2> DEFINE u == m.u
             n == Len(p.queue.blocks)
  <2>1. /\ u \in DOMAIN p.tracks /\ u = p.shown /\ u \in Nat /\ m.i \in Nat
    <3>1. u \in DOMAIN p.tracks /\ m.i \in Nat BY <1>2 DEF Grows
    <3>2. u <= p.shown BY <3>1 DEF Timeline
    <3>3. u >= p.shown BY <1>2 DEF Awaits
    <3> QED BY <3>1, <3>2, <3>3, PageNumbers
  <2>2. /\ q.shown = p.shown /\ DOMAIN q.tracks = DOMAIN p.tracks
        /\ \A v \in DOMAIN p.tracks : v # u => q.tracks[v] = p.tracks[v]
    BY <1>2 DEF Grows
  <2>3. q.tracks[u].last = m.i + 1 /\ m.i >= p.tracks[u].last /\ q.tracks[u].length = p.tracks[u].length + 1
    BY <1>2 DEF Grows
  <2>4. /\ DOMAIN q.queue.blocks = DOMAIN p.queue.blocks \cup {n + 1}
        /\ q.queue.blocks[n + 1] = <<u, m.i>> /\ DOMAIN p.queue.blocks = 1 .. n
        /\ \A k \in DOMAIN p.queue.blocks : q.queue.blocks[k] = p.queue.blocks[k]
    BY <1>2, GrownQueue
  <2>5. n \in Nat /\ p.tracks[u].last \in Nat /\ p.tracks[u].length \in Nat BY <2>1, PageNumbers
  <2> HIDE DEF u, n
  <2>6. \A j \in DOMAIN p.queue.blocks : Forward(p.queue.blocks[j], <<u, m.i>>) \/ u \in back
    <3> SUFFICES ASSUME NEW j \in DOMAIN p.queue.blocks, u \notin back
                 PROVE  Forward(p.queue.blocks[j], <<u, m.i>>)
      OBVIOUS
    <3>1. p.queue.blocks[j][1] <= u BY <2>1 DEF Timeline
    <3>2. p.queue.blocks[j][1] = u => p.queue.blocks[j][2] < p.tracks[u].last
      BY <2>1 DEF Begun
    <3>3. p.queue.blocks[j][1] \in Nat /\ p.queue.blocks[j][2] \in Nat BY PageNumbers
    <3>4. p.queue.blocks[j][1] = u => p.queue.blocks[j][2] < m.i
      BY <2>1, <2>3, <2>5, <3>2, <3>3
    <3>5. <<u, m.i>>[1] = u /\ <<u, m.i>>[2] = m.i OBVIOUS
    <3> QED BY <2>1, <3>1, <3>3, <3>4, <3>5 DEF Forward
  <2>7. s # 0 => Forward(last, <<u, m.i>>) \/ u \in back
    <3> SUFFICES ASSUME s # 0, u \notin back PROVE  Forward(last, <<u, m.i>>)
      OBVIOUS
    <3>1. last[1] <= u /\ last[1] \in Nat /\ last[2] \in Nat BY <2>1 DEF Onward
    <3>2. last[1] = u => last[2] < p.tracks[u].last
      BY <2>1 DEF Begun
    <3>4. last[1] = u => last[2] < m.i
      BY <2>1, <2>3, <2>5, <3>1, <3>2
    <3>5. <<u, m.i>>[1] = u /\ <<u, m.i>>[2] = m.i OBVIOUS
    <3> QED BY <2>1, <3>1, <3>4, <3>5 DEF Forward
  <2>8. Onward(q, s, last, back)
    <3>1. ASSUME NEW j \in DOMAIN q.queue.blocks, NEW k \in DOMAIN q.queue.blocks, j < k
          PROVE  Forward(q.queue.blocks[j], q.queue.blocks[k]) \/ q.queue.blocks[k][1] \in back
      <4>1. j \in DOMAIN p.queue.blocks BY <2>4, <2>5, <3>1
      <4>2. CASE k = n + 1
        <5>1. q.queue.blocks[k][1] = u BY <2>4, <4>2
        <5> QED BY <2>4, <2>6, <4>1, <4>2, <5>1
      <4>3. CASE k # n + 1
        <5>1. k \in DOMAIN p.queue.blocks BY <2>4, <4>3
        <5> QED BY <2>4, <3>1, <4>1, <5>1 DEF Onward
      <4> QED BY <4>2, <4>3
    <3>2. ASSUME s # 0, NEW k \in DOMAIN q.queue.blocks
          PROVE  Forward(last, q.queue.blocks[k]) \/ q.queue.blocks[k][1] \in back
      <4>2. CASE k = n + 1
        <5>1. q.queue.blocks[k][1] = u BY <2>4, <4>2
        <5> QED BY <2>4, <2>7, <3>2, <4>2, <5>1
      <4>3. CASE k # n + 1
        <5>1. k \in DOMAIN p.queue.blocks BY <2>4, <4>3
        <5> QED BY <2>4, <3>2, <5>1 DEF Onward
      <4> QED BY <4>2, <4>3
    <3> QED BY <2>2, <3>1, <3>2 DEF Onward
  <2>9. Begun(q, s, last, back)
    <3> SUFFICES ASSUME NEW v \in DOMAIN q.tracks \ back
                 PROVE /\ \A k \in DOMAIN q.queue.blocks : q.queue.blocks[k][1] = v =>
                                q.queue.blocks[k][2] < q.tracks[v].last /\ q.tracks[v].length > 0
                       /\ s # 0 /\ last[1] = v => last[2] < q.tracks[v].last /\ q.tracks[v].length > 0
      BY DEF Begun
    <3>1. CASE v # u
      BY <2>2, <2>4, <3>1 DEF Begun
    <3>2. CASE v = u
      <4>1. q.tracks[u].length > 0 BY <2>3, <2>5
      <4>2. \A x \in Nat : x < p.tracks[u].last => x < q.tracks[u].last BY <2>1, <2>3, <2>5
      <4>3. ASSUME NEW k \in DOMAIN p.queue.blocks, p.queue.blocks[k][1] = u
            PROVE  q.queue.blocks[k][2] < q.tracks[u].last
        BY <2>1, <2>4, <3>2, <4>2, <4>3, PageNumbers DEF Begun
      <4>4. q.queue.blocks[n + 1][2] < q.tracks[u].last BY <2>1, <2>3, <2>4
      <4>5. s # 0 /\ last[1] = u => last[2] < q.tracks[u].last
        BY <2>1, <3>2, <4>2 DEF Begun
      <4> QED BY <2>4, <3>2, <4>1, <4>3, <4>4, <4>5
    <3> QED BY <3>1, <3>2
  <2>10. Recalled(q, s, last, wider) BY <2>1, <2>2 DEF Recalled
  <2> QED BY <2>8, <2>9, <2>10
<1>3. CASE m.kind = "audio_end" /\ Ends(p, m.u, q)
  <2>1. /\ SameTracks(p, q) /\ q.queue.blocks = p.queue.blocks /\ q.shown = p.shown
        /\ DOMAIN q.tracks = IF p.tracks[m.u].length > 0 THEN DOMAIN p.tracks ELSE DOMAIN p.tracks \ {m.u}
        /\ m.u \in DOMAIN p.tracks
    BY <1>3 DEF Ends
  <2>2. Onward(q, s, last, back) BY <2>1 DEF Onward
  <2>3. Begun(q, s, last, back) BY <2>1 DEF Begun, SameTracks
  <2>q. q.shown = p.shown /\ q.queue.blocks = p.queue.blocks BY <2>1
  <2>4. CASE p.shown \in DOMAIN q.tracks \cup over BY <2>2, <2>3, <2>q, <2>4 DEF Recalled
  <2>5. CASE p.shown \notin DOMAIN p.tracks \cup over
    <3>1. /\ \A k \in DOMAIN p.queue.blocks : p.queue.blocks[k][1] # p.shown
          /\ s # 0 => last[1] # p.shown
      BY <2>5 DEF Recalled
    <3> QED BY <2>2, <2>3, <2>q, <3>1 DEF Recalled
  <2>6. CASE p.shown \in DOMAIN p.tracks \ DOMAIN q.tracks /\ p.shown \notin over
    <3>1. m.u = p.shown /\ ~ (p.tracks[m.u].length > 0) BY <2>1, <2>6
    <3>2. p.shown \in DOMAIN p.tracks \ back BY <2>6
    <3>3. /\ \A k \in DOMAIN p.queue.blocks : p.queue.blocks[k][1] # p.shown
          /\ s # 0 => last[1] # p.shown
      BY <3>1, <3>2 DEF Begun
    <3> QED BY <2>2, <2>3, <2>q, <3>3 DEF Recalled
  <2> QED BY <2>2, <2>3, <2>4, <2>5, <2>6
<1>4. CASE m.kind = "clear" /\ Drops(p, q)
  <2>1. DOMAIN q.tracks = {} /\ DOMAIN q.queue.blocks = {} /\ q.shown = p.shown
    BY <1>4, EmptySeq DEF Drops
  <2>2. Onward(q, s, last, back) BY <2>1 DEF Onward
  <2>3. Begun(q, s, last, back) BY <2>1 DEF Begun
  <2>4. Recalled(q, s, last, wider) BY <1>4, <2>1 DEF Recalled
  <2> QED BY <2>2, <2>3, <2>4
<1> QED BY <1>0, <1>1, <1>2, <1>3, <1>4 DEF Handles

(* A nonempty set of numbers has a least one.                              *)
LEMMA LeastNumber ==
  ASSUME NEW T, T \subseteq Nat, T # {}
  PROVE  \E n \in T : \A m \in T : n <= m
<1>1. IsWellFoundedOn(OpToRel(<, Nat), Nat)
  BY NatLessThanWellFounded
<1>2. PICK n \in T : \A m \in T : ~ (<<m, n>> \in OpToRel(<, Nat))
  BY <1>1, WFMin
<1>3. \A m \in T : ~ (m < n)
  BY <1>2 DEF OpToRel
<1> QED BY <1>3


(* Induction over 0 .. n, for a set.                                       *)
LEMMA CountUp ==
  ASSUME NEW n \in Nat, NEW G, 0 \in G, \A k \in 1 .. n : k - 1 \in G => k \in G
  PROVE  \A k \in 0 .. n : k \in G
<1> DEFINE T == {k \in 0 .. n : k \notin G}
<1> SUFFICES ASSUME T # {} PROVE FALSE OBVIOUS
<1>1. PICK k \in T : \A j \in T : k <= j
  <2>1. T \subseteq Nat OBVIOUS
  <2> HIDE DEF T
  <2> QED BY <2>1, LeastNumber
<1>2. k \in 1 .. n /\ k \notin G /\ k - 1 \in 0 .. n /\ ~ (k <= k - 1) OBVIOUS
<1>3. k - 1 \in G BY <1>1, <1>2
<1> QED BY <1>2, <1>3

(* The recursion FoldLeft stands for: over sets of indices, from the last. *)
Folded(b, s, it, S) == IF S = {} THEN b ELSE Handle(it[S \ {Max(S)}], s[Max(S)])

(* The last index of a set that contains n.                                *)
LEMMA MaxOfInterval ==
  ASSUME NEW n \in Nat, NEW S \in SUBSET (1 .. n), n \in S
  PROVE  Max(S) = n
<1>1. n \in S /\ \A y \in S : n >= y OBVIOUS
<1>2. \A x \in S : (\A y \in S : x >= y) => x = n OBVIOUS
<1> QED BY <1>1, <1>2 DEF Max

(* There is a function that satisfies the recursion.                       *)
LEMMA FoldExists ==
  ASSUME NEW b, NEW s, NEW n \in Nat
  PROVE  \E it : it = [S \in SUBSET (1 .. n) |-> Folded(b, s, it, S)]
<1> DEFINE Upto(m, it) == \A S \in SUBSET (1 .. m) : it[S] = Folded(b, s, it, S)
           T == {m \in Nat : m <= n /\ ~ \E it : Upto(m, it)}
<1>1. 0 \notin T
  <2> DEFINE it == [S \in SUBSET (1 .. 0) |-> b]
  <2>1. \A S \in SUBSET (1 .. 0) : S = {} OBVIOUS
  <2>2. Upto(0, it) BY <2>1 DEF Folded
  <2> QED BY <2>2
<1>2. ASSUME NEW m \in Nat, m + 1 <= n, m \notin T PROVE m + 1 \notin T
  <2>1. PICK it : Upto(m, it) BY <1>2
  <2> DEFINE jt == [S \in SUBSET (1 .. m + 1) |->
                      IF m + 1 \in S THEN Handle(it[S \ {m + 1}], s[m + 1]) ELSE it[S]]
  <2>2. ASSUME NEW S \in SUBSET (1 .. m + 1) PROVE jt[S] = Folded(b, s, jt, S)
    <3>1. CASE m + 1 \in S
      <4>1. Max(S) = m + 1 BY <3>1, MaxOfInterval
      <4>2. S \ {m + 1} \in SUBSET (1 .. m + 1) /\ m + 1 \notin S \ {m + 1} OBVIOUS
      <4>3. jt[S \ {m + 1}] = it[S \ {m + 1}] BY <4>2
      <4> QED BY <3>1, <4>1, <4>3 DEF Folded
    <3>2. CASE m + 1 \notin S
      <4>1. S \in SUBSET (1 .. m) BY <3>2
      <4>2. jt[S] = it[S] BY <3>2
      <4>3. S \ {Max(S)} \in SUBSET (1 .. m + 1) /\ m + 1 \notin S \ {Max(S)} BY <3>2
      <4>4. jt[S \ {Max(S)}] = it[S \ {Max(S)}] BY <4>3
      <4>5. it[S] = Folded(b, s, it, S) BY <2>1, <4>1
      <4> QED BY <4>2, <4>4, <4>5 DEF Folded
    <3> QED BY <3>1, <3>2
  <2> HIDE DEF jt
  <2>3. Upto(m + 1, jt) BY <2>2
  <2> QED BY <2>3
<1>3. T = {}
  <2> SUFFICES ASSUME T # {} PROVE FALSE OBVIOUS
  <2>1. PICK k \in T : \A j \in T : k <= j 
    <3>1. T \subseteq Nat OBVIOUS
    <3> HIDE DEF T
    <3> QED BY <3>1, LeastNumber
  <2>2. k \in Nat /\ k <= n OBVIOUS
  <2>3. k # 0 BY <1>1
  <2>4. k - 1 \in Nat /\ (k - 1) + 1 = k /\ (k - 1) + 1 <= n BY <2>2, <2>3
  <2> HIDE DEF T
  <2>5. k - 1 \notin T BY <2>1, <2>4
  <2> QED BY <1>2, <2>4, <2>5
<1>4. PICK it : Upto(n, it)
  <2> HIDE DEF Upto
  <2>1. n \notin T
    <3> HIDE DEF T
    <3> QED BY <1>3
  <2> QED BY <2>1
<1> DEFINE jt == [S \in SUBSET (1 .. n) |-> it[S]]
<1>5. ASSUME NEW S \in SUBSET (1 .. n) PROVE jt[S] = Folded(b, s, jt, S)
  <2>1. S \ {Max(S)} \in SUBSET (1 .. n) OBVIOUS
  <2>2. jt[S \ {Max(S)}] = it[S \ {Max(S)}] /\ jt[S] = it[S] BY <2>1
  <2> QED BY <2>2, <1>4 DEF Folded
<1>6. jt = [S \in SUBSET (1 .. n) |-> jt[S]] OBVIOUS
<1> HIDE DEF jt
<1>7. jt = [S \in SUBSET (1 .. n) |-> Folded(b, s, jt, S)] BY <1>5, <1>6
<1> QED BY <1>7

(* FoldLeft handles the messages one after another.                        *)
Stages(b, s, f) ==
    /\ f[0] = b
    /\ \A k \in 1 .. Len(s) : f[k] = Handle(f[k - 1], s[k])
    /\ FoldLeft(Handle, b, s) = f[Len(s)]

LEMMA FoldLeftSteps == ASSUME NEW b, NEW D, NEW s \in Seq(D) PROVE \E f : Stages(b, s, f)
<1> DEFINE n == Len(s)
           it == CHOOSE it : it = [S \in SUBSET DOMAIN s |-> Folded(b, s, it, S)]
           f == [k \in 0 .. n |-> it[1 .. k]]
<1>0. n \in Nat /\ DOMAIN s = 1 .. n OBVIOUS
<1>1. FoldLeft(Handle, b, s) = it[DOMAIN s] BY Zenon DEF FoldLeft, MapThenFoldSet, Folded
<1>2. it = [S \in SUBSET (1 .. n) |-> Folded(b, s, it, S)] BY <1>0, FoldExists
<1> HIDE DEF it, n
<1>3. FoldLeft(Handle, b, s) = f[n] BY <1>0, <1>1
<1>4. f[0] = b
  <2>1. 1 .. 0 = {} /\ f[0] = it[1 .. 0] BY <1>0
  <2> QED BY <2>1, <1>2 DEF Folded
<1>5. ASSUME NEW k \in 1 .. n PROVE f[k] = Handle(f[k - 1], s[k])
  <2>1. Max(1 .. k) = k BY <1>0, MaxOfInterval
  <2>2. (1 .. k) \ {k} = 1 .. (k - 1) BY <1>0
  <2>3. (1 .. k) \in SUBSET (1 .. n) /\ 1 .. k # {} BY <1>0
  <2>4. it[1 .. k] = Handle(it[1 .. (k - 1)], s[k]) BY <1>2, <2>1, <2>2, <2>3 DEF Folded
  <2>5. f[k] = it[1 .. k] /\ f[k - 1] = it[1 .. (k - 1)] BY <1>0
  <2> QED BY <2>4, <2>5
<1> HIDE DEF f
<1>6. Stages(b, s, f) BY <1>3, <1>4, <1>5 DEF n, Stages
<1> QED BY <1>6

(* The same, of messages.                                                  *)
LEMMA HandledInTurn ==
    ASSUME NEW p, NEW s \in Seq(Messages)
    PROVE  \E f : /\ f[0] = p
                  /\ \A k \in 1 .. Len(s) : f[k] = Handle(f[k - 1], s[k])
                  /\ FoldLeft(Handle, p, s) = f[Len(s)]
<1>1. PICK f : Stages(p, s, f) BY FoldLeftSteps
<1> QED BY <1>1 DEF Stages

(* Any number of messages makes a page of a page.                          *)
LEMMA FoldTyped ==
    ASSUME NEW p \in Pages, NEW s \in Seq(Messages)
    PROVE  FoldLeft(Handle, p, s) \in Pages
<1>1. PICK f : /\ f[0] = p
               /\ \A k \in 1 .. Len(s) : f[k] = Handle(f[k - 1], s[k])
               /\ FoldLeft(Handle, p, s) = f[Len(s)]
  BY HandledInTurn
<1> DEFINE G == {k \in 0 .. Len(s) : f[k] \in Pages}
<1>2. Len(s) \in Nat /\ 0 \in G BY <1>1
<1>3. ASSUME NEW k \in 1 .. Len(s), k - 1 \in G PROVE k \in G
  <2>1. s[k] \in Messages BY ElementOfSeq
  <2> QED BY <1>1, <1>3, <2>1, HandleCases
<1>4. \A k \in 0 .. Len(s) : k \in G
  <2> HIDE DEF G
  <2> QED BY <1>2, <1>3, CountUp
<1> QED BY <1>1, <1>2, <1>4

-----------------------------------------------------------------------------
(* A message that may come keeps a page sound.                             *)
LEMMA HandleSound ==
    ASSUME NEW p \in Pages, NEW m \in Messages, Awaits(p, m),
           NEW s \in Nat, heard \in [Utterances -> Nat], NEW un \in Nat, gone.stopped \in SUBSET Utterances,
           NEW last \in Nat \X Nat, NEW over \in SUBSET Utterances, NEW wider \in SUBSET Utterances,
           over \subseteq wider,
           Sound(p, s, last, un, over),
           m.kind = "clear" => s <= p.played + un,
           m.kind = "clear" /\ s # 0 => DOMAIN p.tracks \subseteq wider
    PROVE  LET q == Handle(p, m) IN
           /\ q \in Pages /\ Timeline(q)
           /\ Heard(q, s, heard, un)
           /\ Silent(q, gone.stopped, replayed)
           /\ Onward(q, s, last, over \cap replayed) /\ Begun(q, s, last, over \cap replayed)
           /\ Recalled(q, s, last, wider)
           /\ q.shown = p.shown \/ (m.kind = "audio_start" /\ q.shown = m.u)
<1> DEFINE q == Handle(p, m)
<1>1. q \in Pages /\ Handles(p, m, q) BY HandleCases
<1> HIDE DEF q
<1>2. Timeline(q) BY <1>1, HandleTimeline DEF Sound
<1>3. Heard(q, s, heard, un) BY <1>1, HandleHeard DEF Sound
<1>4. Silent(q, gone.stopped, replayed) BY <1>1, HandleSilent DEF Sound
<1>5. /\ Onward(q, s, last, over \cap replayed) /\ Begun(q, s, last, over \cap replayed)
      /\ Recalled(q, s, last, wider)
  <2>1. /\ Onward(p, s, last, over \cap replayed) /\ Begun(p, s, last, over \cap replayed)
        /\ Recalled(p, s, last, over) /\ Timeline(p)
    BY DEF Sound
  <2> QED BY <1>1, <2>1, HandleOnward
<1>6. q.shown = p.shown \/ (m.kind = "audio_start" /\ q.shown = m.u)
  BY <1>1 DEF Handles, Starts, Grows, Ends, Drops
<1> QED BY <1>1, <1>2, <1>3, <1>4, <1>5, <1>6 DEF q

(* So do all that waited for the speaker, none of which has sounded, and   *)
(* each is one that may come.                                              *)
LEMMA FoldInTurn ==
    ASSUME NEW p \in Pages, NEW s \in Seq(Messages), NEW hi \in Nat,
           InRow(s, p.shown, hi), Firsts(s, p.shown, replayed),
           heard \in [Utterances -> Nat], NEW un \in Nat, gone.stopped \in SUBSET Utterances,
           NEW last \in Nat \X Nat, NEW over \in SUBSET Utterances,
           Sound(p, 0, last, un, over),
           NEW f, f[0] = p, \A k \in 1 .. Len(s) : f[k] = Handle(f[k - 1], s[k])
    PROVE  /\ \A k \in 1 .. Len(s) : Awaits(f[k - 1], s[k])
           /\ \A k \in 0 .. Len(s) : Sound(f[k], 0, last, un, over)
           /\ \/ f[Len(s)].shown = p.shown
              \/ \E k \in DOMAIN s : s[k].kind = "audio_start" /\ f[Len(s)].shown = s[k].u
<1> DEFINE n == Len(s)
<1>u. Utterances \subseteq Nat BY PlayerAssumption DEF Utterances
<1> DEFINE Shows(k) == \/ f[k].shown = p.shown
                       \/ \E j \in 1 .. k : s[j].kind = "audio_start" /\ f[k].shown = s[j].u
           G == {k \in 0 .. n : Sound(f[k], 0, last, un, over) /\ Shows(k)}
<1>2. n \in Nat /\ DOMAIN s = 1 .. n OBVIOUS
<1>3. 0 \in G BY <1>2
<1>a. ASSUME NEW k \in 1 .. n, Shows(k - 1) PROVE Awaits(f[k - 1], s[k])
  <2>2. s[k] \in Messages /\ k \in DOMAIN s BY <1>2, ElementOfSeq
  <2>1. Shows(k - 1) BY <1>a
  <2>3. Awaits(f[k - 1], s[k])
    <3>1. CASE s[k].kind = "clear" BY <2>2, <3>1 DEF Awaits
    <3>2. CASE s[k].kind # "clear" /\ f[k - 1].shown = p.shown
      <4>1. s[k].u >= p.shown BY <2>2, <3>2 DEF InRow
      <4>2. s[k].kind = "audio_start" => s[k].u > p.shown \/ s[k].u \in replayed
        BY <2>2 DEF Firsts
      <4> QED BY <2>2, <3>2, <4>1, <4>2 DEF Awaits
    <3>3. ASSUME s[k].kind # "clear", NEW j \in 1 .. (k - 1), s[j].kind = "audio_start", f[k - 1].shown = s[j].u
          PROVE  Awaits(f[k - 1], s[k])
      <4>1. j \in DOMAIN s /\ j < k /\ s[j] \in Messages BY <1>2, ElementOfSeq
      <4>2. s[j].u <= s[k].u BY <2>2, <3>3, <4>1 DEF InRow
      <4>3. s[j].u \in Nat /\ s[k].u \in Nat
        BY <1>u, <2>2, <3>3, <4>1, MessageKinds
      <4>4. ASSUME s[k].kind = "audio_start", s[k].u \notin replayed PROVE s[k].u # s[j].u
        <5> SUFFICES ASSUME s[k].u = s[j].u PROVE FALSE OBVIOUS
        <5>1. s[k] = s[j] BY <2>2, <3>3, <4>1, <4>4, MessageKinds
        <5> QED BY <2>2, <4>1, <4>4, <5>1 DEF Firsts
      <4>5. s[k].u >= s[j].u /\ (s[k].u # s[j].u => s[k].u > s[j].u) BY <4>2, <4>3
      <4> QED BY <2>2, <3>3, <4>4, <4>5 DEF Awaits
    <3> QED BY <2>1, <3>1, <3>2, <3>3
  <2> QED BY <2>3
<1>4. ASSUME NEW k \in 1 .. n, k - 1 \in G PROVE k \in G
  <2>1. Sound(f[k - 1], 0, last, un, over) /\ Shows(k - 1) /\ f[k - 1] \in Pages
    BY <1>4 DEF Sound
  <2>2. s[k] \in Messages BY <1>2, ElementOfSeq
  <2>3. Awaits(f[k - 1], s[k])
    <3> HIDE DEF Shows
    <3> QED BY <1>a, <2>1
  <2>4. f[k] = Handle(f[k - 1], s[k]) OBVIOUS
  <2>5. f[k - 1].played \in Nat BY <2>1, PageNumbers
  <2>6. 0 <= f[k - 1].played + un BY <2>5
  <2>7. /\ Sound(f[k], 0, last, un, over)
        /\ f[k].shown = f[k - 1].shown \/ (s[k].kind = "audio_start" /\ f[k].shown = s[k].u)
    <3> DEFINE g == f[k - 1]
               m == s[k]
    <3>1. g \in Pages /\ m \in Messages /\ Awaits(g, m) /\ Sound(g, 0, last, un, over) /\ 0 <= g.played + un
      BY <2>1, <2>2, <2>3, <2>6
    <3>2. f[k] = Handle(g, m) BY <2>4
    <3> HIDE DEF g, m
    <3>3. LET q == Handle(g, m) IN
           /\ q \in Pages /\ Timeline(q)
           /\ Heard(q, 0, heard, un)
           /\ Silent(q, gone.stopped, replayed)
           /\ Onward(q, 0, last, over \cap replayed) /\ Begun(q, 0, last, over \cap replayed)
           /\ Recalled(q, 0, last, over)
           /\ q.shown = g.shown \/ (m.kind = "audio_start" /\ q.shown = m.u)
      BY <3>1, HandleSound
    <3>4. Sound(f[k], 0, last, un, over) BY <3>2, <3>3 DEF Sound
    <3>5. f[k].shown = g.shown \/ (m.kind = "audio_start" /\ f[k].shown = m.u)
      BY <3>2, <3>3
    <3> QED BY <3>4, <3>5 DEF g, m
  <2>8. Shows(k) BY <2>1, <2>7
  <2> QED BY <2>7, <2>8
<1>5. \A k \in 0 .. n : k \in G
  <2> HIDE DEF G, n
  <2> QED BY <1>2, <1>3, <1>4, CountUp
<1>6. ASSUME NEW k \in 1 .. n PROVE Awaits(f[k - 1], s[k])
  <2>1. k - 1 \in 0 .. n BY <1>2
  <2>2. Shows(k - 1) BY <1>5, <2>1
  <2> HIDE DEF Shows
  <2> QED BY <1>a, <2>2
<1>7. Sound(f[n], 0, last, un, over) /\ Shows(n) BY <1>2, <1>5
<1> QED BY <1>2, <1>5, <1>6, <1>7

-----------------------------------------------------------------------------
(* The invariant holds of a page just mounted.                             *)
LEMMA InitInv == Init => Inv
<1> SUFFICES ASSUME Init PROVE Inv OBVIOUS
<1>u. Utterances \subseteq Nat BY PlayerAssumption DEF Utterances
<1>1. page \in Pages
  <2>1. page.queue \in Queues BY EmptySeq DEF Init, Emptied, Queues
  <2>2. page.marked \in [Utterances -> Nat] BY DEF Init
  <2>3. page.tracks \in TrackSets BY TracksTyped DEF Init
  <2>4. page = [tracks |-> page.tracks, written |-> 0, played |-> 0, shown |-> 0, status |-> "idle",
                queue |-> page.queue, marked |-> page.marked]
    BY DEF Init
  <2>5. 0 \in 0 .. Len(Chunks) BY PlayerAssumption
  <2> QED BY <2>1, <2>2, <2>3, <2>4, <2>5 DEF Pages
<1>2. wire = <<>> /\ pending = <<>> /\ reports = <<>> /\ page.queue.blocks = <<>>
  BY DEF Init, Emptied
<1>3. page.written = 0 /\ page.played = 0 /\ page.shown = 0 /\ DOMAIN page.tracks = {}
  BY TracksTyped DEF Init
<1>4. /\ utterance = 0 /\ sent = 0 /\ phase = "between" /\ clearing = FALSE /\ online = TRUE
      /\ speaker = "none" /\ closed = FALSE /\ sounded = 0 /\ lastOut = <<0, 0>> /\ unreported = 0
      /\ gone = [done |-> {}, stopped |-> {}] /\ replayed = {}
      /\ heard = [u \in Utterances |-> 0] /\ \A u \in Utterances : page.marked[u] = 0
  BY DEF Init
<1>5. Typed
  <2>1. 0 \in 0 .. Len(Chunks) BY PlayerAssumption
  <2>2. wire \in Seq(Messages) /\ pending \in Seq(Messages) /\ reports \in Seq(Nat) BY <1>2, EmptySeq
  <2> QED BY <1>1, <1>4, <2>1, <2>2 DEF Typed
<1>6. Untouched BY <1>2, <1>3, <1>4 DEF Untouched
<1>7. DOMAIN Coming = {} /\ DOMAIN reports = {} /\ DOMAIN page.queue.blocks = {} /\ Len(page.queue.blocks) = 0
  BY <1>2, EmptySeq DEF Coming
<1>8. InTurn
  BY <1>3, <1>4, <1>7 DEF InTurn, InRow, Firsts
<1>9. Reported BY <1>7 DEF Reported
<1>10. PageSound
  <2>1. Timeline(page) BY <1>3, <1>7 DEF Timeline
  <2>2. Lags(page, sounded, unreported) BY <1>3, <1>4, <1>7 DEF Lags
  <2>3. Heard(page, sounded, heard, unreported)
    BY <1>3, <1>4, <2>2 DEF Heard
  <2>4. Silent(page, gone.stopped, replayed) BY <1>3, <1>4, <1>7 DEF Silent
  <2>5. /\ Onward(page, sounded, lastOut, GoneBy \cap replayed)
        /\ Begun(page, sounded, lastOut, GoneBy \cap replayed)
    BY <1>3, <1>4, <1>7 DEF Onward, Begun
  <2>6. Recalled(page, sounded, lastOut, GoneBy) BY <1>4, <1>7 DEF Recalled
  <2> QED BY <1>1, <2>1, <2>3, <2>4, <2>5, <2>6 DEF PageSound, Sound
<1>11. Waits(page) BY DEF Init, Emptied, Waits
<1> QED BY <1>5, <1>6, <1>8, <1>9, <1>10, <1>11 DEF Inv

(* The replay buffer is of the utterance in flight, and clears nothing.    *)
LEMMA BufferInTurn ==
    ASSUME Typed
    PROVE  /\ Buffer \in Seq(Messages)
           /\ phase = "between" => Buffer = <<>>
           /\ \A k \in DOMAIN Buffer : Buffer[k].kind # "clear" /\ Buffer[k].u = utterance
<1>1. CASE phase = "between" BY <1>1, EmptySeq DEF Buffer
<1>2. CASE phase # "between"
  <2>1. utterance \in Utterances /\ sent \in Nat /\ sent <= Chunks[utterance]
    BY <1>2 DEF Typed
  <2>2. Chunks[utterance] \in Nat BY <2>1, PlayerAssumption DEF Utterances
  <2> DEFINE MoreOf == {m \in Messages : m.kind # "clear" /\ m.u = utterance}
             a == <<Start(utterance)>>
             b == [k \in 1 .. sent |-> Chunk(utterance, k - 1)]
             c == IF phase = "ended" THEN <<End(utterance)>> ELSE <<>>
  <2>3. Start(utterance) \in MoreOf /\ End(utterance) \in MoreOf
    BY <2>1 DEF Messages, Start, End
  <2>4. \A k \in 1 .. sent : Chunk(utterance, k - 1) \in MoreOf
    <3> SUFFICES ASSUME NEW k \in 1 .. sent PROVE Chunk(utterance, k - 1) \in MoreOf OBVIOUS
    <3>1. k - 1 \in 0 .. Chunks[utterance] - 1 BY <2>1, <2>2
    <3>2. Chunk(utterance, k - 1) \in Messages BY <2>1, <3>1 DEF Messages
    <3> QED BY <3>2 DEF Chunk
  <2>5. Buffer = (a \o b) \o c BY <1>2 DEF Buffer
  <2> HIDE DEF MoreOf
  <2>6. a \in Seq(MoreOf) /\ b \in Seq(MoreOf) /\ c \in Seq(MoreOf)
    BY <2>1, <2>3, <2>4, EmptySeq
  <2> HIDE DEF a, b, c
  <2>7. Buffer \in Seq(MoreOf) BY <2>5, <2>6, ConcatProperties
  <2>8. \A k \in DOMAIN Buffer : Buffer[k] \in MoreOf BY <2>7
  <2>9. MoreOf \subseteq Messages BY DEF MoreOf
  <2>10. Buffer \in Seq(Messages) BY <2>7, <2>9
  <2> QED BY <1>2, <2>8, <2>10 DEF MoreOf
<1> QED BY <1>1, <1>2

(* What onPlayed makes of the page.                                        *)
Plays(p, n, q) ==
    /\ SameTracks(p, q) /\ q.queue = p.queue /\ q.written = p.written /\ q.played = n /\ q.shown = p.shown
    /\ \A u \in Utterances :
          q.marked[u] = p.marked[u]
          \/ (u \in DOMAIN p.tracks /\ q.marked[u] = Larger(p.marked[u], PlayedOf([p EXCEPT !.played = n], u)))

(* onPlayed keeps what is written, and shrinks the tracks to those left.   *)
LEMMA PlayedPage ==
    ASSUME NEW p \in Pages, NEW n \in Nat,
           NEW due \in SUBSET DOMAIN Without(p.tracks, Done([p EXCEPT !.played = n]))
    PROVE  LET r == [p EXCEPT !.played = n]
               left == Without(r.tracks, Done(r))
               q == [Mark(r, due \cup Done(r)) EXCEPT
                            !.tracks = left,
                            !.status = IF r.shown \notin DOMAIN r.tracks THEN @
                                       ELSE IF DOMAIN left = {} THEN "idle" ELSE "playing"]
           IN  q \in Pages /\ Plays(p, n, q)
<1> DEFINE r == [p EXCEPT !.played = n]
           left == Without(r.tracks, Done(r))
           S == due \cup Done(r)
           m == Mark(r, S)
           st == IF r.shown \notin DOMAIN r.tracks THEN m.status
                 ELSE IF DOMAIN left = {} THEN "idle" ELSE "playing"
           q == [m EXCEPT !.tracks = left, !.status = st]
<1>1. /\ r \in Pages /\ r.tracks = p.tracks /\ r.written = p.written /\ r.played = n
      /\ r.shown = p.shown /\ r.queue = p.queue /\ r.marked = p.marked
  BY DEF Pages
<1>2. Done(r) \subseteq DOMAIN r.tracks /\ due \subseteq DOMAIN Without(r.tracks, Done(r)) BY <1>1 DEF Done
<1>3. /\ left \in TrackSets /\ DOMAIN left = DOMAIN p.tracks \ Done(r)
      /\ \A v \in DOMAIN left : left[v] = p.tracks[v]
  <2>1. r.tracks \in TrackSets BY <1>1 DEF Pages
  <2>2. /\ left \in TrackSets /\ DOMAIN left = DOMAIN r.tracks \ Done(r)
        /\ \A v \in DOMAIN r.tracks \ Done(r) : left[v] = r.tracks[v]
    BY <2>1, WithoutTracks
  <2> HIDE DEF r, left
  <2> QED BY <1>1, <2>2
<1>4. S \in SUBSET DOMAIN r.tracks BY <1>1, <1>2, <1>3
<1> HIDE DEF left, S
<1>5. /\ m \in Pages /\ \A u \in Utterances : m.marked[u] =
            IF u \in S THEN Larger(r.marked[u], PlayedOf(r, u)) ELSE r.marked[u]
      /\ m.tracks = r.tracks /\ m.written = r.written /\ m.played = r.played
      /\ m.shown = r.shown /\ m.status = r.status /\ m.queue = r.queue
  <2>1. r \in Pages /\ S \in SUBSET DOMAIN r.tracks BY <1>1, <1>4
  <2> HIDE DEF r
  <2> QED BY <2>1, MarkPage
<1> HIDE DEF m
<1>6. st \in {"idle", "playing"} BY <1>5 DEF Pages
<1> HIDE DEF st
<1>7. /\ q \in Pages /\ q.tracks = left /\ q.written = m.written /\ q.played = m.played
      /\ q.shown = m.shown /\ q.queue = m.queue /\ q.marked = m.marked
  BY <1>3, <1>5, <1>6 DEF Pages
<1>8. SameTracks(p, q) BY <1>3, <1>7 DEF SameTracks
<1>9. \A u \in Utterances :
          q.marked[u] = p.marked[u]
          \/ (u \in DOMAIN p.tracks /\ q.marked[u] = Larger(p.marked[u], PlayedOf([p EXCEPT !.played = n], u)))
  BY <1>1, <1>4, <1>5, <1>7
<1>10. Plays(p, n, q) BY <1>1, <1>5, <1>7, <1>8, <1>9 DEF Plays
<1>11. [Mark(r, S) EXCEPT !.tracks = left,
                          !.status = IF r.shown \notin DOMAIN r.tracks THEN @
                                     ELSE IF DOMAIN left = {} THEN "idle" ELSE "playing"] = q
  BY DEF m, st
<1> QED BY <1>7, <1>10, <1>11 DEF left, S

(* process takes one unit off the queue.                                   *)
LEMMA SoundedPage ==
    ASSUME NEW p \in Pages, p.queue.blocks # <<>>, NEW dry \in BOOLEAN
    PROVE  LET q == [p EXCEPT !.queue = [blocks |-> Tail(@.blocks), waiting |-> dry,
                                         draining |-> @.draining /\ ~dry]]
           IN  /\ q \in Pages /\ q.queue.blocks = Tail(p.queue.blocks)
               /\ q.tracks = p.tracks /\ q.written = p.written /\ q.played = p.played
               /\ q.shown = p.shown /\ q.status = p.status /\ q.marked = p.marked
<1> DEFINE r == [blocks |-> Tail(p.queue.blocks), waiting |-> dry, draining |-> p.queue.draining /\ ~dry]
           q == [p EXCEPT !.queue = r]
<1>1. Tail(p.queue.blocks) \in Seq(Blocks) /\ p.queue.draining \in BOOLEAN
  BY HeadTailProperties DEF Pages, Queues
<1>2. r \in Queues /\ r.blocks = Tail(p.queue.blocks)
  <2> DEFINE d == p.queue.draining /\ ~dry
             t == Tail(p.queue.blocks)
  <2>1. d \in BOOLEAN OBVIOUS
  <2>2. t \in Seq(Blocks) BY <1>1
  <2>3. r = [blocks |-> t, waiting |-> dry, draining |-> d] OBVIOUS
  <2> HIDE DEF d, r
  <2> QED BY <2>1, <2>2, <2>3 DEF Queues
<1> HIDE DEF r
<1>3. /\ q \in Pages /\ q.queue = r
      /\ q.tracks = p.tracks /\ q.written = p.written /\ q.played = p.played
      /\ q.shown = p.shown /\ q.status = p.status /\ q.marked = p.marked
  BY <1>2 DEF Pages
<1> QED BY <1>2, <1>3 DEF r

(* The history of tracks gone stays one of utterances.                     *)
LEMMA GoneTyped ==
    ASSUME Typed, page' \in Pages, Over(page') \/ Stopped(page')
    PROVE  gone' \in [done : SUBSET Utterances, stopped : SUBSET Utterances]
<1>1. Dropping(page') \in SUBSET Utterances BY PageNumbers DEF Typed, Dropping
<1> DEFINE D == gone.done \cup Dropping(page')
           E == gone.stopped \cup Dropping(page')
<1>2. D \in SUBSET Utterances /\ E \in SUBSET Utterances BY <1>1 DEF Typed
<1>3. gone' = [gone EXCEPT !.done = D] \/ gone' = [gone EXCEPT !.stopped = E]
  BY DEF Over, Stopped
<1> HIDE DEF D, E
<1> QED BY <1>2, <1>3 DEF Typed

(* What sounded unreported covers the lag of the last report.              *)
LEMMA UnreportedTyped ==
    ASSUME Typed
    PROVE  Unreported \in Nat /\ Unreported >= unreported /\ sounded <= page.played + Unreported
<1>1. sounded \in Nat /\ unreported \in Nat /\ page.played \in Nat BY PageNumbers DEF Typed
<1> DEFINE n == page.played
<1> HIDE DEF n
<1>2. n \in Nat /\ Unreported = Larger(unreported, sounded - n) BY <1>1 DEF Unreported, n
<1>3. Unreported \in Nat /\ Unreported >= unreported /\ sounded <= n + Unreported
  BY <1>1, <1>2 DEF Larger
<1> QED BY <1>3 DEF n

(* The step of onPlayed.                                                   *)
LEMMA PlayedStep ==
    ASSUME Typed, OnPlayed
    PROVE  page' \in Pages /\ Plays(page, Head(reports), page')
<1> DEFINE n == Head(reports)
<1>1. n \in Nat /\ page \in Pages BY HeadTailProperties DEF OnPlayed, Typed
<1> HIDE DEF n
<1>2. PICK due \in SUBSET DOMAIN Without(page.tracks, Done([page EXCEPT !.played = n])) :
         LET r == [page EXCEPT !.played = n]
             left == Without(r.tracks, Done(r))
         IN  page' = [Mark(r, due \cup Done(r)) EXCEPT
                            !.tracks = left,
                            !.status = IF r.shown \notin DOMAIN r.tracks THEN @
                                       ELSE IF DOMAIN left = {} THEN "idle" ELSE "playing"]
  <2>1. [page EXCEPT !.played = n].tracks = page.tracks BY <1>1 DEF Pages
  <2> QED BY <2>1 DEF OnPlayed, n
<1> QED BY <1>1, <1>2, PlayedPage DEF n

(* Every step keeps the variables in their sets.                           *)
LEMMA TypedStep == Inv /\ [Next]_vars => Typed'
<1> SUFFICES ASSUME Inv, [Next]_vars PROVE Typed'
  OBVIOUS
<1>0. Typed BY DEF Inv
<1>a. ASSUME UNCHANGED <<page, worklet, history, closed, stops, drops>>,
             utterance' \in 0 .. Len(Chunks), sent' \in Nat, phase' \in {"between", "speaking", "ended"},
             clearing' \in BOOLEAN,
             phase' # "between" => utterance' \in Utterances /\ sent' <= Chunks[utterance'],
             wire' \in Seq(Messages), pending' \in Seq(Messages), online' \in BOOLEAN,
             speaker' \in {"none", "opening", "open"}
      PROVE  Typed'
  BY <1>0, <1>a DEF Typed, worklet, history
<1>t. \A m \in Messages : Tell(m) => wire' \in Seq(Messages)
  BY <1>0, AppendProperties DEF Typed, Tell
<1>u. Utterances = 1 .. Len(Chunks) /\ Len(Chunks) \in Nat /\ \A u \in Utterances : Chunks[u] \in Nat
  BY PlayerAssumption DEF Utterances
<1>1. CASE UNCHANGED vars
  BY <1>0, <1>1 DEF Typed, vars, server, worklet, history
<1>2. CASE Begin
  <2>1. utterance + 1 \in Utterances /\ utterance' = utterance + 1 /\ sent' = 0 /\ phase' = "speaking"
    BY <1>0, <1>2, <1>u DEF Begin, Typed
  <2>2. Start(utterance + 1) \in Messages BY <2>1 DEF Messages
  <2>3. wire' \in Seq(Messages) BY <1>2, <1>t, <2>2 DEF Begin
  <2>4. utterance' \in 0 .. Len(Chunks) /\ 0 <= Chunks[utterance'] BY <1>u, <2>1
  <2> QED BY SMTT(20), <1>0, <1>2, <1>a, <2>1, <2>3, <2>4 DEF Begin, tabVars, Typed
<1>3. CASE Produce
  <2>1. utterance \in Utterances /\ sent \in Nat /\ sent < Chunks[utterance] /\ Chunks[utterance] \in Nat
    BY <1>0, <1>3, <1>u DEF Produce, Typed
  <2>2. Chunk(utterance, sent) \in Messages
    <3>1. sent \in 0 .. Chunks[utterance] - 1 BY <2>1
    <3> QED BY <2>1, <3>1 DEF Messages
  <2>3. wire' \in Seq(Messages) BY <1>3, <1>t, <2>2 DEF Produce
  <2>4. sent' \in Nat /\ sent' <= Chunks[utterance] BY <1>3, <2>1 DEF Produce
  <2> QED BY <1>0, <1>3, <1>a, <2>1, <2>3, <2>4 DEF Produce, tabVars, Typed
<1>4. CASE Finish
  <2>1. End(utterance) \in Messages BY <1>0, <1>4 DEF Finish, Typed, Messages
  <2>2. wire' \in Seq(Messages) BY <1>4, <1>t, <2>1 DEF Finish
  <2> QED BY <1>0, <1>4, <1>a, <2>2 DEF Finish, tabVars, Typed
<1>5. CASE Forget
  BY <1>0, <1>5, <1>a DEF Forget, tabVars, Typed
<1>6. CASE CutShort
  BY <1>0, <1>6 DEF CutShort, Typed, worklet, history
<1>7. CASE TellClear
  <2>1. Clear \in Messages BY DEF Messages
  <2>2. wire' \in Seq(Messages) BY <1>7, <1>t, <2>1 DEF TellClear
  <2> QED BY <1>0, <1>7, <1>a, <2>2 DEF TellClear, tabVars, Typed
<1>8. CASE Drop
  BY <1>0, <1>8, EmptySeq DEF Drop, Typed, server, worklet, history
<1>9. CASE Rejoin
  <2>1. wire' \in Seq(Messages) BY <1>0, <1>9, BufferInTurn DEF Rejoin
  <2>2. replayed' \subseteq Utterances BY <1>0, <1>9 DEF Rejoin, Typed
  <2> QED BY <1>0, <1>9, <2>1, <2>2 DEF Rejoin, Typed, server, worklet
<1>10. CASE Receive
  <2>1. wire' \in Seq(Messages) /\ Head(wire) \in Messages
    BY <1>0, <1>10, HeadTailProperties DEF Receive, Typed
  <2>2. CASE speaker = "open"
    <3>1. page' \in Pages BY <1>0, <1>10, <2>1, <2>2, HandleCases DEF Receive, Typed
    <3>2. (Stopped(page') /\ unreported' = Unreported) \/ (Over(page') /\ unreported' = unreported)
      <4>1. CASE Head(wire) = Clear BY <1>10, <2>2, <4>1 DEF Receive
      <4>2. CASE Head(wire) # Clear BY <1>10, <2>2, <4>2 DEF Receive
      <4> QED BY <4>1, <4>2
    <3>3. gone' \in [done : SUBSET Utterances, stopped : SUBSET Utterances]
      BY <1>0, <3>1, <3>2, GoneTyped
    <3>4. unreported' \in Nat BY <1>0, <3>2, UnreportedTyped DEF Typed
    <3> QED BY <1>0, <1>10, <2>1, <2>2, <3>1, <3>3, <3>4 DEF Receive, Typed, server, worklet
  <2>3. CASE speaker # "open"
    <3>1. pending' \in Seq(Messages)
      <4>1. pending' = Append(pending, Head(wire)) BY <1>10, <2>3 DEF Receive
      <4> QED BY <1>0, <2>1, <4>1, AppendProperties DEF Typed
    <3> QED BY <1>0, <1>10, <2>1, <2>3, <3>1 DEF Receive, Typed, server, worklet
  <2> QED BY <2>2, <2>3
<1>11. CASE SpeakerOpens
  <2>1. page' \in Pages BY <1>0, <1>11, FoldTyped DEF SpeakerOpens, Typed
  <2>2. {m.u : m \in {pending[k] : k \in DOMAIN pending} \ {Clear}} \subseteq Utterances
    <3>1. \A k \in DOMAIN pending : pending[k] \in Messages BY <1>0 DEF Typed
    <3>2. \A m \in Messages : m # Clear => m.u \in Utterances BY MessageKinds
    <3> QED BY <3>1, <3>2
  <2>3. gone' \in [done : SUBSET Utterances, stopped : SUBSET Utterances]
    <3> DEFINE D == gone.done \cup ({m.u : m \in {pending[k] : k \in DOMAIN pending} \ {Clear}}
                                      \ DOMAIN page'.tracks)
    <3>1. D \in SUBSET Utterances BY <1>0, <2>2 DEF Typed
    <3>2. gone' = [gone EXCEPT !.done = D] BY <1>11 DEF SpeakerOpens
    <3> HIDE DEF D
    <3> QED BY <1>0, <3>1, <3>2 DEF Typed
  <2> QED BY <1>0, <1>11, <2>1, <2>3, EmptySeq DEF SpeakerOpens, OpenSpeaker, Typed, server, worklet
<1>12. CASE SpeakerFails
  BY <1>0, <1>12, EmptySeq DEF SpeakerFails, OpenSpeaker, Typed, server, worklet, history
<1>13. CASE Unlock
  BY <1>0, <1>13 DEF Unlock, Typed, server, worklet, history
<1>14. CASE Silence
  <2>1. page' \in Pages BY <1>0, <1>14, DroppedPage DEF Silence, Typed
  <2>2. gone' \in [done : SUBSET Utterances, stopped : SUBSET Utterances]
    BY <1>0, <1>14, <2>1, GoneTyped DEF Silence
  <2>3. unreported' \in Nat BY <1>0, <1>14, UnreportedTyped DEF Silence
  <2> QED BY <1>0, <1>14, <2>1, <2>2, <2>3 DEF Silence, Typed, server, worklet
<1>15. CASE Unmount
  <2>1. page' \in Pages BY <1>0, <1>15, DroppedPage DEF Unmount, Typed
  <2>2. gone' \in [done : SUBSET Utterances, stopped : SUBSET Utterances]
    BY <1>0, <1>15, <2>1, GoneTyped DEF Unmount
  <2>3. unreported' \in Nat BY <1>0, <1>15, UnreportedTyped DEF Unmount
  <2> QED BY <1>0, <1>15, <2>1, <2>2, <2>3, EmptySeq DEF Unmount, Typed, server
<1>16. CASE OnPlayed
  <2>1. reports' \in Seq(Nat) /\ Head(reports) \in Nat
    BY <1>0, <1>16, HeadTailProperties DEF OnPlayed, Typed
  <2>2. page' \in Pages BY <1>0, <1>16, PlayedStep
  <2>3. gone' \in [done : SUBSET Utterances, stopped : SUBSET Utterances]
    BY <1>0, <1>16, <2>2, GoneTyped DEF OnPlayed
  <2> QED BY <1>0, <1>16, <2>1, <2>2, <2>3 DEF OnPlayed, Typed, server
<1>17. CASE Process
  <2> DEFINE out == Head(page.queue.blocks)
  <2>1. page.queue.blocks # <<>> /\ page.queue.blocks \in Seq(Blocks)
    BY <1>0, <1>17, PageNumbers DEF Process, Typed
  <2>2. out \in Blocks /\ out[1] \in Utterances /\ out[2] \in Nat /\ out \in Nat \X Nat
    <3>1. out \in Blocks BY <2>1, HeadTailProperties
    <3>2. Utterances \subseteq Nat BY <1>u
    <3> HIDE DEF out
    <3> QED BY <3>1, <3>2 DEF Blocks
  <2>3. page' \in Pages BY <1>0, <1>17, <2>1, SoundedPage DEF Process, Typed
  <2>4. heard' \in [Utterances -> Nat]
    <3>1. heard' = [heard EXCEPT ![out[1]] = Larger(@, out[2] + 1)] BY <1>17 DEF Process
    <3>2. heard[out[1]] \in Nat BY <1>0, <2>2 DEF Typed
    <3> DEFINE n == Larger(heard[out[1]], out[2] + 1)
    <3>3. n \in Nat BY <2>2, <3>2 DEF Larger
    <3>4. heard' = [heard EXCEPT ![out[1]] = n] BY <3>1
    <3> HIDE DEF n, out
    <3> QED BY <1>0, <3>3, <3>4 DEF Typed
  <2>5. lastOut' \in Nat \X Nat BY <1>17, <2>2 DEF Process
  <2>6. sounded' \in Nat BY <1>0, <1>17 DEF Process, Typed
  <2> HIDE DEF out
  <2> QED BY <1>0, <1>17, <2>3, <2>4, <2>5, <2>6 DEF Process, Typed, server
<1>18. CASE Report
  <2>1. reports' \in Seq(Nat) BY <1>0, <1>18, AppendProperties DEF Report, Typed
  <2> QED BY <1>0, <1>18, <2>1 DEF Report, Typed, server, history
<1> QED BY <1>1, <1>2, <1>3, <1>4, <1>5, <1>6, <1>7, <1>8, <1>9, <1>10, <1>11, <1>12, <1>13, <1>14,
           <1>15, <1>16, <1>17, <1>18 DEF Next, Server, Socket, Page, Device, Stop

(* Nothing waited: nothing happens.                                        *)
LEMMA FoldOfNone == ASSUME NEW p PROVE FoldLeft(Handle, p, <<>>) = p
<1>1. <<>> \in Seq(Messages) /\ Len(<<>>) = 0 BY EmptySeq
<1> QED BY ZenonT(20), <1>1, HandledInTurn

(* Every step leaves alone what the speaker or the component is not there for. *)
LEMMA UntouchedStep == Inv /\ [Next]_vars => Untouched'
<1> SUFFICES ASSUME Inv, [Next]_vars PROVE Untouched'
  OBVIOUS
<1>0. Typed /\ Untouched BY DEF Inv
<1>1. CASE UNCHANGED vars
  BY <1>0, <1>1 DEF Untouched, vars, server, worklet, history
<1>2. CASE Begin \/ Produce \/ Finish \/ TellClear
  BY <1>0, <1>2 DEF Untouched, Begin, Produce, Finish, TellClear, tabVars, worklet, history, Tell
<1>3. CASE Forget
  BY <1>0, <1>3 DEF Untouched, Forget, tabVars, worklet, history
<1>4. CASE CutShort
  BY <1>0, <1>4 DEF Untouched, CutShort, worklet, history
<1>5. CASE Drop
  BY <1>0, <1>5 DEF Untouched, Drop, worklet, history
<1>6. CASE Rejoin
  BY <1>0, <1>6 DEF Untouched, Rejoin, worklet
<1>7. CASE Receive
  <2>1. online /\ ~closed BY <1>0, <1>7 DEF Untouched, Receive, Typed
  <2>2. CASE speaker = "open"
    BY <1>0, <1>7, <2>1, <2>2 DEF Untouched, Receive
  <2>3. CASE speaker # "open"
    BY <1>0, <1>7, <2>1, <2>3 DEF Untouched, Receive, worklet
  <2> QED BY <2>2, <2>3
<1>8. CASE SpeakerOpens
  <2>1. pending' = <<>> /\ speaker' = "open" /\ page' = FoldLeft(Handle, page, pending)
        /\ closed' = closed /\ online' = online /\ wire' = wire
    BY <1>8 DEF SpeakerOpens, OpenSpeaker
  <2>2. closed => page' = page BY <1>0, <2>1, FoldOfNone DEF Untouched
  <2> QED BY <1>0, <2>1, <2>2 DEF Untouched
<1>9. CASE SpeakerFails
  BY <1>0, <1>9 DEF Untouched, SpeakerFails, OpenSpeaker, worklet
<1>10. CASE Unlock
  BY <1>0, <1>10 DEF Untouched, Unlock, worklet, Shown
<1>11. CASE Silence
  <2>1. Drops(page, page') BY <1>0, <1>11, DroppedPage DEF Silence, Typed
  <2> QED BY <1>0, <1>11, <2>1 DEF Untouched, Silence, Drops, worklet
<1>12. CASE Unmount
  <2>1. Drops(page, page') BY <1>0, <1>12, DroppedPage DEF Unmount, Typed
  <2> QED BY <1>0, <1>12, <2>1 DEF Untouched, Unmount, Drops
<1>13. CASE OnPlayed
  <2>1. Plays(page, Head(reports), page') BY <1>0, <1>13, PlayedStep
  <2>2. DOMAIN page'.tracks \subseteq DOMAIN page.tracks /\ page'.queue = page.queue
    BY <2>1 DEF Plays, SameTracks
  <2>3. ~ (speaker # "open" /\ ~closed) BY <1>0, <1>13 DEF Untouched, OnPlayed
  <2> QED BY <1>0, <1>13, <2>2, <2>3 DEF Untouched, OnPlayed
<1>14. CASE Process
  BY <1>0, <1>14 DEF Untouched, Process
<1>15. CASE Report
  BY <1>0, <1>15 DEF Untouched, Report, history
<1> QED BY <1>1, <1>2, <1>3, <1>4, <1>5, <1>6, <1>7, <1>8, <1>9, <1>10, <1>11, <1>12, <1>13, <1>14,
           <1>15 DEF Next, Server, Socket, Page, Device, Stop

-----------------------------------------------------------------------------
(* d is some of the messages of c, at g, in their order.                   *)
Thins(d, c, g) ==
    /\ \A k \in DOMAIN d : g[k] \in DOMAIN c /\ d[k] = c[g[k]]
    /\ \A j, k \in DOMAIN d : j < k => g[j] < g[k]

(* Fewer messages, later utterances and more replays keep them in a row.   *)
LEMMA Thinned ==
    ASSUME NEW c \in Seq(Messages), NEW d \in Seq(Messages), NEW g, Thins(d, c, g),
           NEW lo \in Nat, NEW hi \in Nat, NEW hi2 \in Nat, hi <= hi2, NEW again, NEW again2, again \subseteq again2,
           InRow(c, lo, hi), Firsts(c, lo, again)
    PROVE  InRow(d, lo, hi2) /\ Firsts(d, lo, again2)
<1>n. /\ DOMAIN c = 1 .. Len(c) /\ DOMAIN d = 1 .. Len(d) /\ Len(c) \in Nat /\ Len(d) \in Nat OBVIOUS
<1>m. \A k \in DOMAIN d : d[k].kind # "clear" => d[k].u \in Nat
  <2>1. \A k \in DOMAIN d : d[k] \in Messages BY ElementOfSeq, <1>n
  <2>2. Utterances \subseteq Nat BY PlayerAssumption DEF Utterances
  <2> QED BY <2>1, <2>2, MessageKinds
<1>1. \A k \in DOMAIN d : d[k].kind # "clear" => d[k].u \in lo .. hi2
  <2> SUFFICES ASSUME NEW k \in DOMAIN d, d[k].kind # "clear" PROVE d[k].u \in lo .. hi2 OBVIOUS
  <2>1. d[k].u \in lo .. hi BY DEF InRow, Thins
  <2> QED BY <2>1
<1>2. \A j, k \in DOMAIN d :
          j < k /\ d[j].kind # "clear" /\ d[k].kind # "clear" => d[j].u <= d[k].u
  BY DEF InRow, Thins
<1>3. ASSUME NEW k \in DOMAIN d, d[k].kind = "audio_start" /\ d[k].u \notin again2
      PROVE  d[k].u > lo /\ \A j \in DOMAIN d : d[j] = d[k] => j = k
  <2>1. /\ g[k] \in DOMAIN c /\ d[k] = c[g[k]] /\ c[g[k]].u \notin again BY <1>3 DEF Thins
  <2>2. d[k].u > lo BY <1>3, <2>1 DEF Firsts
  <2>3. ASSUME NEW j \in DOMAIN d, d[j] = d[k] PROVE j = k
    <3>1. g[j] \in DOMAIN c /\ c[g[j]] = c[g[k]] BY <2>1, <2>3 DEF Thins
    <3>2. g[j] = g[k] BY <1>3, <2>1, <3>1 DEF Firsts
    <3>3. ~ (g[j] < g[k]) /\ ~ (g[k] < g[j]) BY <1>n, <2>1, <3>2
    <3>4. ~ (j < k) /\ ~ (k < j) BY <3>3 DEF Thins
    <3> QED BY <1>n, <3>4
  <2> QED BY <2>2, <2>3
<1> QED BY <1>1, <1>2, <1>3 DEF InRow, Firsts

(* After a start that was handled, what follows follows its utterance.     *)
LEMMA ThinnedAfter ==
    ASSUME NEW c \in Seq(Messages), NEW d \in Seq(Messages), NEW g, Thins(d, c, g),
           NEW lo \in Nat, NEW hi \in Nat, NEW again,
           InRow(c, lo, hi), Firsts(c, lo, again),
           NEW i \in DOMAIN c, c[i].kind = "audio_start", \A k \in DOMAIN d : i < g[k]
    PROVE  InRow(d, c[i].u, hi) /\ Firsts(d, c[i].u, again) /\ c[i].u <= hi
<1>n. /\ DOMAIN c = 1 .. Len(c) /\ DOMAIN d = 1 .. Len(d) /\ Len(c) \in Nat /\ Len(d) \in Nat OBVIOUS
<1>0. InRow(d, lo, hi) /\ Firsts(d, lo, again) BY Thinned
<1>1. c[i].u \in lo .. hi /\ c[i].u \in Nat BY DEF InRow
<1>2. ASSUME NEW k \in DOMAIN d, d[k].kind # "clear" PROVE d[k].u \in c[i].u .. hi
  <2>1. d[k].u \in lo .. hi BY <1>0, <1>2 DEF InRow
  <2>2. g[k] \in DOMAIN c /\ i < g[k] /\ d[k] = c[g[k]] BY DEF Thins
  <2>3. c[i].u <= d[k].u BY <1>2, <2>2 DEF InRow
  <2> QED BY <1>1, <2>1, <2>3
<1>3. ASSUME NEW k \in DOMAIN d, d[k].kind = "audio_start" /\ d[k].u \notin again
      PROVE  d[k].u > c[i].u
  <2>1. d[k].u \in c[i].u .. hi BY <1>2, <1>3
  <2>2. d[k].u # c[i].u
    <3> SUFFICES ASSUME d[k].u = c[i].u PROVE FALSE OBVIOUS
    <3>1. g[k] \in DOMAIN c /\ i < g[k] /\ d[k] = c[g[k]] BY DEF Thins
    <3>2. c[i] \in Messages /\ d[k] \in Messages BY <1>n, ElementOfSeq
    <3>3. c[i] = c[g[k]] BY <1>3, <3>1, <3>2, MessageKinds
    <3>4. i = g[k] BY <1>3, <3>1, <3>3 DEF Firsts
    <3> QED BY <1>n, <3>1, <3>4
  <2> QED BY <1>1, <2>1, <2>2
<1>4. InRow(d, c[i].u, hi) BY <1>0, <1>2 DEF InRow
<1>5. Firsts(d, c[i].u, again) BY <1>0, <1>3 DEF Firsts
<1> QED BY <1>1, <1>4, <1>5

(* The server sends of the last utterance, and starts the next.            *)
LEMMA OneMore ==
    ASSUME NEW c \in Seq(Messages), NEW m \in Messages,
           NEW lo \in Nat, NEW hi \in Nat, NEW hi2 \in Nat, lo <= hi, hi <= hi2, NEW again,
           InRow(c, lo, hi), Firsts(c, lo, again),
           m.kind # "clear" => m.u = hi2,
           m.kind = "audio_start" => hi2 = hi + 1
    PROVE  InRow(Append(c, m), lo, hi2) /\ Firsts(Append(c, m), lo, again)
<1> DEFINE d == Append(c, m)
           n == Len(c)
<1>1. /\ n \in Nat /\ DOMAIN c = 1 .. n /\ DOMAIN d = 1 .. (n + 1)
      /\ d[n + 1] = m /\ \A k \in 1 .. n : d[k] = c[k]
  BY AppendProperties
<1> HIDE DEF d, n
<1>2. \A k \in 1 .. n : c[k].kind # "clear" => c[k].u \in lo .. hi BY <1>1 DEF InRow
<1>3. ASSUME NEW k \in DOMAIN d, d[k].kind # "clear" PROVE d[k].u \in lo .. hi2
  <2>1. CASE k = n + 1 BY <1>1, <1>3, <2>1
  <2>2. CASE k # n + 1
    <3>1. k \in 1 .. n BY <1>1, <2>2
    <3>2. d[k].u \in lo .. hi BY <1>1, <1>2, <1>3, <3>1
    <3> QED BY <3>2
  <2> QED BY <2>1, <2>2
<1>4. ASSUME NEW j \in DOMAIN d, NEW k \in DOMAIN d, j < k, d[j].kind # "clear", d[k].kind # "clear"
      PROVE  d[j].u <= d[k].u
  <2>1. j \in 1 .. n /\ d[j] = c[j] BY <1>1, <1>4
  <2>2. CASE k = n + 1
    <3>1. d[j].u \in lo .. hi BY <1>2, <1>4, <2>1
    <3>2. d[k].u = hi2 BY <1>1, <1>4, <2>2
    <3> QED BY <3>1, <3>2
  <2>3. CASE k # n + 1
    <3>1. k \in 1 .. n /\ d[k] = c[k] BY <1>1, <2>3
    <3> QED BY <1>1, <1>4, <2>1, <3>1 DEF InRow
  <2> QED BY <2>2, <2>3
<1>5. ASSUME NEW k \in DOMAIN d, d[k].kind = "audio_start" /\ d[k].u \notin again
      PROVE  d[k].u > lo /\ \A j \in DOMAIN d : d[j] = d[k] => j = k
  <2>1. CASE k = n + 1
    <3>1. d[k].u = hi + 1 BY <1>1, <1>5, <2>1
    <3>2. ASSUME NEW j \in DOMAIN d, d[j] = d[k], j # k PROVE FALSE
      <4>1. j \in 1 .. n /\ d[j] = c[j] BY <1>1, <2>1, <3>2
      <4>2. c[j].u \in lo .. hi BY <1>2, <1>5, <3>2, <4>1
      <4> QED BY <3>1, <3>2, <4>1, <4>2
    <3> QED BY <3>1, <3>2
  <2>2. CASE k # n + 1
    <3>1. k \in 1 .. n /\ d[k] = c[k] BY <1>1, <2>2
    <3>2. d[k].u > lo /\ \A j \in 1 .. n : c[j] = c[k] => j = k BY <1>1, <1>5, <3>1 DEF Firsts
    <3>3. ASSUME d[n + 1] = d[k] PROVE FALSE
      <4>1. d[k].u \in lo .. hi BY <1>2, <1>5, <3>1
      <4>2. m.kind = "audio_start" /\ m.u = hi + 1 BY <1>1, <1>5, <3>3
      <4> QED BY <1>1, <3>3, <4>1, <4>2
    <3> QED BY <1>1, <3>1, <3>2, <3>3
  <2> QED BY <2>1, <2>2
<1> QED BY <1>3, <1>4, <1>5 DEF InRow, Firsts, d

(* Two sequences joined.                                                   *)
LEMMA Joined ==
    ASSUME NEW a \in Seq(Messages), NEW b \in Seq(Messages)
    PROVE  /\ a \o b \in Seq(Messages) /\ Len(a \o b) = Len(a) + Len(b)
           /\ \A i \in 1 .. Len(a) : (a \o b)[i] = a[i]
           /\ \A i \in 1 .. Len(b) : (a \o b)[Len(a) + i] = b[i]
  OBVIOUS

(* Each is in the whole, and so is the whole cut one message later.        *)
LEMMA Parts ==
    ASSUME NEW a \in Seq(Messages), NEW b \in Seq(Messages)
    PROVE  /\ a \o b \in Seq(Messages)
           /\ Thins(a, a \o b, [k \in DOMAIN a |-> k])
           /\ Thins(b, a \o b, [k \in DOMAIN b |-> Len(a) + k])
           /\ b # <<>> =>
                /\ Thins(Append(a, Head(b)) \o Tail(b), a \o b, [k \in DOMAIN (a \o b) |-> k])
                /\ Append(a, Head(b)) \o Tail(b) \in Seq(Messages)
<1>1. /\ a \o b \in Seq(Messages) /\ Len(a \o b) = Len(a) + Len(b)
      /\ \A i \in 1 .. Len(a) : (a \o b)[i] = a[i]
      /\ \A i \in 1 .. Len(b) : (a \o b)[Len(a) + i] = b[i]
  BY Joined
<1>2. /\ DOMAIN a = 1 .. Len(a) /\ DOMAIN b = 1 .. Len(b) /\ DOMAIN (a \o b) = 1 .. (Len(a) + Len(b))
      /\ Len(a) \in Nat /\ Len(b) \in Nat
  BY <1>1
<1>3. Thins(a, a \o b, [k \in DOMAIN a |-> k])
  <2> DEFINE c == a \o b
             g == [k \in DOMAIN a |-> k]
  <2>1. \A k \in DOMAIN a : g[k] = k /\ k \in DOMAIN c /\ c[k] = a[k] BY <1>1, <1>2
  <2> HIDE DEF c, g
  <2>2. Thins(a, c, g) BY <2>1 DEF Thins
  <2> QED BY <2>2 DEF c, g
<1>4. Thins(b, a \o b, [k \in DOMAIN b |-> Len(a) + k])
  <2> DEFINE c == a \o b
             g == [k \in DOMAIN b |-> Len(a) + k]
  <2>1. \A k \in DOMAIN b : g[k] = Len(a) + k /\ Len(a) + k \in DOMAIN c /\ c[Len(a) + k] = b[k]
    BY <1>1, <1>2
  <2> HIDE DEF c, g
  <2>2. \A j, k \in DOMAIN b : j < k => g[j] < g[k] BY <1>2, <2>1
  <2>3. Thins(b, c, g) BY <2>1, <2>2 DEF Thins
  <2> QED BY <2>3 DEF c, g
<1>5. ASSUME b # <<>>
      PROVE  /\ Thins(Append(a, Head(b)) \o Tail(b), a \o b, [k \in DOMAIN (a \o b) |-> k])
             /\ Append(a, Head(b)) \o Tail(b) \in Seq(Messages)
  <2> DEFINE a2 == Append(a, Head(b))
             b2 == Tail(b)
             d == a2 \o b2
             c == a \o b
             g == [k \in DOMAIN c |-> k]
  <2>1. /\ a2 \in Seq(Messages) /\ Len(a2) = Len(a) + 1 /\ a2[Len(a) + 1] = b[1]
        /\ \A k \in 1 .. Len(a) : a2[k] = a[k]
    BY <1>5
  <2>2. /\ b2 \in Seq(Messages) /\ Len(b2) = Len(b) - 1 /\ \A k \in 1 .. Len(b2) : b2[k] = b[k + 1]
    BY <1>5
  <2> HIDE DEF a2, b2
  <2>3. /\ d \in Seq(Messages) /\ Len(d) = Len(a2) + Len(b2)
        /\ \A i \in 1 .. Len(a2) : d[i] = a2[i]
        /\ \A i \in 1 .. Len(b2) : d[Len(a2) + i] = b2[i]
    BY <2>1, <2>2, Joined
  <2>4. DOMAIN d = 1 .. Len(d) /\ Len(d) = Len(a) + Len(b) BY <1>2, <2>1, <2>2, <2>3
  <2>c. DOMAIN c = 1 .. (Len(a) + Len(b)) /\ \A k \in DOMAIN c : g[k] = k BY <1>2
  <2>e. \A k \in 1 .. Len(a) : c[k] = a[k] BY <1>1
  <2>f. \A k \in 1 .. Len(b) : c[Len(a) + k] = b[k] BY <1>1
  <2> HIDE DEF d, c, g
  <2>5. ASSUME NEW k \in DOMAIN d PROVE d[k] = c[k]
    <3>1. CASE k <= Len(a) BY <1>2, <2>1, <2>3, <2>4, <2>e, <3>1
    <3>2. CASE k = Len(a) + 1
      <4>1. k \in 1 .. Len(a2) /\ 1 \in 1 .. Len(b) BY <1>2, <2>1, <2>4, <3>2
      <4> QED BY <2>1, <2>3, <2>f, <3>2, <4>1
    <3>3. CASE k > Len(a) + 1
      <4>1. k - (Len(a) + 1) \in 1 .. Len(b2) /\ k - Len(a) \in 1 .. Len(b)
        BY <1>2, <2>2, <2>4, <3>3
      <4>2. d[Len(a2) + (k - (Len(a) + 1))] = b2[k - (Len(a) + 1)] BY <2>3, <4>1
      <4>3. b2[k - (Len(a) + 1)] = b[(k - (Len(a) + 1)) + 1] BY <2>2, <4>1
      <4>4. c[Len(a) + (k - Len(a))] = b[k - Len(a)] BY <2>f, <4>1
      <4>5. /\ Len(a2) + (k - (Len(a) + 1)) = k /\ (k - (Len(a) + 1)) + 1 = k - Len(a)
            /\ Len(a) + (k - Len(a)) = k
        BY <1>2, <2>1, <2>4
      <4> QED BY <4>2, <4>3, <4>4, <4>5
    <3>4. k \in Int BY <2>4
    <3> QED BY <1>2, <3>1, <3>2, <3>3, <3>4
  <2>6. Thins(d, c, g) BY <2>4, <2>c, <2>5 DEF Thins
  <2> QED BY <2>3, <2>6 DEF d, c, g, a2, b2
<1> QED BY <1>1, <1>3, <1>4, <1>5

(* What follows the first message.                                         *)
LEMMA TailThins ==
    ASSUME NEW c \in Seq(Messages), c # <<>>
    PROVE  /\ Tail(c) \in Seq(Messages) /\ Thins(Tail(c), c, [k \in DOMAIN Tail(c) |-> k + 1])
           /\ 1 \in DOMAIN c /\ Head(c) = c[1]
<1>1. /\ Tail(c) \in Seq(Messages) /\ Len(Tail(c)) = Len(c) - 1 /\ \A k \in 1 .. Len(Tail(c)) : Tail(c)[k] = c[k + 1]
      /\ DOMAIN c = 1 .. Len(c) /\ DOMAIN Tail(c) = 1 .. Len(Tail(c)) /\ Len(c) \in Nat
  OBVIOUS
<1>2. 1 \in DOMAIN c /\ Head(c) = c[1] OBVIOUS
<1> DEFINE d == Tail(c)
           g == [k \in DOMAIN d |-> k + 1]
<1>3. \A k \in DOMAIN d : g[k] = k + 1 OBVIOUS
<1> HIDE DEF d, g
<1>4. Thins(d, c, g) BY <1>1, <1>3 DEF Thins, d
<1> QED BY <1>1, <1>2, <1>4 DEF d, g

(* A replay after what still waits.                                        *)
LEMMA Repeated ==
    ASSUME NEW c \in Seq(Messages), NEW b \in Seq(Messages), NEW lo \in Nat, NEW hi \in Nat, lo <= hi,
           NEW again, NEW again2, again \subseteq again2,
           InRow(c, lo, hi), Firsts(c, lo, again),
           \A k \in DOMAIN b : b[k].kind # "clear" /\ b[k].u = hi /\ hi \in again2
    PROVE  InRow(c \o b, lo, hi) /\ Firsts(c \o b, lo, again2)
<1> DEFINE d == c \o b
           n == Len(c)
<1>1. /\ n \in Nat /\ DOMAIN c = 1 .. n /\ DOMAIN d \subseteq Nat
      /\ \A k \in DOMAIN d : k \in 1 .. n \/ k - n \in DOMAIN b
      /\ \A k \in 1 .. n : d[k] = c[k]
      /\ \A k \in DOMAIN d : k \notin 1 .. n => d[k] = b[k - n]
  OBVIOUS
<1> HIDE DEF d, n
<1>2. ASSUME NEW k \in DOMAIN d, k \notin 1 .. n
      PROVE  d[k].kind # "clear" /\ d[k].u = hi /\ hi \in again2
  BY <1>1, <1>2
<1>3. ASSUME NEW k \in DOMAIN d, d[k].kind # "clear" PROVE d[k].u \in lo .. hi
  <2>1. CASE k \in 1 .. n BY <1>1, <1>3, <2>1 DEF InRow
  <2>2. CASE k \notin 1 .. n BY <1>2, <2>2
  <2> QED BY <2>1, <2>2
<1>4. ASSUME NEW j \in DOMAIN d, NEW k \in DOMAIN d, j < k, d[j].kind # "clear", d[k].kind # "clear"
      PROVE  d[j].u <= d[k].u
  <2>1. CASE k \in 1 .. n
    <3>1. j \in 1 .. n \/ j = 0 BY <1>1, <1>4, <2>1
    <3>2. j # 0
      <4>1. 0 - n \notin DOMAIN b BY <1>1
      <4> QED BY <1>1, <4>1
    <3> QED BY <1>1, <1>4, <2>1, <3>1, <3>2 DEF InRow
  <2>2. CASE k \notin 1 .. n
    <3>1. d[j].u \in lo .. hi BY <1>3, <1>4
    <3> QED BY <1>2, <2>2, <3>1
  <2> QED BY <2>1, <2>2
<1>5. ASSUME NEW k \in DOMAIN d, d[k].kind = "audio_start" /\ d[k].u \notin again2
      PROVE  d[k].u > lo /\ \A j \in DOMAIN d : d[j] = d[k] => j = k
  <2>1. k \in 1 .. n /\ d[k] = c[k] /\ d[k].u \notin again BY <1>1, <1>2, <1>5
  <2>2. d[k].u > lo BY <1>1, <1>5, <2>1 DEF Firsts
  <2>3. ASSUME NEW j \in DOMAIN d, d[j] = d[k] PROVE j = k
    <3>1. j \in 1 .. n BY <1>2, <1>5, <2>3
    <3> QED BY <1>1, <1>5, <2>1, <2>3, <3>1 DEF Firsts
  <2> QED BY <2>2, <2>3
<1> QED BY <1>3, <1>4, <1>5 DEF InRow, Firsts, d

-----------------------------------------------------------------------------
(* More that sounded unreported is allowed for.                            *)
LEMMA HeardMore ==
    ASSUME NEW p \in Pages, NEW s \in Nat, NEW h \in [Utterances -> Nat], NEW un \in Nat, NEW un2 \in Nat,
           Heard(p, s, h, un), un <= un2
    PROVE  Heard(p, s, h, un2)
<1>1. Lags(p, s, un2)
  <2> DEFINE n == Len(p.queue.blocks)
             w == p.written
  <2>1. n \in Nat /\ w \in Nat /\ s + n <= w + un BY PageNumbers DEF Heard, Lags
  <2> HIDE DEF n, w
  <2>2. s + n <= w + un2 BY <2>1
  <2> QED BY <2>2 DEF Heard, Lags, n, w
<1>2. ASSUME NEW u \in Utterances PROVE p.marked[u] <= h[u] + un2
  <2>1. p.marked[u] \in Nat /\ h[u] \in Nat /\ p.marked[u] <= h[u] + un BY PageNumbers DEF Heard
  <2> QED BY <2>1
<1> QED BY <1>1, <1>2 DEF Heard

(* More utterances may sound again.                                        *)
LEMMA BackMore ==
    ASSUME NEW p, NEW s, NEW last, NEW back, NEW back2, back \subseteq back2,
           Onward(p, s, last, back), Begun(p, s, last, back)
    PROVE  Onward(p, s, last, back2) /\ Begun(p, s, last, back2)
<1>1. Onward(p, s, last, back2) BY DEF Onward
<1>2. Begun(p, s, last, back2) BY DEF Begun
<1> QED BY <1>1, <1>2

(* A page that dropped its tracks is sound of them as stopped.             *)
LEMMA DropSound ==
    ASSUME NEW p \in Pages, NEW q \in Pages, Drops(p, q), NEW s \in Nat, NEW h \in [Utterances -> Nat],
           NEW un \in Nat, NEW last, NEW over, NEW stopped \in SUBSET Utterances, NEW again,
           Timeline(p), Heard(p, s, h, un), s <= p.played + un,
           Silent(p, stopped, again), Onward(p, s, last, over \cap again), Recalled(p, s, last, over)
    PROVE  /\ Timeline(q) /\ Heard(q, s, h, un)
           /\ Silent(q, stopped \cup DOMAIN p.tracks, again)
           /\ Onward(q, s, last, (over \cup DOMAIN p.tracks) \cap again)
           /\ Begun(q, s, last, (over \cup DOMAIN p.tracks) \cap again)
           /\ Recalled(q, s, last, over \cup DOMAIN p.tracks)
<1>1. /\ DOMAIN q.tracks = {} /\ DOMAIN q.queue.blocks = {} /\ Len(q.queue.blocks) = 0
      /\ q.shown = p.shown /\ q.written = p.played /\ q.played = p.played
  BY EmptySeq DEF Drops
<1>2. Timeline(q) BY <1>1 DEF Timeline
<1>3. Heard(q, s, h, un)
  <2>1. p.played <= s BY DEF Heard, Lags
  <2>2. Lags(q, s, un) BY <1>1, <2>1, PageNumbers DEF Lags
  <2>3. \A u \in Utterances : q.marked[u] <= h[u] + un
    BY MarkIsHeard DEF Drops, Heard
  <2> QED BY <1>1, <2>2, <2>3 DEF Heard
<1>4. Silent(q, stopped \cup DOMAIN p.tracks, again)
  BY <1>1 DEF Silent, Timeline
<1>5. /\ Onward(q, s, last, (over \cup DOMAIN p.tracks) \cap again)
      /\ Begun(q, s, last, (over \cup DOMAIN p.tracks) \cap again)
  BY <1>1 DEF Onward, Begun
<1>6. Recalled(q, s, last, over \cup DOMAIN p.tracks)
  BY <1>1 DEF Recalled
<1> QED BY <1>2, <1>3, <1>4, <1>5, <1>6

(* So is a step that stops what plays.                                     *)
LEMMA DroppedSound ==
    ASSUME Inv, page' \in Pages, Drops(page, page'), Stopped(page'), unreported' = Unreported,
           sounded' = sounded, heard' = heard, lastOut' = lastOut, replayed' = replayed
    PROVE  PageSound'
<1>1. /\ Typed /\ Sound(page, sounded, lastOut, unreported, GoneBy) BY DEF Inv, PageSound
<1>2. /\ page \in Pages /\ sounded \in Nat /\ heard \in [Utterances -> Nat] /\ unreported \in Nat
      /\ gone.stopped \in SUBSET Utterances
  BY <1>1 DEF Typed
<1>3. unreported' \in Nat /\ unreported <= unreported' /\ sounded <= page.played + unreported'
  <2>1. unreported' \in Nat /\ unreported' >= unreported /\ sounded <= page.played + unreported'
    BY <1>1, UnreportedTyped
  <2> QED BY <1>2, <2>1
<1>4. Heard(page, sounded, heard, unreported')
  BY <1>1, <1>2, <1>3, HeardMore DEF Sound
<1> DEFINE D == DOMAIN page.tracks
<1>5. /\ Timeline(page') /\ Heard(page', sounded, heard, unreported')
      /\ Silent(page', gone.stopped \cup D, replayed)
      /\ Onward(page', sounded, lastOut, (GoneBy \cup D) \cap replayed)
      /\ Begun(page', sounded, lastOut, (GoneBy \cup D) \cap replayed)
      /\ Recalled(page', sounded, lastOut, GoneBy \cup D)
  <2>1. /\ Timeline(page) /\ Silent(page, gone.stopped, replayed)
        /\ Onward(page, sounded, lastOut, GoneBy \cap replayed) /\ Recalled(page, sounded, lastOut, GoneBy)
    BY <1>1 DEF Sound
  <2> QED BY <1>2, <1>3, <1>4, <2>1, DropSound
<1>6. gone'.stopped = gone.stopped \cup D /\ gone'.done = gone.done
  <2>1. Dropping(page') = D BY DEF Drops, Dropping
  <2> QED BY <1>1, <2>1 DEF Stopped, Typed
<1>7. GoneBy' = GoneBy \cup D BY <1>6 DEF GoneBy
<1> HIDE DEF D
<1> QED BY <1>5, <1>6, <1>7 DEF PageSound, Sound

(* What waits and what is on the wire are each in turn.                    *)
LEMMA WireInTurn ==
    ASSUME Inv
    PROVE  /\ wire \in Seq(Messages) /\ pending \in Seq(Messages) /\ Coming \in Seq(Messages)
           /\ page.shown \in Nat /\ utterance \in Nat
           /\ InRow(wire, page.shown, utterance) /\ Firsts(wire, page.shown, replayed)
           /\ InRow(pending, page.shown, utterance) /\ Firsts(pending, page.shown, replayed)
<1>1. wire \in Seq(Messages) /\ pending \in Seq(Messages) BY DEF Inv, Typed
<1>2. page.shown \in Nat /\ utterance \in Nat BY PageNumbers, PlayerAssumption DEF Inv, Typed
<1>3. InRow(Coming, page.shown, utterance) /\ Firsts(Coming, page.shown, replayed)
  BY DEF Inv, InTurn
<1>4. Coming \in Seq(Messages) BY <1>1, Parts DEF Coming
<1>5. Thins(wire, Coming, [k \in DOMAIN wire |-> Len(pending) + k]) BY <1>1, Parts DEF Coming
<1>6. Thins(pending, Coming, [k \in DOMAIN pending |-> k]) BY <1>1, Parts DEF Coming
<1>7. utterance <= utterance BY <1>2
<1>8. InRow(wire, page.shown, utterance) /\ Firsts(wire, page.shown, replayed)
  BY <1>1, <1>2, <1>3, <1>4, <1>5, <1>7, Thinned
<1>9. InRow(pending, page.shown, utterance) /\ Firsts(pending, page.shown, replayed)
  BY <1>1, <1>2, <1>3, <1>4, <1>6, <1>7, Thinned
<1> QED BY <1>1, <1>2, <1>4, <1>8, <1>9

(* A message handled at once.                                              *)
LEMMA ReceivedSound ==
    ASSUME Inv, Receive, speaker = "open"
    PROVE  /\ PageSound'
           /\ \/ page'.shown = page.shown
              \/ Head(wire).kind = "audio_start" /\ page'.shown = Head(wire).u
<1> DEFINE m == Head(wire)
<1>1. /\ wire # <<>> /\ page' = Handle(page, m)
      /\ sounded' = sounded /\ heard' = heard /\ lastOut' = lastOut /\ replayed' = replayed
  BY DEF Receive, worklet
<1>2. /\ wire \in Seq(Messages) /\ InRow(wire, page.shown, utterance) /\ Firsts(wire, page.shown, replayed)
  BY WireInTurn
<1>3. m \in Messages /\ 1 \in DOMAIN wire /\ m = wire[1] BY <1>1, <1>2, TailThins
<1>4. /\ page \in Pages /\ sounded \in Nat /\ heard \in [Utterances -> Nat] /\ unreported \in Nat
      /\ gone.stopped \in SUBSET Utterances /\ lastOut \in Nat \X Nat /\ gone.done \in SUBSET Utterances
  BY DEF Inv, Typed
<1>5. Awaits(page, m)
  <2>1. m.kind # "clear" => m.u \in page.shown .. utterance BY <1>2, <1>3 DEF InRow
  <2>2. m.kind # "clear" => m.u >= page.shown BY <2>1
  <2>3. m.kind = "audio_start" => m.u > page.shown \/ m.u \in replayed BY <1>2, <1>3 DEF Firsts
  <2> QED BY <1>3, <2>2, <2>3 DEF Awaits
<1>6. page' \in Pages /\ Handles(page, m, page') BY <1>1, <1>3, <1>4, HandleCases
<1>7. CASE m = Clear
  <2>1. Stopped(page') /\ unreported' = Unreported BY <1>7 DEF Receive
  <2>2. Drops(page, page') /\ page'.shown = page.shown
    <3>1. page' = Silenced(page) BY <1>1, <1>7 DEF Handle, Clear
    <3> QED BY <1>4, <3>1, DroppedPage DEF Drops
  <2>3. PageSound' BY <1>1, <1>6, <2>1, <2>2, DroppedSound
  <2> QED BY <2>2, <2>3
<1>8. CASE m # Clear
  <2>1. Over(page') /\ unreported' = unreported BY <1>8 DEF Receive
  <2>2. m.kind # "clear" BY <1>3, <1>8, MessageKinds
  <2> DEFINE D == Dropping(page')
  <2>3. D \subseteq Utterances BY <1>4, PageNumbers DEF Dropping
  <2>4. gone'.done = gone.done \cup D /\ gone'.stopped = gone.stopped BY <2>1 DEF Over, Inv, Typed
  <2> HIDE DEF D, m
  <2>5. GoneBy' = GoneBy \cup D BY <2>4 DEF GoneBy
  <2>6. GoneBy \in SUBSET Utterances /\ GoneBy' \in SUBSET Utterances BY <1>4, <2>3, <2>5 DEF GoneBy
  <2>7. Sound(page, sounded, lastOut, unreported, GoneBy) BY DEF Inv, PageSound
  <2>8. /\ page' \in Pages /\ Timeline(page')
        /\ Heard(page', sounded, heard, unreported)
        /\ Silent(page', gone.stopped, replayed)
        /\ Onward(page', sounded, lastOut, GoneBy \cap replayed) /\ Begun(page', sounded, lastOut, GoneBy \cap replayed)
        /\ Recalled(page', sounded, lastOut, GoneBy')
        /\ page'.shown = page.shown \/ (m.kind = "audio_start" /\ page'.shown = m.u)
    <3> DEFINE wider == GoneBy'
    <3>1. GoneBy \subseteq wider /\ wider \in SUBSET Utterances BY <2>5, <2>6
    <3> HIDE DEF wider
    <3>2. LET q == Handle(page, m) IN
           /\ q \in Pages /\ Timeline(q)
           /\ Heard(q, sounded, heard, unreported)
           /\ Silent(q, gone.stopped, replayed)
           /\ Onward(q, sounded, lastOut, GoneBy \cap replayed) /\ Begun(q, sounded, lastOut, GoneBy \cap replayed)
           /\ Recalled(q, sounded, lastOut, wider)
           /\ q.shown = page.shown \/ (m.kind = "audio_start" /\ q.shown = m.u)
      BY <1>3, <1>4, <1>5, <2>2, <2>6, <2>7, <3>1, HandleSound
    <3> QED BY <1>1, <3>2 DEF wider
  <2>9. GoneBy \cap replayed \subseteq GoneBy' \cap replayed BY <2>5
  <2>10. /\ Onward(page', sounded, lastOut, GoneBy' \cap replayed)
         /\ Begun(page', sounded, lastOut, GoneBy' \cap replayed)
    BY <2>8, <2>9, BackMore
  <2>11. PageSound' BY <1>1, <2>1, <2>4, <2>8, <2>10 DEF PageSound, Sound
  <2> QED BY <2>8, <2>11 DEF m
<1> QED BY <1>7, <1>8

(* What waited for the speaker.                                            *)
LEMMA OpenedSound ==
    ASSUME Inv, SpeakerOpens
    PROVE  /\ PageSound'
           /\ \/ page'.shown = page.shown
              \/ \E k \in DOMAIN pending : pending[k].kind = "audio_start" /\ page'.shown = pending[k].u
<1>1. /\ page' = FoldLeft(Handle, page, pending)
      /\ sounded' = sounded /\ heard' = heard /\ lastOut' = lastOut /\ replayed' = replayed
      /\ unreported' = unreported
  BY DEF SpeakerOpens, worklet
<1>2. /\ page \in Pages /\ sounded \in Nat /\ heard \in [Utterances -> Nat] /\ unreported \in Nat
      /\ gone.stopped \in SUBSET Utterances /\ lastOut \in Nat \X Nat /\ gone.done \in SUBSET Utterances
      /\ GoneBy \in SUBSET Utterances
  BY DEF Inv, Typed, GoneBy
<1>3. /\ pending \in Seq(Messages) /\ utterance \in Nat
      /\ InRow(pending, page.shown, utterance) /\ Firsts(pending, page.shown, replayed)
  BY WireInTurn
<1>4. Sound(page, sounded, lastOut, unreported, GoneBy) BY DEF Inv, PageSound
<1>5. /\ Sound(page', sounded, lastOut, unreported, GoneBy)
      /\ \/ page'.shown = page.shown
         \/ \E k \in DOMAIN pending : pending[k].kind = "audio_start" /\ page'.shown = pending[k].u
  <2>1. CASE closed
    <3>1. page' = page BY <1>1, <2>1, FoldOfNone DEF Inv, Untouched
    <3> QED BY <1>4, <3>1
  <2>2. CASE ~closed
    <3>1. sounded = 0 BY <2>2 DEF Inv, Untouched, SpeakerOpens, OpenSpeaker
    <3>2. Sound(page, 0, lastOut, unreported, GoneBy) BY <1>4, <3>1
    <3>3. LET q == FoldLeft(Handle, page, pending) IN
           /\ Sound(q, 0, lastOut, unreported, GoneBy)
           /\ \/ q.shown = page.shown
              \/ \E k \in DOMAIN pending : pending[k].kind = "audio_start" /\ q.shown = pending[k].u
      <4>1. PICK f : /\ f[0] = page
                     /\ \A k \in 1 .. Len(pending) : f[k] = Handle(f[k - 1], pending[k])
                     /\ FoldLeft(Handle, page, pending) = f[Len(pending)]
        BY <1>3, HandledInTurn
      <4>2. Len(pending) \in 0 .. Len(pending) BY <1>3
      <4> QED BY SMTT(20), <1>2, <1>3, <3>2, <4>1, <4>2, FoldInTurn
    <3> QED BY <1>1, <3>1, <3>3
  <2> QED BY <2>1, <2>2
<1>6. gone'.stopped = gone.stopped /\ GoneBy \subseteq GoneBy'
  <2> DEFINE D == gone.done \cup ({m.u : m \in {pending[k] : k \in DOMAIN pending} \ {Clear}}
                                      \ DOMAIN page'.tracks)
  <2>1. gone' = [gone EXCEPT !.done = D] /\ gone.done \subseteq D BY DEF SpeakerOpens
  <2> HIDE DEF D
  <2>2. gone'.done = D /\ gone'.stopped = gone.stopped BY <2>1 DEF Inv, Typed
  <2> QED BY <2>1, <2>2 DEF GoneBy
<1>7. GoneBy \cap replayed \subseteq GoneBy' \cap replayed BY <1>6
<1>8. /\ Onward(page', sounded, lastOut, GoneBy' \cap replayed)
      /\ Begun(page', sounded, lastOut, GoneBy' \cap replayed)
  <2>1. /\ Onward(page', sounded, lastOut, GoneBy \cap replayed)
        /\ Begun(page', sounded, lastOut, GoneBy \cap replayed)
    BY <1>5 DEF Sound
  <2> QED BY <1>7, <2>1, BackMore
<1>9. Recalled(page', sounded, lastOut, GoneBy')
  BY <1>5, <1>6 DEF Sound, Recalled
<1>10. PageSound' BY <1>1, <1>5, <1>6, <1>8, <1>9 DEF PageSound, Sound
<1> QED BY <1>5, <1>10

(* A rejoin, which replays what is in flight.                              *)
LEMMA RejoinSound ==
    ASSUME Inv, Rejoin
    PROVE  PageSound'
<1>1. /\ page' = page /\ sounded' = sounded /\ heard' = heard /\ lastOut' = lastOut /\ unreported' = unreported
      /\ gone' = gone /\ replayed \subseteq replayed'
  BY DEF Rejoin, worklet
<1>2. Sound(page, sounded, lastOut, unreported, GoneBy) BY DEF Inv, PageSound
<1>3. GoneBy \cap replayed \subseteq GoneBy' \cap replayed' BY <1>1 DEF GoneBy
<1>4. /\ Onward(page, sounded, lastOut, GoneBy' \cap replayed')
      /\ Begun(page, sounded, lastOut, GoneBy' \cap replayed')
  <2>1. Onward(page, sounded, lastOut, GoneBy \cap replayed) /\ Begun(page, sounded, lastOut, GoneBy \cap replayed)
    BY <1>2 DEF Sound
  <2> QED BY <1>3, <2>1, BackMore
<1>5. Silent(page, gone.stopped, replayed') BY <1>1, <1>2 DEF Sound, Silent
<1>6. GoneBy' = GoneBy BY <1>1 DEF GoneBy
<1> QED BY <1>1, <1>2, <1>4, <1>5, <1>6 DEF PageSound, Sound

(* A report of the worklet.                                                *)
LEMMA PlayedSound ==
    ASSUME Inv, OnPlayed
    PROVE  PageSound' /\ page'.shown = page.shown
<1> DEFINE n == Head(reports)
<1>1. Plays(page, n, page') /\ page' \in Pages BY PlayedStep DEF Inv
<1>2. /\ sounded' = sounded /\ heard' = heard /\ lastOut' = lastOut /\ unreported' = unreported
      /\ replayed' = replayed /\ Over(page')
  BY DEF OnPlayed
<1>3. /\ page \in Pages /\ sounded \in Nat /\ heard \in [Utterances -> Nat] /\ unreported \in Nat
  BY DEF Inv, Typed
<1>4. n \in Nat /\ n <= sounded
  <2>1. reports # <<>> /\ reports \in Seq(Nat) BY DEF OnPlayed, Inv, Typed
  <2>2. n = reports[1] /\ 1 \in DOMAIN reports /\ n \in Nat BY <2>1, HeadTailProperties
  <2> QED BY <2>2 DEF Inv, Reported
<1> HIDE DEF n
<1>5. Sound(page, sounded, lastOut, unreported, GoneBy) BY DEF Inv, PageSound
<1> DEFINE D == Dropping(page')
<1>6. gone'.done = gone.done \cup D /\ gone'.stopped = gone.stopped BY <1>2 DEF Over, Inv, Typed
<1>7. GoneBy' = GoneBy \cup D BY <1>6 DEF GoneBy
<1>8. /\ SameTracks(page, page') /\ page'.queue = page.queue /\ page'.written = page.written
      /\ page'.played = n /\ page'.shown = page.shown
  BY <1>1 DEF Plays
<1>9. Timeline(page') BY <1>5, <1>8 DEF Sound, Timeline, SameTracks
<1>10. Heard(page', sounded, heard, unreported)
  <2> DEFINE r == [page EXCEPT !.played = n]
  <2>1. /\ r \in Pages /\ r.tracks = page.tracks /\ r.written = page.written /\ r.played = n
        /\ r.queue = page.queue /\ r.marked = page.marked
    BY <1>3, <1>4 DEF Pages
  <2>2. \A u \in Utterances :
          page'.marked[u] = page.marked[u]
          \/ (u \in DOMAIN page.tracks /\ page'.marked[u] = Larger(page.marked[u], PlayedOf(r, u)))
    BY <1>1 DEF Plays
  <2> HIDE DEF r
  <2>3. Lags(page, sounded, unreported) /\ Heard(page, sounded, heard, unreported) BY <1>5 DEF Sound, Heard
  <2>4. Heard(r, sounded, heard, unreported)
    <3>1. Lags(r, sounded, unreported) BY <1>4, <2>1, <2>3 DEF Lags
    <3>2. \A u \in DOMAIN r.tracks : HeardOf(r, heard, u) BY <2>1, <2>3 DEF Heard, HeardOf, Place
    <3>3. \A u \in Utterances : r.marked[u] <= heard[u] + unreported BY <2>1, <2>3 DEF Heard
    <3> QED BY <3>1, <3>2, <3>3 DEF Heard
  <2>5. ASSUME NEW u \in Utterances PROVE page'.marked[u] <= heard[u] + unreported
    <3>1. CASE page'.marked[u] = page.marked[u] BY <2>3, <3>1 DEF Heard
    <3>2. CASE u \in DOMAIN page.tracks /\ page'.marked[u] = Larger(page.marked[u], PlayedOf(r, u))
      <4>1. Larger(r.marked[u], PlayedOf(r, u)) <= heard[u] + unreported
        BY <1>3, <2>1, <2>4, <3>2, MarkIsHeard
      <4> QED BY <2>1, <3>2, <4>1
    <3> QED BY <2>2, <3>1, <3>2
  <2>6. Lags(page', sounded, unreported) BY <1>4, <1>8, <2>3 DEF Lags
  <2>7. \A u \in DOMAIN page'.tracks : HeardOf(page', heard, u)
    BY <1>8, <2>3 DEF Heard, HeardOf, Place, SameTracks
  <2> QED BY <2>5, <2>6, <2>7 DEF Heard
<1>11. Silent(page', gone.stopped, replayed) BY <1>5, <1>8 DEF Sound, Silent, SameTracks
<1>12. /\ Onward(page', sounded, lastOut, GoneBy' \cap replayed)
       /\ Begun(page', sounded, lastOut, GoneBy' \cap replayed)
  <2>1. Onward(page', sounded, lastOut, GoneBy \cap replayed) BY <1>5, <1>8 DEF Sound, Onward
  <2>2. Begun(page', sounded, lastOut, GoneBy \cap replayed) BY <1>5, <1>8 DEF Sound, Begun, SameTracks
  <2>3. GoneBy \cap replayed \subseteq GoneBy' \cap replayed BY <1>7
  <2> QED BY <2>1, <2>2, <2>3, BackMore
<1>13. Recalled(page', sounded, lastOut, GoneBy')
  <2>1. DOMAIN page.tracks \cup GoneBy \subseteq DOMAIN page'.tracks \cup GoneBy' BY <1>7 DEF Dropping
  <2> QED BY <1>5, <1>8, <2>1 DEF Sound, Recalled
<1> QED BY <1>1, <1>2, <1>6, <1>8, <1>9, <1>10, <1>11, <1>12, <1>13 DEF PageSound, Sound

(* The queue without its first unit.                                       *)
LEMMA TailQueue ==
    ASSUME NEW p \in Pages, p.queue.blocks # <<>>, NEW q \in Pages, q.queue.blocks = Tail(p.queue.blocks)
    PROVE  /\ Len(p.queue.blocks) \in Nat /\ Len(p.queue.blocks) > 0
           /\ Len(q.queue.blocks) = Len(p.queue.blocks) - 1
           /\ 1 \in DOMAIN p.queue.blocks /\ Head(p.queue.blocks) = p.queue.blocks[1]
           /\ \A k \in DOMAIN q.queue.blocks : k \in Nat /\ 1 < k + 1
                  /\ k + 1 \in DOMAIN p.queue.blocks /\ q.queue.blocks[k] = p.queue.blocks[k + 1]
<1>1. p.queue.blocks \in Seq(Blocks) BY PageNumbers
<1> QED BY <1>1, HeadTailProperties

(* The unit that sounds is heard: marks stay honest.                       *)
LEMMA ProcessHeard ==
    ASSUME NEW p \in Pages, NEW q \in Pages, p.queue.blocks # <<>>, q.queue.blocks = Tail(p.queue.blocks),
           q.tracks = p.tracks, q.written = p.written, q.played = p.played, q.marked = p.marked,
           NEW s \in Nat, NEW h \in [Utterances -> Nat], NEW h2 \in [Utterances -> Nat], NEW un \in Nat,
           Heard(p, s, h, un),
           \A u \in Utterances : h2[u] >= h[u],
           LET out == Head(p.queue.blocks) IN h2[out[1]] >= out[2] + 1
    PROVE  Heard(q, s + 1, h2, un)
<1> DEFINE n == Len(p.queue.blocks)
           w == p.written
           b == p.queue.blocks
<1>1. /\ n \in Nat /\ n > 0 /\ Len(q.queue.blocks) = n - 1
      /\ 1 \in DOMAIN b /\ Head(b) = b[1]
      /\ \A k \in DOMAIN q.queue.blocks : k \in Nat /\ k + 1 \in DOMAIN b /\ q.queue.blocks[k] = b[k + 1]
  BY TailQueue
<1>2. w \in Nat /\ p.played \in Nat BY PageNumbers
<1>3. p.played <= s /\ w <= s + n /\ s + n <= w + un BY DEF Heard, Lags
<1>4. /\ \A k : Place(p, k) = w - n + k - 1
      /\ \A k : Place(q, k) = w - (n - 1) + k - 1
      /\ Place(p, 1) = w - n + 1 - 1
  BY <1>1 DEF Place
<1>5. h2[b[1][1]] >= b[1][2] + 1 /\ b[1][1] \in Nat /\ b[1][2] \in Nat
  <2>1. LET out == Head(b) IN h2[out[1]] >= out[2] + 1 OBVIOUS
  <2>2. b[1][1] \in Nat /\ b[1][2] \in Nat BY <1>1, PageNumbers
  <2> QED BY <1>1, <2>1, <2>2
<1>w. w = p.written OBVIOUS
<1>b. b = p.queue.blocks /\ n = Len(b) OBVIOUS
<1> HIDE DEF n, w, b
<1>6. Lags(q, s + 1, un)
  <2>1. p.played <= s + 1 /\ w <= (s + 1) + (n - 1) /\ (s + 1) + (n - 1) <= w + un BY <1>1, <1>2, <1>3
  <2> QED BY <1>1, <1>w, <2>1 DEF Lags
<1>7. ASSUME NEW u \in DOMAIN p.tracks PROVE HeardOf(q, h2, u)
  <2>1. /\ p.tracks[u].start \in Nat /\ p.tracks[u].length \in Nat /\ u \in Utterances
        /\ h[u] \in Nat /\ h2[u] \in Nat /\ h2[u] >= h[u]
    BY PageNumbers
  <2>2. \A k \in DOMAIN b :
          p.tracks[u].start <= Place(p, k) /\ Place(p, k) < p.tracks[u].start + p.tracks[u].length =>
              b[k][1] = u /\ Place(p, k) - p.tracks[u].start <= b[k][2]
    BY <1>b DEF Heard, HeardOf
  <2>3. h[u] >= p.tracks[u].length \/ h[u] + p.tracks[u].start + n >= w
    BY <1>b, <1>w DEF Heard, HeardOf
  <2>n. h[u] \in Nat /\ h2[u] \in Nat /\ h2[u] >= h[u] BY <2>1
  <2> DEFINE st == p.tracks[u].start
             ln == p.tracks[u].length
             x == h[u]
             y == h2[u]
  <2>m. st \in Nat /\ ln \in Nat /\ x \in Nat /\ y \in Nat /\ y >= x BY <2>1
  <2>d. x = h[u] /\ y = h2[u] OBVIOUS
  <2>s. st = p.tracks[u].start /\ ln = p.tracks[u].length OBVIOUS
  <2> HIDE DEF st, ln, x, y
  <2>4. y >= ln \/ y + st + (n - 1) >= w
    <3>1. CASE x >= ln BY <2>m, <3>1
    <3>2. CASE x + st + n > w BY <1>1, <1>2, <2>m, <3>2
    <3>3. CASE x < ln /\ x + st + n = w
      <4>1. Place(p, 1) = st + x
        <5>1. Place(p, 1) = w - n + 1 - 1 BY <1>4
        <5>2. n \in Nat /\ w \in Nat /\ st \in Nat /\ x \in Nat BY <1>1, <1>2, <2>m
        <5>3. w - n + 1 - 1 = st + x BY <3>3, <5>2
        <5> QED BY <5>1, <5>3
      <4>2. st <= Place(p, 1) /\ Place(p, 1) < st + ln BY <2>m, <3>3, <4>1
      <4>3. b[1][1] = u /\ Place(p, 1) - st <= b[1][2] BY <1>1, <2>2, <2>s, <4>2
      <4>4. x <= b[1][2] BY <2>m, <4>1, <4>3
      <4>5. y >= b[1][2] + 1 BY <1>5, <2>d, <4>3
      <4>6. y >= x + 1 BY <1>5, <2>m, <4>4, <4>5
      <4> QED BY <1>1, <1>2, <2>m, <3>3, <4>6
    <3>4. x >= ln \/ x + st + n >= w BY <2>3, <2>d, <2>s
    <3> QED BY <1>1, <1>2, <2>m, <3>1, <3>2, <3>3, <3>4
  <2>5. ASSUME NEW k \in DOMAIN q.queue.blocks, st <= Place(q, k), Place(q, k) < st + ln
        PROVE  q.queue.blocks[k][1] = u /\ Place(q, k) - st <= q.queue.blocks[k][2]
    <3>1. k \in Nat /\ k + 1 \in DOMAIN b /\ q.queue.blocks[k] = b[k + 1] BY <1>1
    <3>2. Place(q, k) = Place(p, k + 1) BY <1>1, <1>2, <1>4, <3>1
    <3> QED BY <2>2, <2>5, <2>s, <3>1, <3>2
  <2> QED BY <1>1, <1>w, <2>4, <2>5, <2>s, <2>d DEF HeardOf
<1>8. ASSUME NEW u \in Utterances PROVE q.marked[u] <= h2[u] + un
  <2>1. p.marked[u] \in Nat /\ p.marked[u] <= h[u] + un /\ h[u] \in Nat /\ h2[u] \in Nat /\ h2[u] >= h[u]
    BY PageNumbers DEF Heard
  <2> QED BY <2>1
<1> QED BY <1>6, <1>7, <1>8 DEF Heard

(* The worklet plays a unit.                                               *)
LEMMA ProcessSound ==
    ASSUME Inv, Process
    PROVE  PageSound' /\ page'.shown = page.shown
<1> DEFINE b == page.queue.blocks
           out == Head(b)
<1>1. /\ page \in Pages /\ sounded \in Nat /\ heard \in [Utterances -> Nat] /\ unreported \in Nat
      /\ heard' \in [Utterances -> Nat]
  BY TypedStep DEF Inv, Typed, Next, Device
<1>2. /\ b # <<>> /\ sounded' = sounded + 1 /\ lastOut' = out /\ unreported' = unreported
      /\ gone' = gone /\ replayed' = replayed
      /\ heard' = [heard EXCEPT ![out[1]] = Larger(@, out[2] + 1)]
  BY DEF Process
<1>3. /\ page' \in Pages /\ page'.queue.blocks = Tail(b)
      /\ page'.tracks = page.tracks /\ page'.written = page.written /\ page'.played = page.played
      /\ page'.shown = page.shown /\ page'.marked = page.marked
  <2> DEFINE dry == Len(page.queue.blocks) = 1
  <2>1. page' = [page EXCEPT !.queue = [blocks |-> Tail(@.blocks), waiting |-> dry,
                                        draining |-> @.draining /\ ~dry]]
    BY DEF Process
  <2>2. dry \in BOOLEAN OBVIOUS
  <2> HIDE DEF dry
  <2> QED BY <1>1, <1>2, <2>1, <2>2, SoundedPage
<1>4. /\ 1 \in DOMAIN b /\ out = b[1]
      /\ \A k \in DOMAIN page'.queue.blocks : k \in Nat /\ 1 < k + 1
             /\ k + 1 \in DOMAIN b /\ page'.queue.blocks[k] = b[k + 1]
  BY <1>1, <1>2, <1>3, TailQueue
<1>5. out[1] \in Utterances /\ out[2] \in Nat
  <2>1. out \in Blocks BY <1>1, <1>4, PageNumbers
  <2> HIDE DEF out
  <2> QED BY <2>1 DEF Blocks
<1> DEFINE p == page
           q == page'
           s == sounded
<1>6. Sound(p, s, lastOut, unreported, GoneBy) BY DEF Inv, PageSound
<1>b. b = p.queue.blocks OBVIOUS
<1> HIDE DEF b, out, p, q, s
<1>7. Heard(q, s + 1, heard', unreported)
  <2>1. \A u \in Utterances : heard'[u] >= heard[u]
    <3> SUFFICES ASSUME NEW u \in Utterances PROVE heard'[u] >= heard[u] OBVIOUS
    <3>1. heard[u] \in Nat BY <1>1
    <3>2. heard'[u] = heard[u] \/ heard'[u] = Larger(heard[u], out[2] + 1) BY <1>1, <1>2, <1>5
    <3> QED BY <1>5, <3>1, <3>2 DEF Larger
  <2>2. heard'[out[1]] >= out[2] + 1
    <3>1. heard'[out[1]] = Larger(heard[out[1]], out[2] + 1) /\ heard[out[1]] \in Nat BY <1>1, <1>2, <1>5
    <3> QED BY <1>5, <3>1 DEF Larger
  <2>3. LET o == Head(p.queue.blocks) IN heard'[o[1]] >= o[2] + 1 BY <1>b, <2>2 DEF out
  <2>4. /\ p \in Pages /\ q \in Pages /\ p.queue.blocks # <<>> /\ q.queue.blocks = Tail(p.queue.blocks)
        /\ q.tracks = p.tracks /\ q.written = p.written /\ q.played = p.played /\ q.marked = p.marked
        /\ s \in Nat
    BY <1>1, <1>2, <1>3 DEF p, q, b, s
  <2>5. Heard(p, s, heard, unreported) BY <1>6 DEF Sound
  <2> DEFINE h2 == heard'
  <2>6. h2 \in [Utterances -> Nat] /\ (\A u \in Utterances : h2[u] >= heard[u])
        /\ LET o == Head(p.queue.blocks) IN h2[o[1]] >= o[2] + 1
    BY <1>1, <2>1, <2>3
  <2> HIDE DEF h2
  <2>7. Heard(q, s + 1, h2, unreported) BY <1>1, <2>4, <2>5, <2>6, ProcessHeard
  <2> QED BY <2>7 DEF h2
<1>8. Timeline(q) BY <1>3, <1>4, <1>6, <1>b DEF Sound, Timeline, p, q
<1>9. Silent(q, gone.stopped, replayed) BY <1>3, <1>4, <1>6, <1>b DEF Sound, Silent, p, q
<1> DEFINE back == GoneBy \cap replayed
<1>10. Onward(q, s + 1, out, back)
  <2>1. \A j, k \in DOMAIN b : j < k => Forward(b[j], b[k]) \/ b[k][1] \in back
    BY <1>6, <1>b DEF Sound, Onward
  <2>2. ASSUME NEW j \in DOMAIN q.queue.blocks, NEW k \in DOMAIN q.queue.blocks, j < k
        PROVE  Forward(q.queue.blocks[j], q.queue.blocks[k]) \/ q.queue.blocks[k][1] \in back
    <3>1. /\ j + 1 \in DOMAIN b /\ k + 1 \in DOMAIN b /\ j + 1 < k + 1
          /\ q.queue.blocks[j] = b[j + 1] /\ q.queue.blocks[k] = b[k + 1]
      BY <1>4, <2>2 DEF q
    <3> QED BY <2>1, <3>1
  <2>3. \A k \in DOMAIN q.queue.blocks : Forward(out, q.queue.blocks[k]) \/ q.queue.blocks[k][1] \in back
    BY <1>4, <2>1 DEF q
  <2>4. out[1] <= q.shown BY <1>3, <1>4, <1>6, <1>b DEF Sound, Timeline, p, q
  <2> QED BY <2>2, <2>3, <2>4 DEF Onward
<1>11. Begun(q, s + 1, out, back)
  <2>1. q.tracks = p.tracks BY <1>3 DEF p, q
  <2>2. ASSUME NEW u \in DOMAIN p.tracks \ back
        PROVE  \A k \in DOMAIN b : b[k][1] = u => b[k][2] < p.tracks[u].last /\ p.tracks[u].length > 0
    BY <1>6, <1>b DEF Sound, Begun
  <2>3. ASSUME NEW u \in DOMAIN p.tracks \ back, NEW k \in DOMAIN q.queue.blocks, q.queue.blocks[k][1] = u
        PROVE  q.queue.blocks[k][2] < p.tracks[u].last /\ p.tracks[u].length > 0
    <3>1. k + 1 \in DOMAIN b /\ q.queue.blocks[k] = b[k + 1] BY <1>4 DEF q
    <3> QED BY <2>2, <2>3, <3>1
  <2>4. ASSUME NEW u \in DOMAIN p.tracks \ back, out[1] = u
        PROVE  out[2] < p.tracks[u].last /\ p.tracks[u].length > 0
    BY <1>4, <2>2, <2>4
  <2> QED BY <2>1, <2>3, <2>4 DEF Begun
<1>12. Recalled(q, s + 1, out, GoneBy)
  <2>1. q.tracks = p.tracks /\ q.shown = p.shown BY <1>3 DEF p, q
  <2>2. CASE p.shown \in DOMAIN p.tracks \cup GoneBy BY <2>1, <2>2 DEF Recalled
  <2>3. CASE p.shown \notin DOMAIN p.tracks \cup GoneBy
    <3>1. \A k \in DOMAIN b : b[k][1] # p.shown BY <1>6, <1>b, <2>3 DEF Sound, Recalled
    <3>2. \A k \in DOMAIN q.queue.blocks : q.queue.blocks[k][1] # p.shown
      BY <1>4, <3>1 DEF q
    <3> QED BY <1>4, <2>1, <3>1, <3>2 DEF Recalled
  <2> QED BY <2>2, <2>3
<1>13. GoneBy' = GoneBy BY <1>2 DEF GoneBy
<1>14. PageSound'
  <2>1. s + 1 = sounded' /\ out = lastOut' /\ q = page' /\ unreported = unreported' /\ gone' = gone
        /\ replayed' = replayed
    BY <1>2 DEF s, q
  <2>2. q \in Pages BY <1>3 DEF q
  <2> QED BY <1>7, <1>8, <1>9, <1>10, <1>11, <1>12, <1>13, <2>1, <2>2 DEF PageSound, Sound
<1> QED BY <1>3, <1>14

-----------------------------------------------------------------------------
(* What comes stays in turn when some of it is lost or handled,            *)
LEMMA InTurnOf ==
    ASSUME Inv, Coming' \in Seq(Messages), NEW g, Thins(Coming', Coming, g),
           replayed' = replayed, page'.shown = page.shown, utterance' \in Nat, utterance <= utterance'
    PROVE  InTurn'
<1> DEFINE d == Coming'
           lo == page.shown
           hi2 == utterance'
<1>1. /\ Coming \in Seq(Messages) /\ lo \in Nat /\ utterance \in Nat /\ d \in Seq(Messages) /\ hi2 \in Nat
      /\ utterance <= hi2 /\ Thins(d, Coming, g) /\ replayed \subseteq replayed
  BY WireInTurn
<1>2. InRow(Coming, lo, utterance) /\ Firsts(Coming, lo, replayed) /\ lo <= utterance BY DEF Inv, InTurn
<1> HIDE DEF d, lo, hi2
<1>3. InRow(d, lo, hi2) /\ Firsts(d, lo, replayed) BY <1>1, <1>2, Thinned
<1>4. lo <= hi2 BY <1>1, <1>2
<1> QED BY <1>3, <1>4 DEF InTurn, d, lo, hi2

(* when the start of an utterance is handled,                              *)
LEMMA InTurnAfter ==
    ASSUME Inv, Coming' \in Seq(Messages), NEW g, Thins(Coming', Coming, g),
           replayed' = replayed, utterance' = utterance,
           NEW i \in DOMAIN Coming, Coming[i].kind = "audio_start", page'.shown = Coming[i].u,
           \A k \in DOMAIN Coming' : i < g[k]
    PROVE  InTurn'
<1> DEFINE d == Coming'
           lo == page.shown
<1>1. /\ Coming \in Seq(Messages) /\ lo \in Nat /\ utterance \in Nat /\ d \in Seq(Messages)
      /\ Thins(d, Coming, g) /\ \A k \in DOMAIN d : i < g[k]
  BY WireInTurn
<1>2. InRow(Coming, lo, utterance) /\ Firsts(Coming, lo, replayed) BY DEF Inv, InTurn
<1> HIDE DEF d, lo
<1>3. InRow(d, Coming[i].u, utterance) /\ Firsts(d, Coming[i].u, replayed) /\ Coming[i].u <= utterance
  BY <1>1, <1>2, ThinnedAfter
<1> QED BY <1>3 DEF InTurn, d

(* when the server tells one message more,                                 *)
LEMMA TellInTurn ==
    ASSUME Inv, NEW m \in Messages, Tell(m), online, pending' = pending, replayed' = replayed,
           page'.shown = page.shown, utterance' \in Nat, utterance <= utterance',
           m.kind # "clear" => m.u = utterance',
           m.kind = "audio_start" => utterance' = utterance + 1
    PROVE  InTurn'
<1>1. wire \in Seq(Messages) /\ pending \in Seq(Messages) /\ Coming \in Seq(Messages)
      /\ page.shown \in Nat /\ utterance \in Nat
  BY WireInTurn
<1>2. Coming' = Append(Coming, m)
  <2>1. wire' = Append(wire, m) BY DEF Tell
  <2>2. pending \o Append(wire, m) = Append(pending \o wire, m) BY <1>1
  <2> QED BY <2>1, <2>2 DEF Coming
<1>3. page.shown <= utterance /\ InRow(Coming, page.shown, utterance) /\ Firsts(Coming, page.shown, replayed)
  BY DEF Inv, InTurn
<1> DEFINE lo == page.shown
           hi2 == utterance'
<1>4. /\ lo \in Nat /\ lo <= utterance /\ hi2 \in Nat /\ utterance <= hi2
      /\ m.kind # "clear" => m.u = hi2
      /\ m.kind = "audio_start" => hi2 = utterance + 1
      /\ InRow(Coming, lo, utterance) /\ Firsts(Coming, lo, replayed)
  BY <1>1, <1>3
<1> HIDE DEF lo, hi2
<1>5. InRow(Append(Coming, m), lo, hi2) /\ Firsts(Append(Coming, m), lo, replayed)
  BY <1>1, <1>4, OneMore
<1>6. lo <= hi2 BY <1>1, <1>4
<1> QED BY <1>2, <1>5, <1>6 DEF InTurn, lo, hi2

(* when it is the same,                                                    *)
LEMMA SameInTurn ==
    ASSUME Inv, wire' = wire, pending' = pending, replayed' = replayed, page'.shown = page.shown,
           utterance' \in Nat, utterance <= utterance'
    PROVE  InTurn'
<1>1. Coming' = Coming BY DEF Coming
<1>2. Coming \in Seq(Messages) BY WireInTurn
<1> DEFINE g == [k \in DOMAIN Coming |-> k]
<1>3. Thins(Coming, Coming, g) BY DEF Thins
<1> HIDE DEF g
<1> QED BY <1>1, <1>2, <1>3, InTurnOf

(* and when it is all lost.                                                *)
LEMMA EmptyInTurn ==
    ASSUME Inv, wire' = <<>>, pending' = <<>>, replayed' = replayed, page'.shown = page.shown,
           utterance' = utterance
    PROVE  InTurn'
<1>1. Coming' \in Seq(Messages) /\ DOMAIN Coming' = {} BY EmptySeq DEF Coming
<1>2. Thins(Coming', Coming, <<>>) BY <1>1 DEF Thins
<1>3. utterance \in Nat /\ utterance <= utterance' BY WireInTurn
<1> QED BY <1>1, <1>2, <1>3, InTurnOf

(* Every step keeps what comes in turn,                                    *)
LEMMA InTurnStep == Inv /\ [Next]_vars => InTurn'
<1> SUFFICES ASSUME Inv, [Next]_vars PROVE InTurn'
  OBVIOUS
<1>0. /\ wire \in Seq(Messages) /\ pending \in Seq(Messages) /\ Coming \in Seq(Messages)
      /\ page.shown \in Nat /\ utterance \in Nat /\ utterance <= utterance
      /\ page \in Pages
  BY WireInTurn DEF Inv, Typed
<1>u. Utterances = 1 .. Len(Chunks) BY PlayerAssumption DEF Utterances
<1>1. CASE UNCHANGED vars
  BY <1>0, <1>1, SameInTurn DEF vars, server, history
<1>2. CASE Begin
  <2>1. /\ utterance' = utterance + 1 /\ utterance' \in Nat /\ utterance <= utterance'
        /\ page' = page /\ pending' = pending /\ replayed' = replayed /\ Tell(Start(utterance + 1))
    BY <1>0, <1>2 DEF Begin, tabVars, history
  <2>2. CASE online
    <3>1. Start(utterance + 1) \in Messages
      <4>1. utterance + 1 \in Utterances BY <1>0, <1>2, <1>u DEF Begin, Inv, Typed
      <4> QED BY <4>1 DEF Messages
    <3>2. Start(utterance + 1).u = utterance + 1 BY DEF Start
    <3> QED BY <2>1, <2>2, <3>1, <3>2, TellInTurn
  <2>3. CASE ~online
    <3>1. wire' = wire BY <2>1, <2>3 DEF Tell
    <3> QED BY <2>1, <3>1, SameInTurn
  <2> QED BY <2>2, <2>3
<1>3. CASE Produce
  <2>1. /\ utterance' = utterance /\ page' = page /\ pending' = pending /\ replayed' = replayed
        /\ Tell(Chunk(utterance, sent))
    BY <1>3 DEF Produce, tabVars, history
  <2>2. CASE online
    <3>1. Chunk(utterance, sent) \in Messages
      <4>1. utterance \in Utterances /\ sent \in Nat /\ sent < Chunks[utterance]
        BY <1>3 DEF Produce, Inv, Typed
      <4>2. sent \in 0 .. Chunks[utterance] - 1 BY <4>1, PlayerAssumption DEF Utterances
      <4> QED BY <4>1, <4>2 DEF Messages
    <3>2. Chunk(utterance, sent).u = utterance /\ Chunk(utterance, sent).kind = "audio_chunk" BY DEF Chunk
    <3> QED BY <1>0, <2>1, <2>2, <3>1, <3>2, TellInTurn
  <2>3. CASE ~online
    <3>1. wire' = wire BY <2>1, <2>3 DEF Tell
    <3> QED BY <1>0, <2>1, <3>1, SameInTurn
  <2> QED BY <2>2, <2>3
<1>4. CASE Finish
  <2>1. /\ utterance' = utterance /\ page' = page /\ pending' = pending /\ replayed' = replayed
        /\ Tell(End(utterance))
    BY <1>4 DEF Finish, tabVars, history
  <2>2. CASE online
    <3>1. End(utterance) \in Messages BY <1>4 DEF Finish, Inv, Typed, Messages
    <3>2. End(utterance).u = utterance /\ End(utterance).kind = "audio_end" BY DEF End
    <3> QED BY <1>0, <2>1, <2>2, <3>1, <3>2, TellInTurn
  <2>3. CASE ~online
    <3>1. wire' = wire BY <2>1, <2>3 DEF Tell
    <3> QED BY <1>0, <2>1, <3>1, SameInTurn
  <2> QED BY <2>2, <2>3
<1>5. CASE TellClear
  <2>1. /\ utterance' = utterance /\ page' = page /\ pending' = pending /\ replayed' = replayed
        /\ Tell(Clear)
    BY <1>5 DEF TellClear, tabVars, history
  <2>2. CASE online
    <3>1. Clear \in Messages /\ Clear.kind = "clear" BY DEF Messages, Clear
    <3> QED BY <1>0, <2>1, <2>2, <3>1, TellInTurn
  <2>3. CASE ~online
    <3>1. wire' = wire BY <2>1, <2>3 DEF Tell
    <3> QED BY <1>0, <2>1, <3>1, SameInTurn
  <2> QED BY <2>2, <2>3
<1>6. CASE Forget
  BY <1>0, <1>6, SameInTurn DEF Forget, tabVars, history
<1>7. CASE CutShort
  BY <1>0, <1>7, SameInTurn DEF CutShort, history
<1>8. CASE Drop
  <2>1. /\ utterance' = utterance /\ page' = page /\ pending' = pending /\ replayed' = replayed /\ wire' = <<>>
    BY <1>8 DEF Drop, server, history
  <2>2. Coming' = pending BY <1>0, <2>1 DEF Coming
  <2> DEFINE g == [k \in DOMAIN pending |-> k]
  <2>3. Thins(pending, Coming, g) BY <1>0, Parts DEF Coming
  <2> HIDE DEF g
  <2> QED BY <1>0, <2>1, <2>2, <2>3, InTurnOf
<1>9. CASE Rejoin
  <2>1. /\ utterance' = utterance /\ page' = page /\ pending' = pending /\ wire' = Buffer
        /\ replayed' = IF phase = "between" THEN replayed ELSE replayed \cup {utterance}
    BY <1>9 DEF Rejoin, server
  <2>2. /\ Buffer \in Seq(Messages)
        /\ \A k \in DOMAIN Buffer : Buffer[k].kind # "clear" /\ Buffer[k].u = utterance
        /\ phase = "between" => Buffer = <<>>
    BY BufferInTurn DEF Inv
  <2>3. InRow(pending, page.shown, utterance) /\ Firsts(pending, page.shown, replayed) /\ page.shown <= utterance
    BY WireInTurn DEF Inv, InTurn
  <2> DEFINE again2 == replayed'
             b == Buffer
             lo == page.shown
  <2>4. /\ replayed \subseteq again2 /\ b \in Seq(Messages) /\ lo \in Nat /\ lo <= utterance
        /\ \A k \in DOMAIN b : b[k].kind # "clear" /\ b[k].u = utterance /\ utterance \in again2
    <3>1. CASE phase = "between"
      <4>1. DOMAIN b = {}
        <5>1. b = <<>> BY <2>2, <3>1
        <5> HIDE DEF b
        <5> QED BY <5>1
      <4> QED BY <1>0, <2>1, <2>2, <2>3, <4>1
    <3>2. CASE phase # "between"
      BY <1>0, <2>1, <2>2, <2>3, <3>2
    <3> QED BY <3>1, <3>2
  <2>5. Coming' = pending \o b BY <2>1 DEF Coming
  <2>6. InRow(pending, lo, utterance) /\ Firsts(pending, lo, replayed) BY <2>3
  <2> HIDE DEF again2, b, lo
  <2>7. InRow(pending \o b, lo, utterance) /\ Firsts(pending \o b, lo, again2)
    BY <1>0, <2>4, <2>6, Repeated
  <2> QED BY <2>1, <2>4, <2>5, <2>7 DEF InTurn, again2, lo
<1>10. CASE Receive
  <2>1. /\ wire # <<>> /\ wire' = Tail(wire) /\ utterance' = utterance /\ replayed' = replayed
    BY <1>10 DEF Receive, server
  <2>2. CASE speaker = "open"
    <3>1. pending = <<>> /\ pending' = pending BY <1>10, <2>2 DEF Receive, Inv, Untouched
    <3>2. Coming = wire /\ Coming' = Tail(wire) BY <1>0, <2>1, <3>1 DEF Coming
    <3> DEFINE g == [k \in DOMAIN Tail(wire) |-> k + 1]
    <3>3. /\ Tail(wire) \in Seq(Messages) /\ Thins(Tail(wire), wire, g)
          /\ 1 \in DOMAIN wire /\ Head(wire) = wire[1]
      BY <1>0, <2>1, TailThins
    <3>4. \A k \in DOMAIN Tail(wire) : 1 < g[k] BY <3>3
    <3> HIDE DEF g
    <3>5. \/ page'.shown = page.shown
          \/ Head(wire).kind = "audio_start" /\ page'.shown = Head(wire).u
      BY <1>10, <2>2, ReceivedSound
    <3>6. CASE page'.shown = page.shown
      BY <1>0, <2>1, <3>2, <3>3, <3>6, InTurnOf
    <3>7. CASE Head(wire).kind = "audio_start" /\ page'.shown = Head(wire).u
      BY <1>0, <2>1, <3>2, <3>3, <3>4, <3>7, InTurnAfter
    <3> QED BY <3>5, <3>6, <3>7
  <2>3. CASE speaker # "open"
    <3>1. page' = page /\ pending' = Append(pending, Head(wire)) BY <1>10, <2>3 DEF Receive
    <3> DEFINE g == [k \in DOMAIN (pending \o wire) |-> k]
    <3>2. /\ Coming' \in Seq(Messages) /\ Thins(Coming', Coming, g)
      BY <1>0, <2>1, <3>1, Parts DEF Coming
    <3> HIDE DEF g
    <3> QED BY <1>0, <2>1, <3>1, <3>2, InTurnOf
  <2> QED BY <2>2, <2>3
<1>11. CASE SpeakerOpens
  <2>1. /\ wire' = wire /\ utterance' = utterance /\ replayed' = replayed /\ pending' = <<>>
    BY <1>11 DEF SpeakerOpens, server
  <2>2. Coming' = wire BY <1>0, <2>1 DEF Coming
  <2> DEFINE g == [k \in DOMAIN wire |-> Len(pending) + k]
  <2>3. Thins(wire, Coming, g) BY <1>0, Parts DEF Coming
  <2>4. \A k \in DOMAIN wire : g[k] = Len(pending) + k OBVIOUS
  <2> HIDE DEF g
  <2>5. CASE page'.shown = page.shown
    BY <1>0, <2>1, <2>2, <2>3, <2>5, InTurnOf
  <2>6. ASSUME NEW i \in DOMAIN pending, pending[i].kind = "audio_start", page'.shown = pending[i].u
        PROVE  InTurn'
    <3>1. i \in DOMAIN Coming /\ Coming[i] = pending[i]
      <4>1. Thins(pending, Coming, [k \in DOMAIN pending |-> k]) BY <1>0, Parts DEF Coming
      <4> QED BY <4>1 DEF Thins
    <3>2. \A k \in DOMAIN wire : i < g[k] BY <1>0, <2>4
    <3> QED BY <1>0, <2>1, <2>2, <2>3, <2>6, <3>1, <3>2, InTurnAfter
  <2> QED BY <1>11, <2>5, <2>6, OpenedSound
<1>12. CASE SpeakerFails
  <2>1. /\ wire' = wire /\ utterance' = utterance /\ replayed' = replayed /\ pending' = <<>> /\ page' = page
    BY <1>12 DEF SpeakerFails, server, history
  <2>2. Coming' = wire BY <1>0, <2>1 DEF Coming
  <2> DEFINE g == [k \in DOMAIN wire |-> Len(pending) + k]
  <2>3. Thins(wire, Coming, g) BY <1>0, Parts DEF Coming
  <2> HIDE DEF g
  <2> QED BY <1>0, <2>1, <2>2, <2>3, InTurnOf
<1>13. CASE Unlock
  BY <1>0, <1>13, SameInTurn DEF Unlock, server, history
<1>14. CASE Silence
  <2>1. page'.shown = page.shown BY <1>0, <1>14, DroppedPage DEF Silence, Drops
  <2> QED BY <1>0, <1>14, <2>1, SameInTurn DEF Silence, server
<1>15. CASE Unmount
  <2>1. page'.shown = page.shown BY <1>0, <1>15, DroppedPage DEF Unmount, Drops
  <2> QED BY <1>0, <1>15, <2>1, EmptyInTurn DEF Unmount, server
<1>16. CASE OnPlayed
  <2>1. page'.shown = page.shown BY <1>16, PlayedSound
  <2> QED BY <1>0, <1>16, <2>1, SameInTurn DEF OnPlayed, server
<1>17. CASE Process
  <2>1. page'.shown = page.shown BY <1>17, ProcessSound
  <2> QED BY <1>0, <1>17, <2>1, SameInTurn DEF Process, server
<1>18. CASE Report
  BY <1>0, <1>18, SameInTurn DEF Report, server, history
<1> QED BY <1>1, <1>2, <1>3, <1>4, <1>5, <1>6, <1>7, <1>8, <1>9, <1>10, <1>11, <1>12, <1>13, <1>14,
           <1>15, <1>16, <1>17, <1>18 DEF Next, Server, Socket, Page, Device, Stop

(* the page sound,                                                         *)
LEMMA SoundStep == Inv /\ [Next]_vars => PageSound'
<1> SUFFICES ASSUME Inv, [Next]_vars PROVE PageSound'
  OBVIOUS
<1>0. Sound(page, sounded, lastOut, unreported, GoneBy) BY DEF Inv, PageSound
<1>a. ASSUME UNCHANGED <<page, sounded, history>> PROVE PageSound'
  BY <1>0, <1>a DEF PageSound, Sound, GoneBy, history
<1>1. CASE UNCHANGED vars BY <1>1, <1>a DEF vars, worklet
<1>2. CASE Begin \/ Produce \/ Finish \/ Forget \/ TellClear
  BY <1>2, <1>a DEF Begin, Produce, Finish, Forget, TellClear, tabVars, worklet
<1>3. CASE CutShort \/ Drop \/ SpeakerFails \/ Unlock \/ Report
  BY <1>3, <1>a DEF CutShort, Drop, SpeakerFails, Unlock, Report, worklet, history
<1>4. CASE Rejoin BY <1>4, RejoinSound
<1>5. CASE Receive
  <2>1. CASE speaker = "open" BY <1>5, <2>1, ReceivedSound
  <2>2. CASE speaker # "open"
    BY <1>5, <2>2, <1>a DEF Receive, worklet, history
  <2> QED BY <2>1, <2>2
<1>6. CASE SpeakerOpens BY <1>6, OpenedSound
<1>7. CASE Silence
  <2>1. page' \in Pages /\ Drops(page, page') BY <1>7, DroppedPage DEF Silence, Inv, Typed
  <2> QED BY <1>7, <2>1, DroppedSound DEF Silence, worklet
<1>8. CASE Unmount
  <2>1. page' \in Pages /\ Drops(page, page') BY <1>8, DroppedPage DEF Unmount, Inv, Typed
  <2> QED BY <1>8, <2>1, DroppedSound DEF Unmount
<1>9. CASE OnPlayed BY <1>9, PlayedSound
<1>10. CASE Process BY <1>10, ProcessSound
<1> QED BY <1>1, <1>2, <1>3, <1>4, <1>5, <1>6, <1>7, <1>8, <1>9, <1>10
        DEF Next, Server, Socket, Page, Device, Stop

(* the reports behind what sounded,                                        *)
LEMMA ReportedStep == Inv /\ [Next]_vars => Reported'
<1> SUFFICES ASSUME Inv, [Next]_vars PROVE Reported'
  OBVIOUS
<1>0. Reported /\ sounded \in Nat /\ reports \in Seq(Nat) BY DEF Inv, Typed
<1>a. ASSUME UNCHANGED worklet PROVE Reported' BY <1>0, <1>a DEF worklet, Reported
<1>1. CASE UNCHANGED vars BY <1>1, <1>a DEF vars
<1>2. CASE Begin \/ Produce \/ Finish \/ Forget \/ TellClear
  BY <1>2, <1>a DEF Begin, Produce, Finish, Forget, TellClear, tabVars
<1>3. CASE CutShort \/ Drop \/ Rejoin \/ Receive \/ SpeakerOpens \/ SpeakerFails \/ Unlock \/ Silence
  BY <1>3, <1>a DEF CutShort, Drop, Rejoin, Receive, SpeakerOpens, SpeakerFails, Unlock, Silence
<1>4. CASE Unmount BY <1>4, EmptySeq DEF Unmount, Reported
<1>5. CASE OnPlayed
  <2>1. reports # <<>> /\ reports' = Tail(reports) /\ sounded' = sounded BY <1>5 DEF OnPlayed
  <2>2. \A k \in DOMAIN Tail(reports) : k + 1 \in DOMAIN reports /\ Tail(reports)[k] = reports[k + 1]
    BY <1>0, <2>1, HeadTailProperties
  <2> QED BY <1>0, <2>1, <2>2 DEF Reported
<1>6. CASE Process
  <2>1. reports' = reports /\ sounded' = sounded + 1 BY <1>6 DEF Process
  <2>2. \A k \in DOMAIN reports : reports[k] \in Nat BY <1>0
  <2> QED BY <1>0, <2>1, <2>2 DEF Reported
<1>7. CASE Report
  <2>1. reports' = Append(reports, sounded) /\ sounded' = sounded BY <1>7 DEF Report
  <2> QED BY <1>0, <2>1, AppendProperties DEF Reported
<1> QED BY <1>1, <1>2, <1>3, <1>4, <1>5, <1>6, <1>7 DEF Next, Server, Socket, Page, Device, Stop

(* An empty queue waits after any message,                                 *)
LEMMA HandleWaits ==
    ASSUME NEW p \in Pages, NEW m \in Messages, Waits(p)
    PROVE  Waits(Handle(p, m))
<1> DEFINE q == Handle(p, m)
<1>1. q \in Pages /\ Handles(p, m, q) BY HandleCases
<1> HIDE DEF q
<1>2. ASSUME Grows(p, m.u, m.i, q) PROVE q.queue.blocks # <<>>
  <2>1. Len(q.queue.blocks) = Len(p.queue.blocks) + 1 /\ Len(p.queue.blocks) \in Nat
    BY <1>1, <1>2, GrownQueue, PageNumbers
  <2> QED BY <2>1, EmptySeq
<1>3. Waits(q) BY <1>1, <1>2 DEF Handles, Starts, Ends, Drops, Waits
<1> QED BY <1>3 DEF q

(* and after all that waited for the speaker,                              *)
LEMMA FoldWaits ==
    ASSUME NEW p \in Pages, NEW s \in Seq(Messages), Waits(p)
    PROVE  Waits(FoldLeft(Handle, p, s))
<1>1. PICK f : /\ f[0] = p
               /\ \A k \in 1 .. Len(s) : f[k] = Handle(f[k - 1], s[k])
               /\ FoldLeft(Handle, p, s) = f[Len(s)]
  BY HandledInTurn
<1> DEFINE G == {k \in 0 .. Len(s) : f[k] \in Pages /\ Waits(f[k])}
<1>2. Len(s) \in Nat /\ 0 \in G BY <1>1
<1>3. ASSUME NEW k \in 1 .. Len(s), k - 1 \in G PROVE k \in G
  <2>1. s[k] \in Messages BY ElementOfSeq
  <2> QED BY <1>1, <1>3, <2>1, HandleCases, HandleWaits
<1>4. \A k \in 0 .. Len(s) : k \in G
  <2> HIDE DEF G
  <2> QED BY <1>2, <1>3, CountUp
<1> QED BY <1>1, <1>2, <1>4

(* as after any step.                                                      *)
LEMMA WaitsStep == Inv /\ [Next]_vars => Waits(page)'
<1> SUFFICES ASSUME Inv, [Next]_vars PROVE Waits(page')
  OBVIOUS
<1>0. Waits(page) /\ page \in Pages /\ wire \in Seq(Messages) /\ pending \in Seq(Messages) BY DEF Inv, Typed
<1>1. CASE UNCHANGED page BY <1>0, <1>1
<1>2. CASE Receive
  <2>1. CASE speaker = "open"
    <3>1. Head(wire) \in Messages /\ page' = Handle(page, Head(wire))
      BY <1>0, <1>2, <2>1, HeadTailProperties DEF Receive
    <3> QED BY <1>0, <3>1, HandleWaits
  <2>2. CASE speaker # "open" BY <1>0, <1>2, <2>2 DEF Receive
  <2> QED BY <2>1, <2>2
<1>3. CASE SpeakerOpens
  <2>1. page' = FoldLeft(Handle, page, pending) BY <1>3 DEF SpeakerOpens
  <2> QED BY <1>0, <2>1, FoldWaits
<1>4. CASE Silence \/ Unmount
  <2>1. page' = Silenced(page) \/ page' = DropAll(page) BY <1>4 DEF Silence, Unmount
  <2> QED BY <1>0, <2>1, DroppedPage DEF Drops, Waits
<1>5. CASE OnPlayed
  <2>1. Plays(page, Head(reports), page') BY <1>5, PlayedStep DEF Inv
  <2> QED BY <1>0, <2>1 DEF Plays, Waits
<1>6. CASE Process
  <2> DEFINE dry == Len(page.queue.blocks) = 1
             r == [blocks |-> Tail(page.queue.blocks), waiting |-> dry, draining |-> page.queue.draining /\ ~dry]
  <2>1. page' = [page EXCEPT !.queue = r] /\ page.queue.blocks # <<>> BY <1>6 DEF Process
  <2>2. page'.queue.blocks = Tail(page.queue.blocks) /\ page'.queue.waiting = dry
    BY <1>0, <2>1 DEF Pages
  <2>3. Tail(page.queue.blocks) = <<>> => dry
    <3>1. Len(Tail(page.queue.blocks)) = Len(page.queue.blocks) - 1 /\ Len(page.queue.blocks) \in Nat
      BY <1>0, <2>1, PageNumbers, HeadTailProperties
    <3> DEFINE n == Len(page.queue.blocks)
               t == Tail(page.queue.blocks)
    <3>2. t = <<>> => Len(t) = 0 BY EmptySeq
    <3>3. Len(t) = n - 1 /\ n \in Nat BY <3>1
    <3> HIDE DEF n, t
    <3>4. t = <<>> => n = 1 BY <3>2, <3>3
    <3> QED BY <3>4 DEF n, t
  <2> QED BY <2>2, <2>3 DEF Waits
<1>7. UNCHANGED page \/ Receive \/ SpeakerOpens \/ Silence \/ Unmount \/ OnPlayed \/ Process
  BY DEF Next, Server, Socket, Page, Device, Stop, vars, tabVars,
     Begin, Produce, Finish, Forget, CutShort, TellClear, Drop, Rejoin, SpeakerFails, Unlock, Report
<1> QED BY <1>1, <1>2, <1>3, <1>4, <1>5, <1>6, <1>7

(* The invariant is inductive.                                             *)
LEMMA InvStep == Inv /\ [Next]_vars => Inv'
  BY TypedStep, WaitsStep, UntouchedStep, InTurnStep, SoundStep, ReportedStep DEF Inv

(* Variables hold values of their types, and an empty queue waits for a    *)
(* prebuffer.                                                              *)
THEOREM TypeCorrect == Spec => []TypeOK
<1>1. Inv => TypeOK
  <2> SUFFICES ASSUME Inv PROVE TypeOK OBVIOUS
  <2>1. Typed /\ Waits(page) BY DEF Inv
  <2>2. /\ DOMAIN page.tracks \subseteq Utterances
        /\ \A u \in DOMAIN page.tracks : page.tracks[u] \in Track
    BY <2>1, TracksTyped DEF Typed, Pages
  <2>3. page.status \in {"idle", "playing"} /\ page.shown \in 0 .. Len(Chunks) BY <2>1 DEF Typed, Pages
  <2> QED BY <2>1, <2>2, <2>3 DEF TypeOK, Typed, Waits
<1> QED BY <1>1, InitInv, InvStep, PTL DEF Spec

(* Of an utterance that was silenced, cleared or closed nothing is queued  *)
(* to sound, unless a rejoin replays it; after close(), nothing at all.    *)
THEOREM NothingStopped == Spec => []StoppedIsSilent
<1>1. Inv => StoppedIsSilent
  BY DEF Inv, PageSound, Sound, Silent, Untouched, StoppedIsSilent
<1> QED BY <1>1, InitInv, InvStep, PTL DEF Spec

(* The server is told of no more than was heard, but for what had sounded  *)
(* unreported when tracks were dropped.                                    *)
THEOREM Honest == Spec => []HonestMarks
<1>1. Inv => HonestMarks BY DEF Inv, PageSound, Sound, Heard, HonestMarks
<1> QED BY <1>1, InitInv, InvStep, PTL DEF Spec

(* What sounds goes forward, except that an utterance that was over or     *)
(* stopped sounds again if a rejoin replays it.                            *)
THEOREM InOrder == Spec => PlaysForward
<1> DEFINE Steps == sounded' # sounded =>
          \/ sounded = 0 \/ Forward(lastOut, lastOut')
          \/ lastOut'[1] \in (gone.done \cup gone.stopped) \cap replayed
<1>1. ASSUME Inv, [Next]_vars PROVE Steps
  <2>1. CASE Process
    <3>1. lastOut' = Head(page.queue.blocks) /\ page.queue.blocks # <<>> /\ page.queue.blocks \in Seq(Blocks)
      BY <1>1, <2>1, PageNumbers DEF Process, Inv, Typed
    <3>2. 1 \in DOMAIN page.queue.blocks /\ lastOut' = page.queue.blocks[1] BY <3>1, HeadTailProperties
    <3>3. Onward(page, sounded, lastOut, GoneBy \cap replayed) BY <1>1 DEF Inv, PageSound, Sound
    <3> QED BY <3>2, <3>3 DEF Onward, GoneBy
  <2>2. CASE ~Process
    <3>1. UNCHANGED sounded
      BY <1>1, <2>2 DEF Next, Server, Socket, Page, Device, Stop, vars, worklet, tabVars,
          Begin, Produce, Finish, Forget, CutShort, TellClear, Drop, Rejoin, Receive, SpeakerOpens,
          SpeakerFails, Unlock, Silence, Unmount, OnPlayed, Report
    <3> QED BY <3>1
  <2> QED BY <2>1, <2>2
<1>2. Inv /\ [Next]_vars => [Steps]_vars BY <1>1
<1> QED BY <1>2, InitInv, InvStep, PTL DEF Spec, PlaysForward

-----------------------------------------------------------------------------
(* Of an utterance something sounded or is queued.                         *)
Audible(p, u) == heard[u] > 0 \/ \E k \in DOMAIN p.queue.blocks : p.queue.blocks[k][1] = u
Is(m, kind, u) == m.kind = kind /\ m.u = u

(* c are messages of which n have been handled. There is audio of u: sent, *)
(* heard, queued or to come.                                               *)
Known(p, c, n, u) ==
    \/ u = utterance /\ sent > 0
    \/ Audible(p, u)
    \/ \E k \in n + 1 .. Len(c) : Is(c[k], "audio_chunk", u)
(* Whoever starts u, or has a track of it that is still empty, gets a      *)
(* chunk of it before the k-th message.                                    *)
Voiced(p, c, n, u, k) ==
    /\ \A j \in n + 1 .. k - 1 : Is(c[j], "audio_start", u) => \E i \in j + 1 .. k - 1 : Is(c[i], "audio_chunk", u)
    /\ u \in DOMAIN p.tracks /\ p.tracks[u].length = 0 => \E i \in n + 1 .. k - 1 : Is(c[i], "audio_chunk", u)

(* An utterance with audio reaches the page with audio before it ends.     *)
Voices(p, c, n) ==
    /\ \A u \in Utterances : Known(p, c, n, u) => u < utterance \/ (u = utterance /\ sent > 0)
    /\ \A u \in DOMAIN p.tracks : p.tracks[u].length = 0 => p.tracks[u].last = 0
    /\ phase # "between" /\ online /\ sent > 0 => Voiced(p, c, n, utterance, Len(c) + 1)
    /\ \A k \in n + 1 .. Len(c) : c[k].kind = "audio_end" /\ Known(p, c, n, c[k].u) => Voiced(p, c, n, c[k].u, k)

(* The status is that of the tracks; if the one shown is not among them,   *)
(* another plays on and is not told to end any more, or the one shown was  *)
(* over, of which nothing was to be heard.                                 *)
Tells(p, over) ==
    /\ p.status = "idle" => DOMAIN p.tracks = {}
    /\ p.status = "playing" /\ p.shown \notin DOMAIN p.tracks =>
          \/ \E v \in DOMAIN p.tracks : ~p.tracks[v].ended
          \/ p.shown \in over /\ ~Audible(p, p.shown)

StatusInv ==
    /\ phase = "speaking" => \A k \in DOMAIN Coming : ~Is(Coming[k], "audio_end", utterance)
    /\ Voices(page, Coming, 0)
    /\ ~closed => Tells(page, gone.done)

(* The utterance a message starts or carries audio of, and the track left  *)
(* empty by it.                                                            *)
LEMMA HandleEmpty ==
    ASSUME NEW p \in Pages, NEW m \in Messages, NEW u,
           \A v \in DOMAIN p.tracks : p.tracks[v].length = 0 => p.tracks[v].last = 0,
           u \in DOMAIN Handle(p, m).tracks, Handle(p, m).tracks[u].length = 0
    PROVE  /\ ~Is(m, "audio_chunk", u)
           /\ Is(m, "audio_start", u) \/ (u \in DOMAIN p.tracks /\ p.tracks[u].length = 0)
           /\ Handle(p, m).tracks[u].last = 0
<1> DEFINE q == Handle(p, m)
<1>1. q \in Pages /\ Handles(p, m, q) BY HandleCases
<1>2. \A v \in DOMAIN p.tracks : p.tracks[v].length \in Nat /\ p.tracks[v].last \in Nat
  BY TracksTyped DEF Pages, Track
<1>3. ~Is(m, "audio_chunk", u)
  <2> SUFFICES ASSUME m.kind = "audio_chunk", m.u = u PROVE FALSE BY DEF Is
  <2>1. q = OnChunk(p, u, m.i) /\ m.i \in Nat BY MessageKinds DEF Handle
  <2>2. u \in DOMAIN p.tracks BY <2>1 DEF OnChunk
  <2>3. CASE p.tracks[u].length = 0
    <3>1. m.i >= p.tracks[u].last BY <2>1, <2>2, <2>3
    <3>2. Grows(p, u, m.i, q) BY <2>1, <2>2, <3>1, ChunkPage
    <3> QED BY <2>3, <3>2 DEF Grows
  <2>4. CASE p.tracks[u].length # 0
    <3>1. q.tracks[u].length = p.tracks[u].length \/ q.tracks[u].length = p.tracks[u].length + 1
      BY <1>1, <2>2 DEF Handles, Grows
    <3> QED BY <1>2, <2>2, <2>4, <3>1
  <2> QED BY <2>3, <2>4
<1> HIDE DEF q
<1>4. q.tracks[u].length = 0 /\ u \in DOMAIN q.tracks BY DEF q
<1>5. CASE q = p BY <1>3, <1>4, <1>5 DEF q
<1>6. CASE m.kind = "audio_start" /\ Starts(p, m.u, q)
  BY <1>3, <1>4, <1>6 DEF Starts, Is, q
<1>7. CASE m.kind = "audio_chunk" /\ Grows(p, m.u, m.i, q)
  <2>1. u # m.u BY <1>3, <1>7 DEF Is
  <2> QED BY <1>3, <1>4, <1>7, <2>1 DEF Grows, q
<1>8. CASE m.kind = "audio_end" /\ Ends(p, m.u, q)
  BY <1>3, <1>4, <1>8 DEF Ends, SameTracks, q
<1>9. CASE m.kind = "clear" /\ Drops(p, q)
  BY <1>4, <1>9 DEF Drops
<1> QED BY <1>1, <1>5, <1>6, <1>7, <1>8, <1>9 DEF Handles

(* Only a chunk makes more audible, and it of its utterance.               *)
LEMMA HandleAudible ==
    ASSUME NEW p \in Pages, NEW m \in Messages, NEW u, Audible(Handle(p, m), u)
    PROVE  Audible(p, u) \/ Is(m, "audio_chunk", u)
<1> DEFINE q == Handle(p, m)
<1>1. q \in Pages /\ Handles(p, m, q) BY HandleCases
<1> HIDE DEF q
<1>2. Audible(q, u) BY DEF q
<1>3. CASE q.queue.blocks = p.queue.blocks \/ q.queue.blocks = <<>>
  BY <1>2, <1>3, EmptySeq DEF Audible
<1>4. CASE m.kind = "audio_chunk" /\ Grows(p, m.u, m.i, q)
  <2>1. q.queue.blocks = Append(p.queue.blocks, <<m.u, m.i>>) BY <1>4 DEF Grows
  <2>2. p.queue.blocks \in Seq(Blocks) BY DEF Pages, Queues
  <2>3. \A k \in DOMAIN q.queue.blocks : q.queue.blocks[k] = <<m.u, m.i>>
            \/ (k \in DOMAIN p.queue.blocks /\ q.queue.blocks[k] = p.queue.blocks[k])
    BY <2>1, <2>2, AppendProperties
  <2> QED BY <1>2, <1>4, <2>3 DEF Audible, Is
<1> QED BY <1>1, <1>3, <1>4 DEF Handles, Starts, Ends, Drops

(* A message handled keeps what is promised of those after it.             *)
LEMMA HandleVoices ==
    ASSUME NEW p \in Pages, NEW c \in Seq(Messages), NEW n \in Nat, n < Len(c), Voices(p, c, n)
    PROVE  Voices(Handle(p, c[n + 1]), c, n + 1)
<1> DEFINE q == Handle(p, c[n + 1])
           m == c[n + 1]
<1>1. m \in Messages /\ Len(c) \in Nat BY ElementOfSeq
<1>2. ASSUME NEW u, Known(q, c, n + 1, u) PROVE Known(p, c, n, u)
  <2>1. Audible(q, u) => Audible(p, u) \/ Is(m, "audio_chunk", u) BY <1>1, HandleAudible
  <2>2. n + 1 \in n + 1 .. Len(c) /\ (n + 1) + 1 .. Len(c) \subseteq n + 1 .. Len(c) BY <1>1
  <2> HIDE DEF q
  <2> QED BY <1>2, <2>1, <2>2 DEF Known
<1>3. \A v \in DOMAIN p.tracks : p.tracks[v].length = 0 => p.tracks[v].last = 0 BY DEF Voices
<1>4. ASSUME NEW u, u \in DOMAIN q.tracks, q.tracks[u].length = 0
      PROVE  /\ ~Is(m, "audio_chunk", u)
             /\ Is(m, "audio_start", u) \/ (u \in DOMAIN p.tracks /\ p.tracks[u].length = 0)
             /\ q.tracks[u].last = 0
  BY <1>1, <1>3, <1>4, HandleEmpty
<1> HIDE DEF q
<1>5. ASSUME NEW u, NEW k \in Nat, n + 1 < k, Voiced(p, c, n, u, k)
      PROVE  Voiced(q, c, n + 1, u, k)
  <2>1. ASSUME NEW j \in (n + 1) + 1 .. k - 1, Is(c[j], "audio_start", u)
        PROVE  \E i \in j + 1 .. k - 1 : Is(c[i], "audio_chunk", u)
    <3>1. j \in n + 1 .. k - 1 OBVIOUS
    <3> QED BY <1>5, <2>1, <3>1 DEF Voiced
  <2>2. ASSUME u \in DOMAIN q.tracks, q.tracks[u].length = 0
        PROVE  \E i \in (n + 1) + 1 .. k - 1 : Is(c[i], "audio_chunk", u)
    <3>1. CASE Is(m, "audio_start", u)
      <4>1. n + 1 \in n + 1 .. k - 1 BY <1>5
      <4> QED BY <1>5, <3>1, <4>1 DEF Voiced
    <3>2. CASE u \in DOMAIN p.tracks /\ p.tracks[u].length = 0
      <4>1. PICK i \in n + 1 .. k - 1 : Is(c[i], "audio_chunk", u) BY <1>5, <3>2 DEF Voiced
      <4>2. i # n + 1 BY <1>4, <2>2, <4>1
      <4>3. i \in (n + 1) + 1 .. k - 1 BY <4>2
      <4> QED BY <4>1, <4>3
    <3> QED BY <1>4, <2>2, <3>1, <3>2
  <2> QED BY <2>1, <2>2 DEF Voiced
<1> HIDE DEF m
<1>6. \A u \in Utterances : Known(q, c, n + 1, u) => u < utterance \/ (u = utterance /\ sent > 0)
  BY <1>2 DEF Voices
<1>7. phase # "between" /\ online /\ sent > 0 => Voiced(q, c, n + 1, utterance, Len(c) + 1)
  <2>1. Len(c) + 1 \in Nat /\ n + 1 < Len(c) + 1 BY <1>1
  <2> QED BY <1>5, <2>1 DEF Voices
<1>8. \A k \in (n + 1) + 1 .. Len(c) :
         c[k].kind = "audio_end" /\ Known(q, c, n + 1, c[k].u) => Voiced(q, c, n + 1, c[k].u, k)
  <2> SUFFICES ASSUME NEW k \in (n + 1) + 1 .. Len(c), c[k].kind = "audio_end", Known(q, c, n + 1, c[k].u)
               PROVE  Voiced(q, c, n + 1, c[k].u, k)
    OBVIOUS
  <2>1. k \in n + 1 .. Len(c) /\ k \in Nat /\ n + 1 < k BY <1>1
  <2>2. Known(p, c, n, c[k].u) BY <1>2
  <2>3. Voiced(p, c, n, c[k].u, k) BY <2>1, <2>2 DEF Voices
  <2> QED BY <1>5, <2>1, <2>3
<1>9. Voices(q, c, n + 1) BY <1>4, <1>6, <1>7, <1>8 DEF Voices
<1> QED BY <1>9 DEF q

(* A message that may come keeps the status true to the tracks.            *)
LEMMA HandleTells ==
    ASSUME NEW p \in Pages, NEW c \in Seq(Messages), NEW n \in Nat, n < Len(c), Voices(p, c, n),
           Timeline(p), Awaits(p, c[n + 1]), NEW over, NEW more, over \subseteq more, Tells(p, over),
           LET m == c[n + 1] IN
           m.kind = "audio_end" /\ m.u \in DOMAIN p.tracks \ DOMAIN Handle(p, m).tracks => m.u \in more
    PROVE  Tells(Handle(p, c[n + 1]), more)
<1> DEFINE q == Handle(p, c[n + 1])
           m == c[n + 1]
<1>1. m \in Messages /\ Len(c) \in Nat BY ElementOfSeq
<1>2. q \in Pages /\ Handles(p, m, q) BY <1>1, HandleCases
<1>3. m.kind = "audio_end" /\ m.u \in DOMAIN p.tracks \ DOMAIN q.tracks => m.u \in more OBVIOUS
<1>4. ASSUME NEW u, Audible(q, u) PROVE Audible(p, u) \/ Is(m, "audio_chunk", u)
  BY <1>1, <1>4, HandleAudible
<1> HIDE DEF q
<1> SUFFICES Tells(q, more) BY DEF q
<1>5. CASE q = p BY <1>5 DEF Tells
<1>6. CASE m.kind = "audio_start" /\ Starts(p, m.u, q) BY <1>6 DEF Starts, Tells
<1>7. CASE m.kind = "audio_chunk" /\ Grows(p, m.u, m.i, q)
  <2>1. /\ DOMAIN q.tracks = DOMAIN p.tracks /\ q.shown = p.shown /\ q.status = p.status
        /\ \A v \in DOMAIN p.tracks : q.tracks[v].ended = p.tracks[v].ended
        /\ m.u \in DOMAIN p.tracks
    BY <1>7 DEF Grows
  <2>2. p.shown \notin DOMAIN p.tracks /\ Audible(q, p.shown) => Audible(p, p.shown)
    BY <1>4, <2>1 DEF Is
  <2> QED BY <2>1, <2>2 DEF Tells
<1>8. CASE m.kind = "audio_end" /\ Ends(p, m.u, q)
  <2>1. m.u \in DOMAIN p.tracks /\ q.shown = p.shown BY <1>8 DEF Ends
  <2>2. m.u = p.shown
    <3>1. m.u >= p.shown BY <1>8 DEF Awaits
    <3>2. m.u <= p.shown BY <2>1 DEF Timeline
    <3>3. p.shown \in Nat /\ m.u \in Nat BY <2>1, PageNumbers
    <3> QED BY <3>1, <3>2, <3>3
  <2>3. CASE p.tracks[m.u].length > 0
    BY <1>8, <2>1, <2>2, <2>3 DEF Ends, Tells
  <2>4. CASE ~(p.tracks[m.u].length > 0)
    <3>1. p.tracks[m.u].length = 0 BY <2>1, <2>4, TracksTyped DEF Pages, Track
    <3>2. ~Audible(p, m.u)
      <4>1. n + 1 \in n + 1 .. Len(c) /\ n + 1 .. (n + 1) - 1 = {} BY <1>1
      <4>2. Known(p, c, n, m.u) => Voiced(p, c, n, m.u, n + 1) BY <1>8, <4>1 DEF Voices
      <4>3. ~Voiced(p, c, n, m.u, n + 1) BY <2>1, <3>1, <4>1 DEF Voiced
      <4> QED BY <4>2, <4>3 DEF Known
    <3>3. DOMAIN q.tracks = DOMAIN p.tracks \ {m.u} BY <1>8, <2>4 DEF Ends
    <3>4. m.u \in more BY <1>3, <1>8, <2>1, <3>3
    <3>5. ~Audible(q, m.u) BY <1>4, <1>8, <3>2 DEF Is
    <3>6. q.status = IF DOMAIN p.tracks = {m.u} THEN "idle" ELSE p.status BY <1>8, <3>1 DEF Ends
    <3>7. p.status = "playing" BY <2>1, <1>2 DEF Tells, Pages
    <3> QED BY <2>1, <2>2, <3>3, <3>4, <3>5, <3>6, <3>7 DEF Tells
  <2> QED BY <2>3, <2>4
<1>9. CASE m.kind = "clear" /\ Drops(p, q) /\ q.status = "idle" BY <1>9 DEF Drops, Tells
<1> QED BY <1>2, <1>5, <1>6, <1>7, <1>8, <1>9 DEF Handles

(* The messages handled are put aside.                                     *)
LEMMA VoicesBehind ==
    ASSUME NEW p, NEW c \in Seq(Messages), NEW n \in 0 .. Len(c), NEW d \in Seq(Messages),
           Len(d) = Len(c) - n, \A k \in 1 .. Len(d) : d[k] = c[n + k], Voices(p, c, n)
    PROVE  Voices(p, d, 0)
<1>0. Len(c) \in Nat /\ n \in Nat /\ Len(d) \in Nat /\ 0 + 1 = 1 OBVIOUS
<1>1. ASSUME NEW k \in 1 .. Len(d) PROVE n + k \in n + 1 .. Len(c) /\ d[k] = c[n + k]
  BY <1>0
<1>2. ASSUME NEW u, Known(p, d, 0, u) PROVE Known(p, c, n, u)
  BY <1>0, <1>1, <1>2 DEF Known
<1>3. ASSUME NEW u, NEW k \in 1 .. Len(d) + 1, Voiced(p, c, n, u, n + k)
      PROVE  Voiced(p, d, 0, u, k)
  <2>1. ASSUME NEW i \in n + 1 .. n + k - 1 PROVE i - n \in 1 .. k - 1 /\ d[i - n] = c[i]
    <3>1. i - n \in 1 .. k - 1 /\ i - n \in 1 .. Len(d) /\ n + (i - n) = i BY <1>0
    <3>2. d[i - n] = c[n + (i - n)] BY <3>1
    <3> QED BY <3>1, <3>2
  <2>2. ASSUME NEW j \in 1 .. k - 1, Is(d[j], "audio_start", u)
        PROVE  \E i \in j + 1 .. k - 1 : Is(d[i], "audio_chunk", u)
    <3>1. j \in 1 .. Len(d) /\ n + j \in n + 1 .. n + k - 1 BY <1>0
    <3>2. Is(c[n + j], "audio_start", u) BY <1>1, <2>2, <3>1
    <3>3. PICK i \in (n + j) + 1 .. n + k - 1 : Is(c[i], "audio_chunk", u) BY <1>3, <3>1, <3>2 DEF Voiced
    <3>4. i \in n + 1 .. n + k - 1 /\ i - n \in j + 1 .. k - 1 BY <1>0
    <3> QED BY <2>1, <3>3, <3>4
  <2>3. ASSUME u \in DOMAIN p.tracks /\ p.tracks[u].length = 0
        PROVE  \E i \in 1 .. k - 1 : Is(d[i], "audio_chunk", u)
    <3>1. PICK i \in n + 1 .. n + k - 1 : Is(c[i], "audio_chunk", u) BY <1>3, <2>3 DEF Voiced
    <3> QED BY <2>1, <3>1
  <2> QED BY <1>0, <2>2, <2>3 DEF Voiced
<1>4. phase # "between" /\ online /\ sent > 0 => Voiced(p, d, 0, utterance, Len(d) + 1)
  <2>1. n + (Len(d) + 1) = Len(c) + 1 /\ Len(d) + 1 \in 1 .. Len(d) + 1 BY <1>0
  <2> QED BY <1>3, <2>1 DEF Voices
<1>5. ASSUME NEW k \in 1 .. Len(d), d[k].kind = "audio_end", Known(p, d, 0, d[k].u)
      PROVE  Voiced(p, d, 0, d[k].u, k)
  <2>1. n + k \in n + 1 .. Len(c) /\ d[k] = c[n + k] /\ k \in 1 .. Len(d) + 1 BY <1>0, <1>1
  <2>2. Known(p, c, n, d[k].u) BY <1>2, <1>5
  <2>3. Voiced(p, c, n, d[k].u, n + k) BY <1>5, <2>1, <2>2 DEF Voices
  <2> QED BY <1>3, <2>1, <2>3
<1> QED BY <1>0, <1>2, <1>4, <1>5 DEF Voices

(* What is lost on a page without tracks is lost whole.                    *)
LEMMA VoicesLost ==
    ASSUME NEW p, DOMAIN p.tracks = {}, NEW c \in Seq(Messages), NEW n \in 0 .. Len(c), Voices(p, c, 0)
    PROVE  Voices(p, c, n)
<1>0. Len(c) \in Nat /\ n \in Nat /\ n + 1 .. Len(c) \subseteq 0 + 1 .. Len(c) OBVIOUS
<1>1. \A u : Known(p, c, n, u) => Known(p, c, 0, u) BY <1>0 DEF Known
<1>2. ASSUME NEW u, NEW k \in Nat, Voiced(p, c, 0, u, k) PROVE Voiced(p, c, n, u, k)
  <2>1. n + 1 .. k - 1 \subseteq 0 + 1 .. k - 1 BY <1>0
  <2> QED BY <1>2, <2>1 DEF Voiced
<1> QED BY <1>0, <1>1, <1>2 DEF Voices

(* The page shows the utterances in turn while the messages are handled.   *)
LEMMA FoldTells ==
    ASSUME NEW c \in Seq(Messages), NEW n \in 0 .. Len(c), NEW f, NEW over,
           \A k \in 1 .. n : f[k] = Handle(f[k - 1], c[k]) /\ Awaits(f[k - 1], c[k]),
           \A k \in 0 .. n : f[k] \in Pages /\ Timeline(f[k]),
           \A k \in 1 .. n : c[k].kind = "audio_end" => c[k].u \in over,
           Voices(f[0], c, 0)
    PROVE  Voices(f[n], c, n) /\ (Tells(f[0], over) => Tells(f[n], over))
<1> DEFINE G == {k \in 0 .. n : Voices(f[k], c, k) /\ (Tells(f[0], over) => Tells(f[k], over))}
<1>0. n \in Nat /\ Len(c) \in Nat OBVIOUS
<1>1. 0 \in G BY <1>0
<1>2. ASSUME NEW k \in 1 .. n, k - 1 \in G PROVE k \in G
  <2> DEFINE i == k - 1
             g == f[i]
  <2>1. i \in 0 .. n /\ i \in Nat /\ i < Len(c) /\ i + 1 = k BY <1>0
  <2>2. Voices(g, c, i) /\ (Tells(f[0], over) => Tells(g, over)) BY <1>2
  <2>3. g \in Pages /\ Timeline(g) /\ f[k] = Handle(g, c[k]) /\ Awaits(g, c[k]) BY <2>1
  <2>4. c[k].kind = "audio_end" => c[k].u \in over OBVIOUS
  <2> HIDE DEF i, g
  <2>5. Voices(f[k], c, k) BY <2>1, <2>2, <2>3, HandleVoices
  <2>6. Tells(g, over) => Tells(f[k], over)
    <3>1. over \subseteq over /\ c[i + 1] = c[k] BY <2>1
    <3>2. LET m == c[i + 1] IN
          m.kind = "audio_end" /\ m.u \in DOMAIN g.tracks \ DOMAIN Handle(g, m).tracks => m.u \in over
      BY <2>4, <3>1
    <3>3. Awaits(g, c[i + 1]) /\ f[k] = Handle(g, c[i + 1]) /\ Voices(g, c, i) /\ g \in Pages /\ Timeline(g)
      BY <2>2, <2>3, <3>1
    <3>4. Tells(g, over) => Tells(Handle(g, c[i + 1]), over) BY <2>1, <3>1, <3>2, <3>3, HandleTells
    <3> QED BY <3>3, <3>4
  <2> QED BY <2>2, <2>5, <2>6
<1>3. \A k \in 0 .. n : k \in G
  <2> HIDE DEF G
  <2> QED BY <1>0, <1>1, <1>2, CountUp
<1> QED BY <1>0, <1>3

(* Less to come, of a socket that is lost, or no more to hear and no track *)
(* that was not there.                                                     *)
LEMMA VoicesKept ==
    ASSUME NEW p, NEW c \in Seq(Messages), Voices(p, c, 0), SameTracks(p, page'),
           Coming' \in Seq(Messages), Len(Coming') <= Len(c), \A k \in 1 .. Len(Coming') : Coming'[k] = c[k],
           online' => online /\ Len(Coming') = Len(c),
           \A u : Audible(page, u)' => Audible(p, u),
           utterance' = utterance, sent' = sent, phase' # "between" => phase # "between"
    PROVE  Voices(page, Coming, 0)'
<1> DEFINE d == Coming'
           q == page'
<1>0. /\ Len(c) \in Nat /\ Len(d) \in Nat /\ 0 + 1 = 1 /\ 1 .. Len(d) \subseteq 1 .. Len(c)
      /\ \A k \in 1 .. Len(d) : d[k] = c[k]
  OBVIOUS
<1>k. /\ d \in Seq(Messages) /\ utterance' = utterance /\ sent' = sent
      /\ online' => online /\ Len(d) = Len(c)
      /\ phase' # "between" => phase # "between"
  OBVIOUS
<1>a. ASSUME NEW u, Known(page, Coming, 0, u)' PROVE Known(p, c, 0, u)
  <2>1. \/ u = utterance /\ sent > 0
        \/ Audible(page, u)'
        \/ \E k \in 1 .. Len(d) : Is(d[k], "audio_chunk", u)
    BY <1>0, <1>k, <1>a DEF Known, Is
  <2> HIDE DEF d
  <2> QED BY <1>0, <2>1 DEF Known
<1>b. SameTracks(p, q) OBVIOUS
<1> HIDE DEF d, q
<1>c. ASSUME NEW u, NEW k \in 1 .. Len(d) + 1, Voiced(p, c, 0, u, k) PROVE Voiced(q, d, 0, u, k)
  <2>1. \A i \in 1 .. k - 1 : d[i] = c[i] /\ \A j \in 1 .. k - 1 : i + 1 .. k - 1 \subseteq 1 .. k - 1
    BY <1>0
  <2>2. ASSUME NEW j \in 1 .. k - 1, Is(d[j], "audio_start", u)
        PROVE  \E i \in j + 1 .. k - 1 : Is(d[i], "audio_chunk", u)
    <3>1. Is(c[j], "audio_start", u) BY <2>1, <2>2
    <3>2. PICK i \in j + 1 .. k - 1 : Is(c[i], "audio_chunk", u) BY <1>0, <1>c, <3>1 DEF Voiced
    <3> QED BY <2>1, <3>2
  <2>3. ASSUME u \in DOMAIN q.tracks, q.tracks[u].length = 0
        PROVE  \E i \in 1 .. k - 1 : Is(d[i], "audio_chunk", u)
    <3>1. u \in DOMAIN p.tracks /\ p.tracks[u].length = 0 BY <1>b, <2>3 DEF SameTracks
    <3>2. PICK i \in 1 .. k - 1 : Is(c[i], "audio_chunk", u) BY <1>0, <1>c, <3>1 DEF Voiced
    <3> QED BY <2>1, <3>2
  <2> QED BY <1>0, <2>2, <2>3 DEF Voiced
<1>1. \A u \in Utterances : Known(page, Coming, 0, u)' => u < utterance' \/ (u = utterance' /\ sent' > 0)
  BY <1>a, <1>k DEF Voices
<1>2. \A u \in DOMAIN q.tracks : q.tracks[u].length = 0 => q.tracks[u].last = 0
  BY <1>b DEF SameTracks, Voices
<1>3. ASSUME phase' # "between", online', sent' > 0 PROVE Voiced(q, d, 0, utterance', Len(d) + 1)
  <2>0. Len(d) = Len(c) BY <1>k, <1>3, Zenon
  <2>1. Len(d) + 1 \in 1 .. Len(d) + 1 /\ Len(d) = Len(c) BY <1>0, <2>0
  <2>2. Voiced(p, c, 0, utterance, Len(c) + 1)
    <3>1. phase # "between" /\ online BY <1>k, <1>3, Zenon
    <3>2. sent > 0 BY <1>k, <1>3
    <3>3. phase # "between" /\ online /\ sent > 0 => Voiced(p, c, 0, utterance, Len(c) + 1)
      BY Zenon DEF Voices
    <3> QED BY <3>1, <3>2, <3>3, Zenon
  <2>3. Voiced(p, c, 0, utterance', Len(d) + 1) BY <1>k, <2>1, <2>2
  <2> QED BY <1>c, <2>1, <2>3
<1>4. ASSUME NEW k \in 0 + 1 .. Len(d), NEW u, d[k].kind = "audio_end", d[k].u = u, Known(page, Coming, 0, u)'
      PROVE  Voiced(q, d, 0, u, k)
  <2>1. k \in 0 + 1 .. Len(c) /\ k \in 1 .. Len(d) + 1 /\ d[k] = c[k] BY <1>0
  <2>2. Known(p, c, 0, u) BY <1>a, <1>4
  <2>3. Voiced(p, c, 0, u, k) BY <1>4, <2>1, <2>2 DEF Voices
  <2> QED BY <1>c, <2>1, <2>3
<1> QED BY <1>1, <1>2, <1>3, <1>4 DEF Voices, d, q

(* More to come: of an utterance that is thought to have audio as before,  *)
(* or that gets it in what is added.                                       *)
LEMMA VoicesMore ==
    ASSUME NEW c \in Seq(Messages), Voices(page, c, 0), page' = page, heard' = heard,
           Coming' \in Seq(Messages), Len(Coming') >= Len(c), \A k \in 1 .. Len(c) : Coming'[k] = c[k],
           \A u \in Utterances : Known(page, Coming, 0, u)' => u < utterance' \/ (u = utterance' /\ sent' > 0),
           phase' # "between" /\ online' /\ sent' > 0 =>
                Voiced(page, Coming', 0, utterance', Len(Coming') + 1),
           \A u : \A k \in 1 .. Len(c) :
                Is(c[k], "audio_end", u) /\ Known(page, Coming, 0, u)' => Known(page, c, 0, u),
           \A u : \A k \in Len(c) + 1 .. Len(Coming') :
                Is(Coming'[k], "audio_end", u) /\ Known(page, Coming, 0, u)' => Voiced(page, Coming', 0, u, k)
    PROVE  Voices(page, Coming, 0)'
<1> DEFINE d == Coming'
<1>0. /\ Len(c) \in Nat /\ Len(d) \in Nat /\ 0 + 1 = 1 /\ 1 .. Len(c) \subseteq 1 .. Len(d)
      /\ \A k \in 1 .. Len(c) : d[k] = c[k]
  OBVIOUS
<1>c. ASSUME NEW u, NEW k \in 1 .. Len(c), Voiced(page, c, 0, u, k) PROVE Voiced(page, d, 0, u, k)
  <2> HIDE DEF d
  <2>1. \A i \in 1 .. k - 1 : d[i] = c[i] /\ i + 1 .. k - 1 \subseteq 1 .. k - 1
    BY <1>0
  <2> QED BY <1>0, <1>c, <2>1 DEF Voiced
<1>1. phase' # "between" /\ online' /\ sent' > 0 => Voiced(page, d, 0, utterance', Len(d) + 1)
  BY Zenon DEF d
<1>2. ASSUME NEW k \in 0 + 1 .. Len(d), NEW u, d[k].kind = "audio_end", d[k].u = u, Known(page, Coming, 0, u)'
      PROVE  Voiced(page, d, 0, u, k)
  <2>1. CASE k \in 1 .. Len(c)
    <3>1. d[k] = c[k] BY <1>0, <2>1
    <3>2. Is(c[k], "audio_end", u) BY <1>2, <3>1 DEF Is
    <3>3. Known(page, c, 0, u) BY <1>2, <2>1, <3>2, Zenon
    <3>4. Voiced(page, c, 0, u, k)
      <4> HIDE DEF d
      <4> QED BY <1>0, <2>1, <3>2, <3>3 DEF Voices, Is
    <3> QED BY <1>c, <2>1, <3>4
  <2>2. CASE k \notin 1 .. Len(c)
    <3>1. k \in Len(c) + 1 .. Len(d)
      <4> HIDE DEF d
      <4> QED BY <1>0, <2>2
    <3>2. Is(d[k], "audio_end", u) BY <1>2 DEF Is
    <3> QED BY <1>2, <3>1, <3>2, Zenon DEF d
  <2> QED BY <2>1, <2>2
<1>3. \A u \in DOMAIN page.tracks : page.tracks[u].length = 0 => page.tracks[u].last = 0 BY DEF Voices
<1>4. \A u \in Utterances : Known(page, Coming, 0, u)' => u < utterance' \/ (u = utterance' /\ sent' > 0)
  OBVIOUS
<1>5. page' = page OBVIOUS
<1> HIDE DEF d
<1> QED BY <1>1, <1>2, <1>3, <1>4, <1>5 DEF Voices, d

(* What is known of audio, said with the messages to come.                 *)
LEMMA KnownOf ==
    ASSUME NEW c \in Seq(Messages), page' = page, heard' = heard, Coming' \in Seq(Messages),
           Len(Coming') >= Len(c), \A k \in 1 .. Len(c) : Coming'[k] = c[k],
           NEW u, Known(page, Coming, 0, u)'
    PROVE  \/ u = utterance' /\ sent' > 0
           \/ Audible(page, u)
           \/ \E k \in 1 .. Len(c) : Is(c[k], "audio_chunk", u)
           \/ \E k \in Len(c) + 1 .. Len(Coming') : Is(Coming'[k], "audio_chunk", u)
<1>1. \/ u = utterance' /\ sent' > 0
      \/ Audible(page, u)
      \/ \E k \in 0 + 1 .. Len(Coming') : Is(Coming'[k], "audio_chunk", u)
  BY DEF Known, Audible, Is
<1> DEFINE d == Coming'
<1>2. /\ Len(c) \in Nat /\ Len(d) \in Nat /\ \A k \in 1 .. Len(c) : d[k] = c[k]
  OBVIOUS
<1> HIDE DEF d
<1>3. \A k \in 0 + 1 .. Len(d) : k \in 1 .. Len(c) \/ k \in Len(c) + 1 .. Len(d) BY <1>2
<1> QED BY <1>1, <1>2, <1>3 DEF d

(* What is told comes after all that is to come, if the socket is there.   *)
LEMMA ToldLast ==
    ASSUME Inv, NEW m \in Messages, Tell(m), pending' = pending
    PROVE  /\ Coming' \in Seq(Messages) /\ Coming \in Seq(Messages) /\ Len(Coming') >= Len(Coming)
           /\ \A k \in 1 .. Len(Coming) : Coming'[k] = Coming[k]
           /\ \A k \in Len(Coming) + 1 .. Len(Coming') :
                  Coming'[k] = m /\ k = Len(Coming) + 1 /\ k = Len(Coming') /\ online
           /\ online => Len(Coming') = Len(Coming) + 1
<1>1. wire \in Seq(Messages) /\ pending \in Seq(Messages) /\ Coming \in Seq(Messages)
  BY WireInTurn
<1>2. CASE online
  <2>1. wire' = Append(wire, m) BY <1>2 DEF Tell
  <2>2. pending \o Append(wire, m) = Append(pending \o wire, m) BY <1>1
  <2>3. Coming' = Append(Coming, m) BY <2>1, <2>2 DEF Coming
  <2> DEFINE c == Coming
             d == Append(c, m)
  <2>4. c \in Seq(Messages) BY <1>1
  <2> HIDE DEF c
  <2>5. /\ d \in Seq(Messages) /\ Len(d) = Len(c) + 1 /\ Len(c) \in Nat
        /\ \A k \in 1 .. Len(c) : d[k] = c[k]
        /\ d[Len(c) + 1] = m
    BY <2>4
  <2> HIDE DEF d
  <2>6. /\ Len(d) >= Len(c)
        /\ \A k \in Len(c) + 1 .. Len(d) : d[k] = m /\ k = Len(c) + 1 /\ k = Len(d)
    BY <2>5
  <2> QED BY <1>1, <1>2, <2>3, <2>5, <2>6 DEF d, c
<1>3. CASE ~online
  <2>1. Coming' = Coming BY <1>3 DEF Tell, Coming
  <2>2. Len(Coming) \in Nat BY <1>1
  <2> QED BY <1>1, <1>3, <2>1, <2>2
<1> QED BY <1>2, <1>3

(* What the server tells: the next utterance, a chunk or the end of this   *)
(* one, or a clear.                                                        *)
LEMMA ToldVoices ==
    ASSUME Inv, StatusInv, NEW m \in Messages, Tell(m), pending' = pending, page' = page, heard' = heard,
           online' = online,
           \/ utterance' = utterance /\ sent' = sent
           \/ utterance' = utterance + 1 /\ sent' = 0
           \/ utterance' = utterance /\ sent' = sent + 1 /\ phase = "speaking",
           m.kind = "audio_chunk" => m.u = utterance /\ utterance' = utterance /\ sent' > 0,
           phase' # "between" /\ sent' > 0 =>
                \/ m.kind = "audio_chunk"
                \/ phase # "between" /\ sent' = sent /\ utterance' = utterance /\ m.kind # "audio_start",
           m.kind = "audio_end" => m.u = utterance /\ utterance' = utterance /\ sent' = sent /\ phase # "between"
    PROVE  Voices(page, Coming, 0)'
<1> DEFINE c == Coming
           d == Coming'
<1>1. /\ d \in Seq(Messages) /\ c \in Seq(Messages) /\ Len(d) >= Len(c)
      /\ \A k \in 1 .. Len(c) : d[k] = c[k]
      /\ \A k \in Len(c) + 1 .. Len(d) : d[k] = m /\ k = Len(c) + 1 /\ k = Len(d) /\ online
      /\ online => Len(d) = Len(c) + 1
  BY ToldLast
<1>0. /\ Len(c) \in Nat /\ Len(d) \in Nat /\ sent \in Nat /\ utterance \in Nat BY <1>1, WireInTurn DEF Inv, Typed
<1>2. Voices(page, c, 0) BY DEF StatusInv
<1>3. phase = "speaking" => \A k \in 1 .. Len(c) : ~Is(c[k], "audio_end", utterance)
  BY <1>1 DEF StatusInv
<1>4. \A u : Known(page, Coming, 0, u)' =>
           \/ u = utterance' /\ sent' > 0
           \/ Audible(page, u)
           \/ \E k \in 1 .. Len(c) : Is(c[k], "audio_chunk", u)
           \/ \E k \in Len(c) + 1 .. Len(d) : Is(d[k], "audio_chunk", u)
  BY <1>1, KnownOf
<1>5. page' = page /\ heard' = heard OBVIOUS
<1>6. Utterances \subseteq Nat BY PlayerAssumption DEF Utterances
<1> HIDE DEF c, d
<1>7. \A u : (\/ Audible(page, u)
              \/ \E k \in 1 .. Len(c) : Is(c[k], "audio_chunk", u)) => Known(page, c, 0, u)
  BY <1>0 DEF Known
<1>8. ASSUME NEW u, Known(page, Coming, 0, u)'
      PROVE  (u = utterance' /\ sent' > 0) \/ Known(page, c, 0, u)
  <2>1. \A k \in Len(c) + 1 .. Len(d) : Is(d[k], "audio_chunk", u) => u = utterance' /\ sent' > 0
    BY <1>1 DEF Is
  <2> QED BY <1>4, <1>7, <1>8, <2>1
<1>9. ASSUME NEW u \in Utterances, Known(page, Coming, 0, u)'
      PROVE  u < utterance' \/ (u = utterance' /\ sent' > 0)
  <2>1. CASE Known(page, c, 0, u)
    <3>1. u < utterance \/ (u = utterance /\ sent > 0) BY <1>2, <2>1 DEF Voices
    <3> QED BY <1>0, <1>6, <3>1
  <2> QED BY <1>8, <1>9, <2>1
<1>10. ASSUME NEW u, NEW k \in 1 .. Len(c), Is(c[k], "audio_end", u), Known(page, Coming, 0, u)'
       PROVE  Known(page, c, 0, u)
  <2>1. CASE u = utterance' /\ sent' > 0
    <3>1. CASE utterance' = utterance /\ sent' = sent BY <2>1, <3>1 DEF Known
    <3>2. CASE utterance' = utterance /\ phase = "speaking" BY <1>3, <1>10, <2>1, <3>2
    <3>3. CASE sent' = 0 BY <2>1, <3>3
    <3> QED BY <3>1, <3>2, <3>3
  <2> QED BY <1>8, <1>10, <2>1
<1>11. ASSUME online, phase # "between", sent > 0, m.kind # "audio_start"
       PROVE  Voiced(page, d, 0, utterance, Len(c) + 1) /\ Voiced(page, d, 0, utterance, Len(d) + 1)
  <2>1. Voiced(page, c, 0, utterance, Len(c) + 1) BY <1>2, <1>11 DEF Voices
  <2>2. Len(d) = Len(c) + 1 /\ d[Len(d)] = m BY <1>0, <1>1, <1>11
  <2>3. ASSUME NEW j \in 1 .. Len(d), Is(d[j], "audio_start", utterance)
        PROVE  \E i \in j + 1 .. Len(c) : Is(d[i], "audio_chunk", utterance)
    <3>1. j \in 1 .. Len(c) BY <1>0, <1>11, <2>2, <2>3 DEF Is
    <3>2. Is(c[j], "audio_start", utterance) BY <1>1, <2>3, <3>1
    <3>3. j \in 0 + 1 .. (Len(c) + 1) - 1 /\ (Len(c) + 1) - 1 = Len(c) BY <1>0, <3>1
    <3>4. PICK i \in j + 1 .. Len(c) : Is(c[i], "audio_chunk", utterance) BY <2>1, <3>2, <3>3 DEF Voiced
    <3>5. i \in 1 .. Len(c) BY <1>0, <3>1
    <3> QED BY <1>1, <3>4, <3>5
  <2>4. ASSUME utterance \in DOMAIN page.tracks /\ page.tracks[utterance].length = 0
        PROVE  \E i \in 1 .. Len(c) : Is(d[i], "audio_chunk", utterance)
    <3>1. PICK i \in 0 + 1 .. (Len(c) + 1) - 1 : Is(c[i], "audio_chunk", utterance) BY <2>1, <2>4 DEF Voiced
    <3>2. i \in 1 .. Len(c) BY <1>0
    <3> QED BY <1>1, <3>1, <3>2
  <2>5. /\ 0 + 1 .. (Len(c) + 1) - 1 = 1 .. Len(c) /\ 0 + 1 .. (Len(d) + 1) - 1 = 1 .. Len(d)
        /\ 1 .. Len(c) \subseteq 1 .. Len(d) /\ (Len(c) + 1) - 1 = Len(c) /\ (Len(d) + 1) - 1 = Len(d)
        /\ \A j \in 1 .. Len(d) : j + 1 .. Len(c) \subseteq j + 1 .. Len(d)
    BY <1>0, <2>2
  <2> QED BY <2>3, <2>4, <2>5 DEF Voiced
<1>12. ASSUME phase' # "between", online', sent' > 0 PROVE Voiced(page, d, 0, utterance', Len(d) + 1)
  <2>0. online BY <1>12
  <2>1. CASE m.kind = "audio_chunk"
    <3>1. Is(d[Len(d)], "audio_chunk", utterance') /\ Len(d) = Len(c) + 1 /\ d[Len(d)] = m
      BY <1>0, <1>1, <2>0, <2>1 DEF Is
    <3>2. 0 + 1 .. (Len(d) + 1) - 1 = 1 .. Len(d) /\ Len(d) \in 1 .. Len(d) /\ (Len(d) + 1) - 1 = Len(d)
      BY <1>0, <3>1
    <3>3. \A j \in 1 .. Len(d) : Is(d[j], "audio_start", utterance') => Len(d) \in j + 1 .. Len(d)
      BY <1>0, <2>1, <3>1 DEF Is
    <3> QED BY <3>1, <3>2, <3>3 DEF Voiced
  <2>2. CASE phase # "between" /\ sent' = sent /\ utterance' = utterance /\ m.kind # "audio_start"
    BY <1>11, <1>12, <2>0, <2>2
  <2> QED BY <1>12, <2>1, <2>2
<1>13. ASSUME NEW u, NEW k \in Len(c) + 1 .. Len(d), Is(d[k], "audio_end", u), Known(page, Coming, 0, u)'
       PROVE  Voiced(page, d, 0, u, k)
  <2>1. online /\ k = Len(c) + 1 /\ d[k] = m BY <1>1
  <2>2. m.kind = "audio_end" /\ u = utterance /\ phase # "between" BY <1>13, <2>1 DEF Is
  <2>3. sent > 0
    <3>1. (u = utterance' /\ sent' > 0) \/ Known(page, c, 0, u) BY <1>8, <1>13
    <3>2. u \in Utterances BY <2>2 DEF Inv, Typed
    <3>3. Known(page, c, 0, u) => u < utterance \/ sent > 0 BY <1>2, <3>2 DEF Voices
    <3> QED BY <1>0, <2>2, <3>1, <3>3
  <2> QED BY <1>11, <2>1, <2>2, <2>3
<1>14. \A u \in Utterances : Known(page, Coming, 0, u)' => u < utterance' \/ (u = utterance' /\ sent' > 0) BY <1>9
<1>15. \A u : \A k \in 1 .. Len(c) : Is(c[k], "audio_end", u) /\ Known(page, Coming, 0, u)' => Known(page, c, 0, u) BY <1>10
<1>16. \A u : \A k \in Len(c) + 1 .. Len(d) : Is(d[k], "audio_end", u) /\ Known(page, Coming, 0, u)' => Voiced(page, d, 0, u, k)
  BY <1>13
<1>17. phase' # "between" /\ online' /\ sent' > 0 => Voiced(page, d, 0, utterance', Len(d) + 1) BY <1>12
<1> USE DEF d
<1> QED BY <1>1, <1>2, <1>5, <1>14, <1>15, <1>16, <1>17, VoicesMore

(* A rejoin: an utterance with audio is replayed with it, behind its start. *)
LEMMA RejoinVoices ==
    ASSUME Inv, StatusInv, Rejoin
    PROVE  Voices(page, Coming, 0)'
<1> DEFINE c == pending
           d == Coming'
           b == Buffer
           n == Len(pending)
<1>1. /\ ~online /\ wire' = b /\ pending' = pending /\ page' = page /\ heard' = heard
      /\ utterance' = utterance /\ sent' = sent /\ phase' = phase
  BY DEF Rejoin, server
<1>2. c \in Seq(Messages) /\ wire = <<>> /\ sent \in Nat BY <1>1 DEF Inv, Typed, Untouched
<1>3. b \in Seq(Messages) BY BufferInTurn DEF Inv
<1>4. Coming = c BY <1>2 DEF Coming
<1>5. /\ d \in Seq(Messages) /\ Len(d) = n + Len(b) /\ n \in Nat /\ Len(b) \in Nat
      /\ \A k \in 1 .. n : d[k] = c[k]
      /\ \A k \in 1 .. Len(b) : d[n + k] = b[k]
  <2>1. d = c \o b BY <1>1 DEF Coming
  <2> HIDE DEF b, c
  <2> QED BY <1>2, <1>3, <2>1, Joined DEF c
<1>6. Voices(page, c, 0) BY <1>4 DEF StatusInv
<1>7. /\ b # <<>> => phase # "between" /\ Is(b[1], "audio_start", utterance)
      /\ \A k \in 2 .. Len(b) : Is(b[k], "audio_chunk", utterance) \/ Is(b[k], "audio_end", utterance)
      /\ phase # "between" /\ sent > 0 => Len(b) >= 2 /\ Is(b[2], "audio_chunk", utterance)
  <2>1. CASE phase = "between" BY <2>1, EmptySeq DEF Buffer
  <2>2. CASE phase # "between"
    <3> DEFINE x == <<Start(utterance)>>
               y == [k \in 1 .. sent |-> Chunk(utterance, k - 1)]
               z == IF phase = "ended" THEN <<End(utterance)>> ELSE <<>>
    <3>0. utterance \in Utterances /\ sent <= Chunks[utterance] /\ Chunks[utterance] \in Nat
      BY <2>2, PlayerAssumption DEF Inv, Typed, Utterances
    <3>1. b = (x \o y) \o z BY <2>2 DEF Buffer
    <3>a. Start(utterance) \in Messages /\ End(utterance) \in Messages BY <3>0 DEF Messages
    <3>c. ASSUME NEW k \in 1 .. sent PROVE Chunk(utterance, k - 1) \in Messages
      <4>1. k - 1 \in 0 .. Chunks[utterance] - 1 BY <1>2, <3>0
      <4> QED BY <3>0, <4>1 DEF Messages
    <3>d. x \in Seq(Messages) /\ Len(x) = 1 /\ x[1] = Start(utterance) BY <3>a
    <3>e. y \in Seq(Messages) /\ Len(y) = sent /\ \A k \in 1 .. sent : y[k] = Chunk(utterance, k - 1)
      BY <1>2, <3>c
    <3>g. z \in Seq(Messages) /\ \A k \in 1 .. Len(z) : z[k] = End(utterance)
      <4>1. CASE phase = "ended" BY <3>a, <4>1
      <4>2. CASE phase # "ended" BY <4>2, EmptySeq
      <4> QED BY <4>1, <4>2
    <3>f. \A i \in Nat : /\ Is(Chunk(utterance, i), "audio_chunk", utterance)
                         /\ Is(Start(utterance), "audio_start", utterance) /\ Is(End(utterance), "audio_end", utterance)
      BY DEF Is, Chunk, Start, End
    <3> HIDE DEF x, y, z, b
    <3>3. /\ x \o y \in Seq(Messages) /\ Len(x \o y) = 1 + sent
          /\ (x \o y)[1] = x[1] /\ \A k \in 1 .. sent : (x \o y)[1 + k] = y[k]
      BY <3>d, <3>e, Joined
    <3> DEFINE w == x \o y
    <3> HIDE DEF w
    <3>4. /\ Len(b) = 1 + sent + Len(z) /\ Len(z) \in Nat
          /\ \A k \in 1 .. 1 + sent : b[k] = w[k]
          /\ \A k \in 1 .. Len(z) : b[1 + sent + k] = z[k]
      <4>1. w \in Seq(Messages) /\ Len(w) = 1 + sent BY <3>3 DEF w
      <4>2. b = w \o z BY <3>1 DEF w
      <4>5. w \in Seq(Messages) /\ z \in Seq(Messages) /\ Len(z) \in Nat BY <3>g, <4>1
      <4>3. /\ Len(w \o z) = Len(w) + Len(z)
            /\ \A k \in 1 .. Len(w) : (w \o z)[k] = w[k]
            /\ \A k \in 1 .. Len(z) : (w \o z)[Len(w) + k] = z[k]
        BY <4>5, Joined
      <4>4. sent \in Nat BY <1>2
      <4> QED BY <4>1, <4>2, <4>3, <4>4, <4>5
    <3>5. b[1] = Start(utterance) BY <1>2, <3>d, <3>3, <3>4 DEF w
    <3>6. \A k \in 1 .. sent : b[1 + k] = Chunk(utterance, k - 1)
      <4> SUFFICES ASSUME NEW k \in 1 .. sent PROVE b[1 + k] = Chunk(utterance, k - 1) OBVIOUS
      <4>1. 1 + k \in 1 .. 1 + sent BY <1>2
      <4> QED BY <3>e, <3>3, <3>4, <4>1 DEF w
    <3>7. ASSUME NEW k \in 2 .. Len(b)
          PROVE  Is(b[k], "audio_chunk", utterance) \/ Is(b[k], "audio_end", utterance)
      <4>1. CASE k <= 1 + sent
        <5>1. k - 1 \in 1 .. sent /\ 1 + (k - 1) = k /\ (k - 1) - 1 \in Nat BY <1>2, <4>1
        <5> QED BY <3>6, <3>f, <5>1
      <4>2. CASE k > 1 + sent
        <5>1. k - (1 + sent) \in 1 .. Len(z) /\ 1 + sent + (k - (1 + sent)) = k BY <1>2, <3>4, <4>2
        <5>2. b[k] = End(utterance) BY <3>g, <3>4, <5>1
        <5> QED BY <3>f, <5>2
      <4> QED BY <1>2, <4>1, <4>2
    <3>8. sent > 0 => Len(b) >= 2 /\ Is(b[2], "audio_chunk", utterance)
      <4> SUFFICES ASSUME sent > 0 PROVE Len(b) >= 2 /\ Is(b[2], "audio_chunk", utterance) OBVIOUS
      <4>1. 1 \in 1 .. sent /\ 1 + 1 = 2 /\ 1 - 1 \in Nat /\ Len(b) >= 2 BY <1>2, <3>4
      <4> QED BY <3>6, <3>f, <4>1
    <3> QED BY <2>2, <3>5, <3>7, <3>8, <3>f
  <2> QED BY <2>1, <2>2
<1> HIDE DEF b, d, n
<1>8. \A u : Known(page, Coming, 0, u)' =>
           \/ u = utterance' /\ sent' > 0
           \/ Audible(page, u)
           \/ \E k \in 1 .. Len(c) : Is(c[k], "audio_chunk", u)
           \/ \E k \in Len(c) + 1 .. Len(d) : Is(d[k], "audio_chunk", u)
  <2>1. Len(d) >= Len(c) BY <1>5 DEF n
  <2> QED BY <1>1, <1>2, <1>5, <2>1, KnownOf DEF d, n
<1>9. ASSUME NEW k \in n + 1 .. Len(d)
      PROVE  /\ phase # "between"
             /\ \/ k = n + 1 /\ Is(d[k], "audio_start", utterance)
                \/ Is(d[k], "audio_chunk", utterance) \/ Is(d[k], "audio_end", utterance)
             /\ Is(d[k], "audio_start", utterance) => k = n + 1
             /\ Is(d[k], "audio_chunk", utterance) => sent > 0
  <2>1. k - n \in 1 .. Len(b) /\ n + (k - n) = k BY <1>5
  <2>2. d[k] = b[k - n] BY <1>5, <2>1
  <2>3. b # <<>> BY <2>1, EmptySeq
  <2>4. k - n = 1 \/ k - n \in 2 .. Len(b) BY <1>5, <2>1
  <2>5. Is(d[k], "audio_chunk", utterance) => sent > 0
    <3> SUFFICES ASSUME Is(d[k], "audio_chunk", utterance), ~(sent > 0) PROVE FALSE OBVIOUS
    <3>1. sent = 0 /\ phase # "between" BY <1>2, <1>7, <2>3
    <3>2. Buffer = <<Start(utterance)>> \o <<>> \o (IF phase = "ended" THEN <<End(utterance)>> ELSE <<>>)
      <4>1. [j \in 1 .. 0 |-> Chunk(utterance, j - 1)] = <<>> OBVIOUS
      <4> QED BY <3>1, <4>1 DEF Buffer
    <3>3. \A j \in 1 .. Len(Buffer) : Buffer[j] = Start(utterance) \/ Buffer[j] = End(utterance)
      BY <3>2
    <3>4. b[k - n].kind # "audio_chunk" BY <2>1, <3>3 DEF b, Start, End
    <3> QED BY <2>2, <3>4 DEF Is
  <2>6. k = n + 1 <=> k - n = 1 BY <1>5
  <2> QED BY <1>7, <2>2, <2>3, <2>4, <2>5, <2>6 DEF Is
<1>10. ASSUME NEW u, Known(page, Coming, 0, u)' PROVE Known(page, c, 0, u)
  <2>1. \A k \in Len(c) + 1 .. Len(d) : Is(d[k], "audio_chunk", u) => u = utterance /\ sent > 0
    BY <1>9 DEF n, Is
  <2>2. 0 + 1 .. Len(c) = 1 .. Len(c) OBVIOUS
  <2> QED BY <1>1, <1>8, <1>10, <2>1, <2>2 DEF Known
<1>11. ASSUME sent > 0, NEW k \in n + 3 .. Len(d) + 1, phase # "between" PROVE Voiced(page, d, 0, utterance, k)
  <2>1. n + 2 \in n + 1 .. Len(d) /\ Is(d[n + 2], "audio_chunk", utterance)
    <3>1. Len(b) >= 2 /\ Is(b[2], "audio_chunk", utterance) BY <1>7, <1>11
    <3>2. 2 \in 1 .. Len(b) /\ n + 2 \in n + 1 .. Len(d) BY <1>5, <3>1
    <3> QED BY <1>5, <3>1, <3>2
  <2>2. n + 2 \in 0 + 1 .. k - 1 BY <1>5
  <2>3. ASSUME NEW j \in 0 + 1 .. k - 1, Is(d[j], "audio_start", utterance) PROVE n + 2 \in j + 1 .. k - 1
    <3>1. j <= n + 1
      <4>1. CASE j \in n + 1 .. Len(d) BY <1>5, <1>9, <2>3, <4>1
      <4>2. CASE j \notin n + 1 .. Len(d) BY <1>5, <4>2
      <4> QED BY <4>1, <4>2
    <3> QED BY <1>5, <3>1
  <2> QED BY <2>1, <2>2, <2>3 DEF Voiced
<1>12. \A u \in Utterances : Known(page, Coming, 0, u)' => u < utterance' \/ (u = utterance' /\ sent' > 0)
  BY <1>1, <1>6, <1>10 DEF Voices
<1>13. phase' # "between" /\ online' /\ sent' > 0 => Voiced(page, d, 0, utterance', Len(d) + 1)
  <2> SUFFICES ASSUME phase # "between", sent > 0 PROVE Voiced(page, d, 0, utterance, Len(d) + 1) BY <1>1
  <2>1. Len(b) >= 2 BY <1>7
  <2>2. Len(d) + 1 \in n + 3 .. Len(d) + 1 BY <1>5, <2>1
  <2> QED BY <1>11, <2>2
<1>14. \A u : \A k \in 1 .. Len(c) : Is(c[k], "audio_end", u) /\ Known(page, Coming, 0, u)' => Known(page, c, 0, u) BY <1>10
<1>15. ASSUME NEW u, NEW k \in n + 1 .. Len(d), Is(d[k], "audio_end", u), Known(page, Coming, 0, u)'
       PROVE  Voiced(page, d, 0, u, k)
  <2>1. u = utterance /\ phase # "between" BY <1>9, <1>15 DEF Is
  <2>2. sent > 0
    <3>1. u \in Utterances BY <2>1 DEF Inv, Typed
    <3>2. u < utterance \/ sent > 0 BY <1>6, <1>10, <1>15, <3>1 DEF Voices
    <3>3. utterance \in Nat BY WireInTurn
    <3> QED BY <2>1, <3>2, <3>3
  <2>3. k # n + 1 /\ k # n + 2
    <3>1. Len(b) >= 2 /\ Is(b[2], "audio_chunk", utterance) /\ b # <<>> BY <1>7, <2>1, <2>2, EmptySeq
    <3>2. 1 \in 1 .. Len(b) /\ 2 \in 1 .. Len(b) BY <1>5, <3>1
    <3>3. d[n + 1] = b[1] /\ d[n + 2] = b[2] BY <1>5, <3>2
    <3> QED BY <1>7, <1>15, <3>1, <3>3 DEF Is
  <2>4. k \in n + 3 .. Len(d) + 1 BY <1>5, <2>3
  <2> QED BY <1>11, <2>1, <2>2, <2>4
<1>16. \A u : \A k \in Len(c) + 1 .. Len(d) : Is(d[k], "audio_end", u) /\ Known(page, Coming, 0, u)' => Voiced(page, d, 0, u, k)
  BY <1>15 DEF n
<1>17. Len(d) >= Len(c) /\ \A k \in 1 .. Len(c) : d[k] = c[k] BY <1>5 DEF n
<1> QED BY <1>1, <1>2, <1>5, <1>6, <1>12, <1>13, <1>14, <1>16, <1>17, VoicesMore DEF d

(* The same page and the same to come, of a server that did not speak.     *)
LEMMA SameVoices ==
    ASSUME Inv, Voices(page, Coming, 0), page' = page, heard' = heard, Coming' = Coming,
           utterance' = utterance, sent' = sent, phase' = phase \/ phase' = "between",
           online' = online
    PROVE  Voices(page, Coming, 0)'
<1>1. Coming \in Seq(Messages) /\ Len(Coming) \in Nat BY WireInTurn
<1>2. \A u : Audible(page, u)' => Audible(page, u) BY DEF Audible
<1> QED BY <1>1, <1>2, VoicesKept DEF SameTracks

(* A message handled at once, after which there is less to come.           *)
LEMMA ReceivedVoices ==
    ASSUME Inv, StatusInv, Receive, speaker = "open"
    PROVE  Voices(page, Coming, 0)' /\ Tells(page, gone.done)'
<1> DEFINE m == Head(wire)
           d == Tail(wire)
<1>1. /\ wire # <<>> /\ page' = Handle(page, m) /\ wire' = d /\ pending' = pending
      /\ heard' = heard /\ utterance' = utterance /\ sent' = sent /\ phase' = phase /\ online' = online
  BY DEF Receive, server
<1>2. /\ wire \in Seq(Messages) /\ InRow(wire, page.shown, utterance) /\ Firsts(wire, page.shown, replayed)
      /\ pending = <<>> /\ Coming = wire /\ online /\ ~closed /\ page \in Pages /\ Timeline(page)
  <2>1. wire \in Seq(Messages) /\ InRow(wire, page.shown, utterance) /\ Firsts(wire, page.shown, replayed)
    BY WireInTurn
  <2>2. pending = <<>> /\ online /\ ~closed /\ page \in Pages /\ Timeline(page)
    BY <1>1 DEF Inv, Typed, Untouched, PageSound, Sound
  <2> QED BY <2>1, <2>2 DEF Coming
<1>3. /\ d \in Seq(Messages) /\ Len(d) = Len(wire) - 1 /\ Len(wire) \in Nat /\ 0 < Len(wire)
      /\ \A k \in 1 .. Len(d) : d[k] = wire[1 + k]
      /\ m \in Messages /\ m = wire[1] /\ 1 \in DOMAIN wire
  BY <1>1, <1>2, HeadTailProperties
<1>4. Coming' = d BY <1>1, <1>2, <1>3 DEF Coming
<1>5. Awaits(page, m)
  <2>1. m.kind # "clear" => m.u \in page.shown .. utterance BY <1>2, <1>3 DEF InRow
  <2>2. m.kind # "clear" => m.u >= page.shown BY <2>1
  <2>3. m.kind = "audio_start" => m.u > page.shown \/ m.u \in replayed BY <1>2, <1>3 DEF Firsts
  <2> QED BY <1>3, <2>2, <2>3 DEF Awaits
<1>6. Voices(page, wire, 0) /\ Tells(page, gone.done) BY <1>2 DEF StatusInv
<1>7. gone.done \subseteq gone'.done
      /\ (m.kind = "audio_end" => Dropping(page') \subseteq gone'.done)
  <2>1. CASE m = Clear
    <3>1. Stopped(page') BY <2>1 DEF Receive
    <3> QED BY <2>1, <3>1 DEF Stopped, Clear, Inv, Typed
  <2>2. CASE m # Clear
    <3>1. Over(page') BY <2>2 DEF Receive
    <3> QED BY <3>1 DEF Over, Inv, Typed
  <2> QED BY <2>1, <2>2
<1> HIDE DEF m, d
<1>8. 0 + 1 = 1 /\ wire[0 + 1] = m BY <1>3
<1>9. Voices(page', wire, 1)
  <2>1. Voices(Handle(page, wire[0 + 1]), wire, 0 + 1) BY <1>2, <1>3, <1>6, HandleVoices
  <2> QED BY <1>1, <1>8, <2>1
<1>10. Voices(page', d, 0)
  <2>1. 1 \in 0 .. Len(wire) BY <1>3
  <2> QED BY <1>2, <1>3, <1>9, <2>1, VoicesBehind
<1>11. Voices(page, Coming, 0)'
  <2>1. \A u : Audible(page, u)' => Audible(page', u) BY <1>1 DEF Audible
  <2>2. SameTracks(page', page') BY DEF SameTracks
  <2>3. Len(d) \in Nat BY <1>3
  <2> QED BY <1>1, <1>3, <1>4, <1>10, <2>1, <2>2, <2>3, VoicesKept
<1>12. Tells(page, gone.done)'
  <2>1. LET x == wire[0 + 1] IN
           x.kind = "audio_end" /\ x.u \in DOMAIN page.tracks \ DOMAIN Handle(page, x).tracks => x.u \in gone'.done
    BY <1>1, <1>7, <1>8 DEF Dropping
  <2>2. Tells(Handle(page, wire[0 + 1]), gone'.done)
    BY <1>2, <1>3, <1>5, <1>6, <1>7, <1>8, <2>1, HandleTells
  <2>3. Tells(page', gone'.done) BY <1>1, <1>8, <2>2
  <2> QED BY <1>1, <2>3 DEF Tells, Audible
<1> QED BY <1>11, <1>12

(* What waited for the speaker.                                            *)
LEMMA OpenedVoices ==
    ASSUME Inv, StatusInv, SpeakerOpens
    PROVE  Voices(page, Coming, 0)' /\ (~closed => Tells(page, gone.done)')
<1> DEFINE n == Len(pending)
           M == {m.u : m \in {pending[k] : k \in DOMAIN pending} \ {Clear}}
           over == gone.done \cup M
<1>1. /\ page' = FoldLeft(Handle, page, pending) /\ wire' = wire /\ pending' = <<>>
      /\ heard' = heard /\ utterance' = utterance /\ sent' = sent /\ phase' = phase /\ online' = online
  BY DEF SpeakerOpens, server
<1>2. /\ page \in Pages /\ heard \in [Utterances -> Nat] /\ unreported \in Nat
      /\ gone.stopped \in SUBSET Utterances /\ lastOut \in Nat \X Nat
      /\ GoneBy \in SUBSET Utterances
  BY DEF Inv, Typed, GoneBy
<1>3. /\ pending \in Seq(Messages) /\ utterance \in Nat /\ wire \in Seq(Messages) /\ Coming \in Seq(Messages)
      /\ InRow(pending, page.shown, utterance) /\ Firsts(pending, page.shown, replayed)
  BY WireInTurn
<1>4. /\ Len(Coming) = n + Len(wire) /\ n \in Nat /\ Len(wire) \in Nat
      /\ \A k \in 1 .. n : Coming[k] = pending[k]
      /\ \A k \in 1 .. Len(wire) : Coming[n + k] = wire[k]
      /\ Coming' = wire
  BY <1>1, <1>3, Joined DEF Coming
<1>5. Voices(page, Coming, 0) BY DEF StatusInv
<1>6. CASE closed
  <2>1. page' = page /\ pending = <<>> BY <1>1, <1>6, FoldOfNone DEF Inv, Untouched
  <2>2. Coming' = Coming BY <1>1, <2>1 DEF Coming
  <2> QED BY <1>1, <1>5, <1>6, <2>1, <2>2, SameVoices
<1>7. CASE ~closed
  <2>1. sounded = 0 BY <1>7 DEF Inv, Untouched, SpeakerOpens, OpenSpeaker
  <2>2. Sound(page, 0, lastOut, unreported, GoneBy) BY <2>1 DEF Inv, PageSound
  <2>3. PICK f : /\ f[0] = page
                 /\ \A k \in 1 .. Len(pending) : f[k] = Handle(f[k - 1], pending[k])
                 /\ FoldLeft(Handle, page, pending) = f[Len(pending)]
    BY <1>3, HandledInTurn
  <2>4. /\ \A k \in 1 .. Len(pending) : Awaits(f[k - 1], pending[k])
        /\ \A k \in 0 .. Len(pending) : Sound(f[k], 0, lastOut, unreported, GoneBy)
    BY ZenonT(60), <1>2, <1>3, <2>2, <2>3, FoldInTurn
  <2>5. \A k \in 1 .. n : pending[k].kind = "audio_end" => pending[k].u \in over
    <3>1. \A k \in 1 .. n : pending[k].kind = "audio_end" => pending[k] # Clear BY DEF Clear
    <3>2. \A k \in 1 .. n : k \in DOMAIN pending BY <1>3
    <3> QED BY <3>1, <3>2
  <2>6. M \cap {page'.shown} \subseteq M OBVIOUS
  <2>7. gone'.done = gone.done \cup (M \ DOMAIN page'.tracks)
    <3> DEFINE E == gone.done \cup (M \ DOMAIN page'.tracks)
    <3>1. gone' = [gone EXCEPT !.done = E] BY DEF SpeakerOpens
    <3> HIDE DEF E
    <3>2. gone'.done = E BY <3>1 DEF Inv, Typed
    <3> QED BY <3>2 DEF E
  <2> HIDE DEF M, n
  <2>8. /\ n \in 0 .. Len(Coming)
        /\ \A k \in 1 .. n : f[k] = Handle(f[k - 1], Coming[k]) /\ Awaits(f[k - 1], Coming[k])
        /\ \A k \in 0 .. n : f[k] \in Pages /\ Timeline(f[k])
        /\ \A k \in 1 .. n : Coming[k].kind = "audio_end" => Coming[k].u \in over
        /\ Voices(f[0], Coming, 0)
    <3>1. n = Len(pending) BY DEF n
    <3>2. n \in 0 .. Len(Coming) BY <1>4
    <3>3. \A k \in 0 .. n : f[k] \in Pages /\ Timeline(f[k]) BY <2>4, <3>1 DEF Sound
    <3> QED BY <1>4, <1>5, <2>3, <2>4, <2>5, <3>1, <3>2, <3>3
  <2>9. page' = f[n] BY <1>1, <2>3 DEF n
  <2> HIDE DEF over
  <2>10. Voices(f[n], Coming, n) /\ (Tells(f[0], over) => Tells(f[n], over))
    BY <1>3, <2>8, FoldTells
  <2>11. Voices(page', wire, 0)
    <3>1. Len(wire) = Len(Coming) - n BY <1>4
    <3> QED BY <1>3, <1>4, <2>8, <2>9, <2>10, <3>1, VoicesBehind
  <2>12. Voices(page, Coming, 0)'
    <3>1. \A u : Audible(page, u)' => Audible(page', u) BY <1>1 DEF Audible
    <3>2. SameTracks(page', page') BY DEF SameTracks
    <3>3. \A k \in 1 .. Len(Coming') : Coming'[k] = wire[k] BY <1>4
    <3>4. Len(Coming') <= Len(wire) /\ Len(Coming') = Len(wire) BY <1>4
    <3> QED BY <1>1, <1>3, <1>4, <2>11, <3>1, <3>2, <3>3, <3>4, VoicesKept
  <2>13. Tells(page, gone.done)'
    <3>1. Tells(page, over) BY <1>7 DEF StatusInv, Tells, over
    <3>2. Tells(page', over) BY <2>3, <2>9, <2>10, <3>1
    <3>3. \A u : u \in over /\ u \notin DOMAIN page'.tracks => u \in gone'.done BY <2>7 DEF over
    <3>4. Tells(page', gone'.done) BY <3>2, <3>3 DEF Tells
    <3> QED BY <1>1, <3>4 DEF Tells, Audible
  <2> QED BY <2>12, <2>13
<1> QED BY <1>6, <1>7

(* A message put aside for the speaker is to come as it was.               *)
LEMMA PutAside ==
    ASSUME Inv, Receive, speaker # "open"
    PROVE  Coming' = Coming
<1>1. wire \in Seq(Messages) /\ pending \in Seq(Messages) /\ wire # <<>>
  BY WireInTurn DEF Receive
<1>2. Coming' = Append(pending, Head(wire)) \o Tail(wire) BY DEF Receive, Coming
<1> DEFINE a == Append(pending, Head(wire))
           b == Tail(wire)
           c == pending \o wire
           d == a \o b
<1>3. /\ d \in Seq(Messages) /\ c \in Seq(Messages)
      /\ Thins(d, c, [k \in DOMAIN c |-> k])
  BY <1>1, Parts
<1>4. /\ a \in Seq(Messages) /\ b \in Seq(Messages) /\ Len(a) = Len(pending) + 1 /\ Len(b) = Len(wire) - 1
      /\ Len(pending) \in Nat /\ Len(wire) \in Nat
  BY <1>1
<1>5. Len(c) = Len(pending) + Len(wire) BY <1>1
<1>6. Len(d) = Len(a) + Len(b)
  <2> HIDE DEF a, b
  <2> QED BY <1>4
<1> HIDE DEF a, b, c, d
<1>7. Len(d) = Len(c) BY <1>4, <1>5, <1>6
<1>8. \A k \in 1 .. Len(d) : d[k] = c[k]
  <2>1. DOMAIN d = 1 .. Len(d) /\ DOMAIN c = 1 .. Len(c) BY <1>3
  <2> QED BY <1>3, <1>7, <2>1 DEF Thins
<1>9. d = c BY <1>3, <1>7, <1>8, SeqEqual
<1> QED BY <1>2, <1>9 DEF Coming, a, b, c, d

(* What a unit sounds of was queued.                                       *)
LEMMA ProcessAudible ==
    ASSUME Inv, Process, NEW u, Audible(page, u)'
    PROVE  Audible(page, u)
<1> DEFINE out == Head(page.queue.blocks)
           dry == Len(page.queue.blocks) = 1
<1>1. page \in Pages /\ heard \in [Utterances -> Nat] /\ page.queue.blocks # <<>> BY DEF Inv, Typed, Process
<1>2. page.queue.blocks \in Seq(Blocks) BY <1>1 DEF Pages, Queues
<1>3. page' = [page EXCEPT !.queue = [blocks |-> Tail(@.blocks), waiting |-> dry, draining |-> @.draining /\ ~dry]]
  BY DEF Process
<1>4. page'.queue.blocks = Tail(page.queue.blocks) BY <1>1, <1>3, SoundedPage
<1>5. heard' = [heard EXCEPT ![out[1]] = Larger(@, out[2] + 1)] BY DEF Process
<1>6. out = page.queue.blocks[1] /\ 1 \in DOMAIN page.queue.blocks BY <1>1, <1>2
<1>7. CASE heard'[u] > 0
  <2>1. CASE u = out[1] BY <1>6, <2>1 DEF Audible
  <2>2. CASE u # out[1]
    <3> HIDE DEF out
    <3>1. heard'[u] = heard[u] BY <1>1, <1>5, <2>2
    <3> QED BY <1>7, <3>1 DEF Audible
  <2> QED BY <2>1, <2>2
<1>8. CASE \E k \in DOMAIN page'.queue.blocks : page'.queue.blocks[k][1] = u
  <2> DEFINE b == page.queue.blocks
  <2>1. PICK k \in DOMAIN Tail(b) : Tail(b)[k][1] = u BY <1>4, <1>8
  <2>2. b \in Seq(Blocks) /\ b # <<>> BY <1>1, <1>2
  <2> HIDE DEF b
  <2>3. k + 1 \in DOMAIN b /\ Tail(b)[k] = b[k + 1] BY <2>1, <2>2
  <2> QED BY <2>1, <2>3 DEF Audible, b
<1> QED BY <1>7, <1>8 DEF Audible

(* The step of onPlayed, of what it leaves.                                *)
LEMMA PlayedTells ==
    ASSUME Inv, OnPlayed, Tells(page, gone.done)
    PROVE  Tells(page, gone.done)'
<1> DEFINE n == Head(reports)
           p == [page EXCEPT !.played = n]
           left == Without(p.tracks, Done(p))
           st(s) == IF p.shown \notin DOMAIN p.tracks THEN s
                    ELSE IF DOMAIN left = {} THEN "idle" ELSE "playing"
<1>1. /\ n \in Nat /\ page \in Pages /\ heard' = heard /\ Timeline(page) /\ Over(page')
  BY HeadTailProperties DEF OnPlayed, Inv, Typed, PageSound, Sound
<1>2. page' \in Pages /\ Plays(page, n, page') BY PlayedStep DEF Inv
<1> HIDE DEF n
<1>3. /\ p \in Pages /\ p.tracks = page.tracks /\ p.shown = page.shown /\ p.status = page.status /\ p.played = n
  BY <1>1 DEF Pages
<1>4. PICK due \in SUBSET DOMAIN left :
         page' = [Mark(p, due \cup Done(p)) EXCEPT !.tracks = left,
                            !.status = IF p.shown \notin DOMAIN p.tracks THEN @
                                       ELSE IF DOMAIN left = {} THEN "idle" ELSE "playing"]
  BY DEF OnPlayed, n
<1> DEFINE m == Mark(p, due \cup Done(p))
<1>5. /\ DOMAIN left = DOMAIN page.tracks \ Done(p)
      /\ \A v \in DOMAIN left : left[v] = page.tracks[v]
  <2>1. p.tracks \in TrackSets BY <1>3 DEF Pages
  <2>2. /\ DOMAIN left = DOMAIN p.tracks \ Done(p)
        /\ \A v \in DOMAIN p.tracks \ Done(p) : left[v] = p.tracks[v]
    BY <2>1, WithoutTracks
  <2> QED BY <1>3, <2>2
<1>6. Done(p) = {u \in DOMAIN page.tracks : page.tracks[u].ended
                    /\ n >= page.tracks[u].start + page.tracks[u].length}
  BY <1>3 DEF Done
<1>7. m \in Pages /\ m.status = page.status
  <2>1. due \cup Done(p) \in SUBSET DOMAIN p.tracks BY <1>3, <1>5, <1>6
  <2> HIDE DEF p
  <2> QED BY <1>3, <2>1, MarkPage
<1> HIDE DEF m, left, p
<1>8. page'.tracks = left /\ page'.status = st(page.status)
  <2>1. page' = [m EXCEPT !.tracks = left, !.status = st(m.status)] BY <1>4 DEF m
  <2> QED BY <1>7, <2>1 DEF Pages
<1>9. page'.shown = page.shown /\ page'.queue = page.queue BY <1>2 DEF Plays
<1>10. gone.done \subseteq gone'.done BY <1>1 DEF Over, Inv, Typed
<1>11. \A u : Audible(page, u)' => Audible(page, u) BY <1>1, <1>9 DEF Audible
<1>12. CASE page.shown \notin DOMAIN page.tracks
  <2>1. page'.status = page.status BY <1>3, <1>8, <1>12
  <2>2. \A v \in DOMAIN page.tracks : ~page.tracks[v].ended => v \in DOMAIN left /\ left[v] = page.tracks[v]
    BY <1>5, <1>6
  <2>3. DOMAIN page.tracks = {} => DOMAIN left = {} BY <1>5
  <2>4. page'.status = "idle" => DOMAIN page'.tracks = {} BY <1>8, <2>1, <2>3 DEF Tells
  <2>5. page'.status = "playing" =>
          \/ \E v \in DOMAIN page'.tracks : ~page'.tracks[v].ended
          \/ page'.shown \in gone'.done /\ ~Audible(page, page.shown)'
    BY <1>8, <1>9, <1>10, <1>11, <1>12, <2>1, <2>2 DEF Tells
  <2> QED BY <1>9, <2>4, <2>5 DEF Tells, Audible
<1>13. CASE page.shown \in DOMAIN page.tracks
  <2>1. page'.status = IF DOMAIN left = {} THEN "idle" ELSE "playing" BY <1>3, <1>8, <1>13
  <2>2. ASSUME page.shown \notin DOMAIN left, NEW v \in DOMAIN left PROVE ~left[v].ended
    <3> DEFINE s == page.tracks[page.shown]
               t == page.tracks[v]
    <3>1. page.shown \in Done(p) /\ v \in DOMAIN page.tracks /\ v \notin Done(p) /\ left[v] = t
      BY <1>5, <1>13, <2>2
    <3>2. n >= s.start + s.length BY <1>6, <3>1
    <3>3. v <= page.shown /\ v # page.shown /\ v \in Nat /\ page.shown \in Nat
      BY <1>1, <2>2, <3>1, PageNumbers DEF Timeline
    <3>4. v < page.shown BY <3>3
    <3>5. t.start + t.length <= s.start BY <1>1, <1>13, <3>1, <3>4 DEF Timeline
    <3>6. /\ s.start \in Nat /\ s.length \in Nat /\ t.start \in Nat /\ t.length \in Nat
      BY <1>1, <1>13, <3>1, PageNumbers
    <3> HIDE DEF s, t
    <3>7. n >= t.start + t.length BY <1>1, <3>2, <3>5, <3>6
    <3> QED BY <1>6, <3>1, <3>7 DEF t
  <2>3. page'.status = "idle" => DOMAIN page'.tracks = {} BY <1>8, <2>1
  <2>4. page'.status = "playing" /\ page'.shown \notin DOMAIN page'.tracks =>
           \E v \in DOMAIN page'.tracks : ~page'.tracks[v].ended
    BY <1>8, <1>9, <2>1, <2>2
  <2> QED BY <2>3, <2>4 DEF Tells, Audible
<1> QED BY <1>12, <1>13

(* Every step keeps audio before the end of its utterance,                 *)
LEMMA VoicesStep == Inv /\ StatusInv /\ [Next]_vars => Voices(page, Coming, 0)'
<1> SUFFICES ASSUME Inv, StatusInv, [Next]_vars PROVE Voices(page, Coming, 0)'
  OBVIOUS
<1>0. /\ Voices(page, Coming, 0) /\ Typed
      /\ Coming \in Seq(Messages) /\ pending \in Seq(Messages) /\ wire \in Seq(Messages) /\ utterance \in Nat
  BY WireInTurn DEF StatusInv, Inv
<1>u. Utterances = 1 .. Len(Chunks) /\ \A u \in Utterances : Chunks[u] \in Nat BY PlayerAssumption DEF Utterances
<1>1. CASE UNCHANGED vars \/ Forget \/ CutShort \/ Unlock \/ Report
  <2>1. /\ page' = page /\ heard' = heard /\ Coming' = Coming /\ utterance' = utterance /\ sent' = sent
        /\ online' = online /\ (phase' = phase \/ phase' = "between")
    BY <1>1 DEF vars, server, worklet, history, Forget, CutShort, Unlock, Report, tabVars, Coming
  <2> QED BY <1>0, <2>1, SameVoices
<1>2. CASE Begin
  <2>1. /\ utterance' = utterance + 1 /\ sent' = 0 /\ Tell(Start(utterance + 1)) /\ utterance + 1 \in Utterances
        /\ page' = page /\ heard' = heard /\ pending' = pending /\ online' = online
    BY <1>0, <1>2, <1>u DEF Begin, tabVars, history, Typed
  <2>2. Start(utterance + 1) \in Messages /\ Start(utterance + 1).kind = "audio_start"
    BY <2>1 DEF Messages, Start
  <2> QED BY <2>1, <2>2, ToldVoices
<1>3. CASE Produce
  <2>1. /\ utterance' = utterance /\ sent' = sent + 1 /\ Tell(Chunk(utterance, sent)) /\ phase = "speaking"
        /\ page' = page /\ heard' = heard /\ pending' = pending /\ online' = online /\ phase' = phase
    BY <1>3 DEF Produce, tabVars, history
  <2>2. /\ Chunk(utterance, sent) \in Messages /\ Chunk(utterance, sent).kind = "audio_chunk"
        /\ Chunk(utterance, sent).u = utterance
    <3>1. utterance \in Utterances /\ sent \in Nat /\ sent < Chunks[utterance]
      BY <1>0, <1>3 DEF Produce, Typed
    <3>2. sent \in 0 .. Chunks[utterance] - 1 BY <1>u, <3>1
    <3> QED BY <3>1, <3>2 DEF Messages, Chunk
  <2>3. sent' > 0 BY <1>0, <2>1 DEF Typed
  <2> QED BY <2>1, <2>2, <2>3, ToldVoices
<1>4. CASE Finish
  <2>1. /\ utterance' = utterance /\ sent' = sent /\ Tell(End(utterance)) /\ phase = "speaking"
        /\ page' = page /\ heard' = heard /\ pending' = pending /\ online' = online
    BY <1>4 DEF Finish, tabVars, history
  <2>2. End(utterance) \in Messages /\ End(utterance).kind = "audio_end" /\ End(utterance).u = utterance
    BY <1>0, <2>1 DEF Typed, Messages, End
  <2> QED BY <2>1, <2>2, ToldVoices
<1>5. CASE TellClear
  <2>1. /\ utterance' = utterance /\ sent' = sent /\ Tell(Clear) /\ phase' = phase
        /\ page' = page /\ heard' = heard /\ pending' = pending /\ online' = online
    BY <1>5 DEF TellClear, tabVars, history
  <2>2. Clear \in Messages /\ Clear.kind = "clear" BY DEF Messages, Clear
  <2> QED BY <2>1, <2>2, ToldVoices
<1>6. CASE Drop \/ Unmount
  <2>1. /\ ~online' /\ wire' = <<>> /\ (pending' = pending \/ pending' = <<>>)
        /\ heard' = heard /\ utterance' = utterance /\ sent' = sent /\ phase' = phase
        /\ page' = page \/ page' = DropAll(page)
    BY <1>6 DEF Drop, Unmount, server, history
  <2>2. Coming' = pending \/ Coming' = <<>> BY <1>0, <2>1, EmptySeq DEF Coming
  <2>3. /\ Coming' \in Seq(Messages) /\ Len(Coming') <= Len(Coming)
        /\ \A k \in 1 .. Len(Coming') : Coming'[k] = Coming[k]
    <3>1. /\ Len(Coming) = Len(pending) + Len(wire) /\ \A k \in 1 .. Len(pending) : Coming[k] = pending[k]
          /\ Len(pending) \in Nat /\ Len(wire) \in Nat /\ Len(<<>>) = 0 /\ <<>> \in Seq(Messages)
      BY <1>0, Joined, EmptySeq DEF Coming
    <3> DEFINE d == Coming'
               c == Coming
    <3>2. d = pending \/ d = <<>> BY <2>2
    <3>3. Len(c) = Len(pending) + Len(wire) /\ \A k \in 1 .. Len(pending) : c[k] = pending[k] BY <3>1
    <3> HIDE DEF d, c
    <3>4. d \in Seq(Messages) /\ Len(d) <= Len(c) /\ \A k \in 1 .. Len(d) : d[k] = c[k]
      <4>0. pending \in Seq(Messages) BY <1>0
      <4>1. CASE d = pending
        <5>1. d \in Seq(Messages) /\ Len(d) = Len(pending) BY <4>0, <4>1
        <5>2. Len(d) <= Len(c) BY <3>1, <3>3, <5>1
        <5> QED BY <3>3, <4>1, <5>1, <5>2
      <4>2. CASE d = <<>>
        <5>1. d \in Seq(Messages) /\ Len(d) = 0 BY <3>1, <4>2
        <5>2. Len(d) <= Len(c) BY <3>1, <3>3, <5>1
        <5> QED BY <5>1, <5>2
      <4> QED BY <3>2, <4>1, <4>2
    <3> QED BY <3>4 DEF d, c
  <2>4. SameTracks(page, page') /\ \A u : Audible(page, u)' => Audible(page, u)
    <3>1. CASE page' = page BY <2>1, <3>1 DEF SameTracks, Audible
    <3>2. CASE page' = DropAll(page)
      <4>1. Drops(page, page') BY <1>0, <3>2, DroppedPage DEF Typed
      <4> QED BY <2>1, <4>1, EmptySeq DEF Drops, SameTracks, Audible
    <3> QED BY <2>1, <3>1, <3>2
  <2> QED BY <1>0, <2>1, <2>3, <2>4, VoicesKept
<1>7. CASE Rejoin BY <1>7, RejoinVoices
<1>8. CASE Receive
  <2>1. CASE speaker = "open" BY <1>8, <2>1, ReceivedVoices
  <2>2. CASE speaker # "open"
    <3>1. /\ page' = page /\ heard' = heard /\ utterance' = utterance /\ sent' = sent
          /\ online' = online /\ phase' = phase
      BY <1>8, <2>2 DEF Receive, server
    <3>2. Coming' = Coming BY <1>8, <2>2, PutAside
    <3> QED BY <1>0, <3>1, <3>2, SameVoices
  <2> QED BY <2>1, <2>2
<1>9. CASE SpeakerOpens BY <1>9, OpenedVoices
<1>10. CASE SpeakerFails
  <2>1. /\ page' = page /\ heard' = heard /\ utterance' = utterance /\ sent' = sent /\ phase' = phase
        /\ online' = online /\ wire' = wire /\ pending' = <<>> /\ speaker # "open"
    BY <1>10 DEF SpeakerFails, OpenSpeaker, server, history
  <2>2. Coming' = wire BY <1>0, <2>1 DEF Coming
  <2>3. DOMAIN page.tracks = {} BY <2>1 DEF Inv, Untouched
  <2> DEFINE n == Len(pending)
             c == Coming
  <2>4. /\ Len(c) = n + Len(wire) /\ n \in Nat /\ Len(wire) \in Nat
        /\ \A k \in 1 .. Len(wire) : c[n + k] = wire[k]
    BY <1>0, Joined DEF Coming
  <2>5. c \in Seq(Messages) /\ Voices(page, c, 0) BY <1>0
  <2> HIDE DEF n, c
  <2>6. n \in 0 .. Len(c) /\ Len(wire) = Len(c) - n BY <2>4
  <2>7. Voices(page, c, n) BY <2>3, <2>5, <2>6, VoicesLost
  <2>8. Voices(page, wire, 0) BY <1>0, <2>4, <2>5, <2>6, <2>7, VoicesBehind
  <2>9. \A u : Audible(page, u)' => Audible(page, u) BY <2>1 DEF Audible
  <2>10. SameTracks(page, page') BY <2>1 DEF SameTracks
  <2> QED BY <1>0, <2>1, <2>2, <2>4, <2>8, <2>9, <2>10, VoicesKept
<1>11. CASE Silence \/ OnPlayed \/ Process
  <2>1. /\ utterance' = utterance /\ sent' = sent /\ phase' = phase /\ online' = online /\ Coming' = Coming
    BY <1>11 DEF Silence, OnPlayed, Process, server, Coming
  <2>2. SameTracks(page, page') /\ \A u : Audible(page, u)' => Audible(page, u)
    <3>1. CASE Silence
      <4>1. page' = Silenced(page) /\ heard' = heard BY <3>1 DEF Silence
      <4>2. Drops(page, page') BY <1>0, <4>1, DroppedPage DEF Typed
      <4> QED BY <4>1, <4>2, EmptySeq DEF Drops, SameTracks, Audible
    <3>2. CASE OnPlayed
      <4>1. Plays(page, Head(reports), page') /\ heard' = heard BY <1>0, <3>2, PlayedStep DEF OnPlayed
      <4> QED BY <4>1 DEF Plays, Audible
    <3>3. CASE Process
      <4>1. page'.tracks = page.tracks BY <1>0, <3>3, SoundedPage DEF Process, Typed
      <4> QED BY <3>3, <4>1, ProcessAudible DEF SameTracks
    <3> QED BY <1>11, <3>1, <3>2, <3>3
  <2>3. Len(Coming) \in Nat BY <1>0
  <2> QED BY <1>0, <2>1, <2>2, <2>3, VoicesKept
<1> QED BY <1>1, <1>2, <1>3, <1>4, <1>5, <1>6, <1>7, <1>8, <1>9, <1>10, <1>11
        DEF Next, Server, Socket, Page, Device, Stop

(* no end to come of what is still spoken,                                 *)
LEMMA SpeaksStep ==
    Inv /\ StatusInv /\ [Next]_vars =>
        (phase' = "speaking" => \A k \in DOMAIN Coming' : ~Is(Coming'[k], "audio_end", utterance'))
<1> SUFFICES ASSUME Inv, StatusInv, [Next]_vars, phase' = "speaking",
                    NEW k \in DOMAIN Coming', Is(Coming'[k], "audio_end", utterance')
             PROVE  FALSE
  OBVIOUS
<1>0. /\ Coming \in Seq(Messages) /\ pending \in Seq(Messages) /\ wire \in Seq(Messages) /\ utterance \in Nat
      /\ Typed
  BY WireInTurn DEF Inv
<1>1. DOMAIN Coming = 1 .. Len(Coming) /\ Len(Coming) \in Nat BY <1>0
<1>2. /\ DOMAIN pending \subseteq DOMAIN Coming /\ \A i \in DOMAIN pending : Coming[i] = pending[i]
      /\ \A i \in DOMAIN wire : \E j \in DOMAIN Coming : Coming[j] = wire[i]
  <2>1. /\ Thins(pending, Coming, [i \in DOMAIN pending |-> i])
        /\ Thins(wire, Coming, [i \in DOMAIN wire |-> Len(pending) + i])
    BY <1>0, Parts DEF Coming
  <2> QED BY <2>1 DEF Thins
<1>3. phase = "speaking" => \A i \in DOMAIN Coming : ~Is(Coming[i], "audio_end", utterance) BY DEF StatusInv
<1>4. CASE \E i \in DOMAIN Coming : Coming'[k] = Coming[i]
  <2>1. PICK i \in DOMAIN Coming : Coming'[k] = Coming[i] BY <1>4
  <2>2. CASE phase = "speaking" /\ utterance' = utterance BY <1>3, <2>1, <2>2
  <2>3. CASE ~(phase = "speaking" /\ utterance' = utterance)
    <3>1. Begin
      BY <2>3 DEF Next, Server, Socket, Page, Device, Stop, vars, server, tabVars, Begin, Produce, Finish, Forget,
         CutShort, TellClear, Drop, Rejoin, Receive, SpeakerOpens, SpeakerFails, Unlock, Silence, Unmount, OnPlayed,
         Process, Report
    <3>2. utterance' = utterance + 1 BY <3>1 DEF Begin
    <3>3. Coming[i].u \in page.shown .. utterance BY <2>1 DEF Inv, InTurn, InRow, Is
    <3>4. Coming[i].u = utterance + 1 BY <2>1, <3>2 DEF Is
    <3> QED BY <1>0, <3>3, <3>4
  <2> QED BY <2>2, <2>3
<1>5. CASE Begin \/ Produce \/ Finish \/ TellClear
  <2>1. pending' = pending BY <1>5 DEF Begin, Produce, Finish, TellClear, tabVars
  <2>2. PICK m \in {Start(utterance + 1), Chunk(utterance, sent), Clear} : m \in Messages /\ Tell(m)
    <3>1. CASE Begin
      <4>1. utterance + 1 \in Utterances BY <1>0, <3>1, PlayerAssumption DEF Begin, Typed, Utterances
      <4> QED BY <3>1, <4>1 DEF Begin, Messages
    <3>2. CASE Produce
      <4>1. utterance \in Utterances /\ sent \in Nat /\ sent < Chunks[utterance] /\ Chunks[utterance] \in Nat
        BY SMTT(20), <1>0, <3>2, PlayerAssumption DEF Produce, Typed, Utterances
      <4>2. sent \in 0 .. Chunks[utterance] - 1 BY <4>1
      <4> QED BY <3>2, <4>1, <4>2 DEF Produce, Messages
    <3>3. CASE Finish BY <3>3 DEF Finish
    <3>4. CASE TellClear BY <3>4 DEF TellClear, Messages
    <3> QED BY <1>5, <3>1, <3>2, <3>3, <3>4
  <2>3. /\ Coming' \in Seq(Messages) /\ Len(Coming') >= Len(Coming)
        /\ \A i \in 1 .. Len(Coming) : Coming'[i] = Coming[i]
        /\ \A i \in Len(Coming) + 1 .. Len(Coming') : Coming'[i] = m
    BY <2>1, <2>2, ToldLast
  <2> DEFINE d == Coming'
             c == Coming
  <2>4. k \in 1 .. Len(d) /\ Len(d) \in Nat /\ Len(c) \in Nat BY <1>1, <2>3
  <2>5. m.kind # "audio_end" BY <2>2 DEF Start, Chunk, Clear
  <2>6. k \in 1 .. Len(c) \/ k \in Len(c) + 1 .. Len(d)
    <3> HIDE DEF c, d
    <3> QED BY <2>4
  <2> QED BY <1>1, <1>4, <2>3, <2>5, <2>6 DEF Is
<1>6. CASE Rejoin
  <2>1. /\ pending' = pending /\ wire' = Buffer /\ phase = "speaking" /\ utterance' = utterance
    BY <1>6 DEF Rejoin, server
  <2>2. Buffer \in Seq(Messages) BY BufferInTurn DEF Inv
  <2>3. \A i \in DOMAIN Buffer : Buffer[i].kind # "audio_end"
    <3> DEFINE S == {m \in Messages : m.kind # "audio_end"}
               x == <<Start(utterance)>>
               y == [j \in 1 .. sent |-> Chunk(utterance, j - 1)]
    <3>0. utterance \in Utterances /\ sent \in Nat /\ sent <= Chunks[utterance] /\ Chunks[utterance] \in Nat
      BY SMTT(20), <1>0, <2>1, PlayerAssumption DEF Typed, Utterances
    <3>1. Start(utterance) \in S BY <3>0 DEF Messages, Start
    <3>2. ASSUME NEW j \in 1 .. sent PROVE Chunk(utterance, j - 1) \in S
      <4>1. j - 1 \in 0 .. Chunks[utterance] - 1 BY <3>0
      <4>2. Chunk(utterance, j - 1) \in Messages BY <3>0, <4>1 DEF Messages
      <4> QED BY <4>2 DEF Chunk
    <3>3. Buffer = (x \o y) \o <<>> BY <2>1 DEF Buffer
    <3> HIDE DEF S
    <3>4. x \in Seq(S) /\ y \in Seq(S) /\ <<>> \in Seq(S) BY <3>0, <3>1, <3>2, EmptySeq
    <3> HIDE DEF x, y
    <3>5. Buffer \in Seq(S) BY <3>3, <3>4, ConcatProperties
    <3>6. \A i \in DOMAIN Buffer : Buffer[i] \in S BY <3>5
    <3> QED BY <3>6 DEF S
  <2> DEFINE b == Buffer
             n == Len(pending)
  <2>4. /\ Coming' = pending \o b BY <2>1 DEF Coming
  <2>5. b \in Seq(Messages) /\ \A i \in 1 .. Len(b) : b[i].kind # "audio_end" BY <2>2, <2>3
  <2> HIDE DEF b
  <2>6. /\ Len(Coming') = n + Len(b) /\ n \in Nat /\ Len(b) \in Nat /\ DOMAIN Coming' = 1 .. Len(Coming')
        /\ \A i \in 1 .. n : Coming'[i] = pending[i]
        /\ \A i \in 1 .. Len(b) : Coming'[n + i] = b[i]
    BY <1>0, <2>4, <2>5, Joined
  <2>7. CASE k \in 1 .. n
    <3>1. k \in DOMAIN pending BY <1>0, <2>7
    <3> QED BY <1>2, <1>4, <2>6, <2>7, <3>1
  <2>8. CASE k \notin 1 .. n
    <3>1. k - n \in 1 .. Len(b) /\ n + (k - n) = k
      <4> HIDE DEF n
      <4> QED BY <2>6, <2>8
    <3>2. Coming'[k] = b[k - n] BY <2>6, <3>1
    <3> QED BY <2>5, <3>1, <3>2 DEF Is
  <2> QED BY <2>7, <2>8
<1>7. CASE Receive /\ speaker # "open" BY <1>4, <1>7, PutAside
<1>8. CASE Receive /\ speaker = "open"
  <2>1. pending' = <<>> /\ wire' = Tail(wire) /\ wire # <<>> BY <1>8 DEF Receive, Inv, Untouched
  <2>2. Coming' = Tail(wire) BY <1>0, <2>1 DEF Coming
  <2>3. k + 1 \in DOMAIN wire /\ Tail(wire)[k] = wire[k + 1] BY <1>0, <2>1, <2>2
  <2> QED BY <1>2, <1>4, <2>2, <2>3
<1>9. CASE UNCHANGED vars \/ Forget \/ CutShort \/ Drop \/ SpeakerOpens \/ SpeakerFails \/ Unlock \/ Silence \/ Unmount
           \/ OnPlayed \/ Process \/ Report
  <2>1. (pending' = pending \/ pending' = <<>>) /\ (wire' = wire \/ wire' = <<>>)
    BY <1>9 DEF vars, tabVars, Forget, CutShort, Drop, SpeakerOpens, SpeakerFails, Unlock, Silence, Unmount,
       OnPlayed, Process, Report
  <2>2. Coming' = Coming \/ Coming' = pending \/ Coming' = wire \/ Coming' = <<>>
    BY <1>0, <2>1, EmptySeq DEF Coming
  <2>3. DOMAIN <<>> = {} OBVIOUS
  <2> QED BY <1>2, <1>4, <2>2, <2>3
<1> QED BY <1>5, <1>6, <1>7, <1>8, <1>9 DEF Next, Server, Socket, Page, Device, Stop

(* and the status true to the tracks.                                      *)
LEMMA TellsStep == Inv /\ StatusInv /\ [Next]_vars => (~closed' => Tells(page, gone.done)')
<1> SUFFICES ASSUME Inv, StatusInv, [Next]_vars, ~closed' PROVE Tells(page, gone.done)'
  OBVIOUS
<1>0. ~closed /\ Tells(page, gone.done) /\ Typed
  <2>1. ~closed
    BY DEF Next, Server, Socket, Page, Device, Stop, vars, server, tabVars, Begin, Produce, Finish, Forget,
         CutShort, TellClear, Drop, Rejoin, Receive, SpeakerOpens, SpeakerFails, Unlock, Silence, Unmount, OnPlayed,
         Process, Report
  <2> QED BY <2>1 DEF StatusInv, Inv
<1>1. CASE UNCHANGED <<page, heard, gone>> BY <1>0, <1>1 DEF Tells, Audible
<1>2. CASE Receive
  <2>1. CASE speaker = "open" BY <1>2, <2>1, ReceivedVoices
  <2>2. CASE speaker # "open"
    <3>1. UNCHANGED <<page, heard, gone>> BY <1>2, <2>2 DEF Receive
    <3> QED BY <1>1, <3>1
  <2> QED BY <2>1, <2>2
<1>3. CASE SpeakerOpens BY <1>0, <1>3, OpenedVoices
<1>4. CASE Silence
  <2>1. page' = Silenced(page) BY <1>4 DEF Silence
  <2>2. DOMAIN page'.tracks = {} /\ page'.status = "idle" BY <1>0, <2>1, DroppedPage DEF Typed, Drops
  <2> QED BY <2>2 DEF Tells, Audible
<1>5. CASE OnPlayed BY <1>0, <1>5, PlayedTells
<1>6. CASE Process
  <2>1. page'.tracks = page.tracks /\ page'.status = page.status /\ page'.shown = page.shown /\ gone' = gone
    BY <1>0, <1>6, SoundedPage DEF Process, Typed
  <2>2. \A u : Audible(page, u)' => Audible(page, u) BY <1>6, ProcessAudible
  <2>3. Audible(page, page.shown)' => Audible(page, page.shown)
    <3>1. Audible(page, page.shown)' => heard'[page.shown] > 0
               \/ \E k \in DOMAIN page'.queue.blocks : page'.queue.blocks[k][1] = page.shown
      BY <2>1 DEF Audible
    <3>2. \A u : (heard'[u] > 0 \/ \E k \in DOMAIN page'.queue.blocks : page'.queue.blocks[k][1] = u) => Audible(page, u)
      BY <2>2 DEF Audible
    <3> QED BY <3>1, <3>2
  <2> QED BY <1>0, <2>1, <2>3 DEF Tells
<1>7. CASE Unmount BY <1>7 DEF Unmount
<1>8. CASE Begin \/ Produce \/ Finish \/ Forget \/ CutShort \/ TellClear \/ Drop \/ Rejoin \/ SpeakerFails \/ Unlock
           \/ Report \/ UNCHANGED vars
  <2>1. UNCHANGED <<page, heard, gone>>
    BY <1>8 DEF vars, history, tabVars, Begin, Produce, Finish, Forget, CutShort, TellClear, Drop, Rejoin,
       SpeakerFails, Unlock, Report
  <2> QED BY <1>1, <2>1
<1> QED BY <1>2, <1>3, <1>4, <1>5, <1>6, <1>7, <1>8 DEF Next, Server, Socket, Page, Device, Stop

(* Nothing is told of a page just mounted.                                 *)
LEMMA InitStatus == Init => StatusInv
<1> SUFFICES ASSUME Init PROVE StatusInv OBVIOUS
<1>1. Coming = <<>> /\ Len(<<>>) = 0 /\ DOMAIN <<>> = {} BY EmptySeq DEF Init, Coming
<1>2. /\ page.tracks = <<>> /\ page.status = "idle" /\ page.queue.blocks = <<>> /\ sent = 0 /\ phase = "between"
      /\ heard = [u \in Utterances |-> 0]
  BY DEF Init, Emptied
<1>3. \A u \in Utterances : ~Audible(page, u) BY <1>1, <1>2 DEF Audible
<1>4. \A u \in Utterances : ~Known(page, Coming, 0, u) BY <1>1, <1>2, <1>3 DEF Known
<1>5. Voices(page, Coming, 0) BY <1>1, <1>2, <1>4 DEF Voices
<1>6. Tells(page, gone.done) BY <1>1, <1>2 DEF Tells
<1> QED BY <1>2, <1>5, <1>6 DEF StatusInv

(* The status shown is that of the tracks: idle only with nothing left to  *)
(* play, and nothing left shows idle, unless the utterance shown was over  *)
(* without a unit of it heard.                                             *)
THEOREM ShownAsItIs == Spec => []StatusIsTrue
<1>1. Inv /\ StatusInv => StatusIsTrue
  <2> SUFFICES ASSUME Inv, StatusInv, ~closed
               PROVE  /\ page.status = "idle" => DOMAIN page.tracks = {}
                      /\ DOMAIN page.tracks = {} /\ page.status = "playing" =>
                            page.shown \in gone.done /\ heard[page.shown] = 0
    BY DEF StatusIsTrue
  <2>1. Tells(page, gone.done) BY DEF StatusInv
  <2>2. ASSUME page.shown \in gone.done, ~Audible(page, page.shown) PROVE heard[page.shown] = 0
    <3>1. heard[page.shown] \in Nat BY <2>2 DEF Inv, Typed
    <3> QED BY <2>2, <3>1 DEF Audible
  <2> QED BY <2>1, <2>2 DEF Tells
<1>2. Inv /\ StatusInv /\ [Next]_vars => StatusInv' BY VoicesStep, SpeaksStep, TellsStep DEF StatusInv
<1> QED BY <1>1, <1>2, InitInv, InvStep, InitStatus, PTL DEF Spec

===============================================================================
