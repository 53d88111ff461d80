---------------------------- MODULE RecorderProofs ----------------------------
(***************************************************************************)
(* Proofs about the way from the microphone to the provider, for any       *)
(* recordings, sample rates and chunk sizes: no device is left on, and     *)
(* what a stream gets is the chunks of its own recording, whole and in     *)
(* order, with its end behind them.                                        *)
(***************************************************************************)
EXTENDS Recorder, WellFoundedInduction, TLAPS

Sizes == 1 .. Size
Rests == 0 .. Size - 1
Devices == {"none", "asked", "granted", "live", "off"}
Recorders == [status : {"idle", "starting", "recording"}, generation : Nat,
              microphone : R \cup {None}]
Device == [device : Devices, generation : Nat, position : Int, blocks : Nat, rest : Rests,
           index : Nat, started : BOOLEAN, held : Seq(Sizes)]
Session == [phase : {"none", "opening", "live", "over"}, closed : BOOLEAN,
            endRequested : BOOLEAN, received : Seq(ToServer), held : Seq(ToServer),
            fed : Seq(ToServer)]

-----------------------------------------------------------------------------
(* What the operators of the recorder return.                              *)
LEMMA Quotient ==
  ASSUME NEW a \in Nat, NEW b \in Nat \ {0}
  PROVE  a \div b \in Nat
  OBVIOUS

LEMMA Remainder ==
  ASSUME NEW a \in Nat, NEW b \in Nat \ {0}
  PROVE  a % b \in 0 .. b - 1
  OBVIOUS

(* None is no recording.                                                   *)
LEMMA Recordings == 0 \notin R /\ R \subseteq Nat
  BY RecorderAssumption DEF R

(* A block makes a number of samples, and these whole chunks and a rest.   *)
LEMMA Resampling ==
  ASSUME NEW p \in Int
  PROVE  Outputs(p) \in Nat /\ Position(p) \in Int
<1>1. Block \in Nat \ {0} /\ To \in Nat \ {0} /\ From \in Nat \ {0}
  BY RecorderAssumption
<1>2. (Block - 1) * To \in Int /\ Block * To \in Int
  BY <1>1
<1>3. Outputs(p) \in Nat
  <2>1. CASE From = To \/ p >= (Block - 1) * To
    BY <1>1, <2>1 DEF Outputs
  <2>2. CASE From # To /\ ~ p >= (Block - 1) * To
    <3> DEFINE a == (Block - 1) * To - p
    <3>1. a \in Nat /\ a + From - 1 \in Nat
      BY <1>1, <1>2, <2>2
    <3>2. (a + From - 1) \div From \in Nat
      BY <1>1, <3>1, Quotient
    <3> QED
      BY <2>2, <3>2 DEF Outputs, CeilDiv
  <2> QED
    BY <2>1, <2>2
<1>4. Outputs(p) * From \in Int
  BY <1>1, <1>3
<1> QED
  BY <1>2, <1>3, <1>4 DEF Position

(* A block is cut in whole chunks, and less than one is left.              *)
LEMMA Cutting ==
  ASSUME NEW c \in Device, NEW n \in Nat
  PROVE  Whole(c, n) \in Seq(Sizes) /\ Rest(c, n) \in Rests
<1>1. Size \in Nat \ {0}
  BY RecorderAssumption
<1>2. c.rest + n \in Nat
  BY <1>1 DEF Device, Rests
<1>3. (c.rest + n) \div Size \in Nat
  BY <1>1, <1>2, Quotient
<1>4. Rest(c, n) \in Rests
  BY <1>1, <1>2, Remainder DEF Rest, Rests
<1>5. Size \in Sizes
  BY <1>1 DEF Sizes
<1> QED
  BY <1>3, <1>4, <1>5 DEF Whole

(* Chunks are numbered from the next index on.                             *)
LEMMA Numbering ==
  ASSUME NEW r \in R, NEW c \in Device, NEW sizes \in Seq(Sizes)
  PROVE  /\ Numbered(r, c, sizes) \in Seq(ToServer)
         /\ Len(Numbered(r, c, sizes)) = Len(sizes)
         /\ \A k \in 1 .. Len(sizes) :
                LET m == Numbered(r, c, sizes)[k]
                IN  m.action = "audio_chunk" /\ m.r = r /\ m.index = c.index + k - 1
         /\ Chunks(r, c, sizes) = IF c.started THEN Numbered(r, c, sizes) ELSE <<>>
<1>1. \A k \in 1 .. Len(sizes) : AudioChunk(r, c.index + k - 1, sizes[k]) \in ToServer
  <2> TAKE k \in 1 .. Len(sizes)
  <2>1. c.index + k - 1 \in Nat
    BY DEF Device
  <2>2. sizes[k] \in Sizes
    OBVIOUS
  <2>3. AudioChunk(r, c.index + k - 1, sizes[k])
          \in [action : {"audio_chunk"}, r : R, index : Nat, samples : 1 .. Size]
    BY <2>1, <2>2 DEF AudioChunk, Sizes
  <2> QED
    BY <2>3 DEF ToServer
<1>2. DOMAIN sizes = 1 .. Len(sizes) /\ Len(sizes) \in Nat
  OBVIOUS
<1>3. /\ Numbered(r, c, sizes) \in Seq(ToServer)
      /\ Len(Numbered(r, c, sizes)) = Len(sizes)
      /\ \A k \in 1 .. Len(sizes) :
            Numbered(r, c, sizes)[k] = AudioChunk(r, c.index + k - 1, sizes[k])
  BY <1>1, <1>2 DEF Numbered
<1>4. \A i, x : /\ AudioChunk(r, i, x).action = "audio_chunk"
               /\ AudioChunk(r, i, x).r = r /\ AudioChunk(r, i, x).index = i
  BY DEF AudioChunk
<1> QED
  BY <1>3, <1>4 DEF Chunks

(* Chunks go out, or are held until the start is sent.                     *)
LEMMA Holding ==
  ASSUME NEW c \in Device, NEW sizes \in Seq(Sizes)
  PROVE  /\ Chunked(c, sizes) \in Device
         /\ Chunked(c, sizes).device = c.device
         /\ Chunked(c, sizes).generation = c.generation
         /\ Chunked(c, sizes).position = c.position
         /\ Chunked(c, sizes).blocks = c.blocks
         /\ Chunked(c, sizes).started = c.started
         /\ Chunked(c, sizes).index = IF c.started THEN c.index + Len(sizes) ELSE c.index
<1>1. ASSUME NEW i \in Nat
      PROVE  /\ [c EXCEPT !.index = i] \in Device
             /\ [c EXCEPT !.index = i].device = c.device
             /\ [c EXCEPT !.index = i].generation = c.generation
             /\ [c EXCEPT !.index = i].position = c.position
             /\ [c EXCEPT !.index = i].blocks = c.blocks
             /\ [c EXCEPT !.index = i].started = c.started
             /\ [c EXCEPT !.index = i].index = i
  BY Zenon DEF Device
<1>2. ASSUME NEW h \in Seq(Sizes)
      PROVE  /\ [c EXCEPT !.held = h] \in Device
             /\ [c EXCEPT !.held = h].device = c.device
             /\ [c EXCEPT !.held = h].generation = c.generation
             /\ [c EXCEPT !.held = h].position = c.position
             /\ [c EXCEPT !.held = h].blocks = c.blocks
             /\ [c EXCEPT !.held = h].started = c.started
             /\ [c EXCEPT !.held = h].index = c.index
  BY Zenon DEF Device
<1>3. c.index + Len(sizes) \in Nat /\ c.held \o sizes \in Seq(Sizes) /\ c.started \in BOOLEAN
  BY DEF Device
<1>4. CASE c.started
  <2>1. Chunked(c, sizes) = [c EXCEPT !.index = c.index + Len(sizes)]
    BY <1>4 DEF Chunked
  <2> QED
    BY <1>1, <1>3, <1>4, <2>1, Zenon
<1>5. CASE ~c.started
  <2>1. Chunked(c, sizes) = [c EXCEPT !.held = c.held \o sizes]
    BY <1>5 DEF Chunked
  <2> QED
    BY <1>2, <1>3, <1>5, <2>1, Zenon
<1> QED
  BY <1>4, <1>5

(* A device that stops.                                                    *)
LEMMA Flushing ==
  ASSUME NEW c \in Device
  PROVE  /\ Flush(c) \in Seq(Sizes)
         /\ Off(c) \in Device /\ Off(c).device = "off"
         /\ Off(c).generation = c.generation /\ Off(c).started = c.started
         /\ Off(c).index = IF c.started THEN c.index + Len(Flush(c)) ELSE c.index
<1>0. Size \in Nat \ {0}
  BY RecorderAssumption
<1>1. Flush(c) \in Seq(Sizes)
  <2>1. c.rest > 0 => c.rest \in Sizes
    BY <1>0 DEF Device, Rests, Sizes
  <2> QED
    BY <2>1 DEF Flush
<1>2. 0 \in Rests
  BY <1>0 DEF Rests
<1>3. "off" \in Devices
  BY DEF Devices
<1>4. ASSUME NEW d \in Device
      PROVE  /\ [d EXCEPT !.device = "off", !.rest = 0] \in Device
             /\ [d EXCEPT !.device = "off", !.rest = 0].device = "off"
             /\ [d EXCEPT !.device = "off", !.rest = 0].generation = d.generation
             /\ [d EXCEPT !.device = "off", !.rest = 0].started = d.started
             /\ [d EXCEPT !.device = "off", !.rest = 0].index = d.index
  <2>1. [d EXCEPT !.device = "off", !.rest = 0] \in Device
    BY <1>2, <1>3, Zenon DEF Device
  <2>2. /\ [d EXCEPT !.device = "off", !.rest = 0].device = "off"
        /\ [d EXCEPT !.device = "off", !.rest = 0].generation = d.generation
        /\ [d EXCEPT !.device = "off", !.rest = 0].started = d.started
        /\ [d EXCEPT !.device = "off", !.rest = 0].index = d.index
    BY DEF Device
  <2> QED
    BY <2>1, <2>2
<1> DEFINE d == Chunked(c, Flush(c))
<1>5. /\ d \in Device /\ d.generation = c.generation /\ d.started = c.started
      /\ d.index = IF c.started THEN c.index + Len(Flush(c)) ELSE c.index
  BY <1>1, Holding
<1>6. Off(c) = [d EXCEPT !.device = "off", !.rest = 0]
  BY DEF Off
<1> HIDE DEF d
<1> QED
  BY <1>1, <1>4, <1>5, <1>6

-----------------------------------------------------------------------------
(* The page: the device that captures is the one shown; a device that was  *)
(* asked for is not newer than the last start, and is of the last start    *)
(* only while that start is not over, and of one start only; and a         *)
(* recording that was not announced has sent nothing.                      *)
Wanted(r) == capture[r].device \in {"asked", "granted"}
Shown ==
    /\ \A r \in R : capture[r].device = "live" <=> recorder.status = "recording" /\ recorder.microphone = r
    /\ recorder.microphone # None => recorder.status = "recording"
Asking ==
    /\ \A r \in R : Wanted(r) =>
            /\ capture[r].generation <= recorder.generation
            /\ capture[r].generation = recorder.generation => recorder.status = "starting"
    /\ \A q, r \in R : Wanted(q) /\ Wanted(r) /\ capture[q].generation = capture[r].generation
            => q = r
Announced ==
    \A r \in R : /\ capture[r].device = "live" => capture[r].started
                 /\ capture[r].device \in {"none", "asked", "granted"} => ~capture[r].started
                 /\ ~capture[r].started => capture[r].index = 0
PageInv ==
    /\ recorder \in Recorders /\ capture \in [R -> Device] /\ Shown /\ Asking /\ Announced

(* Stopping, from whatever end it comes: the microphone is off, and only   *)
(* it has changed.                                                         *)
LEMMA Releasing ==
  ASSUME recorder \in Recorders, capture \in [R -> Device]
  PROVE  /\ Released \in [R -> Device]
         /\ recorder.microphone = None => Released = capture /\ LastWords = <<>>
         /\ recorder.microphone \in R =>
                LET r == recorder.microphone
                IN  /\ Released = [capture EXCEPT ![r] = Off(capture[r])]
                    /\ LastWords = Chunks(r, capture[r], Flush(capture[r]))
<1>1. CASE recorder.microphone = None
  BY <1>1, Recordings DEF Released, LastWords, None
<1>2. CASE recorder.microphone \in R
  <2>1. recorder.microphone # None /\ capture[recorder.microphone] \in Device
    BY <1>2, Recordings DEF None
  <2>2. Off(capture[recorder.microphone]) \in Device
    BY <2>1, Flushing
  <2> QED
    BY <1>2, <2>1, <2>2 DEF Released, LastWords
<1> QED
  BY <1>1, <1>2 DEF Recorders

(* A page that stops keeps the invariant,                                  *)
LEMMA PageHalts ==
  ASSUME PageInv, recorder' = Idle, capture' = Released
  PROVE  PageInv'
<1> USE DEF PageInv
<1>1. /\ recorder' \in Recorders /\ recorder'.status = "idle"
      /\ recorder'.microphone = None /\ recorder'.generation = recorder.generation + 1
  BY DEF Idle, Recorders
<1>2. recorder.generation \in Nat /\ recorder.microphone \in R \cup {None}
  BY DEF Recorders
<1>3. capture' \in [R -> Device]
  BY Releasing
<1>4. \A r \in R : r # recorder.microphone => capture'[r] = capture[r]
  BY <1>2, Releasing
<1>5. \A r \in R : r = recorder.microphone =>
        /\ capture[r].device = "live" /\ capture'[r].device = "off"
        /\ capture'[r].started = capture[r].started
  <2> TAKE r \in R
  <2> HAVE r = recorder.microphone
  <2>1. capture[r] \in Device /\ capture' = [capture EXCEPT ![r] = Off(capture[r])]
    BY Releasing
  <2>2. capture[r].device = "live"
    BY Recordings DEF Shown, None
  <2> QED
    BY <2>1, <2>2, Flushing
<1>6. \A r \in R : capture[r].generation \in Nat /\ r # None
  BY Recordings DEF Device, None
<1>7. Shown'
  BY <1>1, <1>4, <1>5, <1>6 DEF Shown
<1>8. Asking'
  BY <1>1, <1>2, <1>4, <1>5, <1>6 DEF Asking, Wanted
<1>9. Announced'
  BY <1>4, <1>5 DEF Announced
<1> QED
  BY <1>1, <1>3, <1>7, <1>8, <1>9

(* The page of one recording changes: r has the device d.                  *)
LEMMA PageStarts == ASSUME PageInv, Start PROVE PageInv'
<1> USE DEF PageInv
<1> DEFINE g == recorder.generation + 1
<1>1. PICK r \in R \ Started :
        capture' = [capture EXCEPT ![r].device = "asked", ![r].generation = g]
  BY DEF Start
<1>2. /\ capture[r] \in Device /\ recorder.generation \in Nat /\ g \in Nat
      /\ g > recorder.generation
  BY DEF Recorders
<1>3. "asked" \in Devices
  BY DEF Devices
<1>4. capture' = [capture EXCEPT ![r] =
                    [capture[r] EXCEPT !.device = "asked", !.generation = g]]
  BY <1>1, Zenon
<1>5. [capture[r] EXCEPT !.device = "asked", !.generation = g] \in Device
  BY <1>2, <1>3, Zenon DEF Device
<1>6. /\ capture' \in [R -> Device]
      /\ capture'[r].device = "asked" /\ capture'[r].generation = g
      /\ capture'[r].started = capture[r].started /\ capture'[r].index = capture[r].index
      /\ \A q \in R : q # r => capture'[q] = capture[q]
  <2>1. capture'[r] = [capture[r] EXCEPT !.device = "asked", !.generation = g]
    BY <1>4
  <2> QED
    BY <1>2, <1>4, <1>5, <2>1 DEF Device
<1>7. /\ recorder' \in Recorders /\ recorder'.status = "starting" /\ recorder'.generation = g
      /\ recorder'.microphone = recorder.microphone
  <2>1. recorder' = [recorder EXCEPT !.status = "starting", !.generation = g]
    BY DEF Start
  <2>2. recorder' \in Recorders
    BY <1>2, <2>1, Zenon DEF Recorders
  <2> QED
    BY <2>1, <2>2 DEF Recorders
<1>8. capture[r].device = "none" /\ recorder.status = "idle"
  BY DEF Start, Started
<1>9. recorder.microphone = None
  BY <1>8 DEF Shown
<1>10. \A q \in R : capture[q].generation \in Nat
  BY DEF Device
<1> HIDE DEF g
<1>11. Shown'
  BY <1>6, <1>7, <1>8, <1>9, Recordings DEF Shown, None
<1>12. Asking'
  BY <1>2, <1>6, <1>7, <1>8, <1>10 DEF Asking, Wanted
<1>13. Announced'
  BY <1>6, <1>8 DEF Announced
<1> QED
  BY <1>6, <1>7, <1>11, <1>12, <1>13

(* when the device is granted or refused,                                  *)
LEMMA PageGranted == ASSUME PageInv, NEW r \in R, Granted(r) \/ OpenFails(r) PROVE PageInv'
<1> USE DEF PageInv
<1>1. PICK d \in {"granted", "off"} :
        /\ capture' = [capture EXCEPT ![r].device = d]
        /\ d = "granted" => recorder' = recorder
  BY DEF Granted, OpenFails
<1>2. capture[r] \in Device /\ d \in Devices /\ capture[r].device = "asked"
  BY DEF Granted, OpenFails, Devices
<1>3. [capture[r] EXCEPT !.device = d] \in Device
  BY <1>2, Zenon DEF Device
<1>4. /\ capture' \in [R -> Device]
      /\ capture'[r].device = d /\ capture'[r].generation = capture[r].generation
      /\ capture'[r].started = capture[r].started /\ capture'[r].index = capture[r].index
      /\ \A q \in R : q # r => capture'[q] = capture[q]
  <2>1. capture' = [capture EXCEPT ![r] = [capture[r] EXCEPT !.device = d]]
    BY <1>1, Zenon
  <2>2. capture'[r] = [capture[r] EXCEPT !.device = d]
    BY <2>1
  <2> QED
    BY <1>2, <1>3, <2>1, <2>2 DEF Device
<1>5. /\ recorder' \in Recorders /\ recorder'.generation = recorder.generation
      /\ recorder'.microphone = recorder.microphone
      /\ \/ recorder' = recorder
         \/ /\ capture[r].generation = recorder.generation /\ d = "off"
            /\ recorder'.status = "idle"
  <2>1. CASE recorder' = recorder
    BY <2>1
  <2>2. CASE recorder' # recorder
    <3>1. /\ recorder' = [recorder EXCEPT !.status = "idle"]
          /\ capture[r].generation = recorder.generation /\ d = "off"
      BY <1>1, <2>2 DEF Granted, OpenFails
    <3>2. recorder' \in Recorders
      BY <3>1, Zenon DEF Recorders
    <3> QED
      BY <3>1, <3>2 DEF Recorders
  <2> QED
    BY <2>1, <2>2
<1>6. \A q \in R : capture[q].generation \in Nat /\ recorder.generation \in Nat
  BY DEF Device, Recorders
<1>7. capture[r].generation = recorder.generation => recorder.status = "starting"
  BY <1>2 DEF Asking, Wanted
<1>8. Shown'
  BY <1>2, <1>4, <1>5, <1>7, Recordings DEF Shown, None
<1>9. Asking'
  BY <1>1, <1>2, <1>4, <1>5, <1>6 DEF Asking, Wanted
<1>10. Announced'
  BY <1>2, <1>4 DEF Announced
<1> QED
  BY <1>4, <1>5, <1>8, <1>9, <1>10

(* start goes on: what was held is numbered and sent behind audio_start.   *)
Beginning(c) == [c EXCEPT !.device = "live", !.started = TRUE, !.held = <<>>]

(* The device once its recording begins.                                   *)
LEMMA Begins ==
  ASSUME NEW c \in Device
  PROVE  /\ c.held \in Seq(Sizes)
         /\ Beginning(c) \in Device /\ Beginning(c).device = "live" /\ Beginning(c).started
         /\ Beginning(c).generation = c.generation /\ Beginning(c).index = c.index
<1>1. "live" \in Devices /\ <<>> \in Seq(Sizes) /\ TRUE \in BOOLEAN
  BY DEF Devices
<1>2. ASSUME NEW h \in Seq(Sizes), NEW b \in BOOLEAN, NEW d \in Devices
      PROVE  [c EXCEPT !.device = d, !.started = b, !.held = h] \in Device
  BY Zenon DEF Device
<1>3. Beginning(c) \in Device
  BY <1>1, <1>2 DEF Beginning
<1> QED
  BY <1>3 DEF Beginning, Device

(* when open returns to start,                                             *)
LEMMA PageOpens == ASSUME PageInv, NEW r \in R, OpenReturns(r) PROVE PageInv'
<1> USE DEF PageInv
<1> DEFINE c == capture[r]
           s == Beginning(c)
           d == Chunked(s, c.held)
<1>1. c \in Device /\ c.device = "granted" /\ capture' \in [R -> Device]
      /\ \A q \in R : q # r => capture'[q] = capture[q]
  <2>1. c \in Device /\ c.device = "granted" /\ Off(c) \in Device
    BY Flushing DEF OpenReturns
  <2>2. d \in Device
    BY <2>1, Begins, Holding
  <2>3. capture' = [capture EXCEPT ![r] = Off(c)] \/ capture' = [capture EXCEPT ![r] = d]
    BY DEF OpenReturns, Beginning
  <2> QED
    BY <2>1, <2>2, <2>3
<1>2. \A q \in R : capture[q].generation \in Nat /\ recorder.generation \in Nat
  BY DEF Device, Recorders
<1>3. CASE c.generation # recorder.generation
  <2>1. recorder' = recorder /\ capture'[r] = Off(c)
    BY <1>3 DEF OpenReturns
  <2>2. capture'[r].device = "off" /\ capture'[r].started = c.started /\ ~c.started
    BY <1>1, <2>1, Flushing DEF Announced
  <2>3. capture'[r].index = 0
    BY <1>1, <2>1, <2>2, Flushing DEF Announced
  <2>4. Shown'
    BY <1>1, <2>1, <2>2 DEF Shown
  <2>5. Asking'
    BY <1>1, <2>1, <2>2 DEF Asking, Wanted
  <2>6. Announced'
    BY <1>1, <2>2, <2>3 DEF Announced
  <2> QED
    BY <1>1, <2>1, <2>4, <2>5, <2>6
<1>4. CASE c.generation = recorder.generation
  <2>1. /\ recorder' = [recorder EXCEPT !.status = "recording", !.microphone = r]
        /\ capture'[r] = d
    BY <1>4 DEF OpenReturns, Beginning
  <2>2. recorder' \in Recorders
    BY <2>1, Zenon DEF Recorders
  <2>3. /\ recorder'.status = "recording" /\ recorder'.microphone = r
        /\ recorder'.generation = recorder.generation
    BY <2>1 DEF Recorders
  <2>4. s \in Device /\ c.held \in Seq(Sizes) /\ s.device = "live" /\ s.started
    BY <1>1, Begins
  <2>5. capture'[r].device = "live" /\ capture'[r].started
    BY <2>1, <2>4, Holding
  <2>6. recorder.status = "starting" /\ recorder.microphone = None
    BY <1>1, <1>4 DEF Asking, Wanted, Shown
  <2>7. Shown'
    BY <1>1, <2>3, <2>5, <2>6, Recordings DEF Shown, None
  <2>8. Asking'
    BY <1>1, <1>2, <1>4, <2>3, <2>5 DEF Asking, Wanted
  <2>9. Announced'
    BY <1>1, <2>5 DEF Announced
  <2> QED
    BY <1>1, <2>2, <2>7, <2>8, <2>9
<1> QED
  BY <1>3, <1>4

(* A block of the worklet moves the position of the next sample.           *)
Moved(c, p, b, t) == [c EXCEPT !.position = p, !.blocks = b, !.rest = t]

(* The device once a block was taken from it.                              *)
LEMMA Moving ==
  ASSUME NEW c \in Device, NEW p \in Int, NEW b \in Nat, NEW t \in Rests
  PROVE  /\ Moved(c, p, b, t) \in Device
         /\ Moved(c, p, b, t).device = c.device
         /\ Moved(c, p, b, t).generation = c.generation
         /\ Moved(c, p, b, t).started = c.started
         /\ Moved(c, p, b, t).index = c.index
<1>1. Moved(c, p, b, t) \in Device
  BY Zenon DEF Device, Moved
<1> QED
  BY <1>1 DEF Device, Moved

(* A block of the worklet: it is resampled and cut, and the device goes on. *)
Pieces(c) == Whole(c, Outputs(c.position))

(* A block goes out as the chunks that are cut of it.                      *)
LEMMA Captures ==
  ASSUME NEW r \in R, capture \in [R -> Device], Captured(r)
  PROVE  /\ Pieces(capture[r]) \in Seq(Sizes)
         /\ capture' \in [R -> Device]
         /\ \A q \in R : q # r => capture'[q] = capture[q]
         /\ capture'[r].device = capture[r].device
         /\ capture'[r].generation = capture[r].generation
         /\ capture'[r].started = capture[r].started
         /\ capture'[r].index = IF capture[r].started
                                THEN capture[r].index + Len(Pieces(capture[r]))
                                ELSE capture[r].index
         /\ Send(Chunks(r, capture[r], Pieces(capture[r])))
<1> DEFINE c == capture[r]
           n == Outputs(c.position)
           sizes == Pieces(c)
           d == Chunked(c, sizes)
<1>1. c \in Device
  OBVIOUS
<1>2. n \in Nat /\ Position(c.position) \in Int /\ c.position \in Int /\ c.blocks + 1 \in Nat
  <2>1. c.position \in Int /\ c.blocks \in Nat
    BY <1>1 DEF Device
  <2> HIDE DEF c
  <2> QED
    BY <2>1, Resampling
<1>3. sizes \in Seq(Sizes) /\ Rest(c, n) \in Rests
  BY <1>1, <1>2, Cutting DEF Pieces
<1>4. /\ d \in Device /\ d.position = c.position /\ d.blocks = c.blocks
      /\ d.device = c.device /\ d.generation = c.generation /\ d.started = c.started
      /\ d.index = IF c.started THEN c.index + Len(sizes) ELSE c.index
  BY <1>1, <1>3, Holding
<1>5. /\ capture' = [capture EXCEPT ![r] =
                [d EXCEPT !.position = Position(c.position), !.blocks = c.blocks + 1,
                          !.rest = Rest(c, n)]]
      /\ Send(Chunks(r, c, sizes))
  BY <1>4 DEF Captured, Pieces
<1> DEFINE e == Moved(d, Position(c.position), c.blocks + 1, Rest(c, n))
<1> HIDE DEF n, d
<1>7. /\ e \in Device /\ e.device = d.device /\ e.generation = d.generation
      /\ e.started = d.started /\ e.index = d.index
  BY <1>2, <1>3, <1>4, Moving
<1>8. capture' = [capture EXCEPT ![r] = e]
  BY <1>5 DEF Moved
<1> HIDE DEF e
<1>9. /\ capture' \in [R -> Device] /\ capture'[r] = e
      /\ \A q \in R : q # r => capture'[q] = capture[q]
  BY <1>7, <1>8
<1>10. /\ capture'[r].device = c.device /\ capture'[r].generation = c.generation
       /\ capture'[r].started = c.started
       /\ capture'[r].index = IF c.started THEN c.index + Len(sizes) ELSE c.index
  BY <1>4, <1>7, <1>9
<1> QED
  BY <1>3, <1>5, <1>9, <1>10

(* and when a block is captured.                                           *)
LEMMA PageCaptures == ASSUME PageInv, NEW r \in R, Captured(r) PROVE PageInv'
<1> USE DEF PageInv
<1>1. /\ capture' \in [R -> Device]
      /\ \A q \in R : q # r => capture'[q] = capture[q]
      /\ capture'[r].device = capture[r].device
      /\ capture'[r].generation = capture[r].generation
      /\ capture'[r].started = capture[r].started
      /\ ~capture[r].started => capture'[r].index = capture[r].index
  BY Captures
<1>2. recorder' = recorder
  BY DEF Captured
<1>3. Shown'
  BY <1>1, <1>2 DEF Shown
<1>4. Asking'
  BY <1>1, <1>2 DEF Asking, Wanted
<1>5. Announced'
  BY <1>1 DEF Announced
<1> QED
  BY <1>1, <1>2, <1>3, <1>4, <1>5

(* No other step touches the page.                                         *)
LEMMA PageStep == PageInv /\ [Next]_vars => PageInv'
<1> SUFFICES ASSUME PageInv, [Next]_vars PROVE PageInv'
  OBVIOUS
<1>1. CASE Start
  BY <1>1, PageStarts
<1>2. CASE Stop \/ Unmount \/ TranscriberError
  <2>1. (recorder' = Idle /\ capture' = Released) \/ UNCHANGED <<recorder, capture>>
    BY <1>2 DEF Stop, Unmount, TranscriberError, Halt
  <2>2. CASE UNCHANGED <<recorder, capture>>
    BY <2>2 DEF PageInv, Shown, Asking, Wanted, Announced
  <2> QED
    BY <2>1, <2>2, PageHalts
<1>3. ASSUME NEW r \in R, Granted(r) \/ OpenFails(r) PROVE PageInv'
  BY <1>3, PageGranted
<1>4. ASSUME NEW r \in R, OpenReturns(r) PROVE PageInv'
  BY <1>4, PageOpens
<1>5. ASSUME NEW r \in R, Captured(r) PROVE PageInv'
  BY <1>5, PageCaptures
<1>6. CASE UNCHANGED <<recorder, capture>>
  BY <1>6 DEF PageInv, Shown, Asking, Wanted, Announced
<1>7. ASSUME NEW r \in R, Abandon(r) \/ Opened(r) \/ Over(r) PROVE PageInv'
  BY <1>6, <1>7 DEF Abandon, Opened, Over, page
<1>8. CASE Handle \/ Drop \/ Rejoin \/ UNCHANGED vars
  BY <1>6, <1>8 DEF Handle, Drop, Rejoin, vars, page
<1> QED
  BY <1>1, <1>2, <1>3, <1>4, <1>5, <1>7, <1>8 DEF Next

(* It holds at first, and always.                                          *)
LEMMA PageInvariant == Spec => []PageInv
<1>1. Init => PageInv
  <2> SUFFICES ASSUME Init PROVE PageInv
    OBVIOUS
  <2>1. recorder \in Recorders
    BY DEF Init, Recorders
  <2>2. NoDevice \in Device
    <3>1. 0 \in Rests /\ "none" \in Devices /\ <<>> \in Seq(Sizes)
      BY RecorderAssumption DEF Rests, Devices
    <3> QED
      BY <3>1 DEF NoDevice, Device
  <2>3. /\ \A r \in R : capture[r] = NoDevice
        /\ capture \in [R -> Device]
    BY <2>2 DEF Init
  <2>4. /\ NoDevice.device = "none" /\ ~NoDevice.started /\ NoDevice.index = 0
        /\ recorder.status = "idle" /\ recorder.microphone = None
    BY DEF Init, NoDevice
  <2> QED
    BY <2>1, <2>3, <2>4 DEF PageInv, Shown, Asking, Wanted, Announced
<1> QED
  BY <1>1, PageStep, PTL DEF Spec

(* MicrophoneIsShown: a device captures only for the recording shown, or   *)
(* for a start whose open has not returned, whatever was stopped, refused  *)
(* or begun again while devices were asked for.                            *)
THEOREM NoDeviceIsLeftOn == Spec => []MicrophoneIsShown
<1>1. PageInv => MicrophoneIsShown
  BY DEF PageInv, Shown, MicrophoneIsShown
<1> QED
  BY <1>1, PageInvariant, PTL

-----------------------------------------------------------------------------
(* The sessions, and what is on its way to them.                           *)
TopicTypes ==
    /\ session \in [R -> Session] /\ up \in Seq(ToServer) /\ online \in BOOLEAN /\ current \in R \cup {None}

(* What the recorder sends besides chunks.                                 *)
LEMMA Messages ==
  /\ AudioEnd \in ToServer /\ Leave \in ToServer
  /\ \A r \in R : AudioStart(r) \in ToServer
  BY DEF ToServer

(* What a handler does to the session s it is for.                         *)
Closed(s)    == [s EXCEPT !.closed = TRUE]
Ended(s)     == [s EXCEPT !.endRequested = TRUE,
                          !.fed = IF s.phase = "live" THEN Append(@, AudioEnd) ELSE @]
Fresh        == [NoSession EXCEPT !.phase = "opening"]
Dead(s)      == [s EXCEPT !.phase = "over", !.closed = TRUE]
Late(s)      == [s EXCEPT !.phase = "over"]

(* Of a session become these, or the one that took a message more.         *)
Keeps(s, t) ==
    \/ t = s \/ t = Fresh \/ t = Closed(s)
    \/ s.phase = "opening" /\ t = Dead(s)
    \/ s.phase = "opening" /\ s.closed /\ t = Late(s)
    \/ s.phase = "opening" /\ ~s.closed /\ t = Live(s)
    \/ ~s.closed /\ ~s.endRequested /\ t = Ended(s)
Becomes(s, t) == Keeps(s, t) \/ (~s.closed /\ ~s.endRequested /\ \E m \in ToServer : t = Took(s, m))

(* What each operation makes of a session: it is closed,                   *)
LEMMA Closing ==
  ASSUME NEW s \in Session
  PROVE  /\ Closed(s) \in Session /\ Closed(s).phase = s.phase /\ Closed(s).closed
         /\ Closed(s).endRequested = s.endRequested /\ Closed(s).received = s.received
         /\ Closed(s).held = s.held /\ Closed(s).fed = s.fed
<1>1. Closed(s) \in Session
  BY Zenon DEF Session, Closed
<1> QED
  BY <1>1 DEF Session, Closed

(* it is over without a stream, or its stream comes too late,              *)
LEMMA Dying ==
  ASSUME NEW s \in Session
  PROVE  /\ Dead(s) \in Session /\ Dead(s).phase = "over"
         /\ Late(s) \in Session /\ Late(s).phase = "over" /\ Late(s).closed = s.closed
         /\ Dead(s).received = s.received /\ Late(s).received = s.received
<1>1. "over" \in {"none", "opening", "live", "over"} /\ TRUE \in BOOLEAN
  OBVIOUS
<1>2. Dead(s) \in Session /\ Late(s) \in Session
  BY <1>1, Zenon DEF Session, Dead, Late
<1> QED
  BY <1>2 DEF Session, Dead, Late

(* it is begun,                                                            *)
LEMMA Beginnings ==
  /\ Fresh \in Session /\ Fresh.phase = "opening" /\ ~Fresh.closed /\ ~Fresh.endRequested
  /\ Fresh.received = <<>> /\ Fresh.held = <<>> /\ Fresh.fed = <<>>
  /\ NoSession \in Session
<1>1. <<>> \in Seq(ToServer)
  OBVIOUS
<1>2. NoSession \in Session
  BY <1>1 DEF NoSession, Session
<1>3. /\ ~NoSession.closed /\ ~NoSession.endRequested /\ NoSession.received = <<>>
      /\ NoSession.held = <<>> /\ NoSession.fed = <<>>
  BY DEF NoSession
<1>4. ASSUME NEW s \in Session
      PROVE  /\ [s EXCEPT !.phase = "opening"] \in Session
             /\ [s EXCEPT !.phase = "opening"].phase = "opening"
             /\ [s EXCEPT !.phase = "opening"].closed = s.closed
             /\ [s EXCEPT !.phase = "opening"].endRequested = s.endRequested
             /\ [s EXCEPT !.phase = "opening"].received = s.received
             /\ [s EXCEPT !.phase = "opening"].held = s.held
             /\ [s EXCEPT !.phase = "opening"].fed = s.fed
  BY DEF Session
<1> QED
  BY <1>2, <1>3, <1>4, Zenon DEF Fresh

(* its stream opens,                                                       *)
LEMMA Living ==
  ASSUME NEW s \in Session
  PROVE  /\ Live(s) \in Session /\ Live(s).phase = "live" /\ Live(s).closed = s.closed
         /\ Live(s).endRequested = s.endRequested /\ Live(s).received = s.received
         /\ Live(s).fed = s.fed \o s.held \o End(s)
<1>1. s.fed \o s.held \o End(s) \in Seq(ToServer)
  <2>1. s.fed \in Seq(ToServer) /\ s.held \in Seq(ToServer) /\ End(s) \in Seq(ToServer)
    BY Messages DEF Session, End
  <2> QED
    BY <2>1
<1>2. ASSUME NEW h \in Seq(ToServer), NEW f \in Seq(ToServer), NEW p \in {"live"}
      PROVE  /\ [s EXCEPT !.phase = p, !.held = h, !.fed = f] \in Session
  BY Zenon DEF Session
<1> DEFINE f == s.fed \o s.held \o End(s)
<1>3. Live(s) = [s EXCEPT !.phase = "live", !.held = <<>>, !.fed = f]
  BY DEF Live
<1>4. f \in Seq(ToServer) /\ <<>> \in Seq(ToServer)
  BY <1>1
<1> HIDE DEF f
<1>5. Live(s) \in Session
  BY <1>2, <1>3, <1>4
<1>6. /\ Live(s).phase = "live" /\ Live(s).closed = s.closed
      /\ Live(s).endRequested = s.endRequested /\ Live(s).received = s.received
      /\ Live(s).fed = f
  BY <1>3, <1>4 DEF Session
<1> QED
  BY <1>5, <1>6 DEF f

(* its end is asked for,                                                   *)
LEMMA Ending ==
  ASSUME NEW s \in Session
  PROVE  /\ Ended(s) \in Session /\ Ended(s).phase = s.phase /\ Ended(s).closed = s.closed
         /\ Ended(s).endRequested /\ Ended(s).received = s.received
         /\ Ended(s).held = s.held
         /\ Ended(s).fed = IF s.phase = "live" THEN Append(s.fed, AudioEnd) ELSE s.fed
<1> DEFINE f == IF s.phase = "live" THEN Append(s.fed, AudioEnd) ELSE s.fed
<1>1. s.fed \in Seq(ToServer)
  BY DEF Session
<1>2. f \in Seq(ToServer) /\ TRUE \in BOOLEAN
  BY <1>1, Messages
<1>3. Ended(s) = [s EXCEPT !.endRequested = TRUE, !.fed = f]
  <2>1. [s EXCEPT !.endRequested = TRUE].fed = s.fed
    BY DEF Session
  <2> QED
    BY <2>1, Zenon DEF Ended
<1> HIDE DEF f
<1>4. Ended(s) \in Session
  BY <1>2, <1>3, Zenon DEF Session
<1>5. /\ Ended(s).phase = s.phase /\ Ended(s).closed = s.closed
      /\ Ended(s).endRequested /\ Ended(s).received = s.received
      /\ Ended(s).held = s.held /\ Ended(s).fed = f
  BY <1>3 DEF Session
<1> QED
  BY <1>4, <1>5 DEF f

WithFed(s, q)  == [s EXCEPT !.fed = q]
WithHeld(s, q) == [s EXCEPT !.held = q]

(* audio is fed or held,                                                   *)
LEMMA Feeding ==
  ASSUME NEW s \in Session, NEW q \in Seq(ToServer)
  PROVE  /\ WithFed(s, q) \in Session /\ WithFed(s, q).phase = s.phase
         /\ WithFed(s, q).closed = s.closed /\ WithFed(s, q).endRequested = s.endRequested
         /\ WithFed(s, q).received = s.received
         /\ WithFed(s, q).held = s.held /\ WithFed(s, q).fed = q
         /\ WithHeld(s, q) \in Session /\ WithHeld(s, q).phase = s.phase
         /\ WithHeld(s, q).closed = s.closed /\ WithHeld(s, q).endRequested = s.endRequested
         /\ WithHeld(s, q).received = s.received
         /\ WithHeld(s, q).held = q /\ WithHeld(s, q).fed = s.fed
<1>1. WithFed(s, q) \in Session /\ WithHeld(s, q) \in Session
  BY Zenon DEF Session, WithFed, WithHeld
<1> QED
  BY <1>1 DEF Session, WithFed, WithHeld

(* and a chunk is received.                                                *)
LEMMA Taking ==
  ASSUME NEW s \in Session, NEW m \in ToServer
  PROVE  /\ Took(s, m) \in Session /\ Took(s, m).phase = s.phase
         /\ Took(s, m).closed = s.closed /\ Took(s, m).endRequested = s.endRequested
         /\ Took(s, m).received = Append(s.received, m)
         /\ Took(s, m).held = IF s.phase = "live" THEN s.held ELSE Append(s.held, m)
         /\ Took(s, m).fed = IF s.phase = "live" THEN Append(s.fed, m) ELSE s.fed
<1> DEFINE t == [s EXCEPT !.received = Append(s.received, m)]
<1>1. s.received \in Seq(ToServer) /\ s.held \in Seq(ToServer) /\ s.fed \in Seq(ToServer)
  BY DEF Session
<1>2. /\ Append(s.received, m) \in Seq(ToServer) /\ Append(s.held, m) \in Seq(ToServer)
      /\ Append(s.fed, m) \in Seq(ToServer)
  BY <1>1
<1>3. ASSUME NEW q \in Seq(ToServer)
      PROVE  /\ [s EXCEPT !.received = q] \in Session
             /\ [s EXCEPT !.received = q].phase = s.phase
             /\ [s EXCEPT !.received = q].closed = s.closed
             /\ [s EXCEPT !.received = q].endRequested = s.endRequested
             /\ [s EXCEPT !.received = q].received = q
             /\ [s EXCEPT !.received = q].held = s.held
             /\ [s EXCEPT !.received = q].fed = s.fed
  BY Zenon DEF Session
<1>4. /\ t \in Session /\ t.phase = s.phase /\ t.closed = s.closed
      /\ t.endRequested = s.endRequested /\ t.received = Append(s.received, m)
      /\ t.held = s.held /\ t.fed = s.fed
  BY <1>2, <1>3
<1>7. Took(s, m) = IF t.phase = "live" THEN WithFed(t, Append(t.fed, m))
                   ELSE WithHeld(t, Append(t.held, m))
  BY DEF Took, Fed, WithFed, WithHeld
<1> HIDE DEF t
<1>8. CASE s.phase = "live"
  <2>1. Took(s, m) = WithFed(t, Append(s.fed, m))
    BY <1>4, <1>7, <1>8
  <2> DEFINE q == Append(s.fed, m)
  <2>2. q \in Seq(ToServer) /\ Took(s, m) = WithFed(t, q)
    BY <1>2, <2>1
  <2> HIDE DEF q
  <2>3. /\ WithFed(t, q) \in Session /\ WithFed(t, q).phase = s.phase
        /\ WithFed(t, q).closed = s.closed /\ WithFed(t, q).endRequested = s.endRequested
        /\ WithFed(t, q).received = Append(s.received, m)
        /\ WithFed(t, q).held = s.held /\ WithFed(t, q).fed = q
    BY <1>4, <2>2, Feeding
  <2> QED
    BY <1>8, <2>2, <2>3 DEF q
<1>9. CASE s.phase # "live"
  <2>1. Took(s, m) = WithHeld(t, Append(s.held, m))
    BY <1>4, <1>7, <1>9
  <2> DEFINE q == Append(s.held, m)
  <2>2. q \in Seq(ToServer) /\ Took(s, m) = WithHeld(t, q)
    BY <1>2, <2>1
  <2> HIDE DEF q
  <2>3. /\ WithHeld(t, q) \in Session /\ WithHeld(t, q).phase = s.phase
        /\ WithHeld(t, q).closed = s.closed /\ WithHeld(t, q).endRequested = s.endRequested
        /\ WithHeld(t, q).received = Append(s.received, m)
        /\ WithHeld(t, q).held = q /\ WithHeld(t, q).fed = s.fed
    BY <1>4, <2>2, Feeding
  <2> QED
    BY <1>9, <2>2, <2>3 DEF q
<1> QED
  BY <1>8, <1>9

(* A session stays one in all of these,                                    *)
LEMMA Becoming ==
  ASSUME NEW s \in Session, NEW t, Becomes(s, t)
  PROVE  t \in Session
<1>1. ASSUME NEW m \in ToServer PROVE Took(s, m) \in Session
  BY <1>1, Taking
<1>2. Dead(s) \in Session /\ Late(s) \in Session
  BY Dying
<1>3. /\ Fresh \in Session /\ Closed(s) \in Session /\ Live(s) \in Session
      /\ Ended(s) \in Session
  BY Beginnings, Closing, Living, Ending
<1> QED
  BY <1>1, <1>2, <1>3, Zenon DEF Becomes, Keeps

(* and gets no audio but by a chunk.                                       *)
LEMMA Keeping ==
  ASSUME NEW s \in Session, NEW t, Keeps(s, t)
  PROVE  t.received = s.received \/ t.received = <<>>
<1>1. /\ Fresh.received = <<>> /\ Closed(s).received = s.received
      /\ Live(s).received = s.received /\ Ended(s).received = s.received
      /\ Dead(s).received = s.received /\ Late(s).received = s.received
  BY Beginnings, Closing, Living, Ending, Dying
<1> QED
  BY <1>1 DEF Keeps

(* One session changes.                                                    *)
LEMMA Changing ==
  ASSUME session \in [R -> Session], NEW r \in R, NEW t, Keeps(session[r], t),
         session' = [session EXCEPT ![r] = t]
  PROVE  /\ session' \in [R -> Session]
         /\ \A q \in R : Keeps(session[q], session'[q])
<1>1. t \in Session
  BY Becoming DEF Becomes
<1>2. session' \in [R -> Session] /\ session'[r] = t /\ \A q \in R : q # r => session'[q] = session[q]
  BY <1>1
<1> QED
  BY <1>2 DEF Keeps

(* No session changes.                                                     *)
LEMMA Staying ==
  ASSUME session \in [R -> Session], session' = session
  PROVE  session' \in [R -> Session] /\ \A q \in R : Keeps(session[q], session'[q])
  BY DEF Keeps

(* The session of the topic is closed.                                     *)
LEMMA CloseSessions ==
  ASSUME TopicTypes, CloseSession
  PROVE  /\ session' \in [R -> Session]
         /\ \A q \in R : Keeps(session[q], session'[q])
         /\ current' = None
<1>1. CASE current = None
  BY <1>1, Staying DEF CloseSession, TopicTypes
<1>2. CASE current \in R
  <2>1. current # None
    BY <1>2, Recordings DEF None
  <2>2. session' = [session EXCEPT ![current] = Closed(session[current])]
    BY <2>1, Zenon DEF CloseSession, Closed
  <2>3. Keeps(session[current], Closed(session[current]))
    BY DEF Keeps
  <2> QED
    BY <1>2, <2>2, <2>3, Changing DEF TopicTypes, CloseSession
<1> QED
  BY <1>1, <1>2 DEF TopicTypes

(* What each message does.                                                 *)
LEMMA Starts ==
  ASSUME TopicTypes, NEW r \in R, HandleStart(r)
  PROVE  /\ session' \in [R -> Session]
         /\ \A q \in R : Keeps(session[q], session'[q])
         /\ current' = r /\ session'[r] = Fresh
<1>1. session' = [s \in R |-> IF s = r THEN Fresh
                              ELSE IF s = current THEN Closed(session[s]) ELSE session[s]]
  BY DEF HandleStart, Fresh, Closed
<1>2. \A q \in R : session[q] \in Session /\ Closed(session[q]) \in Session
  BY Closing DEF TopicTypes
<1> QED
  BY <1>1, <1>2, Beginnings DEF HandleStart, Keeps

(* A topic that accepts audio has a session.                               *)
LEMMA Accepted ==
  ASSUME TopicTypes, Accepts
  PROVE  /\ current \in R /\ session[current] \in Session
         /\ ~session[current].closed /\ ~session[current].endRequested
  BY Recordings DEF Accepts, TopicTypes, None

(* audio_chunk.                                                            *)
LEMMA ChunkTaken ==
  ASSUME TopicTypes, NEW m \in ToServer, HandleChunk(m)
  PROVE  /\ session' \in [R -> Session]
         /\ \A q \in R : Becomes(session[q], session'[q])
         /\ current' = current
         /\ Accepts => /\ session'[current] = Took(session[current], m)
                       /\ \A q \in R \ {current} : session'[q] = session[q]
         /\ ~Accepts => session' = session
<1>1. CASE Accepts
  <2> DEFINE t == Took(session[current], m)
  <2>1. session' = [session EXCEPT ![current] = t]
    BY <1>1 DEF HandleChunk
  <2>2. Becomes(session[current], t)
    BY <1>1, Accepted DEF Becomes
  <2>3. current \in R /\ t \in Session
    BY <1>1, <2>2, Accepted, Becoming
  <2> HIDE DEF t
  <2>4. /\ session' \in [R -> Session] /\ session'[current] = t
        /\ \A q \in R : q # current => session'[q] = session[q]
    BY <2>1, <2>3 DEF TopicTypes
  <2>5. \A q \in R : Becomes(session[q], session'[q])
    BY <2>2, <2>4 DEF Becomes, Keeps
  <2> QED
    BY <1>1, <2>4, <2>5 DEF HandleChunk, t
<1>2. CASE ~Accepts
  BY <1>2, Staying DEF HandleChunk, TopicTypes, Becomes
<1> QED
  BY <1>1, <1>2

(* audio_end.                                                              *)
LEMMA EndTaken ==
  ASSUME TopicTypes, HandleEnd
  PROVE  /\ session' \in [R -> Session]
         /\ \A q \in R : Keeps(session[q], session'[q])
         /\ current' = current
<1>1. CASE Accepts
  <2> DEFINE s == session[current]
             f == IF s.phase = "live" THEN Append(s.fed, AudioEnd) ELSE s.fed
  <2>1. current \in R /\ s \in Session
    BY <1>1, Accepted
  <2>2. session' = [session EXCEPT ![current] = [s EXCEPT !.endRequested = TRUE, !.fed = f]]
    <3>1. session' = [session EXCEPT ![current].endRequested = TRUE, ![current].fed = f]
      BY <1>1, <2>1 DEF HandleEnd, TopicTypes, Session
    <3> HIDE DEF f
    <3> QED
      BY <3>1, Zenon
  <2>3. Ended(s) = [s EXCEPT !.endRequested = TRUE, !.fed = f]
    <3>1. [s EXCEPT !.endRequested = TRUE].fed = s.fed
      BY <2>1 DEF Session
    <3> QED
      BY <3>1, Zenon DEF Ended
  <2>4. Keeps(s, Ended(s))
    BY <1>1, Accepted DEF Keeps
  <2> QED
    BY <2>1, <2>2, <2>3, <2>4, Changing DEF HandleEnd, TopicTypes
<1>2. CASE ~Accepts
  BY <1>2, Staying DEF HandleEnd, TopicTypes
<1> QED
  BY <1>1, <1>2

(* The first message of the socket is handled.                             *)
LEMMA Handles ==
  ASSUME TopicTypes, Handle
  PROVE  /\ session' \in [R -> Session]
         /\ \A q \in R : Becomes(session[q], session'[q])
         /\ Head(up).action # "audio_chunk" => \A q \in R : Keeps(session[q], session'[q])
         /\ up' = Tail(up) /\ up # <<>> /\ UNCHANGED <<page, online>>
         /\ up' \in Seq(ToServer) /\ current' \in R \cup {None}
         /\ Head(up).action = "audio_start" =>
                /\ Head(up).r \in R /\ Head(up) = AudioStart(Head(up).r)
                /\ current' = Head(up).r /\ session'[Head(up).r] = Fresh
         /\ Head(up).action = "audio_chunk" =>
                /\ current' = current
                /\ Accepts => /\ session'[current] = Took(session[current], Head(up))
                              /\ \A q \in R \ {current} : session'[q] = session[q]
                /\ ~Accepts => session' = session
<1> DEFINE m == Head(up)
<1>1. up' = Tail(up) /\ up # <<>> /\ UNCHANGED <<page, online>>
  BY DEF Handle
<1>2. m \in ToServer /\ up' \in Seq(ToServer)
  BY <1>1 DEF TopicTypes
<1>3. CASE m.action = "audio_start"
  <2>1. HandleStart(m.r)
    BY <1>3 DEF Handle
  <2>2. m.r \in R /\ m = AudioStart(m.r)
    BY <1>2, <1>3 DEF ToServer, AudioEnd, Leave, AudioStart
  <2> HIDE DEF m
  <2>3. /\ session' \in [R -> Session]
        /\ \A q \in R : Keeps(session[q], session'[q])
        /\ current' = m.r /\ session'[m.r] = Fresh
    BY <2>1, <2>2, Starts
  <2> QED
    BY <1>1, <1>2, <1>3, <2>2, <2>3 DEF m, Becomes
<1>4. CASE m.action = "audio_chunk"
  <2>1. HandleChunk(m)
    BY <1>4 DEF Handle
  <2> QED
    BY <1>1, <1>2, <1>4, <2>1, ChunkTaken DEF TopicTypes
<1>5. CASE m.action = "audio_end"
  <2>1. HandleEnd
    BY <1>5 DEF Handle
  <2> QED
    BY <1>1, <1>2, <1>5, <2>1, EndTaken DEF TopicTypes, Becomes
<1>6. CASE m.action \notin {"audio_start", "audio_chunk", "audio_end"}
  <2>1. CloseSession
    BY <1>6 DEF Handle
  <2> QED
    BY <1>1, <1>2, <1>6, <2>1, CloseSessions DEF TopicTypes, Becomes
<1> QED
  BY <1>3, <1>4, <1>5, <1>6

(* The topic accepts no more than before, and as much was received.        *)
Quiet ==
    Accepts' => /\ Accepts /\ current' = current
                /\ session'[current].received = session[current].received

(* What the stream does, and the end of the socket.                        *)
LEMMA Turns ==
  ASSUME TopicTypes, NEW r \in R, Abandon(r) \/ Opened(r) \/ Over(r)
  PROVE  /\ session' \in [R -> Session]
         /\ \A q \in R : Keeps(session[q], session'[q])
         /\ current' \in R \cup {None} /\ UNCHANGED <<page, online, up>>
         /\ Quiet
<1> USE DEF TopicTypes
<1> DEFINE s == session[r]
<1>1. s \in Session /\ r # None
  BY Recordings DEF None
<1>2. CASE Abandon(r) \/ Over(r)
  <2>1. PICK t \in {Dead(s), Closed(s)} :
          Keeps(s, t) /\ session' = [session EXCEPT ![r] = t]
    <3>1. CASE Abandon(r)
      <4>1. session' = [session EXCEPT ![r] = Dead(s)] /\ s.phase = "opening"
        BY <3>1, Zenon DEF Abandon, Dead
      <4> QED
        BY <4>1 DEF Keeps
    <3>2. CASE Over(r)
      <4>1. session' = [session EXCEPT ![r] = Closed(s)]
        BY <3>2, Zenon DEF Over, Closed
      <4> QED
        BY <4>1 DEF Keeps
    <3> QED
      BY <1>2, <3>1, <3>2
  <2>2. /\ session' \in [R -> Session] /\ \A q \in R : Keeps(session[q], session'[q])
    BY <2>1, Changing
  <2>3. \A q \in R : q # r => session'[q] = session[q]
    BY <2>1
  <2>4. /\ current' = IF current = r THEN None ELSE current
        /\ UNCHANGED <<page, online, up>>
    BY <1>2 DEF Abandon, Over
  <2>5. Quiet
    BY <2>3, <2>4 DEF Quiet, Accepts
  <2> QED
    BY <2>2, <2>4, <2>5
<1>3. CASE Opened(r)
  <2>1. PICK t \in {Late(s), Live(s)} :
          /\ Keeps(s, t) /\ session' = [session EXCEPT ![r] = t]
          /\ s.closed <=> t = Late(s)
    <3>1. s.phase = "opening"
      BY <1>3 DEF Opened
    <3>2. CASE s.closed
      <4>1. session' = [session EXCEPT ![r] = Late(s)]
        BY <1>3, <3>2 DEF Opened, Late
      <4> QED
        BY <3>1, <3>2, <4>1 DEF Keeps
    <3>3. CASE ~s.closed
      <4>1. session' = [session EXCEPT ![r] = Live(s)]
        BY <1>3, <3>3 DEF Opened
      <4>2. Live(s) # Late(s)
        BY <1>1, Living, Dying
      <4> QED
        BY <3>1, <3>3, <4>1, <4>2 DEF Keeps
    <3> QED
      BY <3>2, <3>3
  <2>2. /\ session' \in [R -> Session] /\ \A q \in R : Keeps(session[q], session'[q])
    BY <2>1, Changing
  <2>3. /\ \A q \in R : q # r => session'[q] = session[q]
        /\ session'[r] = t
    BY <1>1, <2>1, <2>2
  <2>4. current' = current /\ UNCHANGED <<page, online, up>>
    BY <1>3 DEF Opened, socket
  <2>5. Quiet
    <3>1. t.received = s.received /\ (t = Live(s) => t.endRequested = s.endRequested)
          /\ t.closed = s.closed
      <4>1. /\ Live(s).received = s.received /\ Live(s).closed = s.closed
            /\ Live(s).endRequested = s.endRequested
        BY <1>1, Living
      <4>2. Late(s).received = s.received /\ Late(s).closed = s.closed
        BY <1>1, Dying
      <4>3. t = Live(s) \/ t = Late(s)
        BY <2>1
      <4> HIDE DEF s
      <4> QED
        BY <4>1, <4>2, <4>3
    <3> QED
      BY <2>1, <2>3, <2>4, <3>1 DEF Quiet, Accepts
  <2> QED
    BY <2>2, <2>4, <2>5
<1> QED
  BY <1>2, <1>3

-----------------------------------------------------------------------------
(* What the provider gets: nothing before there is a stream, and then all  *)
(* that came, and the end if it came.                                      *)
InOrder(s) ==
    /\ s.phase \in {"none", "opening"} => s.held = s.received /\ s.fed = <<>>
    /\ s.phase = "live" => s.fed = s.received \o End(s)

(* A session in order stays so, whatever becomes of it.                    *)
LEMMA StaysInOrder ==
  ASSUME NEW s \in Session, InOrder(s), NEW t, Becomes(s, t)
  PROVE  InOrder(t)
<1>1. s.received \in Seq(ToServer) /\ s.phase \in {"none", "opening", "live", "over"}
  BY DEF Session
<1>2. InOrder(Fresh)
  BY Beginnings DEF InOrder
<1>3. InOrder(Closed(s))
  BY Closing DEF InOrder, End
<1>4. InOrder(Dead(s)) /\ InOrder(Late(s))
  BY Dying DEF InOrder
<1>5. ASSUME s.phase = "opening" PROVE InOrder(Live(s))
  <2>1. s.fed = <<>> /\ s.held = s.received
    BY <1>5 DEF InOrder
  <2>2. End(Live(s)) = End(s) /\ End(s) \in Seq(ToServer)
    <3>1. Live(s).endRequested = s.endRequested
      BY Living
    <3> QED
      BY <3>1, Messages DEF End
  <2>3. <<>> \o s.received \o End(s) = s.received \o End(s)
    BY <1>1, <2>2
  <2> QED
    BY <2>1, <2>2, <2>3, Living DEF InOrder
<1>6. ASSUME ~s.endRequested PROVE InOrder(Ended(s))
  <2>1. CASE s.phase = "live"
    <3>1. s.fed = s.received
      BY <1>1, <1>6, <2>1 DEF InOrder, End
    <3>2. Append(s.received, AudioEnd) = s.received \o <<AudioEnd>>
      BY <1>1, Messages
    <3> QED
      BY <2>1, <3>1, <3>2, Ending DEF InOrder, End
  <2>2. CASE s.phase # "live"
    BY <2>2, Ending DEF InOrder
  <2> QED
    BY <2>1, <2>2
<1>7. ASSUME ~s.endRequested, NEW m \in ToServer PROVE InOrder(Took(s, m))
  <2>0. /\ Took(s, m).phase = s.phase /\ Took(s, m).endRequested = s.endRequested
        /\ Took(s, m).received = Append(s.received, m)
        /\ s.phase # "live" => Took(s, m).held = Append(s.held, m) /\ Took(s, m).fed = s.fed
        /\ s.phase = "live" => Took(s, m).fed = Append(s.fed, m)
    BY <1>7, Taking
  <2>1. CASE s.phase = "live"
    <3>1. s.fed = s.received
      BY <1>1, <1>7, <2>1 DEF InOrder, End
    <3>2. Took(s, m).fed = Append(s.received, m) /\ End(Took(s, m)) = <<>>
      BY <1>7, <2>0, <2>1, <3>1 DEF End
    <3>3. Append(s.received, m) \o <<>> = Append(s.received, m)
      BY <1>1
    <3> QED
      BY <2>0, <2>1, <3>2, <3>3 DEF InOrder
  <2>2. CASE s.phase # "live"
    BY <2>0, <2>2 DEF InOrder
  <2> QED
    BY <2>1, <2>2
<1> QED
  BY <1>2, <1>3, <1>4, <1>5, <1>6, <1>7 DEF Becomes, Keeps

-----------------------------------------------------------------------------
(* What is on the socket: a chunk comes behind the start of its recording  *)
(* or the chunk before it; the first on the socket, and the next the       *)
(* recording will send when there is none, is the one its stream waits     *)
(* for, if a stream accepts any.                                           *)
Leads(m, r, i) ==
    \/ m.action = "audio_start" /\ m.r = r /\ i = 0
    \/ m.action = "audio_chunk" /\ m.r = r /\ m.index + 1 = i
Waits(r, i) == Accepts => current = r /\ Len(session[r].received) = i
Follows(k, r, i) == IF k = 1 THEN Waits(r, i) ELSE Leads(up[k - 1], r, i)
Chain == \A k \in 1 .. Len(up) : up[k].action = "audio_chunk" => Follows(k, up[k].r, up[k].index)
Tied == \A r \in R : recorder.microphone = r => Follows(Len(up) + 1, r, capture[r].index)
Offline == ~online => up = <<>> /\ current = None

Numbers ==
    \A r \in R : \A k \in 1 .. Len(session[r].received) :
        session[r].received[k].r = r /\ session[r].received[k].index = k - 1
StreamInv ==
    /\ TopicTypes /\ PageInv
    /\ \A r \in R : InOrder(session[r])
    /\ Numbers /\ Chain /\ Tied /\ Offline

(* n chunks of r from index i on are sent behind what is there.            *)

(* Messages that may be sent behind what is there.                         *)
Led(ms) ==
    \A k \in 1 .. Len(ms) : ms[k].action = "audio_chunk" =>
        IF k = 1 THEN Follows(Len(up) + 1, ms[k].r, ms[k].index)
        ELSE Leads(ms[k - 1], ms[k].r, ms[k].index)

(* What is sent behind a chain that it continues is a chain.               *)
LEMMA Sending ==
  ASSUME TopicTypes, Chain, Offline, NEW ms \in Seq(ToServer), Led(ms), Send(ms),
         UNCHANGED <<session, current, online>>
  PROVE  /\ TopicTypes' /\ Chain' /\ Offline'
         /\ \A r \in R, i \in Nat :
                (IF ms = <<>> THEN Follows(Len(up) + 1, r, i) ELSE Leads(ms[Len(ms)], r, i))
                    => Follows(Len(up) + 1, r, i)'
<1> USE DEF TopicTypes
<1>0. \A r, i : Waits(r, i)' <=> Waits(r, i)
  BY DEF Waits, Accepts
<1>1. CASE ~online
  <2>1. up' = up /\ up = <<>> /\ ~Accepts
    BY <1>1 DEF Send, Offline, Accepts
  <2>2. \A r, i : Waits(r, i)
    BY <2>1 DEF Waits
  <2>3. Len(up') = 0
    BY <2>1
  <2> QED
    BY <1>0, <1>1, <2>1, <2>2, <2>3 DEF Chain, Offline, Follows
<1>2. CASE online
  <2>1. up' = up \o ms
    BY <1>2 DEF Send
  <2>2. /\ Len(up) \in Nat /\ Len(ms) \in Nat /\ Len(up') = Len(up) + Len(ms)
        /\ up' \in Seq(ToServer)
        /\ \A k \in 1 .. Len(up) : up'[k] = up[k]
        /\ \A k \in 1 .. Len(ms) : up'[Len(up) + k] = ms[k]
    BY <2>1
  <2>3. ASSUME NEW k \in 1 .. Len(up'), up'[k].action = "audio_chunk"
        PROVE  Follows(k, up[k].r, up[k].index)'
    <3>1. CASE k <= Len(up)
      <4>1. up'[k] = up[k] /\ Follows(k, up[k].r, up[k].index)
        BY <2>2, <2>3, <3>1 DEF Chain
      <4>2. ASSUME k # 1 PROVE up'[k - 1] = up[k - 1]
        <5>1. k - 1 \in 1 .. Len(up)
          BY <2>2, <3>1, <4>2
        <5> QED
          BY <2>2, <5>1
      <4> QED
        BY <1>0, <4>1, <4>2 DEF Follows
    <3>2. CASE k > Len(up)
      <4>1. PICK j \in 1 .. Len(ms) : k = Len(up) + j /\ up'[k] = ms[j]
        <5>1. k - Len(up) \in 1 .. Len(ms) /\ k = Len(up) + (k - Len(up))
          BY <2>2, <3>2
        <5> QED
          BY <2>2, <5>1
      <4>2. CASE j = 1
        <5>1. Follows(k, up'[k].r, up'[k].index)
          BY <2>2, <2>3, <4>1, <4>2 DEF Led
        <5>2. ASSUME k # 1 PROVE up'[k - 1] = up[k - 1]
          <6>1. k - 1 \in 1 .. Len(up)
            BY <2>2, <4>1, <4>2, <5>2
          <6> QED
            BY <2>2, <6>1
        <5> QED
          BY <1>0, <5>1, <5>2 DEF Follows
      <4>3. CASE j # 1
        <5>1. Leads(ms[j - 1], up'[k].r, up'[k].index)
          BY <2>3, <4>1, <4>3 DEF Led
        <5>2. j - 1 \in 1 .. Len(ms) /\ Len(up) + (j - 1) = k - 1 /\ k # 1
          BY <2>2, <4>1, <4>3
        <5>3. up'[k - 1] = ms[j - 1]
          BY <2>2, <5>2
        <5> QED
          BY <5>1, <5>2, <5>3 DEF Follows
      <4> QED
        BY <4>2, <4>3
    <3> QED
      BY <2>2, <3>1, <3>2
  <2>4. ASSUME NEW r \in R, NEW i \in Nat,
               IF ms = <<>> THEN Follows(Len(up) + 1, r, i) ELSE Leads(ms[Len(ms)], r, i)
        PROVE  Follows(Len(up) + 1, r, i)'
    <3>1. CASE ms = <<>>
      <4>1. up' = up /\ Follows(Len(up) + 1, r, i)
        BY <2>1, <2>4, <3>1
      <4> QED
        BY <1>0, <4>1 DEF Follows
    <3>2. CASE ms # <<>>
      <4>1. Len(ms) \in 1 .. Len(ms) /\ Len(up') + 1 # 1 /\ (Len(up') + 1) - 1 = Len(up) + Len(ms)
        BY <2>2, <3>2
      <4>2. up'[(Len(up') + 1) - 1] = ms[Len(ms)]
        BY <2>2, <4>1
      <4> QED
        BY <2>4, <3>2, <4>1, <4>2 DEF Follows
    <3> QED
      BY <3>1, <3>2
  <2>5. Chain'
    BY <2>3 DEF Chain
  <2> QED
    BY <1>2, <2>2, <2>4, <2>5 DEF Offline
<1> QED
  BY <1>1, <1>2

(* Chunks with the numbers that are next.                                  *)
LEMMA InTurn ==
  ASSUME TopicTypes, NEW r \in R, NEW i \in Nat, NEW n \in Nat, NEW ms \in Seq(ToServer),
         Len(ms) = n, Follows(Len(up) + 1, r, i),
         \A k \in 1 .. n : ms[k].action = "audio_chunk" /\ ms[k].r = r /\ ms[k].index = i + k - 1
  PROVE  /\ Led(ms)
         /\ IF ms = <<>> THEN Follows(Len(up) + 1, r, i + n) ELSE Leads(ms[Len(ms)], r, i + n)
<1>1. ASSUME NEW k \in 1 .. n, k # 1 PROVE Leads(ms[k - 1], ms[k].r, ms[k].index)
  <2>1. k - 1 \in 1 .. n /\ i + (k - 1) - 1 + 1 = i + k - 1
    BY <1>1
  <2> QED
    BY <2>1 DEF Leads
<1>2. Led(ms)
  <2>1. \A k \in 1 .. n : k = 1 => ms[k].r = r /\ ms[k].index = i
    OBVIOUS
  <2> QED
    BY <1>1, <2>1 DEF Led
<1>3. CASE ms = <<>>
  BY <1>2, <1>3
<1>4. CASE ms # <<>>
  <2>1. n \in 1 .. n /\ (i + n - 1) + 1 = i + n
    BY <1>4
  <2> QED
    BY <1>2, <1>4, <2>1 DEF Leads
<1> QED
  BY <1>3, <1>4

(* Behind an audio_start they begin with 0.                                *)
LEMMA FromTheStart ==
  ASSUME NEW r \in R, NEW n \in Nat, NEW ms \in Seq(ToServer), Len(ms) = n,
         \A k \in 1 .. n : ms[k].action = "audio_chunk" /\ ms[k].r = r /\ ms[k].index = k - 1
  PROVE  LET all == <<AudioStart(r)>> \o ms
         IN  all \in Seq(ToServer) /\ all # <<>> /\ Led(all) /\ Leads(all[Len(all)], r, n)
<1> DEFINE all == <<AudioStart(r)>> \o ms
<1>1. AudioStart(r) \in ToServer /\ AudioStart(r).action = "audio_start" /\ AudioStart(r).r = r
  BY Messages DEF AudioStart
<1>2. /\ all \in Seq(ToServer) /\ Len(all) = n + 1 /\ all # <<>> /\ all[1] = AudioStart(r)
      /\ \A k \in 2 .. n + 1 : all[k] = ms[k - 1]
  BY <1>1
<1> HIDE DEF all
<1>3. ASSUME NEW k \in 1 .. n + 1, all[k].action = "audio_chunk"
      PROVE  k # 1 /\ Leads(all[k - 1], all[k].r, all[k].index)
  <2>1. k # 1
    BY <1>1, <1>2, <1>3
  <2>2. /\ k \in 2 .. n + 1 /\ k - 1 \in 1 .. n /\ all[k] = ms[k - 1]
        /\ all[k].r = r /\ all[k].index = k - 2
    BY <1>2, <2>1
  <2>3. CASE k = 2
    BY <1>1, <1>2, <2>2, <2>3 DEF Leads
  <2>4. CASE k # 2
    <3>1. k - 1 \in 2 .. n + 1 /\ k - 2 \in 1 .. n /\ all[k - 1] = ms[k - 2]
      BY <1>2, <2>2, <2>4
    <3>2. ms[k - 2].action = "audio_chunk" /\ ms[k - 2].r = r /\ ms[k - 2].index + 1 = k - 2
      BY <3>1
    <3> QED
      BY <2>2, <3>1, <3>2 DEF Leads
  <2> QED
    BY <2>1, <2>3, <2>4
<1>4. Leads(all[n + 1], r, n)
  <2>1. CASE n = 0
    BY <1>1, <1>2, <2>1 DEF Leads
  <2>2. CASE n # 0
    <3>1. n + 1 \in 2 .. n + 1 /\ n \in 1 .. n /\ all[n + 1] = ms[n]
      BY <1>2, <2>2
    <3>2. ms[n].action = "audio_chunk" /\ ms[n].r = r /\ ms[n].index + 1 = n
      BY <3>1
    <3> QED
      BY <3>1, <3>2 DEF Leads
  <2> QED
    BY <2>1, <2>2
<1>5. Led(all)
  BY <1>2, <1>3 DEF Led
<1> QED
  BY <1>2, <1>4, <1>5 DEF all

(* Nothing need lead what is not a chunk.                                  *)
LEMMA Behind ==
  ASSUME NEW a \in Seq(ToServer), NEW b \in Seq(ToServer), Led(a),
         \A k \in 1 .. Len(b) : b[k].action # "audio_chunk"
  PROVE  a \o b \in Seq(ToServer) /\ Led(a \o b)
<1> DEFINE c == a \o b
<1>1. /\ c \in Seq(ToServer) /\ Len(c) = Len(a) + Len(b) /\ Len(a) \in Nat /\ Len(b) \in Nat
      /\ \A k \in 1 .. Len(a) : c[k] = a[k]
      /\ \A k \in 1 .. Len(b) : c[Len(a) + k] = b[k]
  OBVIOUS
<1> HIDE DEF c
<1>2. ASSUME NEW k \in 1 .. Len(c), c[k].action = "audio_chunk"
      PROVE  k <= Len(a)
  <2>1. CASE k > Len(a)
    <3>1. k - Len(a) \in 1 .. Len(b) /\ Len(a) + (k - Len(a)) = k
      BY <1>1, <2>1
    <3> QED
      BY <1>1, <1>2, <3>1
  <2> QED
    BY <1>1, <2>1
<1>3. ASSUME NEW k \in 1 .. Len(a)
      PROVE  c[k] = a[k] /\ (k # 1 => c[k - 1] = a[k - 1])
  <2>1. k # 1 => k - 1 \in 1 .. Len(a)
    OBVIOUS
  <2> QED
    BY <1>1, <2>1
<1>4. ASSUME NEW k \in 1 .. Len(c), c[k].action = "audio_chunk"
      PROVE  IF k = 1 THEN Follows(Len(up) + 1, c[k].r, c[k].index)
             ELSE Leads(c[k - 1], c[k].r, c[k].index)
  <2>1. k \in 1 .. Len(a)
    BY <1>2, <1>4
  <2>2. c[k] = a[k] /\ (k # 1 => c[k - 1] = a[k - 1])
    BY <1>3, <2>1
  <2> QED
    BY <1>4, <2>1, <2>2 DEF Led
<1>5. Led(c)
  BY <1>4 DEF Led
<1> QED
  BY <1>1, <1>5 DEF c

(* A step of the page that sends.                                          *)
LEMMA PageSends ==
  ASSUME StreamInv, PageInv', NEW ms \in Seq(ToServer), Led(ms), Send(ms),
         UNCHANGED <<session, current, online>>, Tied'
  PROVE  StreamInv'
<1>1. TopicTypes' /\ Chain' /\ Offline'
  BY Sending DEF StreamInv
<1> QED
  BY <1>1 DEF StreamInv, Numbers

(* A step of the page that sends nothing, and leaves the microphone tied.  *)
LEMMA PageSilent ==
  ASSUME StreamInv, PageInv', UNCHANGED <<up, session, current, online>>, Tied'
  PROVE  StreamInv'
<1> USE DEF StreamInv, TopicTypes
<1>1. \A r, i, k : Follows(k, r, i)' <=> Follows(k, r, i)
  BY DEF Follows, Waits, Accepts
<1>2. Chain'
  BY <1>1 DEF Chain
<1> QED
  BY <1>2 DEF Numbers, Offline

(* As long as the microphone and what it numbers next stay.                *)
LEMMA StaysTied ==
  ASSUME StreamInv, UNCHANGED <<up, session, current, online>>,
         \A r \in R : recorder'.microphone = r =>
            recorder.microphone = r /\ capture'[r].index = capture[r].index
  PROVE  Tied'
<1>1. \A r, i, k : Follows(k, r, i)' <=> Follows(k, r, i)
  BY DEF Follows, Waits, Accepts
<1> QED
  BY <1>1 DEF StreamInv, Tied

(* A device is asked for, granted or refused.                              *)
LEMMA StreamStarts ==
  ASSUME StreamInv, PageInv', NEW r \in R, Start \/ Granted(r) \/ OpenFails(r)
  PROVE  StreamInv'
<1> USE DEF StreamInv, PageInv
<1>1. UNCHANGED <<up, session, current, online>>
  BY DEF Start, Granted, OpenFails, socket, topic
<1>2. CASE Start
  <2>1. recorder.microphone = None
    BY <1>2 DEF Start, Shown
  <2>2. recorder'.microphone = recorder.microphone
    BY <1>2 DEF Start, Recorders
  <2> QED
    BY <1>1, <2>1, <2>2, Recordings, StaysTied, PageSilent DEF None
<1>3. CASE Granted(r) \/ OpenFails(r)
  <2>1. recorder'.microphone = recorder.microphone
    BY <1>3 DEF Granted, OpenFails, Recorders
  <2>2. recorder.microphone # r
    BY <1>3, Recordings DEF Granted, OpenFails, Shown, None
  <2>3. \A q \in R : q # r => capture'[q] = capture[q]
    BY <1>3 DEF Granted, OpenFails
  <2> QED
    BY <1>1, <2>1, <2>2, <2>3, StaysTied, PageSilent
<1> QED
  BY <1>2, <1>3

(* The microphone is tied when its next chunk is what is waited for.       *)
LEMMA Tying ==
  ASSUME StreamInv, NEW r \in R, NEW i \in Nat, Follows(Len(up) + 1, r, i)',
         recorder'.microphone = r, capture'[r].index = i
  PROVE  Tied'
  BY DEF Tied

(* open returns: the start goes out, and the chunks held behind it.        *)
LEMMA StreamOpens ==
  ASSUME StreamInv, PageInv', NEW r \in R, OpenReturns(r)
  PROVE  StreamInv'
<1> USE DEF StreamInv, PageInv
<1> DEFINE c == capture[r]
           s == Beginning(c)
<1>1. UNCHANGED <<session, current, online>> /\ c \in Device /\ c.device = "granted"
  BY DEF OpenReturns, topic
<1>2. CASE c.generation # recorder.generation
  <2>1. UNCHANGED <<recorder, up>> /\ capture' = [capture EXCEPT ![r] = Off(c)]
    BY <1>2 DEF OpenReturns
  <2>2. recorder.microphone # r
    BY <1>1, Recordings DEF Shown, None
  <2>3. \A q \in R : q # r => capture'[q] = capture[q]
    BY <2>1
  <2> QED
    BY <1>1, <2>1, <2>2, <2>3, StaysTied, PageSilent
<1>3. CASE c.generation = recorder.generation
  <2>1. /\ capture' = [capture EXCEPT ![r] = Chunked(s, c.held)]
        /\ recorder' = [recorder EXCEPT !.status = "recording", !.microphone = r]
        /\ Send(<<AudioStart(r)>> \o Chunks(r, s, c.held))
    BY <1>3 DEF OpenReturns, Beginning
  <2>2. c.held \in Seq(Sizes) /\ s \in Device /\ s.started /\ s.index = 0
    BY <1>1, Begins DEF Announced
  <2>3. PICK n \in Nat : n = Len(c.held)
    BY <2>2
  <2>4. PICK ms \in Seq(ToServer) : /\ ms = Chunks(r, s, c.held)
                                    /\ Len(ms) = n
                                    /\ \A k \in 1 .. n : /\ ms[k].action = "audio_chunk"
                                                         /\ ms[k].r = r
                                                         /\ ms[k].index = 0 + k - 1
    BY <2>2, <2>3, Numbering
  <2>5. \A k \in 1 .. n : 0 + k - 1 = k - 1
    OBVIOUS
  <2>6. PICK all \in Seq(ToServer) :
          all = <<AudioStart(r)>> \o ms /\ all # <<>> /\ Led(all) /\ Leads(all[Len(all)], r, n)
    BY <2>4, <2>5, FromTheStart
  <2>7. Send(all)
    BY <2>1, <2>4, <2>6
  <2>8. Chunked(s, c.held) \in Device /\ Chunked(s, c.held).index = n
    BY <2>2, <2>3, Holding
  <2>9. recorder'.microphone = r /\ capture'[r].index = n
    BY <2>1, <2>8 DEF Recorders
  <2>10. Follows(Len(up) + 1, r, n)'
    BY <1>1, <2>6, <2>7, Sending
  <2>11. Tied'
    BY <2>9, <2>10, Tying
  <2> QED
    BY <1>1, <2>6, <2>7, <2>11, PageSends
<1> QED
  BY <1>2, <1>3

(* A device in the microphone sends the chunks that are next.              *)
LEMMA MicrophoneSends ==
  ASSUME StreamInv, NEW r \in R, recorder.microphone = r, NEW sizes \in Seq(Sizes)
  PROVE  /\ capture[r].started /\ Chunks(r, capture[r], sizes) \in Seq(ToServer)
         /\ Led(Chunks(r, capture[r], sizes))
         /\ \E i \in Nat :
                /\ i = capture[r].index + Len(sizes)
                /\ IF Chunks(r, capture[r], sizes) = <<>> THEN Follows(Len(up) + 1, r, i)
                   ELSE Leads(Chunks(r, capture[r], sizes)[Len(Chunks(r, capture[r], sizes))], r, i)
<1> USE DEF StreamInv, PageInv
<1>1. capture[r] \in Device /\ capture[r].started /\ capture[r].index \in Nat
  BY Recordings DEF Shown, Announced, Device, None
<1>2. PICK i \in Nat : i = capture[r].index
  BY <1>1
<1>3. PICK n \in Nat : n = Len(sizes)
  OBVIOUS
<1>4. Follows(Len(up) + 1, r, i)
  BY <1>2 DEF Tied
<1>5. PICK ms \in Seq(ToServer) : /\ ms = Chunks(r, capture[r], sizes)
                                  /\ Len(ms) = n
                                  /\ \A k \in 1 .. n : /\ ms[k].action = "audio_chunk"
                                                       /\ ms[k].r = r
                                                       /\ ms[k].index = i + k - 1
  BY <1>1, <1>2, <1>3, Numbering
<1>6. /\ Led(ms)
      /\ IF ms = <<>> THEN Follows(Len(up) + 1, r, i + n) ELSE Leads(ms[Len(ms)], r, i + n)
  <2>1. /\ TopicTypes /\ Len(ms) = n
        /\ \A k \in 1 .. n : /\ ms[k].action = "audio_chunk" /\ ms[k].r = r
                             /\ ms[k].index = i + k - 1
    BY <1>5
  <2> HIDE DEF StreamInv, PageInv
  <2> QED
    BY <1>4, <2>1, InTurn
<1> QED
  BY <1>1, <1>2, <1>3, <1>5, <1>6

(* A block is captured: only the microphone sends.                         *)
LEMMA StreamCaptures ==
  ASSUME StreamInv, PageInv', NEW r \in R, Captured(r)
  PROVE  StreamInv'
<1> USE DEF StreamInv, PageInv
<1> DEFINE c == capture[r]
<1>1. UNCHANGED <<recorder, session, current, online>> /\ c.device \in {"granted", "live"}
  BY DEF Captured, topic, Fills
<1>2. /\ Pieces(c) \in Seq(Sizes) /\ Send(Chunks(r, c, Pieces(c)))
      /\ \A q \in R : q # r => capture'[q] = capture[q]
      /\ capture'[r].index = IF c.started THEN c.index + Len(Pieces(c)) ELSE c.index
  BY Captures
<1>3. CASE recorder.microphone = r
  <2>1. PICK ms \in Seq(ToServer), i \in Nat :
          /\ ms = Chunks(r, c, Pieces(c)) /\ Led(ms)
          /\ c.started /\ i = c.index + Len(Pieces(c))
          /\ IF ms = <<>> THEN Follows(Len(up) + 1, r, i) ELSE Leads(ms[Len(ms)], r, i)
    BY <1>2, <1>3, MicrophoneSends
  <2>2. Send(ms)
    BY <1>2, <2>1
  <2>3. Follows(Len(up) + 1, r, i)'
    BY <1>1, <2>1, <2>2, Sending
  <2>4. capture'[r].index = i
    BY <1>2, <2>1
  <2>5. Tied'
    BY <1>1, <1>3, <2>3, <2>4, Tying
  <2> QED
    BY <1>1, <2>1, <2>2, <2>5, PageSends
<1>4. CASE recorder.microphone # r
  <2>1. c.device = "granted" /\ ~c.started
    BY <1>1, <1>4 DEF Shown, Announced
  <2>2. Chunks(r, c, Pieces(c)) = <<>>
    BY <2>1 DEF Chunks
  <2>3. up' = up
    BY <1>2, <2>2 DEF Send, TopicTypes
  <2> QED
    BY <1>1, <1>2, <1>4, <2>3, StaysTied, PageSilent
<1> QED
  BY <1>3, <1>4

(* A recording that is stopped sends its rest, and what is no chunk.       *)
LEMMA LastChunks ==
  ASSUME StreamInv
  PROVE  LastWords \in Seq(ToServer) /\ Led(LastWords)
<1>1. CASE recorder.microphone = None
  <2>1. LastWords = <<>>
    BY <1>1, Releasing DEF StreamInv, PageInv
  <2> QED
    BY <2>1 DEF Led
<1>2. CASE recorder.microphone \in R
  <2>1. PICK r \in R : r = recorder.microphone
    BY <1>2
  <2>2. capture[r] \in Device /\ LastWords = Chunks(r, capture[r], Flush(capture[r]))
    BY <2>1, Releasing DEF StreamInv, PageInv
  <2>3. Flush(capture[r]) \in Seq(Sizes)
    BY <2>2, Flushing
  <2> QED
    BY <2>1, <2>2, <2>3, MicrophoneSends
<1> QED
  BY <1>1, <1>2 DEF StreamInv, PageInv, Recorders

(* The recorder halts: the rest goes out, and what is no chunk.            *)
LEMMA StreamHalts ==
  ASSUME StreamInv, PageInv', NEW b \in Seq(ToServer),
         \A k \in 1 .. Len(b) : b[k].action # "audio_chunk",
         recorder' = Idle, Send(LastWords \o b), UNCHANGED <<session, current, online>>
  PROVE  StreamInv'
<1>1. LastWords \in Seq(ToServer) /\ Led(LastWords)
  BY LastChunks
<1>2. LastWords \o b \in Seq(ToServer) /\ Led(LastWords \o b)
  BY <1>1, Behind
<1>3. Tied'
  BY Recordings DEF Tied, Idle, None
<1> QED
  BY <1>2, <1>3, PageSends

(* The recorder is stopped, left, or told of an error.                     *)
LEMMA StreamStops ==
  ASSUME StreamInv, PageInv', Stop \/ Unmount \/ TranscriberError
  PROVE  StreamInv'
<1> DEFINE e == IF recorder.status = "recording" THEN <<AudioEnd>> ELSE <<>>
<1>1. UNCHANGED <<session, current, online>>
  BY DEF Stop, Unmount, TranscriberError, topic
<1>2. /\ e \in Seq(ToServer) /\ \A k \in 1 .. Len(e) : e[k].action # "audio_chunk"
      /\ Leave \in ToServer /\ Leave.action # "audio_chunk"
  <2>1. AudioEnd.action # "audio_chunk" /\ Leave.action # "audio_chunk"
    BY DEF AudioEnd, Leave
  <2> QED
    BY <2>1, Messages
<1>3. LastWords \in Seq(ToServer)
  BY LastChunks
<1> HIDE DEF e
<1>4. CASE Stop
  <2>1. recorder' = Idle /\ Send(LastWords \o e \o <<>>)
    BY <1>4 DEF Stop, Halt, e
  <2>2. LastWords \o e \o <<>> = LastWords \o e
    BY <1>2, <1>3
  <2> QED
    BY <1>1, <1>2, <2>1, <2>2, StreamHalts
<1>5. CASE Unmount /\ Halt(<<Leave>>)
  <2>1. recorder' = Idle /\ Send(LastWords \o e \o <<Leave>>)
    BY <1>5 DEF Halt, e
  <2>2. LastWords \o e \o <<Leave>> = LastWords \o (e \o <<Leave>>)
    BY <1>2, <1>3
  <2>3. PICK b \in Seq(ToServer) :
          b = e \o <<Leave>> /\ \A k \in 1 .. Len(b) : b[k].action # "audio_chunk"
    <3> DEFINE b == e \o <<Leave>>
    <3>1. /\ b \in Seq(ToServer) /\ Len(b) = Len(e) + 1 /\ b[Len(e) + 1] = Leave
          /\ \A k \in 1 .. Len(e) : b[k] = e[k]
      BY <1>2
    <3>2. \A k \in 1 .. Len(b) : k \in 1 .. Len(e) \/ k = Len(e) + 1
      BY <3>1
    <3> QED
      BY <1>2, <3>1, <3>2
  <2> QED
    BY <1>1, <2>1, <2>2, <2>3, StreamHalts
<1>6. CASE recorder.status = "idle" /\ Send(<<Leave>>) /\ UNCHANGED <<recorder, capture>>
  <2>1. recorder.microphone = None
    BY <1>6 DEF StreamInv, PageInv, Shown
  <2>2. <<Leave>> \in Seq(ToServer) /\ Led(<<Leave>>)
    BY <1>2 DEF Led
  <2>3. Tied'
    BY <1>6, <2>1, Recordings DEF Tied, None
  <2> QED
    BY <1>1, <1>6, <2>2, <2>3, PageSends
<1>7. CASE TranscriberError
  <2>1. CASE recorder' = Idle /\ Send(LastWords)
    <3>1. LastWords \o <<>> = LastWords
      BY <1>3
    <3>2. PICK b \in Seq(ToServer) : b = <<>> /\ Len(b) = 0
      <4>1. <<>> \in Seq(ToServer) /\ Len(<<>>) = 0
        OBVIOUS
      <4> QED
        BY <4>1, Zenon
    <3>3. Send(LastWords \o b) /\ \A k \in 1 .. Len(b) : b[k].action # "audio_chunk"
      BY <2>1, <3>1, <3>2
    <3> QED
      BY <1>1, <2>1, <3>3, StreamHalts
  <2>2. CASE UNCHANGED <<recorder, capture, up>>
    BY <1>1, <2>2, StaysTied, PageSilent
  <2> QED
    BY <1>7, <2>1, <2>2 DEF TranscriberError
<1> QED
  BY <1>4, <1>5, <1>6, <1>7 DEF Unmount

(* A message is taken: what comes behind it is what its session waits for. *)
LEMMA StreamHandles ==
  ASSUME StreamInv, PageInv', Handle
  PROVE  StreamInv'
<1> DEFINE m == Head(up)
<1>1. TopicTypes /\ TopicTypes' /\ UNCHANGED <<recorder, capture, online>>
  BY Handles DEF StreamInv, TopicTypes, page
<1>2. \A q \in R : InOrder(session'[q])
  <2>1. \A q \in R : session[q] \in Session /\ Becomes(session[q], session'[q])
    BY Handles DEF StreamInv, TopicTypes
  <2> QED
    BY <2>1, StaysInOrder DEF StreamInv
<1>3. /\ up # <<>> /\ up' = Tail(up) /\ Len(up) \in Nat /\ Len(up') = Len(up) - 1
      /\ 1 \in 1 .. Len(up) /\ m = up[1] /\ m \in ToServer
      /\ \A k \in 1 .. Len(up') : k + 1 \in 1 .. Len(up) /\ up'[k] = up[k + 1]
  BY <1>1, Handles DEF TopicTypes
<1>4. online /\ Offline'
  BY <1>1, <1>3 DEF StreamInv, Offline
<1>5. m.action = "audio_chunk" => Waits(m.r, m.index)
  BY <1>3 DEF StreamInv, Chain, Follows
<1>6. ASSUME m.action = "audio_chunk", Accepts
      PROVE  /\ current = m.r /\ current \in R /\ session[current] \in Session
             /\ Len(session[current].received) = m.index
             /\ session'[current].received = Append(session[current].received, m)
             /\ \A q \in R \ {current} : session'[q] = session[q]
  <2>1. current \in R /\ session[current] \in Session
    BY <1>1, <1>6, Accepted
  <2>2. session'[current] = Took(session[current], m)
    BY <1>1, <1>6, Handles
  <2>3. Took(session[current], m).received = Append(session[current].received, m)
    BY <1>3, <2>1, Taking
  <2> QED
    BY <1>1, <1>5, <1>6, <2>1, <2>2, <2>3, Handles DEF Waits
<1>7. Numbers'
  <2>1. CASE m.action = "audio_chunk" /\ Accepts
    <3>1. session[current].received \in Seq(ToServer)
      BY <1>6, <2>1 DEF Session
    <3>2. ASSUME NEW k \in 1 .. Len(session'[current].received)
          PROVE  /\ session'[current].received[k].r = current
                 /\ session'[current].received[k].index = k - 1
      <4>1. CASE k \in 1 .. Len(session[current].received)
        <5>1. session'[current].received[k] = session[current].received[k]
          BY <1>6, <2>1, <3>1, <4>1
        <5> QED
          BY <1>6, <2>1, <4>1, <5>1 DEF StreamInv, Numbers
      <4>2. CASE k \notin 1 .. Len(session[current].received)
        <5>1. /\ session'[current].received[k] = m
              /\ k = Len(session[current].received) + 1
          BY <1>3, <1>6, <2>1, <3>1, <3>2, <4>2
        <5>2. Len(session[current].received) \in Nat
          BY <3>1
        <5> QED
          BY <1>6, <2>1, <5>1, <5>2
      <4> QED
        BY <4>1, <4>2
    <3> QED
      BY <1>1, <1>6, <2>1, <3>2, Handles DEF StreamInv, Numbers
  <2>2. CASE m.action = "audio_chunk" /\ ~Accepts
    BY <1>1, <2>2, Handles DEF StreamInv, Numbers
  <2>3. CASE m.action # "audio_chunk"
    <3>1. ASSUME NEW q \in R
          PROVE  session'[q].received = session[q].received \/ session'[q].received = <<>>
      <4>1. session[q] \in Session /\ Keeps(session[q], session'[q])
        BY <1>1, <2>3, Handles DEF TopicTypes
      <4> QED
        BY <4>1, Keeping
    <3>2. Len(<<>>) = 0
      OBVIOUS
    <3> QED
      BY <3>1, <3>2 DEF StreamInv, Numbers
  <2> QED
    BY <2>1, <2>2, <2>3
<1>8. ASSUME NEW r, NEW i, Leads(m, r, i)
      PROVE  Waits(r, i)'
  <2>1. CASE m.action = "audio_start"
    <3>1. m.r = r /\ i = 0 /\ current' = r /\ session'[r] = Fresh
      BY <1>1, <1>8, <2>1, Handles DEF Leads
    <3> QED
      BY <3>1, Beginnings DEF Waits
  <2>2. CASE m.action = "audio_chunk" /\ Accepts
    <3>1. current' = current /\ r = current /\ i = m.index + 1
      BY <1>1, <1>6, <1>8, <2>2, Handles DEF Leads
    <3>2. Len(session'[current].received) = m.index + 1
      BY <1>3, <1>6, <2>2 DEF Session
    <3> QED
      BY <3>1, <3>2 DEF Waits
  <2>3. CASE m.action = "audio_chunk" /\ ~Accepts
    BY <1>1, <2>3, Handles DEF Waits, Accepts
  <2> QED
    BY <1>8, <2>1, <2>2, <2>3 DEF Leads
<1>9. ASSUME NEW k \in 1 .. Len(up), NEW r, NEW i, Follows(k + 1, r, i)
      PROVE  Follows(k, r, i)'
  <2>1. k + 1 # 1 /\ (k + 1) - 1 = k
    OBVIOUS
  <2>2. Leads(up[k], r, i)
    BY <1>9, <2>1 DEF Follows
  <2>3. CASE k = 1
    BY <1>3, <1>8, <2>2, <2>3 DEF Follows
  <2>4. CASE k # 1
    <3>1. k - 1 \in 1 .. Len(up') /\ (k - 1) + 1 = k
      BY <1>3, <2>4
    <3>2. up'[k - 1] = up[k]
      BY <1>3, <3>1
    <3> QED
      BY <2>2, <2>4, <3>2 DEF Follows
  <2> QED
    BY <2>3, <2>4
<1>10. Chain'
  <2> SUFFICES ASSUME NEW k \in 1 .. Len(up'), up'[k].action = "audio_chunk"
               PROVE  Follows(k, up[k].r, up[k].index)'
    BY DEF Chain
  <2>1. PICK r, i : r = up'[k].r /\ i = up'[k].index
    OBVIOUS
  <2>2. k \in 1 .. Len(up) /\ k + 1 \in 1 .. Len(up) /\ up'[k] = up[k + 1]
    BY <1>3
  <2>3. Follows(k + 1, r, i)
    BY <2>1, <2>2 DEF StreamInv, Chain
  <2>4. Follows(k, r, i)'
    BY <1>9, <2>2, <2>3
  <2> QED
    BY <2>1, <2>4 DEF Follows
<1>11. Tied'
  <2> SUFFICES ASSUME NEW r \in R, recorder'.microphone = r
               PROVE  Follows(Len(up) + 1, r, capture[r].index)'
    BY DEF Tied
  <2>1. PICK i : i = capture[r].index /\ i = capture'[r].index
    BY <1>1
  <2>2. Len(up) \in 1 .. Len(up) /\ Len(up') + 1 = Len(up)
    BY <1>3
  <2>3. Follows(Len(up) + 1, r, i)
    BY <1>1, <2>1 DEF StreamInv, Tied
  <2>4. PICK k \in 1 .. Len(up) : k = Len(up)
    BY <2>2
  <2>5. Follows(k, r, i)'
    BY <1>9, <2>3, <2>4
  <2> QED
    BY <2>1, <2>2, <2>4, <2>5 DEF Follows
<1> QED
  BY <1>1, <1>2, <1>4, <1>7, <1>10, <1>11 DEF StreamInv

(* Nothing comes in, and the topic accepts no more than it did.            *)
LEMMA StreamTurns ==
  ASSUME StreamInv, PageInv', NEW r \in R, Abandon(r) \/ Opened(r) \/ Over(r)
  PROVE  StreamInv'
<1>1. /\ session' \in [R -> Session] /\ \A q \in R : Keeps(session[q], session'[q])
      /\ current' \in R \cup {None} /\ UNCHANGED <<recorder, capture, online, up>> /\ Quiet
  BY Turns DEF StreamInv, page
<1>2. TopicTypes'
  BY <1>1 DEF StreamInv, TopicTypes
<1>3. \A q \in R : session[q] \in Session
  BY DEF StreamInv, TopicTypes
<1>4. \A q \in R : InOrder(session'[q])
  BY <1>1, <1>3, StaysInOrder DEF StreamInv, Becomes
<1>5. Numbers'
  <2>1. \A q \in R : session'[q].received \in {session[q].received, <<>>}
    BY <1>1, <1>3, Keeping
  <2>2. Len(<<>>) = 0
    OBVIOUS
  <2> QED
    BY <2>1, <2>2 DEF StreamInv, Numbers
<1>6. \A k, q, i : Follows(k, q, i) => Follows(k, q, i)'
  BY <1>1 DEF Follows, Waits, Quiet
<1>7. Chain'
  BY <1>1, <1>6 DEF StreamInv, Chain
<1>8. Tied'
  BY <1>1, <1>6 DEF StreamInv, Tied
<1>9. Offline'
  BY <1>1 DEF StreamInv, Offline, Abandon, Opened, Over
<1> QED
  BY <1>2, <1>4, <1>5, <1>7, <1>8, <1>9 DEF StreamInv

(* The socket is lost: nothing is on it, and nothing is accepted.          *)
LEMMA StreamDrops ==
  ASSUME StreamInv, PageInv', Drop
  PROVE  StreamInv'
<1>1. /\ session' \in [R -> Session] /\ \A q \in R : Keeps(session[q], session'[q])
      /\ current' = None /\ up' = <<>> /\ online' = FALSE
  BY CloseSessions DEF StreamInv, Drop
<1>2. TopicTypes'
  <2>1. <<>> \in Seq(ToServer)
    OBVIOUS
  <2> QED
    BY <1>1, <2>1 DEF StreamInv, TopicTypes
<1>3. \A q \in R : session[q] \in Session
  BY DEF StreamInv, TopicTypes
<1>4. \A q \in R : InOrder(session'[q])
  BY <1>1, <1>3, StaysInOrder DEF StreamInv, Becomes
<1>5. Numbers'
  <2>1. \A q \in R : session'[q].received \in {session[q].received, <<>>}
    BY <1>1, <1>3, Keeping
  <2>2. Len(<<>>) = 0
    OBVIOUS
  <2> QED
    BY <2>1, <2>2 DEF StreamInv, Numbers
<1>6. Len(up') = 0
  BY <1>1
<1>7. Chain' /\ Tied' /\ Offline'
  BY <1>1, <1>6 DEF Chain, Tied, Follows, Waits, Accepts, Offline
<1> QED
  BY <1>2, <1>4, <1>5, <1>7 DEF StreamInv

(* Every step keeps the invariant.                                         *)
LEMMA StreamStep == StreamInv /\ PageInv' /\ [Next]_vars => StreamInv'
<1> SUFFICES ASSUME StreamInv, PageInv', [Next]_vars PROVE StreamInv'
  OBVIOUS
<1>1. ASSUME NEW r \in R, Start \/ Granted(r) \/ OpenFails(r) PROVE StreamInv'
  BY <1>1, StreamStarts
<1>2. ASSUME NEW r \in R, OpenReturns(r) PROVE StreamInv'
  BY <1>2, StreamOpens
<1>3. ASSUME NEW r \in R, Captured(r) PROVE StreamInv'
  BY <1>3, StreamCaptures
<1>4. CASE Stop \/ Unmount \/ TranscriberError
  BY <1>4, StreamStops
<1>5. CASE Handle
  BY <1>5, StreamHandles
<1>6. ASSUME NEW r \in R, Abandon(r) \/ Opened(r) \/ Over(r) PROVE StreamInv'
  BY <1>6, StreamTurns
<1>7. CASE Drop
  BY <1>7, StreamDrops
<1>8. CASE Rejoin
  <2>1. UNCHANGED <<recorder, capture, up, session, current>> /\ ~online /\ online' = TRUE
    BY <1>8 DEF Rejoin, page, topic
  <2>2. \A r, i, k : Follows(k, r, i)' <=> Follows(k, r, i)
    BY <2>1 DEF Follows, Waits, Accepts
  <2> QED
    BY <2>1, <2>2 DEF StreamInv, TopicTypes, Numbers, Chain, Tied, Offline
<1>9. CASE UNCHANGED vars
  <2>1. UNCHANGED <<recorder, capture, up, session, current, online>>
    BY <1>9 DEF vars, page, topic, socket
  <2> QED
    BY <2>1, StaysTied, PageSilent
<1>10. CASE Start
  <2>1. \E r \in R : TRUE
    BY <1>10 DEF Start
  <2> QED
    BY <1>1, <1>10, <2>1
<1> QED
  BY <1>1, <1>2, <1>3, <1>4, <1>5, <1>6, <1>7, <1>8, <1>9, <1>10 DEF Next

(* It holds at first, and always.                                          *)
LEMMA StreamInvariant == Spec => []StreamInv
<1>1. Init /\ PageInv => StreamInv
  <2> SUFFICES ASSUME Init, PageInv PROVE StreamInv
    OBVIOUS
  <2>1. /\ session \in [R -> Session] /\ \A r \in R : session[r] = NoSession
        /\ up = <<>> /\ Len(up) = 0 /\ online = TRUE /\ current = None
        /\ recorder.microphone = None
    BY Beginnings DEF Init
  <2>2. /\ NoSession.received = <<>> /\ NoSession.held = <<>> /\ NoSession.fed = <<>>
        /\ NoSession.phase = "none" /\ Len(<<>>) = 0
    BY DEF NoSession
  <2>3. TopicTypes
    BY <2>1 DEF TopicTypes
  <2>4. \A r \in R : InOrder(session[r])
    BY <2>1, <2>2 DEF InOrder
  <2>5. Numbers
    BY <2>1, <2>2 DEF Numbers
  <2>6. Chain /\ Offline
    BY <2>1 DEF Chain, Offline
  <2>7. Tied
    BY <2>1, Recordings DEF Tied, None
  <2> QED
    BY <2>3, <2>4, <2>5, <2>6, <2>7 DEF StreamInv
<1> QED
  BY <1>1, StreamStep, PageInvariant, PTL DEF Spec

(* StreamsAreWhole: a stream gets the chunks of its own audio_start, from  *)
(* index 0 and none left out, for any rates and sizes, whatever was        *)
(* stopped, failed, lost or begun again before it.                         *)
THEOREM StreamsGetTheirChunks == Spec => []StreamsAreWhole
<1>1. StreamInv => StreamsAreWhole
  <2> SUFFICES ASSUME StreamInv, NEW r \in R PROVE
        \A k \in DOMAIN session[r].received :
            session[r].received[k].r = r /\ session[r].received[k].index = k - 1
    BY DEF StreamsAreWhole
  <2>1. session[r].received \in Seq(ToServer)
    BY DEF StreamInv, TopicTypes, Session
  <2> QED
    BY <2>1 DEF StreamInv, Numbers
<1> QED
  BY <1>1, StreamInvariant, PTL

(* FedInOrder: the provider gets what came in the order it came, what came *)
(* while it connected first, and the end after all of it.                  *)
THEOREM ProvidersAreFedInOrder == Spec => []FedInOrder
<1>1. StreamInv => FedInOrder
  BY DEF StreamInv, InOrder, FedInOrder
<1> QED
  BY <1>1, StreamInvariant, PTL

(* TypeOK: every field has the values the code gives it.                   *)
THEOREM TypeCorrect == Spec => []TypeOK
<1>1. StreamInv => TypeOK
  <2> SUFFICES ASSUME StreamInv PROVE TypeOK
    OBVIOUS
  <2> USE DEF StreamInv, PageInv, TopicTypes
  <2>1. recorder \in [status : {"idle", "starting", "recording"}, generation : Nat,
                      microphone : R \cup {None}]
    BY DEF Recorders
  <2>2. ASSUME NEW r \in R
        PROVE  /\ capture[r].device \in Devices
               /\ capture[r].position \in Int /\ capture[r].rest \in 0 .. Size - 1
               /\ session[r].phase \in {"none", "opening", "live", "over"}
    <3>1. capture[r] \in Device /\ session[r] \in Session
      OBVIOUS
    <3> QED
      BY <3>1 DEF Device, Session, Rests
  <2> QED
    BY <2>1, <2>2 DEF TypeOK, Devices
<1> QED
  BY <1>1, StreamInvariant, PTL

(* A product grows with its factors,                                       *)
LEMMA Products ==
  ASSUME NEW x \in Int, NEW y \in Int, NEW z \in Nat
  PROVE  /\ x * z \in Int /\ (x + y) * z = x * z + y * z /\ (x - y) * z = x * z - y * z
         /\ x <= y => x * z <= y * z
<1>1. x * z \in Int /\ (x + y) * z = x * z + y * z /\ (x - y) * z = x * z - y * z OBVIOUS
<1>2. x <= y => x * z <= y * z OBVIOUS
<1> QED BY <1>1, <1>2

(* a quotient and its remainder make the number,                           *)
LEMMA Division ==
  ASSUME NEW a \in Nat, NEW b \in Nat \ {0}
  PROVE  (a \div b) * b + (a % b) = a
<1>1. a = b * (a \div b) + (a % b) OBVIOUS
<1>2. PICK q \in Nat : q = a \div b BY Quotient
<1>3. b * q = q * b OBVIOUS
<1> QED BY <1>1, <1>2, <1>3

(* and a quotient is the only number that times the divisor comes so near. *)
LEMMA Rounding ==
  ASSUME NEW a \in Nat, NEW b \in Nat \ {0}
  PROVE  /\ CeilDiv(a, b) \in Nat /\ a <= CeilDiv(a, b) * b /\ CeilDiv(a, b) * b < a + b
         /\ \A q \in Int : a <= q * b /\ q * b < a + b => q = CeilDiv(a, b)
<1>1. PICK c \in Nat : c = CeilDiv(a, b) /\ a <= c * b /\ c * b < a + b
  <2>1. a + b - 1 \in Nat /\ b \in Int /\ b > 0 OBVIOUS
  <2>2. PICK n \in Nat : n = a + b - 1 BY <2>1
  <2>3. n = b * (n \div b) + (n % b) /\ n % b \in 0 .. b - 1 /\ n \div b \in Nat
    BY <2>1, <2>2, Quotient, Remainder
  <2>4. PICK c \in Nat : c = n \div b BY <2>3
  <2>5. c * b = b * c /\ b * c \in Int OBVIOUS
  <2>6. CeilDiv(a, b) = c BY <2>2, <2>4 DEF CeilDiv
  <2> QED BY <2>2, <2>3, <2>4, <2>5, <2>6
<1>2. ASSUME NEW q \in Int, a <= q * b, q * b < a + b PROVE q = c
  <2>1. q * b \in Int /\ c * b \in Int /\ (q + 1) * b = q * b + 1 * b /\ (c + 1) * b = c * b + 1 * b
        /\ 1 * b = b
    BY Products
  <2>2. q + 1 <= c => (q + 1) * b <= c * b BY Products
  <2>3. c + 1 <= q => (c + 1) * b <= q * b BY Products
  <2> QED BY <1>1, <1>2, <2>1, <2>2, <2>3
<1> QED BY <1>1, <1>2

(* The position is where the next sample is looked for, as if all blocks   *)
(* were resampled in one piece.                                            *)
InPhase(p, b) == From # To => p = IF b = 0 THEN 0 ELSE Resampled(b) * From - b * Block * To

(* A block more makes as many samples more, and moves the position on.     *)
LEMMA OneBlockMore ==
  ASSUME NEW p \in Int, NEW b \in Nat, InPhase(p, b)
  PROVE  /\ Resampled(b) \in Nat /\ Resampled(b + 1) = Resampled(b) + Outputs(p)
         /\ InPhase(Position(p), b + 1)
<1>1. Block \in Nat \ {0} /\ To \in Nat \ {0} /\ From \in Nat \ {0} BY RecorderAssumption
<1>2. b + 1 \in Nat /\ b + 1 # 0 OBVIOUS
<1>3. PICK z \in Nat : z = Block * To /\ z >= To
  <2>1. 1 * To <= Block * To /\ 1 * To = To /\ Block * To \in Int BY <1>1, Products
  <2> QED BY <1>1, <2>1
<1>4. CASE From = To
  <2>1. Outputs(p) = Block /\ Resampled(b + 1) = (b + 1) * Block BY <1>2, <1>4 DEF Outputs, Resampled
  <2>2. Resampled(b) = b * Block
    <3>1. 0 * Block = 0 BY <1>1
    <3> QED BY <1>4, <3>1 DEF Resampled
  <2>3. (b + 1) * Block = b * Block + 1 * Block /\ 1 * Block = Block /\ b * Block \in Nat BY <1>1, Products
  <2> QED BY <1>4, <2>1, <2>2, <2>3 DEF InPhase
<1>5. CASE From # To
  <2>1. PICK y \in Nat : y = b * Block * To /\ (b = 0 => y = 0)
    <3>1. b * Block \in Nat /\ (b = 0 => b * Block = 0) BY <1>1
    <3>2. PICK k \in Nat : k = b * Block /\ (b = 0 => k = 0) BY <3>1
    <3>3. k * To \in Nat /\ (k = 0 => k * To = 0) BY <1>1
    <3> QED BY <3>2, <3>3
  <2>2. ((b + 1) * Block - 1) * To = y + z - To /\ (b + 1) * Block * To = y + z
    <3>1. PICK k \in Nat : k = b * Block BY <1>1
    <3>2. (b + 1) * Block = k + Block BY <1>1, <3>1, Products
    <3>3. (k + Block) * To = k * To + Block * To BY <1>1, Products
    <3>4. ((k + Block) - 1) * To = (k + Block) * To - 1 * To /\ 1 * To = To BY <1>1, Products
    <3>5. k * To = y BY <2>1, <3>1
    <3> QED BY <1>1, <1>3, <2>1, <3>2, <3>3, <3>4, <3>5
  <2>3. (Block - 1) * To = z - To
    <3>1. (Block - 1) * To = Block * To - 1 * To /\ 1 * To = To BY <1>1, Products
    <3> QED BY <1>3, <3>1
  <2>4. PICK R0 \in Nat, x \in Nat :
          /\ R0 = Resampled(b) /\ x = R0 * From /\ p = x - y
          /\ b = 0 => x = 0
          /\ b # 0 => y - To <= x /\ x < y - To + From
    <3>1. CASE b = 0
      <4>1. Resampled(b) = 0 /\ p = 0 /\ 0 * From = 0 BY <1>1, <1>5, <3>1 DEF Resampled, InPhase
      <4> QED BY <2>1, <3>1, <4>1
    <3>2. CASE b # 0
      <4>1. (b * Block - 1) * To = y - To /\ y >= To
        <5>1. PICK k \in Nat : k = b * Block /\ k >= 1
          <6>1. 1 <= b /\ 1 \in Int /\ b \in Int /\ Block \in Nat BY <1>1, <3>2
          <6>2. 1 * Block <= b * Block /\ b * Block \in Int BY <6>1, Products
          <6>3. 1 * Block = Block BY <1>1
          <6>4. b * Block \in Nat /\ b * Block >= 1 BY <1>1, <6>2, <6>3
          <6> QED BY <6>4
        <5>2. (k - 1) * To = k * To - 1 * To /\ 1 * To = To /\ 1 * To <= k * To BY <1>1, <5>1, Products
        <5>3. k * To = y BY <2>1, <5>1
        <5> QED BY <5>1, <5>2, <5>3
      <4>2. PICK a \in Nat : a = y - To BY <1>1, <4>1
      <4>3. Resampled(b) = CeilDiv(a, From) BY <1>5, <3>2, <4>1, <4>2 DEF Resampled
      <4>4. PICK c \in Nat : c = Resampled(b) /\ a <= c * From /\ c * From < a + From BY <1>1, <4>3, Rounding
      <4>5. c * From \in Nat BY <1>1
      <4>6. p = c * From - y BY <1>5, <2>1, <3>2, <4>4 DEF InPhase
      <4> QED BY <1>1, <3>2, <4>2, <4>4, <4>5, <4>6
    <3> QED BY <3>1, <3>2
  <2>5. PICK n \in Nat, w \in Nat :
          /\ n = Outputs(p) /\ w = n * From
          /\ p >= z - To => n = 0 /\ w = 0
          /\ p < z - To => z - To - p <= w /\ w < z - To - p + From
    <3>1. CASE p >= z - To
      <4>1. Outputs(p) = 0 /\ 0 * From = 0 BY <1>1, <1>5, <2>3, <3>1 DEF Outputs
      <4> QED BY <1>1, <1>3, <3>1, <4>1
    <3>2. CASE p < z - To
      <4>1. PICK a \in Nat : a = z - To - p BY <1>1, <3>2
      <4>2. Outputs(p) = CeilDiv(a, From) BY <1>1, <1>5, <2>3, <3>2, <4>1 DEF Outputs
      <4>3. PICK c \in Nat : c = Outputs(p) /\ a <= c * From /\ c * From < a + From BY <1>1, <4>2, Rounding
      <4>4. c * From \in Nat BY <1>1
      <4> QED BY <1>1, <1>3, <3>2, <4>1, <4>3, <4>4
    <3> QED BY <1>1, <1>3, <3>1, <3>2
  <2>6. (R0 + n) * From = x + w BY <1>1, <2>4, <2>5, Products
  <2>7. PICK a \in Nat : a = y + z - To BY <1>1, <1>3
  <2>8. a <= x + w /\ x + w < a + From
    <3>1. PICK f \in Nat \ {0}, t \in Nat \ {0} : f = From /\ t = To BY <1>1
    <3>2. z >= t /\ p = x - y /\ a = y + z - t BY <1>3, <2>4, <2>7, <3>1
    <3>3. CASE p >= z - t
      <4>1. w = 0 BY <2>5, <3>1, <3>3
      <4>2. x < a + f
        <5>1. CASE b = 0 BY <2>1, <2>4, <3>1, <3>2, <5>1
        <5>2. CASE b # 0 BY <2>4, <3>1, <3>2, <5>2
        <5> QED BY <5>1, <5>2
      <4> QED BY <3>1, <3>2, <3>3, <4>1, <4>2
    <3>4. CASE p < z - t
      <4>1. z - t - p <= w /\ w < z - t - p + f BY <2>5, <3>1, <3>4
      <4> QED BY <3>1, <3>2, <4>1
    <3> QED BY <3>2, <3>3, <3>4
  <2>9. R0 + n = CeilDiv(a, From)
    <3>1. PICK q \in Int : q = R0 + n OBVIOUS
    <3>2. q * From = x + w BY <2>6, <3>1
    <3>3. a <= q * From /\ q * From < a + From BY <2>8, <3>2
    <3>4. From \in Nat \ {0} BY <1>1
    <3>5. \A i \in Int : a <= i * From /\ i * From < a + From => i = CeilDiv(a, From) BY <3>4, Rounding
    <3>6. q = CeilDiv(a, From) BY <3>3, <3>5
    <3> QED BY <3>1, <3>6
  <2>10. Resampled(b + 1) = CeilDiv(a, From) BY <1>2, <1>5, <2>2, <2>7 DEF Resampled
  <2>11. Resampled(b + 1) = R0 + n BY <2>9, <2>10
  <2>12. Position(p) = p + w - z BY <1>3, <1>5, <2>5 DEF Position
  <2>13. Resampled(b + 1) * From - (b + 1) * Block * To = x + w - (y + z) BY <2>2, <2>6, <2>11
  <2>14. Position(p) = Resampled(b + 1) * From - (b + 1) * Block * To
    BY <1>3, <2>4, <2>12, <2>13
  <2>15. InPhase(Position(p), b + 1) BY <1>2, <2>14 DEF InPhase
  <2> QED BY <2>4, <2>5, <2>11, <2>15
<1> QED BY <1>4, <1>5

-----------------------------------------------------------------------------
(* Sums. A nonempty set of numbers has a least one,                        *)
LEMMA LeastNumber ==
  ASSUME NEW T, T \subseteq Nat, T # {}
  PROVE  \E n \in T : \A m \in T : n <= m
<1>1. IsWellFoundedOn(OpToRel(<, Nat), Nat) BY NatLessThanWellFounded
<1>2. PICK n \in T : \A m \in T : ~ (<<m, n>> \in OpToRel(<, Nat)) BY <1>1, WFMin
<1>3. \A m \in T : ~ (m < n) BY <1>2 DEF OpToRel
<1> QED BY <1>3

(* so that a set is all of 0 .. n when it goes on from each to the next.   *)
LEMMA CountUp ==
  ASSUME NEW n \in Nat, NEW G, 0 \in G, \A k \in 1 .. n : k - 1 \in G => k \in G
  PROVE  \A k \in 0 .. n : k \in G
<1> DEFINE T == {k \in 0 .. n : k \notin G}
<1> SUFFICES ASSUME T # {} PROVE FALSE OBVIOUS
<1>1. PICK k \in T : \A j \in T : k <= j
  <2>1. T \subseteq Nat OBVIOUS
  <2> HIDE DEF T
  <2> QED BY <2>1, LeastNumber
<1>2. k \in 1 .. n /\ k \notin G /\ k - 1 \in 0 .. n /\ ~ (k <= k - 1) OBVIOUS
<1>3. k - 1 \in G BY <1>1, <1>2
<1> QED BY <1>2, <1>3

(* The recursion FoldLeft stands for: over sets of indices, from the last. *)
Summed(s, it, S) == IF S = {} THEN 0 ELSE it[S \ {Max(S)}] + s[Max(S)].samples

(* The last index of a set that contains n.                                *)
LEMMA MaxOfInterval ==
  ASSUME NEW n \in Nat, NEW S \in SUBSET (1 .. n), n \in S
  PROVE  Max(S) = n
<1>1. n \in S /\ \A y \in S : n >= y OBVIOUS
<1>2. \A x \in S : (\A y \in S : x >= y) => x = n OBVIOUS
<1> QED BY <1>1, <1>2 DEF Max

(* There is a function that satisfies the recursion.                       *)
LEMMA SumExists ==
  ASSUME NEW s, NEW n \in Nat
  PROVE  \E it : it = [S \in SUBSET (1 .. n) |-> Summed(s, it, S)]
<1> DEFINE Upto(m, it) == \A S \in SUBSET (1 .. m) : it[S] = Summed(s, it, S)
           G == {m \in 0 .. n : \E it : Upto(m, it)}
<1>1. 0 \in G
  <2> DEFINE it == [S \in SUBSET (1 .. 0) |-> 0]
  <2>1. \A S \in SUBSET (1 .. 0) : S = {} OBVIOUS
  <2>2. Upto(0, it) BY <2>1 DEF Summed
  <2> HIDE DEF it, Upto
  <2>3. \E jt : Upto(0, jt) BY <2>2
  <2>4. 0 \in 0 .. n OBVIOUS
  <2> QED BY <2>3, <2>4
<1>2. ASSUME NEW k \in 1 .. n, k - 1 \in G PROVE k \in G
  <2>1. PICK it : Upto(k - 1, it) BY <1>2
  <2> DEFINE jt == [S \in SUBSET (1 .. k) |->
                      IF k \in S THEN it[S \ {k}] + s[k].samples ELSE it[S]]
  <2>2. ASSUME NEW S \in SUBSET (1 .. k) PROVE jt[S] = Summed(s, jt, S)
    <3>1. CASE k \in S
      <4>1. Max(S) = k BY <3>1, MaxOfInterval
      <4>2. S \ {k} \in SUBSET (1 .. k) /\ k \notin S \ {k} OBVIOUS
      <4>3. jt[S \ {k}] = it[S \ {k}] BY <4>2
      <4> QED BY <3>1, <4>1, <4>3 DEF Summed
    <3>2. CASE k \notin S
      <4>1. S \in SUBSET (1 .. k - 1) BY <3>2
      <4>2. jt[S] = it[S] BY <3>2
      <4>3. S \ {Max(S)} \in SUBSET (1 .. k) /\ k \notin S \ {Max(S)} BY <3>2
      <4>4. jt[S \ {Max(S)}] = it[S \ {Max(S)}] BY <4>3
      <4>5. it[S] = Summed(s, it, S) BY <2>1, <4>1
      <4> QED BY <4>2, <4>4, <4>5 DEF Summed
    <3> QED BY <3>1, <3>2
  <2> HIDE DEF jt
  <2>3. Upto(k, jt) BY <2>2
  <2> QED BY <2>3
<1>3. n \in G
  <2> HIDE DEF G
  <2>1. \A k \in 0 .. n : k \in G BY <1>1, <1>2, CountUp
  <2> QED BY <2>1
<1>4. PICK it : Upto(n, it)
  <2> HIDE DEF Upto
  <2> QED BY <1>3
<1> DEFINE jt == [S \in SUBSET (1 .. n) |-> it[S]]
<1>5. ASSUME NEW S \in SUBSET (1 .. n) PROVE jt[S] = Summed(s, jt, S)
  <2>1. S \ {Max(S)} \in SUBSET (1 .. n) OBVIOUS
  <2>2. jt[S \ {Max(S)}] = it[S \ {Max(S)}] /\ jt[S] = it[S] BY <2>1
  <2> QED BY <2>2, <1>4 DEF Summed
<1>6. jt = [S \in SUBSET (1 .. n) |-> jt[S]] OBVIOUS
<1> HIDE DEF jt
<1>7. jt = [S \in SUBSET (1 .. n) |-> Summed(s, jt, S)] BY <1>5, <1>6
<1> QED BY <1>7

(* The samples of a sequence of chunks, as NothingUnsent adds them up,     *)
SumOf(s) == FoldLeft(LAMBDA n, m : n + m.samples, 0, s)

(* are those of the chunks one after another.                              *)
LEMMA SumSteps ==
  ASSUME NEW s \in Seq(ToServer)
  PROVE  \E f : /\ f[0] = 0
                /\ \A k \in 1 .. Len(s) : f[k] = f[k - 1] + s[k].samples
                /\ SumOf(s) = f[Len(s)]
<1> DEFINE n == Len(s)
           it == CHOOSE it : it = [S \in SUBSET DOMAIN s |-> Summed(s, it, S)]
           f == [k \in 0 .. n |-> it[1 .. k]]
<1>0. n \in Nat /\ DOMAIN s = 1 .. n OBVIOUS
<1>1. SumOf(s) = it[DOMAIN s] BY Zenon DEF SumOf, FoldLeft, MapThenFoldSet, Summed
<1>2. it = [S \in SUBSET (1 .. n) |-> Summed(s, it, S)] BY <1>0, SumExists
<1> HIDE DEF it, n
<1>3. SumOf(s) = f[n] BY <1>0, <1>1
<1>4. f[0] = 0
  <2>1. 1 .. 0 = {} /\ f[0] = it[1 .. 0] BY <1>0
  <2> QED BY <2>1, <1>2 DEF Summed
<1>5. ASSUME NEW k \in 1 .. n PROVE f[k] = f[k - 1] + s[k].samples
  <2>1. Max(1 .. k) = k BY <1>0, MaxOfInterval
  <2>2. (1 .. k) \ {k} = 1 .. (k - 1) BY <1>0
  <2>3. (1 .. k) \in SUBSET (1 .. n) /\ 1 .. k # {} BY <1>0
  <2>4. it[1 .. k] = it[1 .. (k - 1)] + s[k].samples BY <1>2, <2>1, <2>2, <2>3 DEF Summed
  <2>5. f[k] = it[1 .. k] /\ f[k - 1] = it[1 .. (k - 1)] BY <1>0
  <2> QED BY <2>4, <2>5
<1> HIDE DEF f
<1> QED BY <1>3, <1>4, <1>5 DEF n

(* n chunks are what t samples are cut in.                                 *)
Cuts(n, t) == IF n = 0 THEN t = 0 ELSE (n - 1) * Size < t /\ t <= n * Size

(* They add up to t when all but the last are whole.                       *)
LEMMA SumOfChunks ==
  ASSUME NEW s \in Seq(ToServer), NEW n \in Nat, n = Len(s), NEW t \in Nat, Cuts(n, t),
         \A k \in 1 .. n : \/ s[k].samples = Size /\ k * Size <= t
                           \/ s[k].samples = t - (k - 1) * Size /\ s[k].samples < Size
  PROVE  SumOf(s) = t
<1>0. Size \in Nat \ {0} BY RecorderAssumption
<1>1. PICK f : /\ f[0] = 0
               /\ \A k \in 1 .. n : f[k] = f[k - 1] + s[k].samples
               /\ SumOf(s) = f[n]
  BY SumSteps
<1> DEFINE G == {k \in 0 .. n : f[k] = IF k = n THEN t ELSE k * Size}
<1>2. 0 \in G
  <2>1. 0 * Size = 0 BY <1>0
  <2> QED BY <1>1, <2>1 DEF Cuts
<1>3. ASSUME NEW k \in 1 .. n, k - 1 \in G PROVE k \in G
  <2>1. PICK j \in Nat : j = k - 1 /\ j < n /\ k = j + 1 BY <1>3
  <2>2. PICK x \in Nat : x = j * Size /\ f[j] = x
    <3>1. j * Size \in Nat BY <1>0
    <3> QED BY <1>3, <2>1, <3>1
  <2>3. k * Size = x + Size
    <3>1. (j + 1) * Size = j * Size + 1 * Size /\ 1 * Size = Size BY <1>0, Products
    <3> QED BY <2>1, <2>2, <3>1
  <2>4. \/ s[k].samples = Size /\ x + Size <= t
        \/ s[k].samples = t - x /\ s[k].samples < Size
    BY <2>1, <2>2, <2>3
  <2>5. PICK c \in Int : c = s[k].samples BY <1>0, <2>4
  <2>6. f[k] = x + c /\ ((c = Size /\ x + Size <= t) \/ (c = t - x /\ c < Size))
    <3>1. f[k] = f[j] + s[k].samples BY <1>1, <2>1
    <3> QED BY <2>2, <2>4, <2>5, <3>1
  <2>7. CASE k = n
    <3>1. t <= x + Size BY <2>3, <2>7 DEF Cuts
    <3>2. f[k] = t BY <1>0, <2>6, <3>1
    <3> QED BY <2>7, <3>2
  <2>8. CASE k # n
    <3>1. k <= n - 1 /\ k \in Int /\ n - 1 \in Int BY <2>8
    <3>2. Size \in Nat BY <1>0
    <3>3. k * Size <= (n - 1) * Size /\ (n - 1) * Size \in Int BY <3>1, <3>2, Products
    <3>4. x + Size < t BY <2>1, <2>3, <3>3, <1>0 DEF Cuts
    <3>5. f[k] = k * Size BY <1>0, <2>3, <2>6, <3>4
    <3> QED BY <2>8, <3>5
  <2> QED BY <2>7, <2>8
<1>4. n \in G
  <2> HIDE DEF G
  <2>1. \A k \in 0 .. n : k \in G BY <1>2, <1>3, CountUp
  <2> QED BY <2>1
<1> QED BY <1>1, <1>4

-----------------------------------------------------------------------------
(* A device and the chunks that were made of what it captured: whole ones, *)
(* and a rest that is flushed when it stops.                               *)
Made(c)    == Resampled(c.blocks)
Count(c)   == IF c.started THEN c.index ELSE Len(c.held)
Stopped(c) == c.device = "off" /\ c.started
WellCut(c) ==
    /\ InPhase(c.position, c.blocks)
    /\ c.device # "off" => /\ Count(c) * Size + c.rest = Made(c)
                           /\ \A k \in 1 .. Len(c.held) : c.held[k] = Size
    /\ Stopped(c) => Cuts(c.index, Made(c))

(* Chunk i has n samples of what c captured.                               *)
Fits(n, i, c) == \/ n = Size /\ (i + 1) * Size <= Made(c)
                 \/ Stopped(c) /\ n = Made(c) - i * Size /\ n < Size

(* What may become of a device: it captures more until it is off.          *)
Grown(c, d) == (c.device = "off" => d = c) /\ Made(c) <= Made(d)

(* What was made of a device are samples.                                  *)
LEMMA SamplesMade ==
  ASSUME NEW c \in Device, WellCut(c)
  PROVE  /\ Made(c) \in Nat /\ Count(c) \in Nat /\ c.rest \in Nat /\ c.rest < Size
         /\ Size \in Nat \ {0} /\ c.blocks \in Nat
         /\ c.held \in Seq(Sizes) /\ c.index \in Nat /\ c.started \in BOOLEAN
<1>0. Size \in Nat \ {0} BY RecorderAssumption
<1>1. /\ c.position \in Int /\ c.blocks \in Nat /\ c.rest \in Nat /\ c.rest < Size
      /\ c.held \in Seq(Sizes) /\ c.index \in Nat /\ c.started \in BOOLEAN
  BY <1>0 DEF Device, Rests
<1>2. Count(c) \in Nat BY <1>1 DEF Count
<1>3. Made(c) \in Nat
  <2>1. PICK p \in Int, b \in Nat : p = c.position /\ b = c.blocks BY <1>1
  <2>2. InPhase(p, b) BY <2>1 DEF WellCut
  <2>3. Resampled(b) \in Nat BY <2>2, OneBlockMore
  <2> QED BY <2>1, <2>3 DEF Made
<1> QED BY <1>0, <1>1, <1>2, <1>3

(* A chunk keeps its place when the device goes on.                        *)
LEMMA StillFits ==
  ASSUME NEW c \in Device, WellCut(c), NEW d \in Device, WellCut(d), Grown(c, d),
         NEW i \in Nat, NEW n, Fits(n, i, c)
  PROVE  Fits(n, i, d)
<1>1. CASE Stopped(c) BY <1>1 DEF Grown, Stopped
<1>2. CASE ~Stopped(c)
  <2>1. n = Size /\ (i + 1) * Size <= Made(c) BY <1>2 DEF Fits
  <2>2. (i + 1) * Size \in Int
    <3>1. i + 1 \in Int /\ Size \in Nat BY SamplesMade
    <3> QED BY <3>1, Products
  <2>3. Made(c) \in Nat /\ Made(d) \in Nat BY SamplesMade
  <2>4. Made(c) <= Made(d) BY DEF Grown
  <2>5. (i + 1) * Size <= Made(d) BY <2>1, <2>2, <2>3, <2>4
  <2> QED BY <2>1, <2>5 DEF Fits
<1> QED BY <1>1, <1>2

(* What changes of a device besides its number of chunks.                  *)
LEMMA Fields ==
  ASSUME NEW c \in Device, NEW sizes \in Seq(Sizes)
  PROVE  /\ LET d == Chunked(c, sizes)
            IN  /\ d.rest = c.rest
                /\ d.held = IF c.started THEN c.held ELSE c.held \o sizes
         /\ LET d == Off(c)
            IN  d.blocks = c.blocks /\ d.position = c.position
         /\ LET d == Beginning(c)
            IN  /\ d.rest = c.rest /\ d.held = <<>> /\ d.blocks = c.blocks
                /\ d.position = c.position
<1>1. ASSUME NEW i \in Nat
      PROVE  [c EXCEPT !.index = i].rest = c.rest /\ [c EXCEPT !.index = i].held = c.held
  BY DEF Device
<1>2. ASSUME NEW h \in Seq(Sizes)
      PROVE  [c EXCEPT !.held = h].rest = c.rest /\ [c EXCEPT !.held = h].held = h
  BY DEF Device
<1>3. c.index + Len(sizes) \in Nat /\ c.held \o sizes \in Seq(Sizes) /\ c.started \in BOOLEAN
  BY DEF Device
<1>4. /\ Chunked(c, sizes).rest = c.rest
      /\ Chunked(c, sizes).held = IF c.started THEN c.held ELSE c.held \o sizes
  <2>1. CASE c.started
    <3>1. Chunked(c, sizes) = [c EXCEPT !.index = c.index + Len(sizes)] BY <2>1 DEF Chunked
    <3> QED BY <1>1, <1>3, <2>1, <3>1
  <2>2. CASE ~c.started
    <3>1. Chunked(c, sizes) = [c EXCEPT !.held = c.held \o sizes] BY <2>2 DEF Chunked
    <3> QED BY <1>2, <1>3, <2>2, <3>1
  <2> QED BY <2>1, <2>2
<1>5. Off(c).blocks = c.blocks /\ Off(c).position = c.position
  <2> DEFINE d == Chunked(c, Flush(c))
  <2>1. d \in Device /\ d.blocks = c.blocks /\ d.position = c.position BY Flushing, Holding
  <2>2. Off(c) = [d EXCEPT !.device = "off", !.rest = 0] BY DEF Off
  <2> HIDE DEF d
  <2>3. [d EXCEPT !.device = "off", !.rest = 0].blocks = d.blocks
        /\ [d EXCEPT !.device = "off", !.rest = 0].position = d.position
    BY <2>1 DEF Device
  <2> QED BY <2>1, <2>2, <2>3
<1>6. /\ Beginning(c).rest = c.rest /\ Beginning(c).held = <<>>
      /\ Beginning(c).blocks = c.blocks /\ Beginning(c).position = c.position
  BY DEF Beginning, Device
<1> QED BY <1>4, <1>5, <1>6

(* A device that stops: its rest is the last chunk.                        *)
LEMMA CutOff ==
  ASSUME NEW c \in Device, WellCut(c), c.device # "off"
  PROVE  /\ WellCut(Off(c)) /\ Grown(c, Off(c))
         /\ c.started => \A k \in 1 .. Len(Flush(c)) : Fits(Flush(c)[k], c.index + k - 1, Off(c))
<1> DEFINE d == Off(c)
           t == Made(c)
<1>1. /\ d \in Device /\ d.device = "off" /\ d.started = c.started
      /\ d.index = IF c.started THEN c.index + Len(Flush(c)) ELSE c.index
  BY Flushing
<1>2. d.blocks = c.blocks /\ d.position = c.position
  <2>1. <<>> \in Seq(Sizes) OBVIOUS
  <2> QED BY <2>1, Fields
<1>3. /\ t \in Nat /\ c.rest \in Nat /\ c.rest < Size /\ Size \in Nat \ {0} /\ c.index \in Nat
      /\ c.started \in BOOLEAN
  BY SamplesMade
<1>4. Made(d) = t BY <1>2 DEF Made
<1> HIDE DEF d, t
<1>5. Flush(c) = IF c.rest > 0 THEN <<c.rest>> ELSE <<>> BY DEF Flush
<1>6. ASSUME c.started
      PROVE  /\ Cuts(d.index, t)
             /\ \A k \in 1 .. Len(Flush(c)) : Fits(Flush(c)[k], c.index + k - 1, d)
  <2>1. PICK i \in Nat, x \in Nat : i = c.index /\ x = i * Size
    <3>1. c.index * Size \in Nat BY <1>3
    <3> QED BY <1>3, <3>1
  <2>2. x + c.rest = t BY <1>6, <2>1 DEF WellCut, Count, t
  <2>3. (i + 1) * Size = x + Size /\ (i - 1) * Size = x - Size /\ (i = 0 => x = 0)
        /\ (i # 0 => x >= Size)
    <3>1. (i + 1) * Size = i * Size + 1 * Size /\ (i - 1) * Size = i * Size - 1 * Size /\ 1 * Size = Size
          /\ 0 * Size = 0
      BY <1>3, Products
    <3>2. i # 0 => 1 * Size <= i * Size BY <1>3, Products
    <3> QED BY <1>3, <2>1, <3>1, <3>2
  <2>4. CASE c.rest = 0
    <3>1. Flush(c) = <<>> /\ Len(Flush(c)) = 0 /\ d.index = i BY <1>1, <1>5, <1>6, <2>1, <2>4
    <3>2. Cuts(i, t) BY <1>3, <2>1, <2>2, <2>3, <2>4 DEF Cuts
    <3> QED BY <3>1, <3>2
  <2>5. CASE c.rest # 0
    <3>1. Flush(c) = <<c.rest>> /\ Len(Flush(c)) = 1 /\ d.index = i + 1 /\ Flush(c)[1] = c.rest
      BY <1>1, <1>3, <1>5, <1>6, <2>1, <2>5
    <3>2. (i + 1) - 1 = i /\ i + 1 # 0 OBVIOUS
    <3>3. Cuts(i + 1, t)
      <4>1. x < t /\ t <= x + Size BY <1>3, <2>2, <2>5
      <4> QED BY <2>1, <2>3, <3>2, <4>1 DEF Cuts
    <3>4. Fits(c.rest, i, d)
      <4>1. c.rest = t - x BY <1>3, <2>2
      <4>2. Stopped(d) BY <1>1, <1>6 DEF Stopped
      <4> QED BY <1>3, <1>4, <2>1, <4>1, <4>2 DEF Fits
    <3>5. \A k \in 1 .. 1 : k = 1 /\ i + k - 1 = i OBVIOUS
    <3> QED BY <2>1, <3>1, <3>3, <3>4, <3>5
  <2> QED BY <2>4, <2>5
<1>7. WellCut(d)
  <2>1. InPhase(d.position, d.blocks) BY <1>2 DEF WellCut
  <2>2. Stopped(d) => Cuts(d.index, Made(d)) BY <1>1, <1>4, <1>6 DEF Stopped
  <2> QED BY <1>1, <2>1, <2>2 DEF WellCut
<1>8. Grown(c, d) BY <1>3, <1>4 DEF Grown, t
<1> QED BY <1>6, <1>7, <1>8 DEF d

(* A recording that begins: what was held are whole chunks.                *)
LEMMA CutBegins ==
  ASSUME NEW c \in Device, WellCut(c), c.device = "granted", ~c.started, c.index = 0
  PROVE  LET d == Chunked(Beginning(c), c.held)
         IN  /\ WellCut(d) /\ Grown(c, d)
             /\ \A k \in 1 .. Len(c.held) : Fits(c.held[k], k - 1, d)
<1> DEFINE b == Beginning(c)
           d == Chunked(b, c.held)
<1>1. /\ b \in Device /\ b.device = "live" /\ b.started /\ b.index = 0 /\ c.held \in Seq(Sizes)
      /\ b.rest = c.rest /\ b.held = <<>> /\ b.blocks = c.blocks /\ b.position = c.position
  <2>1. <<>> \in Seq(Sizes) OBVIOUS
  <2> QED BY <2>1, Begins, Fields
<1> HIDE DEF b
<1>2. /\ d \in Device /\ d.device = "live" /\ d.started /\ d.index = Len(c.held)
      /\ d.rest = c.rest /\ d.held = <<>> /\ d.blocks = c.blocks /\ d.position = c.position
  <2>1. PICK h \in Seq(Sizes) : h = c.held BY <1>1
  <2>2. /\ Chunked(b, h) \in Device /\ Chunked(b, h).device = b.device
        /\ Chunked(b, h).started = b.started /\ Chunked(b, h).blocks = b.blocks
        /\ Chunked(b, h).position = b.position
        /\ Chunked(b, h).index = IF b.started THEN b.index + Len(h) ELSE b.index
    BY <1>1, Holding
  <2>3. /\ Chunked(b, h).rest = b.rest
        /\ Chunked(b, h).held = IF b.started THEN b.held ELSE b.held \o h
    BY <1>1, Fields
  <2> QED BY <1>1, <2>1, <2>2, <2>3
<1>3. Made(d) = Made(c) /\ Count(d) = Count(c) BY <1>2 DEF Made, Count
<1> HIDE DEF d
<1>4. /\ Made(c) \in Nat /\ c.rest \in Nat /\ Size \in Nat \ {0} BY SamplesMade
<1>5. WellCut(d)
  <2>1. InPhase(d.position, d.blocks) BY <1>2 DEF WellCut
  <2>2. Count(d) * Size + d.rest = Made(d) BY <1>2, <1>3 DEF WellCut
  <2>3. Len(d.held) = 0 /\ ~Stopped(d) BY <1>2 DEF Stopped
  <2> QED BY <2>1, <2>2, <2>3 DEF WellCut
<1>6. Grown(c, d) BY <1>3, <1>4 DEF Grown
<1>7. ASSUME NEW k \in 1 .. Len(c.held) PROVE Fits(c.held[k], k - 1, d)
  <2>1. c.held[k] = Size BY DEF WellCut
  <2>2. PICK n \in Nat : n = Len(c.held) /\ k <= n /\ n * Size + c.rest = Made(c)
    BY <1>1 DEF WellCut, Count
  <2>3. k * Size <= n * Size /\ k * Size \in Int /\ n * Size \in Int BY <1>4, <2>2, Products
  <2>4. k * Size <= Made(d) BY <1>3, <1>4, <2>2, <2>3
  <2>5. (k - 1) + 1 = k OBVIOUS
  <2> QED BY <2>1, <2>4, <2>5 DEF Fits
<1> QED BY <1>5, <1>6, <1>7 DEF b, d

(* A block is captured: it is cut where the last one ended.                *)
LEMMA CutBlock ==
  ASSUME NEW c \in Device, WellCut(c), c.device # "off",
         NEW d \in Device, d.device = c.device, d.started = c.started,
         d.position = Position(c.position), d.blocks = c.blocks + 1,
         d.rest = Rest(c, Outputs(c.position)),
         d.index = IF c.started THEN c.index + Len(Pieces(c)) ELSE c.index,
         d.held = IF c.started THEN c.held ELSE c.held \o Pieces(c)
  PROVE  /\ WellCut(d) /\ Grown(c, d)
         /\ c.started => \A k \in 1 .. Len(Pieces(c)) : Fits(Pieces(c)[k], c.index + k - 1, d)
<1>1. /\ Made(c) \in Nat /\ Count(c) \in Nat /\ c.rest \in Nat /\ c.rest < Size
      /\ Size \in Nat \ {0} /\ c.blocks \in Nat /\ c.held \in Seq(Sizes)
      /\ c.index \in Nat /\ c.started \in BOOLEAN
  BY SamplesMade
<1>2. PICK n \in Nat : /\ n = Outputs(c.position) /\ Made(d) = Made(c) + n
                       /\ InPhase(d.position, d.blocks)
  <2>1. PICK p \in Int, b \in Nat : p = c.position /\ b = c.blocks BY <1>1 DEF Device
  <2>2. InPhase(p, b) BY <2>1 DEF WellCut
  <2>3. Resampled(b + 1) = Resampled(b) + Outputs(p) /\ InPhase(Position(p), b + 1)
        /\ Outputs(p) \in Nat
    BY <2>2, OneBlockMore, Resampling
  <2> QED BY <2>1, <2>3 DEF Made
<1>3. PICK q \in Nat : /\ q = (c.rest + n) \div Size /\ Pieces(c) = [k \in 1 .. q |-> Size]
  <2>1. (c.rest + n) \div Size \in Nat
    <3>1. c.rest + n \in Nat BY <1>1, <1>2
    <3> QED BY <1>1, <3>1, Quotient
  <2> QED BY <1>2, <2>1 DEF Pieces, Whole
<1>4. q * Size + d.rest = c.rest + n /\ d.rest \in Nat
  <2>1. PICK a \in Nat : a = c.rest + n BY <1>1, <1>2
  <2>2. d.rest = a % Size /\ q = a \div Size BY <1>2, <1>3, <2>1 DEF Rest
  <2>3. (a \div Size) * Size + (a % Size) = a /\ a % Size \in 0 .. Size - 1
    BY <1>1, Division, Remainder
  <2> QED BY <1>1, <2>1, <2>2, <2>3
<1>5. Len(Pieces(c)) = q /\ Pieces(c) \in Seq(Sizes) /\ \A k \in 1 .. q : Pieces(c)[k] = Size
  <2>1. Size \in Sizes BY <1>1 DEF Sizes
  <2> QED BY <1>3, <2>1
<1>6. Count(d) = Count(c) + q
  <2>1. Len(c.held \o Pieces(c)) = Len(c.held) + q BY <1>1, <1>5
  <2> QED BY <1>1, <1>5, <2>1 DEF Count
<1>7. PICK m \in Nat, x \in Nat, y \in Nat, e \in Nat, f \in Nat, t \in Nat :
        /\ m = Count(c) /\ x = m * Size /\ y = q * Size
        /\ e = c.rest /\ f = d.rest /\ t = Made(c) /\ x + e = t
  <2>1. Count(c) * Size \in Nat /\ q * Size \in Nat BY <1>1
  <2>2. Count(c) * Size + c.rest = Made(c) BY DEF WellCut
  <2> QED BY <1>1, <1>4, <2>1, <2>2
<1>8. Count(d) * Size = x + y /\ x + y + d.rest = Made(d)
  <2>1. (m + q) * Size = m * Size + q * Size BY <1>1, Products
  <2>2. y + f = e + n /\ Made(d) = t + n BY <1>2, <1>4, <1>7
  <2>3. x + y + f = t + n
    <3>1. x + e = t BY <1>7
    <3>2. y + f = e + n BY <2>2
    <3> QED BY <3>1, <3>2
  <2>4. Count(d) * Size = x + y
    <3>1. Count(d) = m + q BY <1>6, <1>7
    <3> QED BY <1>7, <2>1, <3>1
  <2>5. x + y + d.rest = Made(d) BY <1>7, <2>2, <2>3
  <2> QED BY <2>4, <2>5
<1>9. Grown(c, d) BY <1>1, <1>2 DEF Grown
<1>10. \A k \in 1 .. Len(d.held) : d.held[k] = Size
  <2>1. \A k \in 1 .. Len(c.held) : c.held[k] = Size BY DEF WellCut
  <2>2. CASE c.started BY <2>1, <2>2
  <2>3. CASE ~c.started
    <3>1. d.held = c.held \o Pieces(c) BY <2>3
    <3>2. PICK g \in Seq(Sizes), h \in Seq(Sizes) : g = c.held /\ h = Pieces(c) BY <1>1, <1>5
    <3>3. /\ Len(g \o h) = Len(g) + Len(h) /\ Len(g) \in Nat /\ Len(h) \in Nat
          /\ \A k \in 1 .. Len(g) : (g \o h)[k] = g[k]
          /\ \A k \in 1 .. Len(h) : (g \o h)[Len(g) + k] = h[k]
      OBVIOUS
    <3>4. ASSUME NEW k \in 1 .. Len(g \o h) PROVE (g \o h)[k] = Size
      <4>1. CASE k <= Len(g)
        <5>1. k \in 1 .. Len(g) BY <4>1
        <5> QED BY <2>1, <3>2, <3>3, <4>1, <5>1
      <4>2. CASE ~ k <= Len(g)
        <5>1. PICK j \in 1 .. q : k = Len(g) + j
          <6>1. k - Len(g) \in 1 .. q /\ k = Len(g) + (k - Len(g)) BY <1>5, <3>2, <3>3, <4>2
          <6> QED BY <6>1
        <5>2. (g \o h)[Len(g) + j] = h[j] /\ h[j] = Size BY <1>5, <3>2, <3>3, <5>1
        <5> QED BY <5>1, <5>2
      <4> QED BY <4>1, <4>2
    <3> QED BY <3>1, <3>2, <3>4
  <2> QED BY <1>1, <2>2, <2>3
<1>11. WellCut(d)
  <2>1. ~Stopped(d) BY DEF Stopped
  <2> QED BY <1>2, <1>8, <1>10, <2>1 DEF WellCut
<1>12. ASSUME c.started, NEW k \in 1 .. q PROVE Fits(Pieces(c)[k], c.index + k - 1, d)
  <2>1. c.index = m /\ Pieces(c)[k] = Size BY <1>5, <1>7, <1>12 DEF Count
  <2>2. (m + k - 1) + 1 = m + k /\ (m + k) * Size = m * Size + k * Size /\ k * Size <= q * Size
        /\ k * Size \in Int
    BY <1>1, Products
  <2>3. m * Size = x /\ q * Size = y /\ x + y + f = Made(d) BY <1>7, <1>8
  <2>4. PICK z \in Int : z = k * Size /\ z <= y
    <3>1. k * Size <= y BY <2>2, <2>3
    <3> QED BY <2>2, <3>1
  <2>5. x + z <= x + y + f BY <2>4
  <2>6. (m + k - 1 + 1) * Size <= Made(d) BY <2>2, <2>3, <2>4, <2>5
  <2> QED BY <2>1, <2>6 DEF Fits
<1> QED BY <1>5, <1>9, <1>11, <1>12

AllCut == \A r \in R : WellCut(capture[r])
Growing == \A r \in R : WellCut(capture'[r]) /\ Grown(capture[r], capture'[r])

(* A device of which only its state or generation changes.                 *)
LEMMA Relabelled ==
  ASSUME NEW c \in Device, WellCut(c), NEW d \in Device, c.device # "off",
         d.position = c.position, d.blocks = c.blocks, d.rest = c.rest, d.index = c.index,
         d.started = c.started, d.held = c.held, d.device = "off" => ~c.started
  PROVE  WellCut(d) /\ Grown(c, d)
<1>1. Made(d) = Made(c) /\ Count(d) = Count(c) /\ Made(c) \in Nat BY SamplesMade DEF Made, Count
<1>2. ~Stopped(d) BY DEF Stopped
<1> QED BY <1>1, <1>2 DEF WellCut, Grown

(* What is not touched.                                                    *)
LEMMA Untouched ==
  ASSUME NEW c \in Device, WellCut(c)
  PROVE  Grown(c, c)
  BY SamplesMade DEF Grown

(* A recording that is asked for, granted or refused.                      *)
LEMMA AskedCut ==
  ASSUME PageInv, AllCut, NEW r \in R, Start \/ Granted(r) \/ OpenFails(r)
  PROVE  Growing
<1> USE DEF PageInv
<1>1. ASSUME NEW c \in Device, NEW s \in Devices, NEW g \in Nat,
             NEW d \in {[c EXCEPT !.device = s], [c EXCEPT !.device = s, !.generation = g]}
      PROVE  /\ d \in Device /\ d.position = c.position /\ d.blocks = c.blocks
             /\ d.rest = c.rest /\ d.index = c.index /\ d.started = c.started
             /\ d.held = c.held
  <2>1. d \in Device BY Zenon DEF Device
  <2> QED BY <2>1 DEF Device
<1>2. PICK q \in R, d \in Device :
        /\ capture' = [capture EXCEPT ![q] = d] /\ capture[q].device \in {"none", "asked"}
        /\ d.position = capture[q].position /\ d.blocks = capture[q].blocks
        /\ d.rest = capture[q].rest /\ d.index = capture[q].index
        /\ d.started = capture[q].started /\ d.held = capture[q].held
  <2>1. CASE Start
    <3>1. PICK q \in R \ Started : capture' = [capture EXCEPT ![q].device = "asked",
                                      ![q].generation = recorder.generation + 1]
      BY <2>1 DEF Start
    <3> DEFINE g == recorder.generation + 1
               d == [capture[q] EXCEPT !.device = "asked", !.generation = g]
    <3>2. /\ "asked" \in Devices /\ g \in Nat /\ capture[q].device = "none"
          /\ capture[q] \in Device
      BY <3>1 DEF Devices, Recorders, Started
    <3>3. capture' = [capture EXCEPT ![q] = d] BY <3>1, Zenon
    <3>4. /\ d \in Device /\ d.position = capture[q].position /\ d.blocks = capture[q].blocks
          /\ d.rest = capture[q].rest /\ d.index = capture[q].index
          /\ d.started = capture[q].started /\ d.held = capture[q].held
      <4>1. PICK c \in Device, s \in Devices, n \in Nat : c = capture[q] /\ s = "asked" /\ n = g BY <3>2
      <4>2. d = [c EXCEPT !.device = s, !.generation = n] BY <4>1
      <4> HIDE DEF d, g
      <4>3. /\ d \in Device /\ d.position = c.position /\ d.blocks = c.blocks
            /\ d.rest = c.rest /\ d.index = c.index /\ d.started = c.started
            /\ d.held = c.held
        <5>1. d \in Device BY <4>2, Zenon DEF Device
        <5> QED BY <4>2, <5>1 DEF Device
      <4> QED BY <4>1, <4>3
    <3> HIDE DEF d
    <3> QED BY <3>2, <3>3, <3>4
  <2>2. CASE Granted(r) \/ OpenFails(r)
    <3>1. PICK s \in {"granted", "off"} :
            capture' = [capture EXCEPT ![r].device = s] /\ capture[r].device = "asked"
      BY <2>2 DEF Granted, OpenFails
    <3> DEFINE d == [capture[r] EXCEPT !.device = s]
    <3>2. capture[r] \in Device /\ s \in Devices /\ 0 \in Nat BY <3>1 DEF Devices
    <3>3. capture' = [capture EXCEPT ![r] = d] BY <3>1, Zenon
    <3>4. /\ d \in Device /\ d.position = capture[r].position /\ d.blocks = capture[r].blocks
          /\ d.rest = capture[r].rest /\ d.index = capture[r].index
          /\ d.started = capture[r].started /\ d.held = capture[r].held
      BY <1>1, <3>2
    <3> HIDE DEF d
    <3> QED BY <3>1, <3>3, <3>4
  <2> QED BY <2>1, <2>2
<1> DEFINE c == capture[q]
<1>3. c \in Device /\ ~c.started /\ WellCut(c) /\ c.device # "off"
  BY <1>2 DEF Announced, AllCut
<1>7. capture'[q] = d /\ \A p \in R : p # q => capture'[p] = capture[p] BY <1>2
<1>4. d.position = c.position /\ d.blocks = c.blocks /\ d.rest = c.rest
      /\ d.index = c.index /\ d.started = c.started /\ d.held = c.held
  BY <1>2
<1> HIDE DEF c
<1>8. WellCut(d) /\ Grown(c, d) BY <1>3, <1>4, Relabelled
<1> QED BY <1>7, <1>8, Untouched DEF c, Growing, AllCut

(* A recording that stops, from whatever end.                              *)
LEMMA HaltCut ==
  ASSUME PageInv, AllCut, capture' = Released
  PROVE  /\ Growing
         /\ \A r \in R : recorder.microphone = r => capture'[r] = Off(capture[r]) /\ capture[r].started
                                                    /\ capture[r].device = "live"
<1> USE DEF PageInv
<1>1. CASE recorder.microphone = None
  <2>1. capture' = capture BY <1>1, Releasing
  <2> QED BY <1>1, <2>1, Untouched, Recordings DEF Growing, AllCut, None
<1>2. CASE recorder.microphone \in R
  <2>1. PICK r \in R : r = recorder.microphone BY <1>2
  <2>2. capture[r] \in Device /\ capture[r].device = "live" /\ capture[r].started
    BY <2>1, Recordings DEF Shown, Announced, None
  <2>3. Off(capture[r]) \in Device BY <2>2, Flushing
  <2>4. capture' = [capture EXCEPT ![r] = Off(capture[r])] BY <2>1, Releasing
  <2>5. capture'[r] = Off(capture[r]) /\ \A q \in R : q # r => capture'[q] = capture[q] BY <2>3, <2>4
  <2>6. WellCut(Off(capture[r])) /\ Grown(capture[r], Off(capture[r])) BY <2>2, CutOff DEF AllCut
  <2> QED BY <2>1, <2>2, <2>5, <2>6, Untouched DEF Growing, AllCut
<1> QED BY <1>1, <1>2 DEF Recorders

(* open returns.                                                           *)
LEMMA OpenCut ==
  ASSUME PageInv, AllCut, NEW r \in R, OpenReturns(r)
  PROVE  /\ Growing
         /\ capture[r].generation = recorder.generation =>
                \A k \in 1 .. Len(capture[r].held) : Fits(capture[r].held[k], k - 1, capture'[r])
<1> USE DEF PageInv
<1> DEFINE c == capture[r]
           d == Chunked(Beginning(c), c.held)
<1>1. c \in Device /\ WellCut(c) /\ c.device = "granted" /\ ~c.started /\ c.index = 0
  BY DEF AllCut, OpenReturns, Announced
<1>2. d \in Device
  <2>1. Beginning(c) \in Device /\ c.held \in Seq(Sizes) BY <1>1, Begins
  <2> QED BY <2>1, Holding
<1>3. Off(c) \in Device BY <1>1, Flushing
<1>4. CASE c.generation # recorder.generation
  <2>1. capture' = [capture EXCEPT ![r] = Off(c)] BY <1>4 DEF OpenReturns
  <2>2. capture'[r] = Off(c) /\ \A q \in R : q # r => capture'[q] = capture[q] BY <1>3, <2>1
  <2>3. WellCut(Off(c)) /\ Grown(c, Off(c)) BY <1>1, CutOff
  <2> QED BY <1>4, <2>2, <2>3, Untouched DEF Growing, AllCut
<1>5. CASE c.generation = recorder.generation
  <2>1. capture' = [capture EXCEPT ![r] = d] BY <1>5 DEF OpenReturns, Beginning
  <2>2. capture'[r] = d /\ \A q \in R : q # r => capture'[q] = capture[q] BY <1>2, <2>1
  <2>3. /\ WellCut(d) /\ Grown(c, d)
        /\ \A k \in 1 .. Len(c.held) : Fits(c.held[k], k - 1, d)
    BY <1>1, CutBegins
  <2> QED BY <2>2, <2>3, Untouched DEF Growing, AllCut
<1> QED BY <1>4, <1>5

(* A block is captured.                                                    *)
LEMMA BlockCut ==
  ASSUME PageInv, AllCut, NEW r \in R, Captured(r)
  PROVE  /\ Growing
         /\ capture[r].started => \A k \in 1 .. Len(Pieces(capture[r])) :
                Fits(Pieces(capture[r])[k], capture[r].index + k - 1, capture'[r])
<1> USE DEF PageInv
<1> DEFINE c == capture[r]
           d == capture'[r]
           e == Chunked(c, Pieces(c))
           p == Position(c.position)
           b == c.blocks + 1
           t == Rest(c, Outputs(c.position))
<1>1. c \in Device /\ WellCut(c) /\ c.device # "off" BY DEF AllCut, Captured, Fills
<1>2. /\ Pieces(c) \in Seq(Sizes) /\ capture' \in [R -> Device]
      /\ \A q \in R : q # r => capture'[q] = capture[q]
      /\ d.device = c.device /\ d.started = c.started
      /\ d.index = IF c.started THEN c.index + Len(Pieces(c)) ELSE c.index
  BY Captures
<1>3. p \in Int /\ b \in Nat /\ t \in Rests
  <2>1. c.position \in Int /\ c.blocks \in Nat BY <1>1 DEF Device
  <2>2. PICK x \in Int : x = c.position BY <2>1
  <2>3. Outputs(x) \in Nat /\ Position(x) \in Int BY Resampling
  <2>4. p \in Int /\ b \in Nat BY <2>1, <2>2, <2>3
  <2>5. t \in Rests
    <3>1. PICK n \in Nat : n = Outputs(c.position) BY <2>2, <2>3
    <3> HIDE DEF c
    <3>2. Rest(c, n) \in Rests BY <1>1, Cutting
    <3> QED BY <3>1, <3>2
  <2> QED BY <2>4, <2>5
<1>4. /\ e \in Device /\ e.blocks = c.blocks /\ e.position = c.position
      /\ e.held = IF c.started THEN c.held ELSE c.held \o Pieces(c)
  BY <1>1, <1>2, Holding, Fields
<1>5. d = Moved(e, p, b, t)
  <2>1. capture' = [capture EXCEPT ![r] =
                [e EXCEPT !.position = Position(c.position), !.blocks = c.blocks + 1, !.rest = t]]
    BY <1>4 DEF Captured, Pieces
  <2>2. capture' = [capture EXCEPT ![r] = Moved(e, p, b, t)] BY <2>1 DEF Moved
  <2> QED BY <2>2
<1> HIDE DEF e, p, b, t
<1>6. /\ d \in Device /\ d.position = p /\ d.blocks = b /\ d.rest = t /\ d.held = e.held
  <2>1. Moved(e, p, b, t) \in Device BY <1>3, <1>4, Moving
  <2>2. /\ Moved(e, p, b, t).position = p /\ Moved(e, p, b, t).blocks = b
        /\ Moved(e, p, b, t).rest = t /\ Moved(e, p, b, t).held = e.held
    BY <1>4 DEF Moved, Device
  <2> QED BY <1>5, <2>1, <2>2
<1>7. /\ d.position = Position(c.position) /\ d.blocks = c.blocks + 1
      /\ d.rest = Rest(c, Outputs(c.position))
      /\ d.held = IF c.started THEN c.held ELSE c.held \o Pieces(c)
  BY <1>4, <1>6 DEF p, b, t
<1> HIDE DEF c, d
<1>8. /\ WellCut(d) /\ Grown(c, d)
      /\ c.started => \A k \in 1 .. Len(Pieces(c)) : Fits(Pieces(c)[k], c.index + k - 1, d)
  BY <1>1, <1>2, <1>6, <1>7, CutBlock
<1> QED BY <1>2, <1>8, Untouched DEF c, d, Growing, AllCut

-----------------------------------------------------------------------------
(* What is on the socket and what a stream got are chunks of what the      *)
(* device captured; audio_end is behind the last chunk of a device that    *)
(* has stopped; and a stream whose end was taken has all of them.          *)
Recording == recorder.status = "recording" => recorder.microphone # None
Goes(m)   == m.action = "audio_chunk" => Fits(m.samples, m.index, capture[m.r])
EndsAt(k) == \E r \in R : Stopped(capture[r]) /\ Follows(k, r, capture[r].index)
OnTheWay  == \A k \in 1 .. Len(up) : Goes(up[k]) /\ (up[k].action = "audio_end" => EndsAt(k))
Got ==
    \A r \in R : \A k \in 1 .. Len(session[r].received) :
        Fits(session[r].received[k].samples, k - 1, capture[r])
EndedWhole ==
    \A r \in R : session[r].endRequested =>
        Stopped(capture[r]) /\ Len(session[r].received) = capture[r].index
WholeInv == AllCut /\ Recording /\ OnTheWay /\ Got /\ EndedWhole

(* Messages that may be sent once the devices are as in capture'.          *)
Right(ms) ==
    \A k \in 1 .. Len(ms) :
        /\ ms[k].action = "audio_chunk" => Fits(ms[k].samples, ms[k].index, capture'[ms[k].r])
        /\ ms[k].action = "audio_end" =>
            \E r \in R : /\ Stopped(capture'[r])
                         /\ IF k = 1 THEN Follows(Len(up) + 1, r, capture'[r].index)
                            ELSE Leads(ms[k - 1], r, capture'[r].index)

(* The fields of a chunk.                                                  *)
LEMMA ChunkFields ==
  ASSUME NEW m \in ToServer, m.action = "audio_chunk"
  PROVE  m.r \in R /\ m.index \in Nat /\ m.samples \in Sizes
<1>1. m \in [action : {"audio_chunk"}, r : R, index : Nat, samples : 1 .. Size]
  BY DEF ToServer, AudioStart, AudioEnd, Leave
<1> QED BY <1>1 DEF Sizes

(* Each chunk has the samples it is cut to.                                *)
LEMMA Sampled ==
  ASSUME NEW r \in R, NEW c \in Device, NEW sizes \in Seq(Sizes), NEW k \in 1 .. Len(sizes)
  PROVE  Numbered(r, c, sizes)[k].samples = sizes[k]
<1>1. DOMAIN sizes = 1 .. Len(sizes) OBVIOUS
<1>2. Numbered(r, c, sizes)[k] = AudioChunk(r, c.index + k - 1, sizes[k]) BY <1>1 DEF Numbered
<1> QED BY <1>2 DEF AudioChunk

(* A step of the page keeps it when what it sends is right.                *)
LEMMA PageKeeps ==
  ASSUME StreamInv, WholeInv, Growing, capture' \in [R -> Device], Recording',
         UNCHANGED <<session, current, online>>,
         NEW ms \in Seq(ToServer), Send(ms), Right(ms)
  PROVE  WholeInv'
<1> USE DEF StreamInv, PageInv, TopicTypes
<1>0. \A r, i : Waits(r, i)' <=> Waits(r, i) BY DEF Waits, Accepts
<1>1. ASSUME NEW r \in R
      PROVE  /\ capture[r] \in Device /\ capture'[r] \in Device
             /\ WellCut(capture[r]) /\ WellCut(capture'[r]) /\ Grown(capture[r], capture'[r])
             /\ Stopped(capture[r]) => capture'[r] = capture[r]
  BY DEF WholeInv, AllCut, Growing, Grown, Stopped
<1>2. ASSUME NEW r \in R, NEW i \in Nat, NEW n, Fits(n, i, capture[r])
      PROVE  Fits(n, i, capture'[r])
  <2>1. PICK c \in Device, d \in Device : c = capture[r] /\ d = capture'[r] BY <1>1
  <2>2. WellCut(c) /\ WellCut(d) /\ Grown(c, d) /\ Fits(n, i, c) BY <1>1, <1>2, <2>1
  <2>3. Fits(n, i, d) BY <2>2, StillFits
  <2> QED BY <2>1, <2>3
<1>3. Got'
  <2> SUFFICES ASSUME NEW r \in R, NEW k \in 1 .. Len(session[r].received)
               PROVE  Fits(session[r].received[k].samples, k - 1, capture'[r])
    BY DEF Got
  <2>1. Fits(session[r].received[k].samples, k - 1, capture[r]) /\ k - 1 \in Nat
    BY DEF WholeInv, Got
  <2> QED BY <1>2, <2>1
<1>4. EndedWhole' BY <1>1 DEF WholeInv, EndedWhole
<1>5. AllCut' BY <1>1 DEF AllCut
<1>6. OnTheWay'
  <2>1. CASE ~online
    <3>1. up' = up /\ up = <<>> /\ Len(up') = 0 BY <2>1 DEF Send, Offline
    <3> QED BY <3>1 DEF OnTheWay
  <2>2. CASE online
    <3>1. /\ Len(up) \in Nat /\ Len(ms) \in Nat /\ Len(up') = Len(up) + Len(ms)
          /\ up' \in Seq(ToServer)
          /\ \A k \in 1 .. Len(up) : up'[k] = up[k]
          /\ \A k \in 1 .. Len(ms) : up'[Len(up) + k] = ms[k]
      <4>1. up' = up \o ms BY <2>2 DEF Send
      <4> QED BY <4>1
    <3>2. ASSUME NEW k \in 1 .. Len(up')
          PROVE  /\ Goes(up[k])'
                 /\ up'[k].action = "audio_end" => EndsAt(k)'
      <4>1. CASE k <= Len(up)
        <5>1. k \in 1 .. Len(up) /\ up'[k] = up[k] /\ up[k] \in ToServer BY <3>1, <4>1
        <5>2. Goes(up[k]) /\ (up[k].action = "audio_end" => EndsAt(k))
          BY <5>1 DEF WholeInv, OnTheWay
        <5>3. Goes(up[k])'
          <6>1. CASE up[k].action = "audio_chunk"
            <7>1. up[k].r \in R /\ up[k].index \in Nat BY <5>1, <6>1, ChunkFields
            <7>2. Fits(up[k].samples, up[k].index, capture[up[k].r]) BY <5>2, <6>1 DEF Goes
            <7>3. Fits(up[k].samples, up[k].index, capture'[up[k].r]) BY <1>2, <7>1, <7>2
            <7> QED BY <5>1, <7>3 DEF Goes
          <6>2. CASE up[k].action # "audio_chunk" BY <5>1, <6>2 DEF Goes
          <6> QED BY <6>1, <6>2
        <5>4. ASSUME NEW r, NEW i, Follows(k, r, i) PROVE Follows(k, r, i)'
          <6>1. ASSUME k # 1 PROVE up'[k - 1] = up[k - 1]
            <7>1. k - 1 \in 1 .. Len(up) BY <3>1, <4>1, <6>1
            <7> QED BY <3>1, <7>1
          <6> QED BY <1>0, <5>4, <6>1 DEF Follows
        <5>5. ASSUME up'[k].action = "audio_end" PROVE EndsAt(k)'
          <6>1. PICK r \in R : Stopped(capture[r]) /\ Follows(k, r, capture[r].index)
            BY <5>1, <5>2, <5>5 DEF EndsAt
          <6>2. capture'[r] = capture[r] BY <1>1, <6>1
          <6>3. PICK i : i = capture[r].index /\ i = capture'[r].index BY <6>2
          <6>4. Follows(k, r, i)' BY <5>4, <6>1, <6>3
          <6> QED BY <6>1, <6>2, <6>3, <6>4 DEF EndsAt, Follows
        <5> QED BY <5>3, <5>5
      <4>2. CASE k > Len(up)
        <5>1. PICK j \in 1 .. Len(ms) : k = Len(up) + j /\ up'[k] = ms[j]
          <6>1. k - Len(up) \in 1 .. Len(ms) /\ k = Len(up) + (k - Len(up)) BY <3>1, <4>2
          <6> QED BY <3>1, <6>1
        <5>2. Goes(up[k])' BY <5>1 DEF Right, Goes
        <5>3. ASSUME NEW r, NEW i, IF j = 1 THEN Follows(Len(up) + 1, r, i) ELSE Leads(ms[j - 1], r, i)
              PROVE  Follows(k, r, i)'
          <6>1. CASE j = 1
            <7>1. ASSUME k # 1 PROVE up'[k - 1] = up[k - 1]
              <8>1. k - 1 \in 1 .. Len(up) BY <3>1, <5>1, <6>1, <7>1
              <8> QED BY <3>1, <8>1
            <7>2. Follows(k, r, i) BY <5>1, <5>3, <6>1
            <7> QED BY <1>0, <7>1, <7>2 DEF Follows
          <6>2. CASE j # 1
            <7>1. j - 1 \in 1 .. Len(ms) /\ Len(up) + (j - 1) = k - 1 /\ k # 1 BY <3>1, <5>1, <6>2
            <7>2. up'[k - 1] = ms[j - 1] BY <3>1, <7>1
            <7> QED BY <5>3, <6>2, <7>1, <7>2 DEF Follows
          <6> QED BY <6>1, <6>2
        <5>4. ASSUME up'[k].action = "audio_end" PROVE EndsAt(k)'
          <6>1. PICK r \in R : /\ Stopped(capture'[r])
                               /\ IF j = 1 THEN Follows(Len(up) + 1, r, capture'[r].index)
                                  ELSE Leads(ms[j - 1], r, capture'[r].index)
            BY <5>1, <5>4 DEF Right
          <6>2. PICK i : i = capture'[r].index OBVIOUS
          <6>3. IF j = 1 THEN Follows(Len(up) + 1, r, i) ELSE Leads(ms[j - 1], r, i) BY <6>1, <6>2
          <6>4. Follows(k, r, i)' BY <5>3, <6>3
          <6> QED BY <6>1, <6>2, <6>4 DEF EndsAt, Follows
        <5> QED BY <5>2, <5>4
      <4> QED BY <3>1, <4>1, <4>2
    <3> QED BY <3>2 DEF OnTheWay
  <2> QED BY <2>1, <2>2
<1> QED BY <1>3, <1>4, <1>5, <1>6 DEF WholeInv

(* A step of the page that sends nothing.                                  *)
LEMMA PageKeepsSilent ==
  ASSUME StreamInv, WholeInv, Growing, capture' \in [R -> Device], Recording',
         UNCHANGED <<up, session, current, online>>
  PROVE  WholeInv'
<1>1. PICK ms \in Seq(ToServer) : ms = <<>> /\ Len(ms) = 0
  <2>1. <<>> \in Seq(ToServer) /\ Len(<<>>) = 0 OBVIOUS
  <2> QED BY <2>1, Zenon
<1>2. Send(ms)
  <2>1. up \in Seq(ToServer) BY DEF StreamInv, TopicTypes
  <2>2. up \o <<>> = up BY <2>1
  <2> QED BY <1>1, <2>2 DEF Send
<1>3. Right(ms) BY <1>1 DEF Right
<1> QED BY <1>2, <1>3, PageKeeps

(* A device is asked for, granted or refused.                              *)
LEMMA WholeStarts ==
  ASSUME StreamInv, PageInv', WholeInv, NEW r \in R, Start \/ Granted(r) \/ OpenFails(r)
  PROVE  WholeInv'
<1>1. UNCHANGED <<up, session, current, online>>
  BY DEF Start, Granted, OpenFails, socket, topic
<1>2. Growing BY AskedCut DEF StreamInv, WholeInv
<1>3. Recording'
  BY DEF Start, Granted, OpenFails, StreamInv, PageInv, Recorders, WholeInv, Recording
<1> QED BY <1>1, <1>2, <1>3, PageKeepsSilent DEF PageInv

(* open returns.                                                           *)
LEMMA WholeOpens ==
  ASSUME StreamInv, PageInv', WholeInv, NEW r \in R, OpenReturns(r)
  PROVE  WholeInv'
<1> USE DEF StreamInv, PageInv
<1> DEFINE c == capture[r]
           s == Beginning(c)
<1>1. UNCHANGED <<session, current, online>> /\ c \in Device BY DEF OpenReturns, topic
<1>2. /\ Growing /\ capture' \in [R -> Device]
      /\ c.generation = recorder.generation =>
            \A k \in 1 .. Len(c.held) : Fits(c.held[k], k - 1, capture'[r])
  BY OpenCut DEF WholeInv
<1>3. CASE c.generation # recorder.generation
  <2>1. UNCHANGED <<recorder, up>> BY <1>3 DEF OpenReturns
  <2>2. Recording' BY <2>1 DEF WholeInv, Recording
  <2> QED BY <1>1, <1>2, <2>1, <2>2, PageKeepsSilent
<1>4. CASE c.generation = recorder.generation
  <2>1. /\ recorder' = [recorder EXCEPT !.status = "recording", !.microphone = r]
        /\ Send(<<AudioStart(r)>> \o Chunks(r, s, c.held))
    BY <1>4 DEF OpenReturns, Beginning
  <2>2. c.held \in Seq(Sizes) /\ s \in Device /\ s.started /\ s.index = 0
    BY <1>1, Begins DEF Announced, OpenReturns
  <2>3. PICK sizes \in Seq(Sizes), n \in Nat : sizes = c.held /\ n = Len(sizes) BY <2>2
  <2>4. PICK ms \in Seq(ToServer) :
          /\ ms = Chunks(r, s, c.held) /\ Len(ms) = n
          /\ \A k \in 1 .. n : /\ ms[k].action = "audio_chunk" /\ ms[k].r = r
                               /\ ms[k].index = k - 1 /\ ms[k].samples = sizes[k]
    <3>1. Chunks(r, s, sizes) = Numbered(r, s, sizes) /\ Numbered(r, s, sizes) \in Seq(ToServer)
          /\ Len(Numbered(r, s, sizes)) = n
      BY <2>2, <2>3, Numbering
    <3>2. ASSUME NEW k \in 1 .. n
          PROVE  LET m == Numbered(r, s, sizes)[k]
                 IN  m.action = "audio_chunk" /\ m.r = r /\ m.index = k - 1 /\ m.samples = sizes[k]
      <4>1. 0 + k - 1 = k - 1 /\ k \in 1 .. Len(sizes) BY <2>3
      <4>2. LET m == Numbered(r, s, sizes)[k]
            IN  m.action = "audio_chunk" /\ m.r = r /\ m.index = s.index + k - 1
        BY <2>2, <4>1, Numbering
      <4>3. Numbered(r, s, sizes)[k].samples = sizes[k] BY <2>2, <4>1, Sampled
      <4> QED BY <2>2, <4>1, <4>2, <4>3
    <3> HIDE DEF c, s
    <3> QED BY <2>3, <3>1, <3>2
  <2>5. PICK all \in Seq(ToServer) :
          /\ all = <<AudioStart(r)>> \o ms /\ Len(all) = n + 1 /\ all[1] = AudioStart(r)
          /\ \A k \in 2 .. n + 1 : all[k] = ms[k - 1]
  <3> DEFINE a == <<AudioStart(r)>> \o ms
  <3>1. AudioStart(r) \in ToServer BY Messages
  <3>2. /\ a \in Seq(ToServer) /\ Len(a) = n + 1 /\ a[1] = AudioStart(r)
        /\ \A k \in 2 .. n + 1 : a[k] = ms[k - 1]
    <4> HIDE DEF c, s
    <4> QED BY <2>4, <3>1
  <3> HIDE DEF a
  <3>3. a = <<AudioStart(r)>> \o ms BY DEF a
  <3> QED BY <3>2, <3>3
  <2>6. Right(all)
    <3>1. AudioStart(r).action = "audio_start" BY DEF AudioStart
    <3>2. ASSUME NEW k \in 1 .. Len(all)
          PROVE  /\ all[k].action = "audio_chunk" => Fits(all[k].samples, all[k].index, capture'[all[k].r])
                 /\ all[k].action # "audio_end"
      <4>1. CASE k = 1 BY <2>5, <3>1, <4>1
      <4>2. CASE k # 1
        <5>1. k \in 2 .. n + 1 /\ k - 1 \in 1 .. n BY <2>5, <4>2
        <5>2. PICK j \in 1 .. n : j = k - 1 /\ all[k] = ms[j] BY <2>5, <5>1
        <5>3. Fits(sizes[j], j - 1, capture'[r]) BY <1>2, <1>4, <2>3
        <5> QED BY <2>4, <5>2, <5>3
      <4> QED BY <4>1, <4>2
    <3> QED BY <3>2 DEF Right
  <2>7. Send(all) BY <2>1, <2>4, <2>5
  <2>8. Recording'
    <3>1. recorder'.microphone = r BY <2>1 DEF Recorders
    <3> QED BY <3>1, Recordings DEF Recording, None
  <2> QED BY <1>1, <1>2, <2>6, <2>7, <2>8, PageKeeps
<1> QED BY <1>3, <1>4

(* A block is captured.                                                    *)
LEMMA WholeCaptures ==
  ASSUME StreamInv, PageInv', WholeInv, NEW r \in R, Captured(r)
  PROVE  WholeInv'
<1> USE DEF StreamInv, PageInv
<1> DEFINE c == capture[r]
<1>1. UNCHANGED <<recorder, session, current, online>> /\ c \in Device /\ Recording'
  BY DEF Captured, topic, WholeInv, Recording
<1>2. PICK sizes \in Seq(Sizes) : sizes = Pieces(c) /\ Send(Chunks(r, c, sizes))
  BY Captures
<1>3. /\ Growing /\ capture' \in [R -> Device]
      /\ c.started => \A k \in 1 .. Len(sizes) : Fits(sizes[k], c.index + k - 1, capture'[r])
  BY <1>2, BlockCut DEF WholeInv
<1>4. CASE c.started
  <2>1. PICK ms \in Seq(ToServer) :
          /\ ms = Chunks(r, c, sizes) /\ Len(ms) = Len(sizes)
          /\ \A k \in 1 .. Len(sizes) : /\ ms[k].action = "audio_chunk" /\ ms[k].r = r
                                        /\ ms[k].index = c.index + k - 1 /\ ms[k].samples = sizes[k]
    BY <1>1, <1>4, Numbering, Sampled
  <2>2. Right(ms)
    <3>1. ASSUME NEW k \in 1 .. Len(ms)
          PROVE  /\ Fits(ms[k].samples, ms[k].index, capture'[ms[k].r])
                 /\ ms[k].action # "audio_end"
      BY <1>3, <1>4, <2>1
    <3> QED BY <3>1 DEF Right
  <2>3. Send(ms) BY <1>2, <2>1
  <2> QED BY <1>1, <1>3, <2>2, <2>3, PageKeeps
<1>5. CASE ~c.started
  <2>1. Chunks(r, c, sizes) = <<>> BY <1>5 DEF Chunks
  <2>2. up' = up BY <1>2, <2>1 DEF Send, TopicTypes
  <2> QED BY <1>1, <1>3, <2>2, PageKeepsSilent
<1> QED BY <1>4, <1>5

(* The recorder halts: the rest goes out, then what ends the stream.       *)
LEMMA WholeHalts ==
  ASSUME StreamInv, WholeInv, PageInv', recorder' = Idle, capture' = Released,
         UNCHANGED <<session, current, online>>,
         NEW b \in Seq(ToServer), Send(LastWords \o b),
         \A k \in 1 .. Len(b) :
            /\ b[k].action # "audio_chunk"
            /\ b[k].action = "audio_end" => k = 1 /\ recorder.status = "recording"
  PROVE  WholeInv'
<1> USE DEF StreamInv, PageInv
<1>1. /\ Growing /\ capture' \in [R -> Device]
      /\ \A r \in R : recorder.microphone = r =>
            capture'[r] = Off(capture[r]) /\ capture[r].started /\ capture[r].device = "live"
  BY HaltCut DEF WholeInv
<1>2. Recording' BY DEF Recording, Idle
<1>3. LastWords \in Seq(ToServer) BY LastChunks
<1> DEFINE ms == LastWords \o b
<1>4. /\ ms \in Seq(ToServer) /\ Len(ms) = Len(LastWords) + Len(b)
      /\ Len(LastWords) \in Nat /\ Len(b) \in Nat
      /\ \A k \in 1 .. Len(LastWords) : ms[k] = LastWords[k]
      /\ \A k \in 1 .. Len(b) : ms[Len(LastWords) + k] = b[k]
  <2> HIDE DEF StreamInv, PageInv
  <2> QED BY <1>3
<1>5. Send(ms) OBVIOUS
<1> HIDE DEF ms
<1>6. ASSUME NEW k \in 1 .. Len(ms), ~ k \in 1 .. Len(LastWords)
      PROVE  \E j \in 1 .. Len(b) : k = Len(LastWords) + j /\ ms[k] = b[j]
  <2>1. k - Len(LastWords) \in 1 .. Len(b) /\ k = Len(LastWords) + (k - Len(LastWords))
    BY <1>4, <1>6
  <2> QED BY <1>4, <2>1
<1>7. CASE recorder.microphone = None
  <2>1. LastWords = <<>> /\ Len(LastWords) = 0 BY <1>7, Releasing
  <2>2. recorder.status # "recording" BY <1>7 DEF WholeInv, Recording
  <2>3. ASSUME NEW k \in 1 .. Len(ms)
        PROVE  ms[k].action # "audio_chunk" /\ ms[k].action # "audio_end"
    BY <1>6, <2>1, <2>2
  <2>4. Right(ms) BY <2>3 DEF Right
  <2> QED BY <1>1, <1>2, <1>4, <1>5, <2>4, PageKeeps
<1>8. CASE recorder.microphone \in R
  <2>1. PICK r \in R, c \in Device : r = recorder.microphone /\ c = capture[r] BY <1>8
  <2>2. /\ c.started /\ c.device = "live" /\ capture'[r] = Off(c) /\ WellCut(c)
    BY <1>1, <2>1 DEF WholeInv, AllCut
  <2>3. PICK sizes \in Seq(Sizes) : sizes = Flush(c) /\ LastWords = Chunks(r, c, sizes)
    BY <2>1, Flushing, Releasing
  <2>4. PICK i \in Nat :
          /\ i = c.index + Len(sizes)
          /\ IF LastWords = <<>> THEN Follows(Len(up) + 1, r, i)
             ELSE Leads(LastWords[Len(LastWords)], r, i)
    BY <2>1, <2>3, MicrophoneSends
  <2>5. /\ Off(c).device = "off" /\ Off(c).started /\ Off(c).index = i
    BY <2>2, <2>3, <2>4, Flushing
  <2>6. \A k \in 1 .. Len(sizes) : Fits(sizes[k], c.index + k - 1, Off(c))
    BY <2>2, <2>3, CutOff
  <2>7. /\ Len(LastWords) = Len(sizes)
        /\ \A k \in 1 .. Len(sizes) :
             /\ LastWords[k].action = "audio_chunk" /\ LastWords[k].r = r
             /\ LastWords[k].index = c.index + k - 1 /\ LastWords[k].samples = sizes[k]
    BY <2>2, <2>3, Numbering, Sampled
  <2>8. ASSUME NEW k \in 1 .. Len(ms), ms[k].action = "audio_chunk"
        PROVE  Fits(ms[k].samples, ms[k].index, capture'[ms[k].r])
    <3>1. k \in 1 .. Len(LastWords) BY <1>6, <2>8
    <3> QED BY <1>4, <2>2, <2>6, <2>7, <3>1
  <2>9. ASSUME NEW k \in 1 .. Len(ms), ms[k].action = "audio_end"
        PROVE  /\ Stopped(capture'[r])
               /\ IF k = 1 THEN Follows(Len(up) + 1, r, capture'[r].index)
                  ELSE Leads(ms[k - 1], r, capture'[r].index)
    <3>1. ~ k \in 1 .. Len(LastWords) BY <1>4, <2>7, <2>9
    <3>2. k = Len(LastWords) + 1 BY <1>6, <2>9, <3>1
    <3>3. CASE LastWords = <<>>
      <4>1. k = 1 BY <3>2, <3>3
      <4> QED BY <2>2, <2>4, <2>5, <3>3, <4>1 DEF Stopped
    <3>4. CASE LastWords # <<>>
      <4>1. Len(LastWords) # 0 /\ k # 1 /\ k - 1 = Len(LastWords) /\ k - 1 \in 1 .. Len(LastWords)
        BY <1>3, <1>4, <3>2, <3>4
      <4>2. ms[k - 1] = LastWords[Len(LastWords)] BY <1>4, <4>1
      <4> QED BY <2>2, <2>4, <2>5, <3>4, <4>1, <4>2 DEF Stopped
    <3> QED BY <3>3, <3>4
  <2>10. Right(ms) BY <2>8, <2>9 DEF Right
  <2> QED BY <1>1, <1>2, <1>4, <1>5, <2>10, PageKeeps
<1> QED BY <1>7, <1>8 DEF Recorders

(* The recorder is stopped, left, or told of an error.                     *)
LEMMA WholeStops ==
  ASSUME StreamInv, PageInv', WholeInv, Stop \/ Unmount \/ TranscriberError
  PROVE  WholeInv'
<1> DEFINE e == IF recorder.status = "recording" THEN <<AudioEnd>> ELSE <<>>
           Closes(b) == \A k \in 1 .. Len(b) :
             /\ b[k].action # "audio_chunk"
             /\ b[k].action = "audio_end" => k = 1 /\ recorder.status = "recording"
<1>1. UNCHANGED <<session, current, online>>
  BY DEF Stop, Unmount, TranscriberError, topic
<1>2. /\ AudioEnd.action = "audio_end" /\ Leave.action = "unsubscribe"
      /\ AudioEnd \in ToServer /\ Leave \in ToServer
  BY Messages DEF AudioEnd, Leave
<1>3. /\ e \in Seq(ToServer) /\ Len(e) \in Nat
      /\ \A k \in 1 .. Len(e) : k = 1 /\ e[k] = AudioEnd /\ recorder.status = "recording"
  BY <1>2
<1>4. LastWords \in Seq(ToServer) BY LastChunks
<1> HIDE DEF e
<1>5. ASSUME NEW b \in Seq(ToServer), Closes(b), recorder' = Idle, capture' = Released,
             Send(LastWords \o b)
      PROVE  WholeInv'
  BY <1>1, <1>5, WholeHalts
<1>6. Closes(e) BY <1>2, <1>3
<1>7. CASE Stop
  <2>1. recorder' = Idle /\ capture' = Released /\ Send(LastWords \o e \o <<>>)
    BY <1>7 DEF Stop, Halt, e
  <2>2. LastWords \o e \o <<>> = LastWords \o e BY <1>3, <1>4
  <2> HIDE DEF Closes
  <2> QED BY <1>3, <1>5, <1>6, <2>1, <2>2
<1>8. CASE Unmount /\ Halt(<<Leave>>)
  <2>1. recorder' = Idle /\ capture' = Released /\ Send(LastWords \o e \o <<Leave>>)
    BY <1>8 DEF Halt, e
  <2>2. LastWords \o e \o <<Leave>> = LastWords \o (e \o <<Leave>>) BY <1>2, <1>3, <1>4
  <2>3. PICK b \in Seq(ToServer) : b = e \o <<Leave>> /\ Closes(b)
    <3> DEFINE b == e \o <<Leave>>
    <3>1. /\ b \in Seq(ToServer) /\ Len(b) = Len(e) + 1 /\ b[Len(e) + 1] = Leave
          /\ \A k \in 1 .. Len(e) : b[k] = e[k]
      BY <1>2, <1>3
    <3>2. \A k \in 1 .. Len(b) : k \in 1 .. Len(e) \/ k = Len(e) + 1 BY <1>3, <3>1
    <3>3. Closes(b) BY <1>2, <1>3, <3>1, <3>2
    <3> QED BY <3>1, <3>3
  <2> HIDE DEF Closes
  <2> QED BY <1>5, <2>1, <2>2, <2>3
<1>9. CASE recorder.status = "idle" /\ Send(<<Leave>>) /\ UNCHANGED <<recorder, capture>>
  <2>1. Growing /\ capture' \in [R -> Device]
    BY <1>9, Untouched DEF WholeInv, AllCut, Growing, StreamInv, PageInv
  <2>2. PICK ms \in Seq(ToServer) : ms = <<Leave>> /\ Len(ms) = 1 /\ ms[1] = Leave
    <3>1. <<Leave>> \in Seq(ToServer) /\ Len(<<Leave>>) = 1 /\ <<Leave>>[1] = Leave BY <1>2
    <3> QED BY <3>1, Zenon
  <2>3. Right(ms) BY <1>2, <2>2 DEF Right
  <2>4. Recording' BY <1>9 DEF Recording
  <2> QED BY <1>1, <1>9, <2>1, <2>2, <2>3, <2>4, PageKeeps
<1>10. CASE TranscriberError
  <2>1. CASE recorder' = Idle /\ capture' = Released /\ Send(LastWords)
    <3>1. LastWords \o <<>> = LastWords BY <1>4
    <3>2. PICK b \in Seq(ToServer) : b = <<>> /\ Len(b) = 0
      <4>1. <<>> \in Seq(ToServer) /\ Len(<<>>) = 0 OBVIOUS
      <4> QED BY <4>1, Zenon
    <3>3. Send(LastWords \o b) /\ Closes(b) BY <2>1, <3>1, <3>2
    <3> HIDE DEF Closes
    <3> QED BY <1>5, <2>1, <3>3
  <2>2. CASE UNCHANGED <<recorder, capture, up>>
    <3>1. Growing /\ capture' \in [R -> Device] /\ Recording'
      BY <2>2, Untouched DEF WholeInv, AllCut, Growing, StreamInv, PageInv, Recording
    <3> QED BY <1>1, <2>2, <3>1, PageKeepsSilent
  <2> QED BY <1>10, <2>1, <2>2 DEF TranscriberError
<1> QED BY <1>7, <1>8, <1>9, <1>10 DEF Unmount

-----------------------------------------------------------------------------
(* The topic: an end is taken with what its stream has, or not at all.     *)
LEMMA TurnsEnd ==
  ASSUME TopicTypes, NEW r \in R, Abandon(r) \/ Opened(r) \/ Over(r)
  PROVE  \A q \in R : session'[q].endRequested =>
            session[q].endRequested /\ session'[q].received = session[q].received
<1>1. \A q \in R : session[q] \in Session BY DEF TopicTypes
<1>2. ASSUME NEW s \in Session
      PROVE  /\ Dead(s).endRequested = s.endRequested /\ Late(s).endRequested = s.endRequested
             /\ Closed(s).endRequested = s.endRequested /\ Live(s).endRequested = s.endRequested
             /\ Dead(s).received = s.received /\ Late(s).received = s.received
             /\ Closed(s).received = s.received /\ Live(s).received = s.received
             /\ {Dead(s), Late(s), Closed(s), Live(s)} \subseteq Session
  <2>1. Dead(s).endRequested = s.endRequested /\ Late(s).endRequested = s.endRequested
    BY DEF Dead, Late, Session
  <2> QED BY <2>1, Closing, Dying, Living
<1>3. PICK t \in {Dead(session[r]), Late(session[r]), Closed(session[r]), Live(session[r])} :
        session' = [session EXCEPT ![r] = t]
  <2>1. CASE Abandon(r)
    <3>1. session' = [session EXCEPT ![r] = Dead(session[r])] BY <2>1, Zenon DEF Abandon, Dead
    <3> QED BY <3>1
  <2>2. CASE Over(r)
    <3>1. session' = [session EXCEPT ![r] = Closed(session[r])] BY <2>2, Zenon DEF Over, Closed
    <3> QED BY <3>1
  <2>3. CASE Opened(r)
    <3>1. CASE session[r].closed
      <4>1. session' = [session EXCEPT ![r] = Late(session[r])] BY <2>3, <3>1 DEF Opened, Late
      <4> QED BY <4>1
    <3>2. CASE ~session[r].closed
      <4>1. session' = [session EXCEPT ![r] = Live(session[r])] BY <2>3, <3>2 DEF Opened
      <4> QED BY <4>1
    <3> QED BY <3>1, <3>2
  <2> QED BY <2>1, <2>2, <2>3
<1>4. /\ t.endRequested = session[r].endRequested /\ t.received = session[r].received
  <2>1. PICK s \in Session : s = session[r] BY <1>1
  <2>2. t \in {Dead(s), Late(s), Closed(s), Live(s)} BY <2>1
  <2> QED BY <1>2, <2>1, <2>2
<1>5. session'[r] = t /\ \A q \in R : q # r => session'[q] = session[q] BY <1>3 DEF TopicTypes
<1> QED BY <1>4, <1>5

(* What is handled.                                                        *)
LEMMA HandlesEnd ==
  ASSUME TopicTypes, Handle, NEW q \in R, session'[q].endRequested
  PROVE  /\ session'[q].received = session[q].received
         /\ \/ session[q].endRequested
            \/ Head(up).action = "audio_end" /\ Accepts /\ q = current
<1> DEFINE m == Head(up)
           s == session[q]
<1>0. s \in Session /\ m \in ToServer BY DEF TopicTypes, Handle
<1>1. /\ Closed(s).endRequested = s.endRequested /\ Closed(s).received = s.received
      /\ Ended(s).received = s.received /\ ~Fresh.endRequested
  BY <1>0, Closing, Ending, Beginnings
<1>2. CASE m.action = "audio_start"
  <2>1. HandleStart(m.r) BY <1>2 DEF Handle
  <2>2. session' = [p \in R |-> IF p = m.r THEN Fresh
                                ELSE IF p = current THEN Closed(session[p]) ELSE session[p]]
    BY <2>1 DEF HandleStart, Fresh, Closed
  <2>3. session'[q] \in {Fresh, Closed(s), s} BY <2>2
  <2> HIDE DEF s
  <2> QED BY <1>1, <2>3 DEF s
<1>3. CASE m.action = "audio_chunk"
  <2>1. CASE Accepts /\ q = current
    <3>1. s.endRequested = FALSE /\ session'[q] = Took(s, m)
      BY <1>3, <2>1, Handles, Accepted
    <3>2. Took(s, m).endRequested = s.endRequested BY <1>0, Taking
    <3> QED BY <3>1, <3>2
  <2>2. CASE ~ (Accepts /\ q = current)
    <3>1. session'[q] = session[q] BY <1>3, <2>2, Handles
    <3> QED BY <3>1
  <2> QED BY <2>1, <2>2
<1>4. CASE m.action = "audio_end"
  <2>1. HandleEnd BY <1>4 DEF Handle
  <2>2. CASE Accepts
    <3>1. current \in R /\ session[current] \in Session BY <2>2, Accepted
    <3>2. \A p \in R : p # current => session'[p] = session[p]
      BY <2>1, <2>2, <3>1 DEF HandleEnd, TopicTypes
    <3>3. session'[current].received = session[current].received
      BY <2>1, <2>2, <3>1 DEF HandleEnd, TopicTypes, Session
    <3> QED BY <1>4, <2>2, <3>2, <3>3
  <2>3. CASE ~Accepts BY <2>1, <2>3 DEF HandleEnd
  <2> QED BY <2>2, <2>3
<1>5. CASE m.action \notin {"audio_start", "audio_chunk", "audio_end"}
  <2>1. CloseSession BY <1>5 DEF Handle
  <2>2. session'[q] \in {s, Closed(s)}
    <3>1. current # None => session' = [session EXCEPT ![current] = Closed(session[current])]
      BY <2>1, Zenon DEF CloseSession, Closed
    <3> QED BY <2>1, <3>1 DEF CloseSession, TopicTypes
  <2> HIDE DEF s
  <2> QED BY <1>1, <2>2 DEF s
<1> QED BY <1>2, <1>3, <1>4, <1>5

(* A message is handled.                                                   *)
LEMMA WholeHandles ==
  ASSUME StreamInv, StreamInv', WholeInv, Handle
  PROVE  WholeInv'
<1> DEFINE m == Head(up)
<1>1. TopicTypes /\ TopicTypes' /\ UNCHANGED <<recorder, capture>>
  BY Handles DEF StreamInv, page
<1>2. /\ up # <<>> /\ up' = Tail(up) /\ Len(up) \in Nat /\ Len(up') = Len(up) - 1
      /\ 1 \in 1 .. Len(up) /\ m = up[1] /\ m \in ToServer
      /\ \A k \in 1 .. Len(up') : k + 1 \in 1 .. Len(up) /\ up'[k] = up[k + 1]
  BY <1>1, Handles DEF TopicTypes
<1>3. Goes(m) /\ (m.action = "audio_end" => EndsAt(1)) BY <1>2 DEF WholeInv, OnTheWay
<1>4. m.action = "audio_chunk" => Waits(m.r, m.index)
  BY <1>2 DEF StreamInv, Chain, Follows
<1>5. Got'
  <2>1. CASE m.action = "audio_chunk" /\ Accepts
    <3>1. /\ current \in R /\ session[current] \in Session
          /\ session'[current] = Took(session[current], m)
          /\ \A q \in R \ {current} : session'[q] = session[q]
      BY <1>1, <2>1, Accepted, Handles
    <3>2. /\ session'[current].received = Append(session[current].received, m)
          /\ session[current].received \in Seq(ToServer)
      BY <1>2, <3>1, Taking DEF Session
    <3>3. current = m.r /\ Len(session[current].received) = m.index BY <1>4, <2>1 DEF Waits
    <3>4. Fits(m.samples, m.index, capture[current]) BY <1>3, <2>1, <3>3 DEF Goes
    <3>5. PICK h \in Seq(ToServer) :
            h = session[current].received /\ session'[current].received = Append(h, m)
      BY <3>2
    <3>6. /\ Len(Append(h, m)) = Len(h) + 1 /\ Append(h, m)[Len(h) + 1] = m /\ Len(h) \in Nat
          /\ \A k \in 1 .. Len(h) : Append(h, m)[k] = h[k]
      BY <1>2
    <3>7. ASSUME NEW k \in 1 .. Len(session'[current].received)
          PROVE  Fits(session'[current].received[k].samples, k - 1, capture[current])
      <4>1. CASE k \in 1 .. Len(h)
        <5>1. Fits(h[k].samples, k - 1, capture[current]) BY <3>1, <3>5, <4>1 DEF WholeInv, Got
        <5> QED BY <3>5, <3>6, <4>1, <5>1
      <4>2. CASE k \notin 1 .. Len(h)
        <5>1. k = Len(h) + 1 /\ k - 1 = Len(h) /\ Append(h, m)[k] = m BY <3>5, <3>6, <4>2
        <5> QED BY <3>3, <3>4, <3>5, <5>1
      <4> QED BY <4>1, <4>2
    <3> QED BY <1>1, <3>1, <3>7 DEF WholeInv, Got
  <2>2. CASE m.action = "audio_chunk" /\ ~Accepts
    BY <1>1, <2>2, Handles DEF WholeInv, Got
  <2>3. CASE m.action # "audio_chunk"
    <3>1. ASSUME NEW q \in R
          PROVE  session'[q].received = session[q].received \/ session'[q].received = <<>>
      <4>1. session[q] \in Session /\ Keeps(session[q], session'[q])
        BY <1>1, <2>3, Handles DEF TopicTypes
      <4> QED BY <4>1, Keeping
    <3>2. Len(<<>>) = 0 OBVIOUS
    <3> QED BY <1>1, <3>1, <3>2 DEF WholeInv, Got
  <2> QED BY <2>1, <2>2, <2>3
<1>6. EndedWhole'
  <2> SUFFICES ASSUME NEW q \in R, session'[q].endRequested
               PROVE  Stopped(capture[q]) /\ Len(session'[q].received) = capture[q].index
    BY <1>1 DEF EndedWhole
  <2>1. /\ session'[q].received = session[q].received
        /\ \/ session[q].endRequested
           \/ m.action = "audio_end" /\ Accepts /\ q = current
    BY <1>1, HandlesEnd
  <2>2. CASE session[q].endRequested BY <2>1, <2>2 DEF WholeInv, EndedWhole
  <2>3. CASE m.action = "audio_end" /\ Accepts /\ q = current
    <3>1. PICK r \in R : Stopped(capture[r]) /\ Waits(r, capture[r].index)
      BY <1>3, <2>3 DEF EndsAt, Follows
    <3> QED BY <2>1, <2>3, <3>1 DEF Waits
  <2> QED BY <2>1, <2>2, <2>3
<1>7. ASSUME NEW r, NEW i, Leads(m, r, i)
      PROVE  Waits(r, i)'
  <2>1. CASE m.action = "audio_start"
    <3>1. m.r = r /\ i = 0 /\ current' = r /\ session'[r] = Fresh
      BY <1>1, <1>7, <2>1, Handles DEF Leads
    <3> QED BY <3>1, Beginnings DEF Waits
  <2>2. CASE m.action = "audio_chunk" /\ Accepts
    <3>1. /\ current \in R /\ session[current] \in Session
          /\ session'[current] = Took(session[current], m) /\ current' = current
      BY <1>1, <2>2, Accepted, Handles
    <3>2. /\ session'[current].received = Append(session[current].received, m)
          /\ session[current].received \in Seq(ToServer)
      BY <1>2, <3>1, Taking DEF Session
    <3>3. current = m.r /\ Len(session[current].received) = m.index BY <1>4, <2>2 DEF Waits
    <3>4. Len(session'[current].received) = m.index + 1 BY <1>2, <3>2, <3>3
    <3>5. r = current /\ i = m.index + 1 BY <1>7, <2>2, <3>3 DEF Leads
    <3> QED BY <3>1, <3>4, <3>5 DEF Waits
  <2>3. CASE m.action = "audio_chunk" /\ ~Accepts
    BY <1>1, <2>3, Handles DEF Waits, Accepts
  <2> QED BY <1>7, <2>1, <2>2, <2>3 DEF Leads
<1>8. ASSUME NEW k \in 1 .. Len(up), NEW r, NEW i, Follows(k + 1, r, i)
      PROVE  Follows(k, r, i)'
  <2>1. k + 1 # 1 /\ (k + 1) - 1 = k OBVIOUS
  <2>2. Leads(up[k], r, i) BY <1>8, <2>1 DEF Follows
  <2>3. CASE k = 1 BY <1>2, <1>7, <2>2, <2>3 DEF Follows
  <2>4. CASE k # 1
    <3>1. k - 1 \in 1 .. Len(up') /\ (k - 1) + 1 = k BY <1>2, <2>4
    <3>2. up'[k - 1] = up[k] BY <1>2, <3>1
    <3> QED BY <2>2, <2>4, <3>2 DEF Follows
  <2> QED BY <2>3, <2>4
<1>9. OnTheWay'
  <2> SUFFICES ASSUME NEW k \in 1 .. Len(up')
               PROVE  Goes(up[k])' /\ (up'[k].action = "audio_end" => EndsAt(k)')
    BY DEF OnTheWay
  <2>1. k + 1 \in 1 .. Len(up) /\ up'[k] = up[k + 1] /\ k \in 1 .. Len(up) BY <1>2
  <2>2. Goes(up[k + 1]) /\ (up[k + 1].action = "audio_end" => EndsAt(k + 1))
    BY <2>1 DEF WholeInv, OnTheWay
  <2>3. Goes(up[k])' BY <1>1, <2>1, <2>2 DEF Goes
  <2>4. ASSUME up'[k].action = "audio_end" PROVE EndsAt(k)'
    <3>1. PICK r \in R : Stopped(capture[r]) /\ Follows(k + 1, r, capture[r].index)
      BY <2>1, <2>2, <2>4 DEF EndsAt
    <3>2. PICK i : i = capture[r].index /\ i = capture'[r].index BY <1>1
    <3>3. Follows(k, r, i)' BY <1>8, <2>1, <3>1, <3>2
    <3> QED BY <1>1, <3>1, <3>2, <3>3 DEF EndsAt, Follows
  <2> QED BY <2>3, <2>4
<1> QED BY <1>1, <1>5, <1>6, <1>9 DEF WholeInv, AllCut, Recording

(* Nothing comes in.                                                       *)
LEMMA WholeTurns ==
  ASSUME StreamInv, WholeInv, NEW r \in R, Abandon(r) \/ Opened(r) \/ Over(r)
  PROVE  WholeInv'
<1>1. /\ \A q \in R : Keeps(session[q], session'[q])
      /\ UNCHANGED <<recorder, capture, up>> /\ Quiet
  BY Turns DEF StreamInv, page
<1>2. Got'
  <2>1. \A q \in R : session[q] \in Session BY DEF StreamInv, TopicTypes
  <2>2. \A q \in R : session'[q].received \in {session[q].received, <<>>} BY <1>1, <2>1, Keeping
  <2>3. Len(<<>>) = 0 OBVIOUS
  <2> QED BY <1>1, <2>2, <2>3 DEF WholeInv, Got
<1>3. EndedWhole' BY <1>1, TurnsEnd DEF WholeInv, EndedWhole, StreamInv
<1>4. \A k, q, i : Follows(k, q, i) => Follows(k, q, i)'
  BY <1>1 DEF Follows, Waits, Quiet
<1>5. OnTheWay'
  <2>1. \A k : Goes(up[k])' <=> Goes(up[k]) BY <1>1 DEF Goes
  <2>2. \A k : EndsAt(k) => EndsAt(k)' BY <1>1, <1>4 DEF EndsAt
  <2> QED BY <1>1, <2>1, <2>2 DEF WholeInv, OnTheWay
<1> QED BY <1>1, <1>2, <1>3, <1>5 DEF WholeInv, AllCut, Recording

(* The socket is lost.                                                     *)
LEMMA WholeDrops ==
  ASSUME StreamInv, WholeInv, Drop
  PROVE  WholeInv'
<1>1. /\ \A q \in R : Keeps(session[q], session'[q])
      /\ up' = <<>> /\ Len(up') = 0 /\ UNCHANGED <<recorder, capture>>
  BY CloseSessions DEF StreamInv, Drop, page
<1>2. \A q \in R : session[q] \in Session BY DEF StreamInv, TopicTypes
<1>3. Got'
  <2>1. \A q \in R : session'[q].received \in {session[q].received, <<>>} BY <1>1, <1>2, Keeping
  <2>2. Len(<<>>) = 0 OBVIOUS
  <2> QED BY <1>1, <2>1, <2>2 DEF WholeInv, Got
<1>4. EndedWhole'
  <2>1. ASSUME NEW q \in R
        PROVE  /\ session'[q].endRequested = session[q].endRequested
               /\ session'[q].received = session[q].received
    <3>1. session'[q] \in {session[q], Closed(session[q])}
      <4>1. current # None => session' = [session EXCEPT ![current] = Closed(session[current])]
        BY Zenon DEF Drop, CloseSession, Closed
      <4> QED BY <4>1 DEF Drop, CloseSession, StreamInv, TopicTypes
    <3>2. PICK s \in Session : s = session[q] BY <1>2
    <3>3. Closed(s).endRequested = s.endRequested /\ Closed(s).received = s.received BY Closing
    <3> QED BY <3>1, <3>2, <3>3
  <2> QED BY <1>1, <2>1 DEF WholeInv, EndedWhole
<1> QED BY <1>1, <1>3, <1>4 DEF WholeInv, AllCut, Recording, OnTheWay

(* Every step keeps it.                                                    *)
LEMMA WholeStep == StreamInv /\ StreamInv' /\ WholeInv /\ [Next]_vars => WholeInv'
<1> SUFFICES ASSUME StreamInv, StreamInv', WholeInv, [Next]_vars PROVE WholeInv' OBVIOUS
<1>0. PageInv' BY DEF StreamInv
<1>1. ASSUME NEW r \in R, Start \/ Granted(r) \/ OpenFails(r) PROVE WholeInv'
  BY <1>0, <1>1, WholeStarts
<1>2. CASE Start
  <2>1. \E r \in R : TRUE BY <1>2 DEF Start
  <2> QED BY <1>1, <1>2, <2>1
<1>3. ASSUME NEW r \in R, OpenReturns(r) PROVE WholeInv' BY <1>0, <1>3, WholeOpens
<1>4. ASSUME NEW r \in R, Captured(r) PROVE WholeInv' BY <1>0, <1>4, WholeCaptures
<1>5. CASE Stop \/ Unmount \/ TranscriberError BY <1>0, <1>5, WholeStops
<1>6. CASE Handle BY <1>6, WholeHandles
<1>7. ASSUME NEW r \in R, Abandon(r) \/ Opened(r) \/ Over(r) PROVE WholeInv' BY <1>7, WholeTurns
<1>8. CASE Drop BY <1>8, WholeDrops
<1>9. CASE Rejoin \/ UNCHANGED vars
  <2>1. UNCHANGED <<recorder, capture, up, session, current>>
    BY <1>9 DEF Rejoin, vars, page, topic, socket
  <2>2. \A k, q, i : Follows(k, q, i)' <=> Follows(k, q, i) BY <2>1 DEF Follows, Waits, Accepts
  <2>3. \A k : (Goes(up[k])' <=> Goes(up[k])) /\ (EndsAt(k) => EndsAt(k)')
    BY <2>1, <2>2 DEF Goes, EndsAt
  <2>4. OnTheWay' BY <2>1, <2>3 DEF WholeInv, OnTheWay
  <2> QED BY <2>1, <2>4 DEF WholeInv, AllCut, Recording, Got, EndedWhole
<1> QED BY <1>1, <1>2, <1>3, <1>4, <1>5, <1>6, <1>7, <1>8, <1>9 DEF Next

(* It holds at first, and always.                                          *)
LEMMA WholeInvariant == Spec => [](StreamInv /\ WholeInv)
<1>1. Init /\ StreamInv => WholeInv
  <2> SUFFICES ASSUME Init, StreamInv PROVE WholeInv OBVIOUS
  <2>1. /\ \A r \in R : capture[r] = NoDevice /\ session[r] = NoSession
        /\ Len(up) = 0 /\ recorder.status = "idle"
    BY DEF Init
  <2>2. /\ NoDevice.device = "none" /\ NoDevice.position = 0 /\ NoDevice.blocks = 0
        /\ NoDevice.rest = 0 /\ ~NoDevice.started /\ Len(NoDevice.held) = 0
        /\ ~NoSession.endRequested /\ Len(NoSession.received) = 0
    BY DEF NoDevice, NoSession
  <2>3. Resampled(0) = 0 /\ InPhase(0, 0) BY DEF Resampled, InPhase
  <2>4. WellCut(NoDevice)
    <3>1. 0 * Size = 0 BY RecorderAssumption
    <3> QED BY <2>2, <2>3, <3>1 DEF WellCut, Count, Made, Stopped
  <2> QED BY <2>1, <2>2, <2>4 DEF WholeInv, AllCut, Recording, OnTheWay, Got, EndedWhole
<1> QED BY <1>1, WholeStep, StreamInvariant, PTL DEF Spec

(* NothingUnsent: for any rates and sizes of blocks and chunks, a stream   *)
(* whose audio_end was taken has had as many samples as the recording has  *)
(* when it is resampled in one piece, the last partial chunk included.     *)
THEOREM RecordingsArriveWhole == Spec => []NothingUnsent
<1>1. StreamInv /\ WholeInv => NothingUnsent
  <2> SUFFICES ASSUME StreamInv, WholeInv, NEW r \in R, session[r].endRequested
               PROVE  SumOf(session[r].received) = Made(capture[r])
    BY DEF NothingUnsent, SumOf, Made
  <2>1. /\ session[r].received \in Seq(ToServer) /\ capture[r] \in Device /\ WellCut(capture[r])
        /\ Stopped(capture[r]) /\ Len(session[r].received) = capture[r].index
    BY DEF StreamInv, PageInv, TopicTypes, Session, WholeInv, AllCut, EndedWhole
  <2>2. PICK s \in Seq(ToServer), n \in Nat, t \in Nat :
          s = session[r].received /\ n = Len(s) /\ t = Made(capture[r]) /\ Cuts(n, t)
    BY <2>1, SamplesMade DEF WellCut
  <2>3. ASSUME NEW k \in 1 .. n
        PROVE  \/ s[k].samples = Size /\ k * Size <= t
               \/ s[k].samples = t - (k - 1) * Size /\ s[k].samples < Size
    <3>1. Fits(s[k].samples, k - 1, capture[r]) /\ (k - 1) + 1 = k
      BY <2>2 DEF WholeInv, Got
    <3> QED BY <2>2, <3>1 DEF Fits
  <2> QED BY <2>2, <2>3, SumOfChunks
<1> QED BY <1>1, WholeInvariant, PTL
=============================================================================
