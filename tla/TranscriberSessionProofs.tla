----------------------- MODULE TranscriberSessionProofs -----------------------
(***************************************************************************)
(* Proofs about TranscriberSession, for any topics, sessions, users and    *)
(* limit: the types, no two sessions of a topic side by side, no live      *)
(* stream forgotten, and a count that covers the claims.                   *)
(***************************************************************************)
EXTENDS TranscriberSession, FiniteSetTheorems, TLAPS

-----------------------------------------------------------------------------
\* _close is under way for session s.
InClose(s) == closing[s] \in {"stopping", "shutting"}

(* Who points to whom: only sessions in use are reached, each from its     *)
(* own topic.                                                              *)
Known ==
    /\ \A s \in Sessions : start[s] # "unused" => owner[s] \in Topics
    /\ \A t \in Topics : current[t] # NoSession => start[current[t]] # "unused" /\ owner[current[t]] = t
    /\ \A s \in Sessions : heir[s] # NoSession => start[heir[s]] # "unused"

(* A handle_audio_start that has not gone on yet either holds the turn or  *)
(* waits for exactly one _close.                                           *)
Turns ==
    /\ turn # NoSession => start[turn] = "replacing"
    /\ \A p \in Sessions : InClose(p) /\ heir[p] # NoSession =>
          /\ start[heir[p]] = "replacing" /\ heir[p] # turn
          /\ \A q \in Sessions : InClose(q) /\ heir[q] = heir[p] => q = p

(* Only a started session has tasks and a _close that takes time, and a    *)
(* graceful _close never has a live stream to leave behind.                *)
Steps ==
    \A s \in Sessions :
       /\ closing[s] # "no" => closed[s]
       /\ InClose(s) \/ intake[s] = "running" \/ listening[s] \/ graceful[s]
             => start[s] = "started"
       /\ graceful[s] => provider[s] # "live" /\ closed[s]
       /\ provider[s] = "live" => start[s] \in {"started", "discarding"}

(* The inductive invariant.                                                *)
IInv == TypeOK /\ Known /\ Turns /\ Steps /\ NoRival /\ NoOrphan

USE NoSessionAssumption, UserAssumption, LimitAssumption
-----------------------------------------------------------------------------
(* _release keeps the count a count.                                       *)
LEMMA ReleaseType ==
  ASSUME TypeOK, NEW t \in Topics, Release(t)
  PROVE  counted' \in [Topics -> BOOLEAN] /\ open' \in [Users -> Nat]
  BY DEF TypeOK, Release

(* No session, no claim.                                                   *)
LEMMA Initially == Init => IInv
<1> SUFFICES ASSUME Init PROVE IInv
  OBVIOUS
<1>1. TypeOK
  BY DEF Init, TypeOK, StartSteps, CloseSteps, Provider
<1>2. Known
  BY DEF Init, Known
<1>3. Turns
  BY DEF Init, Turns, InClose
<1>4. Steps
  BY DEF Init, Steps, InClose
<1>5. NoRival
  BY DEF Init, NoRival
<1>6. NoOrphan
  BY DEF Init, NoOrphan
<1> QED BY <1>1, <1>2, <1>3, <1>4, <1>5, <1>6 DEF IInv

(* handle_audio_start up to its first await: the session it replaces is    *)
(* closed, and its heir is a session nobody waited for before.             *)
LEMMA Starting ==
  ASSUME IInv, NEW t \in Topics, NEW s \in Sessions, HandleAudioStart(t, s)
  PROVE  IInv'
<1>1. TypeOK'
  <2>1. counted' \in [Topics -> BOOLEAN] /\ open' \in [Users -> Nat]
    BY ReleaseType DEF IInv, TypeOK, HandleAudioStart
  <2>2. closing' \in [Sessions -> CloseSteps]
    BY DEF IInv, TypeOK, CloseSteps, HandleAudioStart, Close, NextClose
  <2>3. closed' \in [Sessions -> BOOLEAN] /\ listening' \in [Sessions -> BOOLEAN]
    BY DEF IInv, TypeOK, HandleAudioStart, Close
  <2>4. graceful' \in [Sessions -> BOOLEAN]
    BY DEF IInv, TypeOK, HandleAudioStart, Close
  <2>5. heir' \in [Sessions -> Sessions \cup {NoSession}]
    BY DEF IInv, TypeOK, HandleAudioStart, Close
  <2>6. current' \in [Topics -> Sessions \cup {NoSession}] /\ turn' \in Sessions \cup {NoSession}
    BY DEF IInv, TypeOK, HandleAudioStart
  <2> QED BY <2>1, <2>2, <2>3, <2>4, <2>5, <2>6
        DEF IInv, TypeOK, StartSteps, Provider, HandleAudioStart
<1>2. Known'
  BY DEF IInv, TypeOK, Known, HandleAudioStart, Close, NextClose
<1>3. Turns'
  BY DEF IInv, TypeOK, Turns, InClose, HandleAudioStart, Close, NextClose
<1>4. Steps'
  BY DEF IInv, TypeOK, Steps, InClose, HandleAudioStart, Close, NextClose
<1>5. NoRival'
  BY DEF IInv, TypeOK, Known, NoRival, HandleAudioStart, Close, NextClose
<1>6. NoOrphan'
  BY DEF IInv, TypeOK, Steps, NoOrphan, HandleAudioStart, Close, NextClose
<1> QED BY <1>1, <1>2, <1>3, <1>4, <1>5, <1>6 DEF IInv

(* handle_audio_start, refused: only a session that holds the turn is      *)
(* given up.                                                               *)
LEMMA Abandoning ==
  ASSUME IInv, NEW s \in Sessions, Abandon(s)
  PROVE  IInv'
<1>1. TypeOK'
  BY DEF IInv, TypeOK, StartSteps, Abandon, Forget
<1>2. Known'
  BY DEF IInv, Known, Turns, Abandon, Forget
<1>3. Turns'
  BY DEF IInv, Turns, InClose, Abandon
<1>4. Steps'
  BY DEF IInv, Turns, Steps, InClose, Abandon
<1>5. NoRival'
  BY DEF IInv, TypeOK, Known, NoRival, Abandon, Forget
<1>6. NoOrphan'
  BY DEF IInv, Turns, NoOrphan, Abandon
<1> QED BY <1>1, <1>2, <1>3, <1>4, <1>5, <1>6 DEF IInv

(* handle_audio_start, claiming: the turn is over before the await.        *)
LEMMA Claiming ==
  ASSUME IInv, NEW s \in Sessions, ClaimStream(s)
  PROVE  IInv'
<1>1. TypeOK'
  BY DEF IInv, TypeOK, Known, Turns, StartSteps, Provider, ClaimStream, Claim
<1>2. Known'
  BY DEF IInv, Known, Turns, ClaimStream
<1>3. Turns'
  BY DEF IInv, Turns, InClose, ClaimStream
<1>4. Steps'
  BY DEF IInv, Turns, Steps, InClose, ClaimStream
<1>5. NoRival'
  BY DEF IInv, Turns, NoRival, ClaimStream
<1>6. NoOrphan'
  BY DEF IInv, TypeOK, NoOrphan, ClaimStream
<1> QED BY <1>1, <1>2, <1>3, <1>4, <1>5, <1>6 DEF IInv

(* handle_audio_start, open_stream raised: the session forgotten is a      *)
(* closed one.                                                             *)
LEMMA OpenFailing ==
  ASSUME IInv, NEW s \in Sessions, OpenFails(s)
  PROVE  IInv'
<1>1. TypeOK'
  BY DEF IInv, TypeOK, Known, StartSteps, Provider, OpenFails, Forget, Release
<1>2. Known'
  BY DEF IInv, Known, OpenFails, Forget
<1>3. Turns'
  BY DEF IInv, Turns, InClose, OpenFails
<1>4. Steps'
  BY DEF IInv, Steps, InClose, OpenFails
<1>5. NoRival'
  BY DEF IInv, TypeOK, Known, NoRival, OpenFails, Forget
<1>6. NoOrphan'
  BY DEF IInv, NoOrphan, OpenFails
<1> QED BY <1>1, <1>2, <1>3, <1>4, <1>5, <1>6 DEF IInv

(* handle_audio_start, closed meanwhile: the live stream is about to be    *)
(* shut.                                                                   *)
LEMMA OpeningTooLate ==
  ASSUME IInv, NEW s \in Sessions, OpensTooLate(s)
  PROVE  IInv'
<1>1. TypeOK'
  BY DEF IInv, TypeOK, StartSteps, Provider, OpensTooLate, topicVars
<1>2. Known'
  BY DEF IInv, Known, OpensTooLate, topicVars
<1>3. Turns'
  BY DEF IInv, Turns, InClose, OpensTooLate
<1>4. Steps'
  BY DEF IInv, TypeOK, Steps, InClose, OpensTooLate
<1>5. NoRival'
  BY DEF IInv, NoRival, OpensTooLate, topicVars
<1>6. NoOrphan'
  BY DEF IInv, TypeOK, NoOrphan, OpensTooLate
<1> QED BY <1>1, <1>2, <1>3, <1>4, <1>5, <1>6 DEF IInv

(* handle_audio_start, the stream opened too late is shut.                 *)
LEMMA Discarding ==
  ASSUME IInv, NEW s \in Sessions, Discarded(s)
  PROVE  IInv'
<1>1. TypeOK'
  BY DEF IInv, TypeOK, StartSteps, Provider, Discarded, topicVars
<1>2. Known'
  BY DEF IInv, Known, Discarded, topicVars
<1>3. Turns'
  BY DEF IInv, Turns, InClose, Discarded
<1>4. Steps'
  BY DEF IInv, TypeOK, Steps, InClose, Discarded
<1>5. NoRival'
  BY DEF IInv, NoRival, Discarded, topicVars
<1>6. NoOrphan'
  BY DEF IInv, TypeOK, NoOrphan, Discarded
<1> QED BY <1>1, <1>2, <1>3, <1>4, <1>5, <1>6 DEF IInv

(* handle_audio_start, the stream is open: its session is not closed.      *)
LEMMA Opening ==
  ASSUME IInv, NEW s \in Sessions, Opens(s)
  PROVE  IInv'
<1>1. TypeOK'
  BY DEF IInv, TypeOK, StartSteps, Provider, Opens, topicVars
<1>2. Known'
  BY DEF IInv, Known, Opens, topicVars
<1>3. Turns'
  BY DEF IInv, Turns, InClose, Opens
<1>4. Steps'
  BY DEF IInv, TypeOK, Steps, InClose, Opens
<1>5. NoRival'
  BY DEF IInv, NoRival, Opens, topicVars
<1>6. NoOrphan'
  BY DEF IInv, TypeOK, NoOrphan, Opens
<1> QED BY <1>1, <1>2, <1>3, <1>4, <1>5, <1>6 DEF IInv

(* handle_audio_end only marks the session.                                *)
LEMMA Ending ==
  ASSUME IInv, NEW t \in Topics, HandleAudioEnd(t)
  PROVE  IInv'
<1>1. TypeOK'
  BY DEF IInv, TypeOK, HandleAudioEnd, topicVars
<1>2. Known'
  BY DEF IInv, Known, HandleAudioEnd, topicVars
<1>3. Turns'
  BY DEF IInv, Turns, InClose, HandleAudioEnd
<1>4. Steps'
  BY DEF IInv, Steps, InClose, HandleAudioEnd
<1>5. NoRival'
  BY DEF IInv, NoRival, HandleAudioEnd, topicVars
<1>6. NoOrphan'
  BY DEF IInv, NoOrphan, HandleAudioEnd
<1> QED BY <1>1, <1>2, <1>3, <1>4, <1>5, <1>6 DEF IInv

(* _close from a background task, of a started session: a graceful one     *)
(* needs a stream that is no longer live.                                  *)
LEMMA Closing ==
  ASSUME IInv, NEW s \in Sessions,
         NEW kind \in BOOLEAN,
         NEW onQuiet \in BOOLEAN,
         BackgroundClose(s, kind, onQuiet),
         UNCHANGED <<intake, provider>>,
         start[s] = "started",
         kind => provider[s] # "live"
  PROVE  IInv'
<1>1. TypeOK'
  <2>1. owner[s] \in Topics
    BY DEF IInv, Known
  <2>2. counted' \in [Topics -> BOOLEAN] /\ open' \in [Users -> Nat]
    BY <2>1, ReleaseType DEF IInv, TypeOK, BackgroundClose, FinishClose
  <2>3. closing' \in [Sessions -> CloseSteps]
    BY DEF IInv, TypeOK, CloseSteps, BackgroundClose, Close, NextClose
  <2>4. closed' \in [Sessions -> BOOLEAN] /\ listening' \in [Sessions -> BOOLEAN]
    BY DEF IInv, TypeOK, BackgroundClose, Close, FinishClose
  <2>5. graceful' \in [Sessions -> BOOLEAN]
    BY DEF IInv, TypeOK, BackgroundClose, Close
  <2>6. heir' \in [Sessions -> Sessions \cup {NoSession}]
    BY DEF IInv, TypeOK, BackgroundClose, Close
  <2>7. current' \in [Topics -> Sessions \cup {NoSession}] /\ turn' \in Sessions \cup {NoSession}
    BY DEF IInv, TypeOK, BackgroundClose, FinishClose, Forget
  <2> QED BY <2>2, <2>3, <2>4, <2>5, <2>6, <2>7 DEF IInv, TypeOK, BackgroundClose
<1>2. Known'
  BY DEF IInv, Known, BackgroundClose, Close, FinishClose, Forget
<1>3. Turns'
  BY DEF IInv, TypeOK, Turns, InClose, BackgroundClose, Close
<1>4. Steps'
  BY DEF IInv, TypeOK, Steps, InClose, BackgroundClose, Close, FinishClose
<1>5. NoRival'
  BY DEF IInv, TypeOK, Known, NoRival, BackgroundClose, Close, FinishClose, Forget
<1>6. NoOrphan'
  BY DEF IInv, TypeOK, NoOrphan, BackgroundClose, Close, NextClose
<1> QED BY <1>1, <1>2, <1>3, <1>4, <1>5, <1>6 DEF IInv

(* _listen, raising where nothing catches it.                              *)
LEMMA ListenerDying ==
  ASSUME IInv, NEW s \in Sessions, ListenerDies(s)
  PROVE  IInv'
<1>1. TypeOK'
  BY DEF IInv, TypeOK, ListenerDies, topicVars
<1>2. Known'
  BY DEF IInv, Known, ListenerDies, topicVars
<1>3. Turns'
  BY DEF IInv, Turns, InClose, ListenerDies
<1>4. Steps'
  BY DEF IInv, Steps, InClose, ListenerDies
<1>5. NoRival'
  BY DEF IInv, NoRival, ListenerDies, topicVars
<1>6. NoOrphan'
  BY DEF IInv, NoOrphan, ListenerDies
<1> QED BY <1>1, <1>2, <1>3, <1>4, <1>5, <1>6 DEF IInv

(* on_unsubscribe: the topic forgets a session that is closed by the same  *)
(* step.                                                                   *)
LEMMA Leaving ==
  ASSUME IInv, NEW t \in Topics, Leave(t)
  PROVE  IInv'
<1>1. TypeOK'
  <2>1. counted' \in [Topics -> BOOLEAN] /\ open' \in [Users -> Nat]
    BY ReleaseType DEF IInv, TypeOK, Leave
  <2>2. closing' \in [Sessions -> CloseSteps]
    BY DEF IInv, TypeOK, CloseSteps, Leave, Close, NextClose
  <2>3. closed' \in [Sessions -> BOOLEAN] /\ listening' \in [Sessions -> BOOLEAN]
    BY DEF IInv, TypeOK, Leave, Close
  <2>4. graceful' \in [Sessions -> BOOLEAN]
    BY DEF IInv, TypeOK, Leave, Close
  <2>5. heir' \in [Sessions -> Sessions \cup {NoSession}]
    BY DEF IInv, TypeOK, Leave, Close
  <2>6. current' \in [Topics -> Sessions \cup {NoSession}] /\ turn' \in Sessions \cup {NoSession}
    BY DEF IInv, TypeOK, Leave
  <2> QED BY <2>1, <2>2, <2>3, <2>4, <2>5, <2>6 DEF IInv, TypeOK, Leave
<1>2. Known'
  BY DEF IInv, TypeOK, Known, Leave, Close, NextClose
<1>3. Turns'
  BY DEF IInv, TypeOK, Turns, InClose, Leave, Close, NextClose
<1>4. Steps'
  BY DEF IInv, TypeOK, Steps, InClose, Leave, Close, NextClose
<1>5. NoRival'
  BY DEF IInv, TypeOK, NoRival, Leave, Close, NextClose
<1>6. NoOrphan'
  BY DEF IInv, TypeOK, Steps, NoOrphan, Leave, Close, NextClose
<1> QED BY <1>1, <1>2, <1>3, <1>4, <1>5, <1>6 DEF IInv

(* _close, the intake stopped: when the close is over, the turn passes to  *)
(* the heir, which no other close has.                                     *)
LEMMA Stopping ==
  ASSUME IInv, NEW s \in Sessions, Stopped(s)
  PROVE  IInv'
<1>1. TypeOK'
  <2>1. owner[s] \in Topics
    BY DEF IInv, Known, Steps, InClose, Stopped
  <2>2. counted' \in [Topics -> BOOLEAN] /\ open' \in [Users -> Nat]
    BY <2>1, ReleaseType DEF IInv, TypeOK, Stopped, FinishClose
  <2>3. closing' \in [Sessions -> CloseSteps]
    BY DEF IInv, TypeOK, CloseSteps, Stopped
  <2>4. closed' \in [Sessions -> BOOLEAN] /\ listening' \in [Sessions -> BOOLEAN]
    BY DEF IInv, TypeOK, Stopped, FinishClose
  <2>5. graceful' \in [Sessions -> BOOLEAN]
    BY DEF IInv, TypeOK, Stopped
  <2>6. heir' \in [Sessions -> Sessions \cup {NoSession}]
    BY DEF IInv, TypeOK, Stopped
  <2>7. current' \in [Topics -> Sessions \cup {NoSession}] /\ turn' \in Sessions \cup {NoSession}
    BY DEF IInv, TypeOK, Stopped, FinishClose, Forget
  <2> QED BY <2>2, <2>3, <2>4, <2>5, <2>6, <2>7 DEF IInv, TypeOK, Stopped
<1>2. Known'
  BY DEF IInv, Known, Stopped, FinishClose, Forget
<1>3. Turns'
  BY DEF IInv, TypeOK, Turns, InClose, Stopped
<1>4. Steps'
  BY DEF IInv, TypeOK, Steps, InClose, Stopped, FinishClose
<1>5. NoRival'
  BY DEF IInv, Known, Steps, NoRival, Stopped, FinishClose, Forget
<1>6. NoOrphan'
  BY DEF IInv, TypeOK, Steps, NoOrphan, Stopped
<1> QED BY <1>1, <1>2, <1>3, <1>4, <1>5, <1>6 DEF IInv

(* _close, the stream closed: likewise.                                    *)
LEMMA Shutting ==
  ASSUME IInv, NEW s \in Sessions, Shut(s)
  PROVE  IInv'
<1>1. TypeOK'
  <2>1. owner[s] \in Topics
    BY DEF IInv, Known, Steps, InClose, Shut
  <2>2. counted' \in [Topics -> BOOLEAN] /\ open' \in [Users -> Nat]
    BY <2>1, ReleaseType DEF IInv, Shut, FinishClose
  <2>3. closing' \in [Sessions -> CloseSteps]
    BY DEF IInv, TypeOK, CloseSteps, Shut
  <2>4. closed' \in [Sessions -> BOOLEAN] /\ listening' \in [Sessions -> BOOLEAN]
    BY DEF IInv, TypeOK, Shut, FinishClose
  <2>5. graceful' \in [Sessions -> BOOLEAN]
    BY DEF IInv, TypeOK, Shut
  <2>6. heir' \in [Sessions -> Sessions \cup {NoSession}]
    BY DEF IInv, TypeOK, Shut
  <2>7. current' \in [Topics -> Sessions \cup {NoSession}] /\ turn' \in Sessions \cup {NoSession}
    BY DEF IInv, TypeOK, Shut, FinishClose, Forget
  <2> QED BY <2>2, <2>3, <2>4, <2>5, <2>6, <2>7 DEF IInv, TypeOK, Provider, Shut
<1>2. Known'
  BY DEF IInv, Known, Shut, FinishClose, Forget
<1>3. Turns'
  BY DEF IInv, TypeOK, Turns, InClose, Shut
<1>4. Steps'
  BY DEF IInv, Steps, InClose, Shut, FinishClose
<1>5. NoRival'
  BY DEF IInv, Known, Steps, NoRival, Shut, FinishClose, Forget
<1>6. NoOrphan'
  BY DEF IInv, TypeOK, NoOrphan, Shut
<1> QED BY <1>1, <1>2, <1>3, <1>4, <1>5, <1>6 DEF IInv

(* The intake's task is over.                                              *)
LEMMA IntakeEnding ==
  ASSUME IInv, NEW s \in Sessions, IntakeOver(s)
  PROVE  IInv'
<1>1. TypeOK'
  BY DEF IInv, TypeOK, IntakeOver, topicVars
<1>2. Known'
  BY DEF IInv, Known, IntakeOver, topicVars
<1>3. Turns'
  BY DEF IInv, Turns, InClose, IntakeOver
<1>4. Steps'
  BY DEF IInv, Steps, InClose, IntakeOver
<1>5. NoRival'
  BY DEF IInv, NoRival, IntakeOver, topicVars
<1>6. NoOrphan'
  BY DEF IInv, NoOrphan, IntakeOver
<1> QED BY <1>1, <1>2, <1>3, <1>4, <1>5, <1>6 DEF IInv

(* The provider closes its end.                                            *)
LEMMA ProviderEnding ==
  ASSUME IInv, NEW s \in Sessions, ProviderEnds(s)
  PROVE  IInv'
<1>1. TypeOK'
  BY DEF IInv, TypeOK, Provider, ProviderEnds, topicVars
<1>2. Known'
  BY DEF IInv, Known, ProviderEnds, topicVars
<1>3. Turns'
  BY DEF IInv, Turns, InClose, ProviderEnds
<1>4. Steps'
  BY DEF IInv, Steps, InClose, ProviderEnds
<1>5. NoRival'
  BY DEF IInv, NoRival, ProviderEnds, topicVars
<1>6. NoOrphan'
  BY DEF IInv, NoOrphan, ProviderEnds
<1> QED BY <1>1, <1>2, <1>3, <1>4, <1>5, <1>6 DEF IInv

(* A step that changes nothing.                                            *)
LEMMA Stuttering == ASSUME IInv, UNCHANGED vars PROVE IInv'
  BY DEF IInv, TypeOK, Known, Turns, Steps, NoRival, NoOrphan, InClose,
         vars, topicVars, sessionVars

(* Every step of the topic, its sessions and the provider keeps IInv.      *)
LEMMA Inductive == IInv /\ [Next]_vars => IInv'
<1> SUFFICES ASSUME IInv, [Next]_vars PROVE IInv'
  OBVIOUS
<1>1. ASSUME NEW t \in Topics, NEW s \in Sessions, HandleAudioStart(t, s) PROVE IInv'
  BY <1>1, Starting
<1>2. ASSUME NEW t \in Topics, HandleAudioEnd(t) PROVE IInv'
  BY <1>2, Ending
<1>3. ASSUME NEW t \in Topics, Leave(t) PROVE IInv'
  BY <1>3, Leaving
<1>4. ASSUME NEW s \in Sessions, HandlerNext(s) PROVE IInv'
  BY <1>4, Abandoning, Claiming, OpenFailing, OpeningTooLate, Discarding, Opening
     DEF HandlerNext
<1>5. ASSUME NEW s \in Sessions, CloseNext(s) PROVE IInv'
  BY <1>5, Stopping, Shutting DEF CloseNext
<1>6. ASSUME NEW s \in Sessions, TaskNext(s) PROVE IInv'
  <2>1. /\ intake[s] = "running" => start[s] = "started"
        /\ listening[s] => start[s] = "started"
    BY DEF IInv, Steps
  <2>2. CASE Expire(s)
    BY <2>2, Closing DEF Expire
  <2>3. CASE GoIdle(s)
    BY <2>1, <2>3, Closing DEF GoIdle
  <2>4. CASE FinishTimesOut(s)
    BY <2>1, <2>4, Closing DEF FinishTimesOut
  <2>5. CASE ListenerEnds(s)
    BY <2>1, <2>5, Closing DEF ListenerEnds
  <2>6. CASE ListenerFails(s)
    BY <2>1, <2>6, Closing DEF ListenerFails
  <2>7. CASE ListenerDies(s)
    BY <2>7, ListenerDying
  <2>8. CASE IntakeOver(s)
    BY <2>8, IntakeEnding
  <2>9. CASE ProviderEnds(s)
    BY <2>9, ProviderEnding
  <2> QED BY <1>6, <2>2, <2>3, <2>4, <2>5, <2>6, <2>7, <2>8, <2>9 DEF TaskNext
<1>7. CASE UNCHANGED vars
  BY <1>7, Stuttering
<1> QED BY <1>1, <1>2, <1>3, <1>4, <1>5, <1>6, <1>7 DEF Next

(* Hence IInv always holds.                                                *)
LEMMA Always == Spec => []IInv
  BY Initially, Inductive, PTL DEF Spec

(* Every variable keeps its type: a count, above all, is never negative.   *)
THEOREM TypeCorrect == Spec => []TypeOK
<1>1. IInv => TypeOK
  BY DEF IInv
<1> QED BY <1>1, Always, PTL

(* Whatever is replaced, expires or fails, and in whatever order: a        *)
(* session that was not closed is the one its topic would close.           *)
THEOREM SessionsHaveNoRival == Spec => []NoRival
<1>1. IInv => NoRival
  BY DEF IInv
<1> QED BY <1>1, Always, PTL

(* A live provider stream always has someone left to close it.             *)
THEOREM StreamsAreNotForgotten == Spec => []NoOrphan
<1>1. IInv => NoOrphan
  BY DEF IInv
<1> QED BY <1>1, Always, PTL

-----------------------------------------------------------------------------
(* The count of a user, and the only steps that touch it.                  *)
LEMMA CountSteps ==
  ASSUME IInv, [Next]_vars
  PROVE  \/ \E t \in Topics : CanClaim(t) /\ Claim(t)
         \/ \E t \in Topics : Release(t)
         \/ UNCHANGED <<counted, open>>
<1>1. ASSUME NEW s \in Sessions, HandlerNext(s)
      PROVE  \/ \E t \in Topics : CanClaim(t) /\ Claim(t)
             \/ \E t \in Topics : Release(t)
             \/ UNCHANGED <<counted, open>>
  <2>1. CASE ClaimStream(s)
    <3>1. owner[s] \in Topics
      BY <2>1 DEF IInv, Known, Turns, ClaimStream
    <3> QED BY <2>1, <3>1 DEF ClaimStream
  <2>2. CASE OpenFails(s)
    <3>1. owner[s] \in Topics
      BY <2>2 DEF IInv, Known, OpenFails
    <3> QED BY <2>2, <3>1 DEF OpenFails
  <2>3. CASE Abandon(s) \/ OpensTooLate(s) \/ Discarded(s) \/ Opens(s)
    BY <2>3 DEF Abandon, OpensTooLate, Discarded, Opens, topicVars
  <2> QED BY <1>1, <2>1, <2>2, <2>3 DEF HandlerNext
<1>2. ASSUME NEW s \in Sessions, CloseNext(s)
      PROVE  (\E t \in Topics : Release(t)) \/ UNCHANGED <<counted, open>>
  <2>1. owner[s] \in Topics
    BY <1>2 DEF IInv, Known, Steps, InClose, CloseNext, Stopped, Shut
  <2> QED BY <1>2, <2>1 DEF CloseNext, Stopped, Shut, FinishClose
<1>3. ASSUME NEW s \in Sessions, TaskNext(s)
      PROVE  (\E t \in Topics : Release(t)) \/ UNCHANGED <<counted, open>>
  <2>1. CASE ListenerDies(s) \/ IntakeOver(s) \/ ProviderEnds(s)
    BY <2>1 DEF ListenerDies, IntakeOver, ProviderEnds, topicVars
  <2>2. ASSUME NEW kind, NEW onQuiet, BackgroundClose(s, kind, onQuiet), start[s] = "started"
        PROVE  (\E t \in Topics : Release(t)) \/ UNCHANGED <<counted, open>>
    <3>1. owner[s] \in Topics
      BY <2>2 DEF IInv, Known
    <3> QED BY <2>2, <3>1 DEF BackgroundClose, FinishClose
  <2>3. CASE Expire(s) \/ GoIdle(s) \/ FinishTimesOut(s) \/ ListenerEnds(s) \/ ListenerFails(s)
    BY <2>2, <2>3
       DEF IInv, Steps, Expire, GoIdle, FinishTimesOut, ListenerEnds, ListenerFails
  <2> QED BY <1>3, <2>1, <2>3 DEF TaskNext
<1>4. ASSUME NEW t \in Topics, NEW s \in Sessions, HandleAudioStart(t, s)
      PROVE  (\E u \in Topics : Release(u)) \/ UNCHANGED <<counted, open>>
  BY <1>4 DEF HandleAudioStart
<1>5. ASSUME NEW t \in Topics, HandleAudioEnd(t) \/ Leave(t)
      PROVE  (\E u \in Topics : Release(u)) \/ UNCHANGED <<counted, open>>
  BY <1>5 DEF HandleAudioEnd, Leave, topicVars
<1>6. UNCHANGED vars => UNCHANGED <<counted, open>>
  BY DEF vars, topicVars
<1> QED BY <1>1, <1>2, <1>3, <1>4, <1>5, <1>6 DEF Next

(* _claim adds at most one claimant to its user, below the limit.          *)
LEMMA ClaimCovered ==
  ASSUME TypeOK, ClaimsCovered, NEW t \in Topics, CanClaim(t), Claim(t)
  PROVE  ClaimsCovered'
<1> SUFFICES ASSUME NEW u \in Users
             PROVE  Cardinality(Claimants(u)') <= open'[u] /\ open'[u] <= Limit
  BY DEF ClaimsCovered
<1>1. /\ IsFiniteSet(Claimants(u)) /\ Cardinality(Claimants(u)) \in Nat
      /\ Cardinality(Claimants(u)) <= open[u] /\ open[u] <= Limit
  BY TopicsAssumption, FS_Subset, FS_CardinalityType DEF ClaimsCovered, Claimants
<1>2. CASE User[t] = u
  <2>1. Claimants(u)' = Claimants(u) \cup {t}
    BY <1>2 DEF Claimants, Claim, TypeOK
  <2>2. /\ Cardinality(Claimants(u) \cup {t}) \in Nat
        /\ Cardinality(Claimants(u) \cup {t}) <= Cardinality(Claimants(u)) + 1
    <3>1. Cardinality(Claimants(u) \cup {t}) = IF t \in Claimants(u) THEN Cardinality(Claimants(u))
                                               ELSE Cardinality(Claimants(u)) + 1
      BY <1>1, FS_AddElement
    <3> QED BY <1>1, <3>1
  <2>3. open'[u] = open[u] + 1 /\ open[u] < Limit /\ open[u] \in Nat
    BY <1>2 DEF CanClaim, Claim, TypeOK
  <2> QED BY <1>1, <2>1, <2>2, <2>3
<1>3. CASE User[t] # u
  <2>1. Claimants(u)' = Claimants(u) /\ open'[u] = open[u]
    BY <1>3 DEF Claimants, Claim, TypeOK
  <2> QED BY <1>1, <2>1
<1> QED BY <1>2, <1>3

(* _release gives back one unit, and only for a claimant it takes away.    *)
LEMMA ReleaseCovered ==
  ASSUME TypeOK, ClaimsCovered, NEW t \in Topics, Release(t)
  PROVE  ClaimsCovered'
<1> SUFFICES ASSUME NEW u \in Users
             PROVE  Cardinality(Claimants(u)') <= open'[u] /\ open'[u] <= Limit
  BY DEF ClaimsCovered
<1>1. /\ IsFiniteSet(Claimants(u)) /\ Cardinality(Claimants(u)) \in Nat
      /\ Cardinality(Claimants(u)) <= open[u] /\ open[u] <= Limit
      /\ open[u] \in Nat
  BY TopicsAssumption, FS_Subset, FS_CardinalityType DEF ClaimsCovered, Claimants, TypeOK
<1>2. CASE t \in Claimants(u)
  <2>1. counted[t] /\ User[t] = u
    BY <1>2 DEF Claimants
  <2>2. Claimants(u)' = Claimants(u) \ {t}
    BY <2>1 DEF Claimants, Release, TypeOK
  <2>3. Cardinality(Claimants(u) \ {t}) = Cardinality(Claimants(u)) - 1
    BY <1>1, <1>2, FS_RemoveElement
  <2>4. Cardinality(Claimants(u)) >= 1
    BY <1>1, <1>2, FS_EmptySet
  <2>5. open'[u] = open[u] - 1
    BY <1>1, <2>1, <2>4 DEF Release, TypeOK
  <2> QED BY <1>1, <2>2, <2>3, <2>5
<1>3. CASE t \notin Claimants(u)
  <2>1. Claimants(u)' = Claimants(u) /\ open'[u] = open[u]
    BY <1>3 DEF Claimants, Release, TypeOK
  <2> QED BY <1>1, <2>1
<1> QED BY <1>2, <1>3

(* A topic gives back only what it claimed, and no user's count exceeds    *)
(* the limit, however starts, closes and failures interleave. (That the    *)
(* count is right is another matter: it may stay too high.)                *)
THEOREM CountCoversClaims == Spec => []ClaimsCovered
<1>1. Init => ClaimsCovered
  <2> SUFFICES ASSUME Init, NEW u \in Users
               PROVE  Cardinality(Claimants(u)) <= open[u] /\ open[u] <= Limit
    BY DEF ClaimsCovered
  <2>1. Claimants(u) = {} /\ open[u] = 0
    BY DEF Init, Claimants
  <2> QED BY <2>1, FS_EmptySet
<1>2. IInv /\ ClaimsCovered /\ [Next]_vars => ClaimsCovered'
  <2> SUFFICES ASSUME IInv, ClaimsCovered, [Next]_vars PROVE ClaimsCovered'
    OBVIOUS
  <2>1. TypeOK
    BY DEF IInv
  <2>2. CASE UNCHANGED <<counted, open>>
    BY <2>2 DEF ClaimsCovered, Claimants
  <2> QED BY <2>1, <2>2, CountSteps, ClaimCovered, ReleaseCovered
<1> QED BY <1>1, <1>2, Always, PTL DEF Spec
=============================================================================
