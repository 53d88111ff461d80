-------------------------------- MODULE Lists --------------------------------
(***************************************************************************)
(* The operators of SequencesExt and FiniteSetsExt that the kits use, with *)
(* the meaning they have there. UiKits holds eight kits side by side, each *)
(* an instance with definitions of its own: with the whole library in each *)
(* of them there would be a thousand definitions under every step of       *)
(* UiKitsProofs. FoldLeft stays the fold of the community module Folds.    *)
(***************************************************************************)
EXTENDS Naturals, Sequences, Folds

ToSet(s) == {s[n] : n \in DOMAIN s}

Last(s) == s[Len(s)]

IsPrefix(s, t) == Len(s) <= Len(t) /\ SubSeq(s, 1, Len(s)) = SubSeq(t, 1, Len(s))

Max(S) == CHOOSE x \in S : \A y \in S : x >= y

Min(S) == CHOOSE x \in S : \A y \in S : x <= y

\* The place of the first element that passes Test, 0 when none does.
SelectInSeq(s, Test(_)) ==
    LET Passing == {n \in 1 .. Len(s) : Test(s[n])}
    IN  IF Passing # {} THEN Min(Passing) ELSE 0

\* SelectSeq: the elements of s that are in S, in their order.
Among(s, S) ==
    LET kept[n \in 0 .. Len(s)] ==
            IF n = 0 THEN <<>> ELSE IF s[n] \in S THEN Append(kept[n - 1], s[n]) ELSE kept[n - 1]
    IN  kept[Len(s)]

\* The elements of s one after another, from start, each taken by Step.
FoldLeft(Step(_, _), start, s) ==
    MapThenFoldSet(LAMBDA x, y : Step(y, x), start, LAMBDA n : s[n], LAMBDA S : Max(S), DOMAIN s)
=============================================================================
