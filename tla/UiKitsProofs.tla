---------------------------- MODULE UiKitsProofs ----------------------------
(***************************************************************************)
(* What holds of the page's kits for every bound: RostersAgree,            *)
(* SettledStays, FinalsInOrder, LogIsTrue, FeedIsTrue, InterruptedIsSilent,*)
(* RemembersTheConversation, ShowsTheRun, MicrophoneIsShown and            *)
(* StoppedIsSilent. The roster, the captions, the room's log, the feed, the*)
(* voice agent and the agent's thread have inductive invariants of their   *)
(* own below. The recorder and the player are instances of modules with    *)
(* proofs: a step of the page is one of theirs or leaves their variables   *)
(* alone, so what is proved of them holds here.                            *)
(***************************************************************************)
EXTENDS UiKits, FiniteSetTheorems, SequenceTheorems, WellFoundedInduction, TLAPS

-----------------------------------------------------------------------------
(* A nonempty set of numbers has a least one.                              *)
LEMMA LeastNumber ==
  ASSUME NEW T, T \subseteq Nat, T # {}
  PROVE  \E n \in T : \A m \in T : n <= m
<1>1. IsWellFoundedOn(OpToRel(<, Nat), Nat)
  BY NatLessThanWellFounded
<1>2. PICK n \in T : \A m \in T : ~ (<<m, n>> \in OpToRel(<, Nat))
  BY <1>1, WFMin
<1>3. \A m \in T : ~ (m < n)
  BY <1>2 DEF OpToRel
<1> QED BY <1>3

(* Induction over 0 .. n, for a set.                                       *)
LEMMA CountUp ==
  ASSUME NEW n \in Nat, NEW G, 0 \in G, \A k \in 1 .. n : k - 1 \in G => k \in G
  PROVE  \A k \in 0 .. n : k \in G
<1> DEFINE T == {k \in 0 .. n : k \notin G}
<1> SUFFICES ASSUME T # {} PROVE FALSE OBVIOUS
<1>1. PICK k \in T : \A j \in T : k <= j
  <2>1. T \subseteq Nat OBVIOUS
  <2> HIDE DEF T
  <2> QED BY <2>1, LeastNumber
<1>2. k \in 1 .. n /\ k \notin G /\ k - 1 \in 0 .. n /\ ~ (k <= k - 1) OBVIOUS
<1>3. k - 1 \in G BY <1>1, <1>2
<1> QED BY <1>2, <1>3

(* A list built from the first n items of s, of which those at K are taken:*)
(* the step, and that there is such a function.                            *)
Taking(s, K, f, n) == IF n = 0 THEN <<>> ELSE IF n \in K THEN Append(f[n - 1], s[n]) ELSE f[n - 1]

LEMMA TakenExists ==
    ASSUME NEW s, NEW K, NEW n \in Nat
    PROVE  \E f : f = [k \in 0 .. n |-> Taking(s, K, f, k)]
<1> DEFINE Good(m, f) == \A k \in 0 .. m : f[k] = Taking(s, K, f, k)
           G == {m \in 0 .. n : \E f : Good(m, f)}
<1>1. 0 \in G
  <2>1. Good(0, [k \in 0 .. 0 |-> <<>>]) BY DEF Taking
  <2>2. \E f : Good(0, f) BY <2>1
  <2> HIDE DEF Good
  <2> QED BY <2>2
<1>2. ASSUME NEW m \in 1 .. n, m - 1 \in G PROVE m \in G
  <2>1. PICK f : Good(m - 1, f) BY <1>2
  <2> DEFINE g == [k \in 0 .. m |-> IF k = m THEN Taking(s, K, f, k) ELSE f[k]]
  <2>2. ASSUME NEW k \in 0 .. m PROVE g[k] = Taking(s, K, g, k)
    <3>1. k # 0 => g[k - 1] = f[k - 1] OBVIOUS
    <3>2. Taking(s, K, g, k) = Taking(s, K, f, k) BY <3>1 DEF Taking
    <3>3. CASE k = m BY <3>2, <3>3
    <3>4. CASE k # m
      <4>1. g[k] = f[k] /\ k \in 0 .. m - 1 BY <3>4
      <4>2. f[k] = Taking(s, K, f, k) BY <2>1, <4>1
      <4> QED BY <3>2, <4>1, <4>2
    <3> QED BY <3>3, <3>4
  <2> HIDE DEF g
  <2>3. Good(m, g) BY <2>2
  <2>4. \E h : Good(m, h) BY <2>3
  <2> HIDE DEF Good
  <2> QED BY <2>4
<1>3. n \in G
  <2> HIDE DEF G
  <2> QED BY <1>1, <1>2, CountUp
<1>4. PICK f : Good(n, f) BY <1>3
<1> DEFINE h == [k \in 0 .. n |-> f[k]]
<1>5. ASSUME NEW k \in 0 .. n PROVE h[k] = Taking(s, K, h, k)
  <2>1. h[k] = f[k] /\ (k # 0 => h[k - 1] = f[k - 1]) OBVIOUS
  <2>2. Taking(s, K, h, k) = Taking(s, K, f, k) BY <2>1 DEF Taking
  <2> QED BY <1>4, <2>1, <2>2
<1>6. h = [k \in 0 .. n |-> h[k]] OBVIOUS
<1> HIDE DEF h
<1>7. h = [k \in 0 .. n |-> Taking(s, K, h, k)] BY <1>5, <1>6
<1> QED BY <1>7

(* What is left of the first n elements: some of them, in their order, and *)
(* all that are in S.                                                      *)
Remains(D, s, S, w, n) ==
    /\ w \in Seq(D) /\ Len(w) <= n
    /\ \A j \in DOMAIN w : w[j] \in S /\ \E k \in 1 .. n : w[j] = s[k]
    /\ \A j, l \in DOMAIN w : j < l => \E k, m \in 1 .. n : k < m /\ w[j] = s[k] /\ w[l] = s[m]
    /\ \A k \in 1 .. n : s[k] \in S => \E j \in DOMAIN w : w[j] = s[k]

(* Among takes the elements one after another.                             *)
Picking(s, S, f, n) ==
    IF n = 0 THEN <<>> ELSE IF s[n] \in S THEN Append(f[n - 1], s[n]) ELSE f[n - 1]

LEMMA AmongSteps ==
    ASSUME NEW D, NEW s \in Seq(D), NEW S
    PROVE  \E f : /\ f[0] = <<>>
                  /\ \A n \in 1 .. Len(s) : f[n] = IF s[n] \in S THEN Append(f[n - 1], s[n]) ELSE f[n - 1]
                  /\ Room!Among(s, S) = f[Len(s)]
<1> DEFINE N == Len(s)
           f == CHOOSE f : f = [k \in 0 .. N |-> Picking(s, S, f, k)]
<1>0. N \in Nat OBVIOUS
<1>1. Room!Among(s, S) = f[N] BY Zenon DEF Room!Among, Picking
<1>2. f = [k \in 0 .. N |-> Picking(s, S, f, k)]
  <2>1. PICK h : h = [k \in 0 .. N |-> Taking(s, {j \in 1 .. N : s[j] \in S}, h, k)] BY <1>0, TakenExists
  <2>2. \A k \in 0 .. N : Taking(s, {j \in 1 .. N : s[j] \in S}, h, k) = Picking(s, S, h, k)
    <3>1. \A k \in 0 .. N : k # 0 => (k \in {j \in 1 .. N : s[j] \in S} <=> s[k] \in S) BY <1>0
    <3> HIDE DEF N
    <3> QED BY <3>1 DEF Taking, Picking
  <2> HIDE DEF N
  <2>3. h = [k \in 0 .. N |-> Picking(s, S, h, k)] BY <2>1, <2>2
  <2> QED BY <2>3
<1> HIDE DEF f, N
<1>3. f[0] = <<>> BY <1>0, <1>2 DEF Picking
<1>4. ASSUME NEW n \in 1 .. N PROVE f[n] = IF s[n] \in S THEN Append(f[n - 1], s[n]) ELSE f[n - 1]
  <2>1. n \in 0 .. N /\ n # 0 BY <1>0
  <2>2. f[n] = Picking(s, S, f, n) BY <1>2, <2>1
  <2> QED BY <2>1, <2>2 DEF Picking
<1> QED BY <1>1, <1>3, <1>4 DEF N

LEMMA AmongIs ==
    ASSUME NEW D, NEW s \in Seq(D), NEW S
    PROVE  Remains(D, s, S, Room!Among(s, S), Len(s))
<1> DEFINE N == Len(s)
<1>0. N \in Nat /\ DOMAIN s = 1 .. N OBVIOUS
<1>1. PICK f : /\ f[0] = <<>>
               /\ \A n \in 1 .. N : f[n] = IF s[n] \in S THEN Append(f[n - 1], s[n]) ELSE f[n - 1]
               /\ Room!Among(s, S) = f[N]
  BY AmongSteps
<1> HIDE DEF N
<1> DEFINE G == {n \in 0 .. N : Remains(D, s, S, f[n], n)}
<1>3. 0 \in G
  <2>1. f[0] = <<>> BY <1>1
  <2>2. Remains(D, s, S, <<>>, 0) BY DEF Remains
  <2> QED BY <1>0, <2>1, <2>2
<1>4. ASSUME NEW n \in 1 .. N, n - 1 \in G PROVE n \in G
  <2> DEFINE v == f[n - 1]
             w == f[n]
  <2>1. Remains(D, s, S, v, n - 1) BY <1>4
  <2>2. w = IF s[n] \in S THEN Append(v, s[n]) ELSE v BY <1>1
  <2>3. s[n] \in D /\ n \in Nat /\ n >= 1 BY <1>0
  <2>a. n - 1 \in Nat /\ 1 .. n - 1 \subseteq 1 .. n /\ n \in 1 .. n /\ n \notin 1 .. n - 1 BY <1>0
  <2>b. \A k \in 1 .. n : k # n => k \in 1 .. n - 1 BY <1>0
  <2> HIDE DEF v, w, G
  <2>4. CASE s[n] \notin S
    <3>1. w = v BY <2>2, <2>4
    <3>a. \A k \in 1 .. n : s[k] \in S => k \in 1 .. n - 1 BY <2>4, <2>b
    <3>b. Len(v) <= n BY <2>1, <2>3 DEF Remains
    <3>2. Remains(D, s, S, v, n) BY <2>1, <2>a, <3>a, <3>b DEF Remains
    <3> QED BY <3>1, <3>2 DEF G, w
  <2>5. CASE s[n] \in S
    <3>1. w = Append(v, s[n]) BY <2>2, <2>5
    <3>2. v \in Seq(D) /\ Len(v) \in Nat /\ Len(v) <= n - 1 /\ DOMAIN v = 1 .. Len(v) BY <2>1 DEF Remains
    <3>3. /\ w \in Seq(D) /\ Len(w) = Len(v) + 1 /\ DOMAIN w = 1 .. Len(v) + 1
          /\ w[Len(v) + 1] = s[n] /\ \A j \in DOMAIN v : w[j] = v[j]
      BY <3>1, <3>2, <2>3
    <3>4. ASSUME NEW j \in DOMAIN w PROVE w[j] \in S /\ \E k \in 1 .. n : w[j] = s[k]
      <4>1. CASE j = Len(v) + 1 BY <4>1, <3>3, <2>5, <2>a
      <4>2. CASE j # Len(v) + 1
        <5>1. j \in DOMAIN v BY <4>2, <3>2, <3>3
        <5> QED BY <5>1, <3>3, <2>1, <2>a DEF Remains
      <4> QED BY <4>1, <4>2
    <3>5. ASSUME NEW j \in DOMAIN w, NEW l \in DOMAIN w, j < l
          PROVE  \E k, m \in 1 .. n : k < m /\ w[j] = s[k] /\ w[l] = s[m]
      <4>1. j \in DOMAIN v BY <3>2, <3>3, <3>5
      <4>2. CASE l = Len(v) + 1
        <5>1. PICK k \in 1 .. n - 1 : v[j] = s[k] BY <4>1, <2>1 DEF Remains
        <5>2. k < n /\ k \in 1 .. n BY <1>0, <5>1, <2>a
        <5> QED BY <5>1, <5>2, <4>1, <4>2, <3>3, <2>a
      <4>3. CASE l # Len(v) + 1
        <5>1. l \in DOMAIN v BY <4>3, <3>2, <3>3
        <5>2. PICK k \in 1 .. n - 1, m \in 1 .. n - 1 : k < m /\ v[j] = s[k] /\ v[l] = s[m]
          BY <3>5, <4>1, <5>1, <2>1 DEF Remains
        <5> QED BY <5>1, <5>2, <4>1, <3>3, <2>a
      <4> QED BY <4>2, <4>3
    <3>6. ASSUME NEW k \in 1 .. n, s[k] \in S PROVE \E j \in DOMAIN w : w[j] = s[k]
      <4>1. CASE k = n
        <5>1. Len(v) + 1 \in DOMAIN w BY <3>2, <3>3
        <5> QED BY <5>1, <4>1, <3>3
      <4>2. CASE k # n
        <5>1. PICK j \in DOMAIN v : v[j] = s[k] BY <4>2, <2>b, <3>6, <2>1 DEF Remains
        <5>2. j \in DOMAIN w BY <5>1, <3>2, <3>3
        <5> QED BY <5>1, <5>2, <3>3
      <4> QED BY <4>1, <4>2
    <3>7. Len(w) <= n BY <3>2, <3>3, <2>3
    <3>8. Remains(D, s, S, w, n) BY <3>3, <3>4, <3>5, <3>6, <3>7 DEF Remains
    <3> QED BY <3>8 DEF G, w
  <2> QED BY <2>4, <2>5
<1>5. N \in G
  <2> HIDE DEF G
  <2> QED BY <1>0, <1>3, <1>4, CountUp
<1> QED BY <1>1, <1>5 DEF N

LEMMA AmongNone == \A S : Room!Among(<<>>, S) = <<>>
<1> TAKE S
<1>1. \A s \in Seq({}) : Len(s) = 0 => Room!Among(s, S) = <<>>
  <2> TAKE s \in Seq({})
  <2>1. PICK f : f[0] = <<>> /\ Room!Among(s, S) = f[Len(s)] BY AmongSteps
  <2> QED BY <2>1
<1>2. <<>> \in Seq({}) /\ Len(<<>>) = 0 OBVIOUS
<1> QED BY <1>1, <1>2

(* One element more.                                                       *)
LEMMA AmongMore ==
    ASSUME NEW D, NEW s \in Seq(D), NEW x \in D, NEW S
    PROVE  Room!Among(Append(s, x), S) = IF x \in S THEN Append(Room!Among(s, S), x) ELSE Room!Among(s, S)
<1> DEFINE N == Len(s)
           t == Append(s, x)
<1>0. N \in Nat /\ t \in Seq(D) /\ Len(t) = N + 1 /\ t[N + 1] = x /\ \A k \in 1 .. N : t[k] = s[k] OBVIOUS
<1>1. PICK f : /\ f[0] = <<>>
               /\ \A n \in 1 .. N : f[n] = IF s[n] \in S THEN Append(f[n - 1], s[n]) ELSE f[n - 1]
               /\ Room!Among(s, S) = f[N]
  BY AmongSteps
<1> HIDE DEF t
<1>2. PICK g : /\ g[0] = <<>>
               /\ \A n \in 1 .. Len(t) : g[n] = IF t[n] \in S THEN Append(g[n - 1], t[n]) ELSE g[n - 1]
               /\ Room!Among(t, S) = g[Len(t)]
  <2>1. t \in Seq(D) BY <1>0
  <2> QED BY <2>1, AmongSteps
<1> HIDE DEF N
<1> DEFINE G == {n \in 0 .. N : f[n] = g[n]}
<1>3. 0 \in G BY <1>0, <1>1, <1>2
<1>4. ASSUME NEW n \in 1 .. N, n - 1 \in G PROVE n \in G
  <2>1. n \in 1 .. Len(t) /\ n \in 0 .. N /\ t[n] = s[n] BY <1>0
  <2>2. f[n - 1] = g[n - 1] BY <1>4
  <2> QED BY <1>1, <1>2, <2>1, <2>2
<1>5. N \in G
  <2>1. N \in Nat /\ N \in 0 .. N BY <1>0
  <2> HIDE DEF G
  <2>2. \A n \in 1 .. N : n - 1 \in G => n \in G BY <1>4
  <2>3. \A n \in 0 .. N : n \in G BY <1>3, <2>1, <2>2, CountUp
  <2> QED BY <2>1, <2>3
<1>6. g[N] = Room!Among(s, S) BY <1>1, <1>5
<1>7. Room!Among(t, S) = IF x \in S THEN Append(g[N], x) ELSE g[N]
  <2>1. N + 1 \in 1 .. Len(t) /\ (N + 1) - 1 = N BY <1>0
  <2> QED BY <1>0, <1>2, <2>1
<1> QED BY <1>6, <1>7 DEF t

(* What is taken depends on the elements of the list alone.                *)
LEMMA AmongAlike ==
    ASSUME NEW D, NEW s \in Seq(D), NEW S, NEW T, \A k \in 1 .. Len(s) : s[k] \in S <=> s[k] \in T
    PROVE  Room!Among(s, S) = Room!Among(s, T)
<1> DEFINE N == Len(s)
<1>0. N \in Nat OBVIOUS
<1>1. PICK f : /\ f[0] = <<>>
               /\ \A n \in 1 .. N : f[n] = IF s[n] \in S THEN Append(f[n - 1], s[n]) ELSE f[n - 1]
               /\ Room!Among(s, S) = f[N]
  BY AmongSteps
<1>2. PICK g : /\ g[0] = <<>>
               /\ \A n \in 1 .. N : g[n] = IF s[n] \in T THEN Append(g[n - 1], s[n]) ELSE g[n - 1]
               /\ Room!Among(s, T) = g[N]
  BY AmongSteps
<1> DEFINE G == {n \in 0 .. N : f[n] = g[n]}
<1>3. 0 \in G BY <1>0, <1>1, <1>2
<1>4. ASSUME NEW n \in 1 .. N, n - 1 \in G PROVE n \in G
  <2>1. f[n - 1] = g[n - 1] /\ n \in 0 .. N BY <1>0, <1>4
  <2> QED BY <1>1, <1>2, <2>1
<1>5. N \in G
  <2>1. N \in Nat /\ N \in 0 .. N BY <1>0
  <2> HIDE DEF G, N
  <2>2. \A n \in 1 .. N : n - 1 \in G => n \in G BY <1>4
  <2>3. \A n \in 0 .. N : n \in G BY <1>3, <2>1, <2>2, CountUp
  <2> QED BY <2>1, <2>3
<1> QED BY <1>1, <1>2, <1>5

(* To take some of those taken is to take them at once.                    *)
LEMMA AmongThose ==
    ASSUME NEW D, NEW s \in Seq(D), NEW S, NEW T, \A k \in 1 .. Len(s) : s[k] \in T => s[k] \in S
    PROVE  Room!Among(Room!Among(s, S), T) = Room!Among(s, T)
<1> DEFINE N == Len(s)
<1>0. N \in Nat /\ \A n \in 1 .. N : s[n] \in D OBVIOUS
<1>1. PICK f : /\ f[0] = <<>>
               /\ \A n \in 1 .. N : f[n] = IF s[n] \in S THEN Append(f[n - 1], s[n]) ELSE f[n - 1]
               /\ Room!Among(s, S) = f[N]
  BY AmongSteps
<1>2. PICK g : /\ g[0] = <<>>
               /\ \A n \in 1 .. N : g[n] = IF s[n] \in T THEN Append(g[n - 1], s[n]) ELSE g[n - 1]
               /\ Room!Among(s, T) = g[N]
  BY AmongSteps
<1> DEFINE G == {n \in 0 .. N : f[n] \in Seq(D) /\ Room!Among(f[n], T) = g[n]}
<1>3. 0 \in G
  <2>1. <<>> \in Seq(D) /\ Len(<<>>) = 0 OBVIOUS
  <2>2. Room!Among(<<>>, T) = <<>> BY AmongNone
  <2>3. 0 \in 0 .. N BY <1>0
  <2>4. f[0] \in Seq(D) /\ Room!Among(f[0], T) = g[0] BY <1>1, <1>2, <2>1, <2>2
  <2> HIDE DEF N
  <2> QED BY <2>3, <2>4
<1>4. ASSUME NEW n \in 1 .. N, n - 1 \in G PROVE n \in G
  <2> DEFINE v == f[n - 1]
  <2>1. v \in Seq(D) /\ Room!Among(v, T) = g[n - 1] /\ n \in 0 .. N /\ s[n] \in D BY <1>0, <1>4
  <2>2. f[n] = IF s[n] \in S THEN Append(v, s[n]) ELSE v BY <1>1
  <2>3. g[n] = IF s[n] \in T THEN Append(g[n - 1], s[n]) ELSE g[n - 1] BY <1>2
  <2> HIDE DEF v
  <2>a. \A x \in D : Room!Among(Append(v, x), T) = IF x \in T THEN Append(Room!Among(v, T), x) ELSE Room!Among(v, T)
    <3> HIDE DEF N, G
    <3> TAKE x \in D
    <3> QED BY <2>1, AmongMore
  <2>4. Room!Among(Append(v, s[n]), T) = IF s[n] \in T THEN Append(Room!Among(v, T), s[n]) ELSE Room!Among(v, T)
    BY <2>1, <2>a
  <2>5. Append(v, s[n]) \in Seq(D) BY <2>1
  <2>6. CASE s[n] \in S BY <2>1, <2>2, <2>3, <2>4, <2>5, <2>6
  <2>7. CASE s[n] \notin S
    <3>1. s[n] \notin T BY <2>7
    <3> QED BY <2>1, <2>2, <2>3, <2>7, <3>1
  <2> QED BY <2>6, <2>7
<1>5. N \in G
  <2>1. N \in Nat /\ N \in 0 .. N BY <1>0
  <2> HIDE DEF G, N
  <2>2. \A n \in 1 .. N : n - 1 \in G => n \in G BY <1>4
  <2>3. \A n \in 0 .. N : n \in G BY <1>3, <2>1, <2>2, CountUp
  <2> QED BY <2>1, <2>3
<1> QED BY <1>1, <1>2, <1>5

(* The kits have one Among.                                                *)
LEMMA AmongIsOne == \A s, S : Feed!Among(s, S) = Room!Among(s, S) /\ Assistant!Among(s, S) = Room!Among(s, S)
  BY Zenon DEF Feed!Among, Room!Among, Assistant!Among

(* What is broadcast of a member.                                          *)
News == [action : {"presence_join", "presence_leave"}, member : Scope!Members]

(* The recursion FoldLeft stands for: over sets of indices, from the last. *)
Folded(b, s, it, S) == IF S = {} THEN b ELSE Scope!Shows(it[S \ {Scope!Max(S)}], s[Scope!Max(S)])

(* The last index of a set that contains n.                                *)
LEMMA MaxOfInterval ==
  ASSUME NEW n \in Nat, NEW S \in SUBSET (1 .. n), n \in S
  PROVE  Scope!Max(S) = n
<1>1. n \in S /\ \A y \in S : n >= y OBVIOUS
<1>2. \A x \in S : (\A y \in S : x >= y) => x = n OBVIOUS
<1> QED BY <1>1, <1>2 DEF Scope!Max

(* There is a function that satisfies the recursion.                       *)
LEMMA FoldExists ==
  ASSUME NEW b, NEW s, NEW n \in Nat
  PROVE  \E it : it = [S \in SUBSET (1 .. n) |-> Folded(b, s, it, S)]
<1> DEFINE Upto(m, it) == \A S \in SUBSET (1 .. m) : it[S] = Folded(b, s, it, S)
           T == {m \in Nat : m <= n /\ ~ \E it : Upto(m, it)}
<1>1. 0 \notin T
  <2> DEFINE it == [S \in SUBSET (1 .. 0) |-> b]
  <2>1. \A S \in SUBSET (1 .. 0) : S = {} OBVIOUS
  <2>2. Upto(0, it) BY <2>1 DEF Folded
  <2> QED BY <2>2
<1>2. ASSUME NEW m \in Nat, m + 1 <= n, m \notin T PROVE m + 1 \notin T
  <2>1. PICK it : Upto(m, it) BY <1>2
  <2> DEFINE jt == [S \in SUBSET (1 .. m + 1) |->
                      IF m + 1 \in S THEN Scope!Shows(it[S \ {m + 1}], s[m + 1]) ELSE it[S]]
  <2>2. ASSUME NEW S \in SUBSET (1 .. m + 1) PROVE jt[S] = Folded(b, s, jt, S)
    <3>1. CASE m + 1 \in S
      <4>1. Scope!Max(S) = m + 1 BY <3>1, MaxOfInterval
      <4>2. S \ {m + 1} \in SUBSET (1 .. m + 1) /\ m + 1 \notin S \ {m + 1} OBVIOUS
      <4>3. jt[S \ {m + 1}] = it[S \ {m + 1}] BY <4>2
      <4> QED BY <3>1, <4>1, <4>3 DEF Folded
    <3>2. CASE m + 1 \notin S
      <4>1. S \in SUBSET (1 .. m) BY <3>2
      <4>2. jt[S] = it[S] BY <3>2
      <4>3. S \ {Scope!Max(S)} \in SUBSET (1 .. m + 1) /\ m + 1 \notin S \ {Scope!Max(S)} BY <3>2
      <4>4. jt[S \ {Scope!Max(S)}] = it[S \ {Scope!Max(S)}] BY <4>3
      <4>5. it[S] = Folded(b, s, it, S) BY <2>1, <4>1
      <4> QED BY <4>2, <4>4, <4>5 DEF Folded
    <3> QED BY <3>1, <3>2
  <2> HIDE DEF jt
  <2>3. Upto(m + 1, jt) BY <2>2
  <2> QED BY <2>3
<1>3. T = {}
  <2> SUFFICES ASSUME T # {} PROVE FALSE OBVIOUS
  <2>1. PICK k \in T : \A j \in T : k <= j
    <3>1. T \subseteq Nat OBVIOUS
    <3> HIDE DEF T
    <3> QED BY <3>1, LeastNumber
  <2>2. k \in Nat /\ k <= n OBVIOUS
  <2>3. k # 0 BY <1>1
  <2>4. k - 1 \in Nat /\ (k - 1) + 1 = k /\ (k - 1) + 1 <= n BY <2>2, <2>3
  <2> HIDE DEF T
  <2>5. k - 1 \notin T BY <2>1, <2>4
  <2> QED BY <1>2, <2>4, <2>5
<1>4. PICK it : Upto(n, it)
  <2> HIDE DEF Upto
  <2>1. n \notin T
    <3> HIDE DEF T
    <3> QED BY <1>3
  <2> QED BY <2>1
<1> DEFINE jt == [S \in SUBSET (1 .. n) |-> it[S]]
<1>5. ASSUME NEW S \in SUBSET (1 .. n) PROVE jt[S] = Folded(b, s, jt, S)
  <2>1. S \ {Scope!Max(S)} \in SUBSET (1 .. n) OBVIOUS
  <2>2. jt[S \ {Scope!Max(S)}] = it[S \ {Scope!Max(S)}] /\ jt[S] = it[S] BY <2>1
  <2> QED BY <2>2, <1>4 DEF Folded
<1>6. jt = [S \in SUBSET (1 .. n) |-> jt[S]] OBVIOUS
<1> HIDE DEF jt
<1>7. jt = [S \in SUBSET (1 .. n) |-> Folded(b, s, jt, S)] BY <1>5, <1>6
<1> QED BY <1>7

(* FoldLeft handles the messages one after another.                        *)
LEMMA FoldLeftSteps ==
  ASSUME NEW b, NEW s \in Seq(News)
  PROVE  \E f : /\ f[0] = b
                /\ \A k \in 1 .. Len(s) : f[k] = Scope!Shows(f[k - 1], s[k])
                /\ Scope!FoldLeft(Scope!Shows, b, s) = f[Len(s)]
<1> DEFINE n == Len(s)
           it == CHOOSE it : it = [S \in SUBSET DOMAIN s |-> Folded(b, s, it, S)]
           f == [k \in 0 .. n |-> it[1 .. k]]
<1>0. n \in Nat /\ DOMAIN s = 1 .. n OBVIOUS
<1>1. Scope!FoldLeft(Scope!Shows, b, s) = it[DOMAIN s]
  BY Zenon DEF Scope!FoldLeft, Scope!MapThenFoldSet, Folded
<1>2. it = [S \in SUBSET (1 .. n) |-> Folded(b, s, it, S)] BY <1>0, FoldExists
<1> HIDE DEF it, n
<1>3. Scope!FoldLeft(Scope!Shows, b, s) = f[n] BY <1>0, <1>1
<1>4. f[0] = b
  <2>1. 1 .. 0 = {} /\ f[0] = it[1 .. 0] BY <1>0
  <2> QED BY <2>1, <1>2 DEF Folded
<1>5. ASSUME NEW k \in 1 .. n PROVE f[k] = Scope!Shows(f[k - 1], s[k])
  <2>1. Scope!Max(1 .. k) = k BY <1>0, MaxOfInterval
  <2>2. (1 .. k) \ {k} = 1 .. (k - 1) BY <1>0
  <2>3. (1 .. k) \in SUBSET (1 .. n) /\ 1 .. k # {} BY <1>0
  <2>4. it[1 .. k] = Scope!Shows(it[1 .. (k - 1)], s[k]) BY <1>2, <2>1, <2>2, <2>3 DEF Folded
  <2>5. f[k] = it[1 .. k] /\ f[k - 1] = it[1 .. (k - 1)] BY <1>0
  <2> QED BY <2>4, <2>5
<1> HIDE DEF f
<1> QED BY <1>3, <1>4, <1>5 DEF n

-----------------------------------------------------------------------------

\* What news last said of a member, if anything.
Silent(h, m) == \A k \in DOMAIN h : h[k].member # m
Lastly(h, e) == \E k \in DOMAIN h : h[k] = e /\ \A j \in DOMAIN h : j > k => h[j].member # e.member

(* A roster that is shown the news kept back for it: what the last of      *)
(* it said of a member holds, and of one it is silent about, what held.    *)
LEMMA NewsFold ==
    ASSUME NEW h \in Seq(News), NEW ms \in SUBSET Scope!Members, NEW m
    PROVE  /\ Scope!FoldLeft(Scope!Shows, ms, h) \in SUBSET Scope!Members
           /\ Lastly(h, Scope!Join(m)) => m \in Scope!FoldLeft(Scope!Shows, ms, h)
           /\ Lastly(h, Scope!Leave(m)) => m \notin Scope!FoldLeft(Scope!Shows, ms, h)
           /\ Silent(h, m) => (m \in Scope!FoldLeft(Scope!Shows, ms, h) <=> m \in ms)
<1>1. PICK f : /\ f[0] = ms
               /\ \A k \in 1 .. Len(h) : f[k] = Scope!Shows(f[k - 1], h[k])
               /\ Scope!FoldLeft(Scope!Shows, ms, h) = f[Len(h)]
  BY FoldLeftSteps
<1>2. Len(h) \in Nat /\ DOMAIN h = 1 .. Len(h) /\ \A k \in 1 .. Len(h) : h[k] \in News
  BY ElementOfSeq
<1> DEFINE n == Len(h)
<1> HIDE DEF n
<1>3. f[n] \in SUBSET Scope!Members
  <2> DEFINE G == {k \in 0 .. n : f[k] \in SUBSET Scope!Members}
  <2>1. 0 \in G BY <1>1, <1>2 DEF n
  <2>2. ASSUME NEW k \in 1 .. n, k - 1 \in G PROVE k \in G
    <3>1. h[k] \in News /\ f[k] = Scope!Shows(f[k - 1], h[k]) BY <1>1, <1>2 DEF n
    <3>2. f[k - 1] \in SUBSET Scope!Members BY <2>2
    <3>3. f[k] \in SUBSET Scope!Members BY <3>1, <3>2 DEF Scope!Shows, News
    <3> QED BY <3>3
  <2>3. n \in Nat /\ n \in 0 .. n BY <1>2 DEF n
  <2>4. \A k \in 0 .. n : k \in G
    <3> HIDE DEF G, n
    <3> QED BY <2>1, <2>2, <2>3, CountUp
  <2>5. n \in G BY <2>3, <2>4
  <2> QED BY <2>5
<1>4. ASSUME NEW l \in 1 .. n, \A j \in 1 .. n : j > l => h[j].member # m
      PROVE  m \in f[n] <=> m \in f[l]
  <2> DEFINE G == {k \in 0 .. n : k >= l => (m \in f[k] <=> m \in f[l])}
  <2>1. 0 \in G BY <1>2 DEF n
  <2>2. ASSUME NEW k \in 1 .. n, k - 1 \in G PROVE k \in G
    <3>1. CASE k <= l BY <3>1, <1>2 DEF n
    <3>2. CASE k > l
      <4>1. h[k].member # m /\ f[k] = Scope!Shows(f[k - 1], h[k]) BY <3>2, <1>1, <1>4 DEF n
      <4>2. k - 1 >= l BY <3>2, <1>2 DEF n
      <4> QED BY <4>1, <4>2, <2>2 DEF Scope!Shows
    <3> QED BY <3>1, <3>2, <1>2 DEF n
  <2>3. n \in Nat /\ n \in 0 .. n BY <1>2 DEF n
  <2>4. \A k \in 0 .. n : k \in G
    <3> HIDE DEF G, n
    <3> QED BY <2>1, <2>2, <2>3, CountUp
  <2>5. n \in G BY <2>3, <2>4
  <2> QED BY <2>5, <1>2 DEF n
<1>5. ASSUME Silent(h, m) PROVE m \in f[n] <=> m \in ms
  <2>1. CASE n = 0 BY <2>1, <1>1
  <2>2. CASE n # 0
    <3>1. 1 \in 1 .. n /\ f[1] = Scope!Shows(f[0], h[1]) /\ h[1].member # m
      BY <2>2, <1>1, <1>2, <1>5 DEF Silent, n
    <3>2. m \in f[1] <=> m \in ms BY <3>1, <1>1 DEF Scope!Shows
    <3>3. m \in f[n] <=> m \in f[1] BY <3>1, <1>2, <1>4, <1>5 DEF Silent, n
    <3> QED BY <3>2, <3>3
  <2> QED BY <2>1, <2>2
<1>6. ASSUME NEW e \in {Scope!Join(m), Scope!Leave(m)}, Lastly(h, e)
      PROVE  m \in f[n] <=> e = Scope!Join(m)
  <2>0. e.member = m BY DEF Scope!Join, Scope!Leave
  <2>1. PICK l \in 1 .. n : h[l] = e /\ \A j \in 1 .. n : j > l => h[j].member # m
    BY <1>6, <1>2, <2>0 DEF Lastly, n
  <2>2. m \in f[n] <=> m \in f[l] BY <2>1, <1>4
  <2>3. f[l] = Scope!Shows(f[l - 1], e) BY <2>1, <1>1 DEF n
  <2>4. m \in f[l] <=> e = Scope!Join(m) BY <2>3 DEF Scope!Shows, Scope!Join, Scope!Leave
  <2> QED BY <2>2, <2>4
<1>7. Scope!Join(m) # Scope!Leave(m) BY DEF Scope!Join, Scope!Leave
<1>8. Scope!FoldLeft(Scope!Shows, ms, h) = f[n] BY <1>1 DEF n
<1> QED BY <1>3, <1>5, <1>6, <1>7, <1>8

(* News of one member is the last of that member, and leaves what was      *)
(* last of the others.                                                     *)
LEMMA NewsAppended ==
    ASSUME NEW h \in Seq(News), NEW e \in News, NEW m
    PROVE  /\ Append(h, e) \in Seq(News)
           /\ Lastly(Append(h, e), e)
           /\ e.member # m => /\ Lastly(h, Scope!Join(m)) => Lastly(Append(h, e), Scope!Join(m))
                              /\ Lastly(h, Scope!Leave(m)) => Lastly(Append(h, e), Scope!Leave(m))
                              /\ Silent(h, m) => Silent(Append(h, e), m)
<1> DEFINE a == Append(h, e)
           n == Len(h)
<1>1. /\ a \in Seq(News) /\ n \in Nat
      /\ DOMAIN a = 1 .. n + 1 /\ DOMAIN h = 1 .. n
      /\ a[n + 1] = e /\ \A k \in 1 .. n : a[k] = h[k]
  BY AppendProperties
<1> HIDE DEF a, n
<1>2. Lastly(a, e) BY <1>1 DEF Lastly
<1>3. ASSUME e.member # m, NEW g \in {Scope!Join(m), Scope!Leave(m)}, Lastly(h, g)
  PROVE Lastly(a, g)
  <2>0. g.member = m BY DEF Scope!Join, Scope!Leave
  <2>1. PICK k \in 1 .. n : h[k] = g /\ \A j \in 1 .. n : j > k => h[j].member # m
    BY <1>3, <1>1, <2>0 DEF Lastly
  <2>2. \A j \in 1 .. n + 1 : j > k => a[j].member # m
    BY <2>1, <1>1, <1>3
  <2>3. k \in 1 .. n + 1 /\ a[k] = g BY <2>1, <1>1
  <2> QED BY <2>0, <2>2, <2>3, <1>1 DEF Lastly
<1>4. ASSUME e.member # m, Silent(h, m) PROVE Silent(a, m)
  BY <1>4, <1>1 DEF Silent
<1> QED BY <1>1, <1>2, <1>3, <1>4 DEF a

-----------------------------------------------------------------------------
(* The steps of a connection whose tab keeps news back.                    *)
Joining == {"adding", "added", "reading", "stated"}

(* What the variables hold.                                                *)
ScopeTyped ==
    /\ step \in [Conns -> Scope!Steps] /\ fresh \in [Conns -> BOOLEAN]
    /\ answer \in [Conns -> SUBSET Scope!Members] /\ roster \in [Conns -> SUBSET Scope!Members]
    /\ asking \subseteq Conns /\ hash \subseteq Conns /\ shared \subseteq Scope!Members
    /\ held \in [Conns -> Seq(News)] /\ crossed \in [Conns -> SUBSET Scope!Members]

\* The hash against the steps, and who may be asking or have news held.
Written ==
    /\ \A c \in hash : step[c] \in {"added", "reading", "stated", "in", "leaving"}
    /\ \A c \in Conns : step[c] \in {"added", "reading", "stated", "in"} => c \in hash
    /\ \A c \in asking : step[c] = "in"
    /\ \A c \in Conns : step[c] \notin Joining => held[c] = <<>>

\* Of a member that never had two connections at a time.
Alone ==
    /\ \A c, d \in Conns : c # d /\ Owner[c] = Owner[d] /\ step[c] # "out" /\ step[d] # "out"
                              => Owner[c] \in shared
    /\ \A c \in Conns : step[c] \in Joining \cup {"left"} /\ Owner[c] \notin shared => fresh[c]

\* Announced, and gone without a trace.
Arrived(m) == \E d \in Conns : Owner[d] = m /\ step[d] = "in"
Away(m)    == \A d \in Conns : Owner[d] = m => step[d] = "out"

\* What tab c will show of m once what it has been or will be sent has come.
Knows(c, m) == m \in IF step[c] = "reading" \/ c \in asking THEN answer[c] ELSE roster[c]
Told(c, m) ==
    IF step[c] = "in"
    THEN m \notin crossed[c] => /\ Arrived(m) => Knows(c, m)
                                /\ Away(m) => ~Knows(c, m)
    ELSE /\ Arrived(m) => \/ Lastly(held[c], Scope!Join(m))
                          \/ Silent(held[c], m) /\ (step[c] \in {"reading", "stated"} => Knows(c, m))
         /\ Away(m) => \/ Lastly(held[c], Scope!Leave(m))
                       \/ Silent(held[c], m) /\ (step[c] \in {"reading", "stated"} => ~Knows(c, m))

Views == \A c \in Scope!Group : \A m \in Scope!Members \ shared : Told(c, m)

(* The inductive invariant. Rosters agree only once all is quiet; Views    *)
(* says meanwhile of every tab what it will show when what was or will be  *)
(* sent to it has come.                                                    *)
ScopeInv == ScopeTyped /\ Written /\ Alone /\ Views

(* Nobody has connected.                                                   *)
LEMMA ScopeInit == Scope!Init => ScopeInv
  BY EmptySeq DEF Scope!Init, ScopeInv, ScopeTyped, Written, Alone, Views, Scope!Group, Joining,
       Scope!Steps, Scope!Members

(* Once nothing is under way, what a tab will show is what it shows.       *)
LEMMA ScopeAgrees == ScopeInv => Scope!RostersAgree
<1> SUFFICES ASSUME ScopeInv, Scope!Quiet PROVE
        /\ hash = Scope!Here
        /\ \A c \in Scope!Here : \A m \in Scope!Members \ (shared \cup crossed[c]) : (m \in roster[c]) = (m \in Scope!Present)
  BY DEF Scope!RostersAgree
<1> USE DEF ScopeInv
<1>1. hash = Scope!Here BY DEF Scope!Quiet, Scope!Here, Written, ScopeTyped
<1>2. ASSUME NEW c \in Scope!Here, NEW m \in Scope!Members \ (shared \cup crossed[c])
      PROVE  (m \in roster[c]) = (m \in Scope!Present)
  <2>1. c \in Scope!Group /\ step[c] = "in" /\ c \notin asking
    BY DEF Scope!Here, Scope!Group, Scope!Quiet
  <2>2. Told(c, m) BY <2>1 DEF Views
  <2>3. CASE m \in Scope!Present
    <3>1. Arrived(m) BY <2>3, <1>1 DEF Scope!Present, Arrived, Scope!Here
    <3> QED BY <3>1, <2>1, <2>2, <2>3 DEF Told, Knows
  <2>4. CASE m \notin Scope!Present
    <3>1. Away(m) BY <2>4, <1>1 DEF Scope!Present, Away, Scope!Here, Scope!Quiet
    <3> QED BY <3>1, <2>1, <2>2, <2>4 DEF Told, Knows
  <2> QED BY <2>3, <2>4
<1> QED BY <1>1, <1>2

\* What a step does not change of a tab's view of a member.
LEMMA ToldFrame ==
    ASSUME NEW c \in Scope!Group, NEW m, Told(c, m),
           step'[c] = step[c], held'[c] = held[c], roster'[c] = roster[c], answer'[c] = answer[c],
           (c \in asking)' <=> c \in asking, crossed[c] \subseteq crossed'[c],
           Arrived(m)' => Arrived(m), Away(m)' => Away(m)
    PROVE  Told(c, m)'
<1>1. Lastly(held[c], Scope!Join(m))' <=> Lastly(held[c], Scope!Join(m)) BY DEF Lastly, Scope!Join
<1>2. Lastly(held[c], Scope!Leave(m))' <=> Lastly(held[c], Scope!Leave(m))
  BY DEF Lastly, Scope!Leave
<1>3. Silent(held[c], m)' <=> Silent(held[c], m) BY DEF Silent
<1>4. Knows(c, m)' <=> Knows(c, m) BY DEF Knows
<1> QED BY <1>1, <1>2, <1>3, <1>4 DEF Told

\* A tab that is joining goes on, with what is held back for it.
LEMMA ToldOn ==
    ASSUME NEW c, NEW m, Told(c, m), step[c] # "in", step'[c] # "in", held'[c] = held[c],
           Arrived(m)' => Arrived(m), Away(m)' => Away(m),
           step'[c] \in {"reading", "stated"} =>
               /\ Arrived(m) /\ (step[c] \in {"reading", "stated"} => Knows(c, m)) => Knows(c, m)'
               /\ Away(m) /\ (step[c] \in {"reading", "stated"} => ~Knows(c, m)) => ~Knows(c, m)'
    PROVE  Told(c, m)'
<1>1. Lastly(held[c], Scope!Join(m))' <=> Lastly(held[c], Scope!Join(m)) BY DEF Lastly, Scope!Join
<1>2. Lastly(held[c], Scope!Leave(m))' <=> Lastly(held[c], Scope!Leave(m))
  BY DEF Lastly, Scope!Leave
<1>3. Silent(held[c], m)' <=> Silent(held[c], m) BY DEF Silent
<1> QED BY <1>1, <1>2, <1>3 DEF Told

\* What is broadcast of one member, of another.
LEMMA ToldNews ==
    ASSUME NEW c \in Conns, c \in Scope!Group, NEW m, Told(c, m), NEW e \in News, e.member # m,
           held \in [Conns -> Seq(News)], c \in asking => step[c] = "in",
           step'[c] = step[c], answer'[c] = answer[c], asking' = asking,
           held'[c] = Scope!HeldWith(e)[c], roster'[c] = Scope!RosterWith(e)[c], crossed'[c] =
                Scope!Crossing(e)[c],
           Arrived(m)' => Arrived(m), Away(m)' => Away(m)
    PROVE  Told(c, m)'
<1>1. CASE step[c] = "in"
  <2>1. roster'[c] = Scope!Shows(roster[c], e) /\ crossed[c] \subseteq crossed'[c]
    BY <1>1 DEF Scope!RosterWith, Scope!Crossing
  <2>2. Knows(c, m)' <=> Knows(c, m) BY <2>1, <1>1 DEF Knows, Scope!Shows
  <2> QED BY <2>1, <2>2, <1>1 DEF Told
<1>2. CASE step[c] # "in"
  <2> DEFINE h == held[c]
  <2>1. held'[c] = Append(h, e) /\ roster'[c] = roster[c]
    BY <1>2 DEF Scope!HeldWith, Scope!RosterWith
  <2>2. h \in Seq(News) OBVIOUS
  <2> HIDE DEF h
  <2>3. /\ Lastly(h, Scope!Join(m)) => Lastly(held'[c], Scope!Join(m))
        /\ Lastly(h, Scope!Leave(m)) => Lastly(held'[c], Scope!Leave(m))
        /\ Silent(h, m) => Silent(held'[c], m)
    BY <2>1, <2>2, NewsAppended
  <2>4. Lastly(held[c], Scope!Join(m))' <=> Lastly(held'[c], Scope!Join(m))
    BY DEF Lastly, Scope!Join
  <2>5. Lastly(held[c], Scope!Leave(m))' <=> Lastly(held'[c], Scope!Leave(m))
    BY DEF Lastly, Scope!Leave
  <2>6. Silent(held[c], m)' <=> Silent(held'[c], m) BY DEF Silent
  <2>7. Knows(c, m)' <=> Knows(c, m) BY <2>1 DEF Knows
  <2> QED BY <1>2, <2>3, <2>4, <2>5, <2>6, <2>7 DEF Told, h
<1> QED BY <1>1, <1>2

\* Of the member itself: who is told so, or will be, knows.
LEMMA ToldIt ==
    ASSUME NEW c \in Conns, c \in Scope!Group, NEW m \in Scope!Members,
           NEW e \in {Scope!Join(m), Scope!Leave(m)},
           held \in [Conns -> Seq(News)], crossed \in [Conns -> SUBSET Scope!Members],
           c \in asking => step[c] = "in",
           step'[c] = step[c], answer'[c] = answer[c], asking' = asking,
           held'[c] = Scope!HeldWith(e)[c], roster'[c] = Scope!RosterWith(e)[c], crossed'[c] =
                Scope!Crossing(e)[c],
           e = Scope!Join(m) => ~Away(m)', e = Scope!Leave(m) => ~Arrived(m)'
    PROVE  Told(c, m)'
<1>0. e \in News /\ e.member = m /\ Scope!Join(m) # Scope!Leave(m)
  BY DEF News, Scope!Join, Scope!Leave
<1>1. CASE step[c] = "in" /\ c \in asking
  BY <1>0, <1>1 DEF Scope!Crossing, Told
<1>2. CASE step[c] = "in" /\ c \notin asking
  <2>1. roster'[c] = Scope!Shows(roster[c], e) BY <1>2 DEF Scope!RosterWith
  <2>2. Knows(c, m)' <=> m \in Scope!Shows(roster[c], e) BY <2>1, <1>2 DEF Knows
  <2>3. m \in Scope!Shows(roster[c], e) <=> e = Scope!Join(m)
    BY DEF Scope!Shows, Scope!Join, Scope!Leave
  <2> QED BY <2>2, <2>3, <1>0, <1>2 DEF Told
<1>3. CASE step[c] # "in"
  <2> DEFINE h == held[c]
  <2>1. held'[c] = Append(h, e) BY <1>3 DEF Scope!HeldWith
  <2>2. h \in Seq(News) OBVIOUS
  <2> HIDE DEF h
  <2>3. Lastly(held'[c], e) BY <2>1, <2>2, <1>0, NewsAppended
  <2>4. Lastly(held[c], Scope!Join(m))' <=> Lastly(held'[c], Scope!Join(m))
    BY DEF Lastly, Scope!Join
  <2>5. Lastly(held[c], Scope!Leave(m))' <=> Lastly(held'[c], Scope!Leave(m))
    BY DEF Lastly, Scope!Leave
  <2> QED BY <1>0, <1>3, <2>3, <2>4, <2>5 DEF Told
<1> QED BY <1>1, <1>2, <1>3

\* A tab that has its roster, and then the news kept back for it.
LEMMA ToldAll ==
    ASSUME NEW c \in Conns, NEW m \in Scope!Members, NEW h \in Seq(News), NEW ms \in SUBSET
         Scope!Members,
           step'[c] = "in", c \notin asking', roster'[c] = Scope!FoldLeft(Scope!Shows, ms, h),
           Arrived(m)' => Lastly(h, Scope!Join(m)) \/ (Silent(h, m) /\ m \in ms),
           Away(m)' => Lastly(h, Scope!Leave(m)) \/ (Silent(h, m) /\ m \notin ms)
    PROVE  Told(c, m)'
<1>1. Knows(c, m)' <=> m \in Scope!FoldLeft(Scope!Shows, ms, h) BY DEF Knows
<1> QED BY <1>1, NewsFold DEF Told

\* Members and the broadcasts about them.
LEMMA OfConns ==
    ASSUME ScopeTyped, NEW a \in Conns
    PROVE  /\ Owner[a] \in Scope!Members /\ Scope!Present \in SUBSET Scope!Members
           /\ Scope!Join(Owner[a]) \in News /\ Scope!Leave(Owner[a]) \in News
           /\ Scope!Join(Owner[a]).member = Owner[a] /\ Scope!Leave(Owner[a]).member = Owner[a]
  BY DEF ScopeTyped, Scope!Members, Scope!Present, News, Scope!Join, Scope!Leave

\* Whom the store finds: who has arrived, and nobody that is away.
LEMMA PresentIs ==
    ASSUME ScopeTyped, Written, NEW m \in Scope!Members
    PROVE  (Arrived(m) => m \in Scope!Present) /\ (Away(m) => m \notin Scope!Present)
  BY DEF ScopeTyped, Written, Arrived, Away, Scope!Present

(* What the tabs hold after a broadcast is what they may hold.             *)
LEMMA BroadcastTyped ==
    ASSUME ScopeTyped, NEW e \in News
   
      PROVE  /\ Scope!HeldWith(e) \in [Conns -> Seq(News)] /\ Scope!RosterWith(e) \in [Conns -> SUBSET Scope!Members]
           /\ Scope!Crossing(e) \in [Conns -> SUBSET Scope!Members]
<1>1. \A c \in Conns : Append(held[c], e) \in Seq(News) BY AppendProperties DEF ScopeTyped
<1>2. \A c \in Conns : Scope!Shows(roster[c], e) \in SUBSET Scope!Members
  BY DEF ScopeTyped, Scope!Shows, News
<1>3. \A c \in Conns : crossed[c] \cup {e.member} \in SUBSET Scope!Members BY DEF ScopeTyped, News
<1> QED BY <1>1, <1>2, <1>3 DEF ScopeTyped, Scope!HeldWith, Scope!RosterWith, Scope!Crossing

(* One lemma for each step of a connection. It joins: it is silent about   *)
(* everybody.                                                              *)
LEMMA SubscribeKeeps == ASSUME ScopeInv, NEW a \in Conns, Scope!Subscribe(a) PROVE ScopeInv'
<1> USE DEF ScopeInv, Scope!Subscribe
<1>1. ScopeTyped' BY OfConns DEF ScopeTyped, Scope!Steps
<1>2. Written' BY DEF Written, ScopeTyped, Joining
<1>3. Alone'
  <2>1. ASSUME NEW c \in Conns, NEW d \in Conns, c # d, Owner[c] = Owner[d], step'[c] # "out",
       step'[d] # "out"
        PROVE  Owner[c] \in shared'
    BY <2>1 DEF Alone, ScopeTyped
  <2>2. ASSUME NEW c \in Conns, step'[c] \in Joining \cup {"left"}, Owner[c] \notin shared'
    PROVE fresh'[c]
    <3>1. CASE c # a BY <2>2, <3>1 DEF Alone, ScopeTyped
    <3>2. CASE c = a
      <4>1. \A d \in Conns : Owner[d] = Owner[a] => step[d] = "out" BY <2>2, <3>2
      <4>2. Owner[a] \notin Scope!Present BY <4>1 DEF Scope!Present, Written, ScopeTyped
      <4> QED BY <4>2, <3>2 DEF ScopeTyped
    <3> QED BY <3>1, <3>2
  <2> QED BY <2>1, <2>2 DEF Alone
<1>4. Views'
  <2> SUFFICES ASSUME NEW c \in Conns, c \in Scope!Group', NEW m \in Scope!Members, m \notin shared'
    PROVE Told(c, m)'
    BY DEF Views, Scope!Group
  <2>0. Arrived(m)' => Arrived(m) BY DEF Arrived, ScopeTyped
  <2>1. Away(m)' => Away(m) BY DEF Away, ScopeTyped
  <2>2. CASE c # a
    <3>1. c \in Scope!Group /\ m \notin shared BY <2>2 DEF Scope!Group, ScopeTyped
    <3>2. Told(c, m) BY <3>1 DEF Views
    <3>3. crossed[c] \subseteq crossed'[c] BY <2>2 DEF ScopeTyped
    <3> QED BY <2>0, <2>1, <2>2, <3>1, <3>2, <3>3, ToldFrame DEF ScopeTyped
  <2>3. CASE c = a
    <3>1. held'[c] = <<>> /\ step'[c] = "adding" BY <2>3 DEF Written, ScopeTyped, Joining
    <3>2. Silent(held[c], m)' BY <3>1, EmptySeq DEF Silent
    <3> QED BY <3>1, <3>2 DEF Told
  <2> QED BY <2>2, <2>3
<1> QED BY <1>1, <1>2, <1>3, <1>4

(* The store has it: its tab is told nothing yet.                          *)
LEMMA AddKeeps == ASSUME ScopeInv, NEW a \in Conns, Scope!Add(a) PROVE ScopeInv'
<1> USE DEF ScopeInv, Scope!Add
<1>1. ScopeTyped' BY DEF ScopeTyped, Scope!Steps
<1>2. Written' BY DEF Written, ScopeTyped, Joining
<1>3. Alone' BY DEF Alone, ScopeTyped, Joining
<1>4. Views'
  <2> SUFFICES ASSUME NEW c \in Conns, c \in Scope!Group', NEW m \in Scope!Members, m \notin shared'
    PROVE Told(c, m)'
    BY DEF Views, Scope!Group
  <2>0. Arrived(m)' => Arrived(m) BY DEF Arrived, ScopeTyped
  <2>1. Away(m)' => Away(m) BY DEF Away, ScopeTyped
  <2>2. c \in Scope!Group /\ Told(c, m) BY DEF Scope!Group, Views, ScopeTyped
  <2>3. CASE c # a BY <2>0, <2>1, <2>2, <2>3, ToldFrame DEF ScopeTyped
  <2>4. CASE c = a
    <3>1. step'[c] = "added" /\ step[c] = "adding" /\ held' = held BY <2>4 DEF ScopeTyped
    <3> QED BY <2>0, <2>1, <2>2, <3>1, ToldOn
  <2> QED BY <2>3, <2>4
<1> QED BY <1>1, <1>2, <1>3, <1>4

(* It reads the members: what it will show is what the store has.          *)
LEMMA ReadMembersKeeps == ASSUME ScopeInv, NEW a \in Conns, Scope!ReadMembers(a) PROVE ScopeInv'
<1> USE DEF ScopeInv, Scope!ReadMembers
<1>1. ScopeTyped' BY OfConns DEF ScopeTyped, Scope!Steps
<1>2. Written' BY DEF Written, ScopeTyped, Joining
<1>3. Alone' BY DEF Alone, ScopeTyped, Joining
<1>4. Views'
  <2> SUFFICES ASSUME NEW c \in Conns, c \in Scope!Group', NEW m \in Scope!Members, m \notin shared'
    PROVE Told(c, m)'
    BY DEF Views, Scope!Group
  <2>0. Arrived(m)' => Arrived(m) BY DEF Arrived, ScopeTyped
  <2>1. Away(m)' => Away(m) BY DEF Away, ScopeTyped
  <2>2. c \in Scope!Group /\ Told(c, m) BY DEF Scope!Group, Views, ScopeTyped
  <2>3. CASE c # a BY <2>0, <2>1, <2>2, <2>3, ToldFrame DEF ScopeTyped
  <2>4. CASE c = a
    <3>1. step'[c] = "reading" /\ step[c] = "added" /\ held' = held BY <2>4 DEF ScopeTyped
    <3>2. Knows(c, m)' <=> m \in Scope!Present BY <2>4, <3>1 DEF Knows, ScopeTyped
    <3> QED BY <2>0, <2>1, <2>2, <3>1, <3>2, PresentIs, ToldOn
  <2> QED BY <2>3, <2>4
<1> QED BY <1>1, <1>2, <1>3, <1>4

(* It is sent them; if it is not the first of its member, it is done, and  *)
(* shown what was kept back.                                               *)
LEMMA SendStateKeeps == ASSUME ScopeInv, NEW a \in Conns, Scope!SendState(a) PROVE ScopeInv'
<1> USE DEF ScopeInv, Scope!SendState
<1>0. step[a] = "reading" /\ a \notin asking /\ held[a] \in Seq(News) /\ answer[a] \in SUBSET Scope!Members
  BY DEF ScopeTyped, Written
<1>1. CASE fresh[a]
  <2>1. ScopeTyped' BY <1>1 DEF ScopeTyped, Scope!Steps
  <2>2. Written' BY <1>1 DEF Written, ScopeTyped, Joining
  <2>3. Alone' BY <1>1 DEF Alone, ScopeTyped, Joining
  <2>4. Views'
    <3> SUFFICES ASSUME NEW c \in Conns, c \in Scope!Group', NEW m \in Scope!Members, m \notin shared'
      PROVE Told(c, m)'
      BY DEF Views, Scope!Group
    <3>0. Arrived(m)' => Arrived(m) BY <1>1 DEF Arrived, ScopeTyped
    <3>1. Away(m)' => Away(m) BY <1>1 DEF Away, ScopeTyped
    <3>2. c \in Scope!Group /\ Told(c, m) BY <1>1 DEF Scope!Group, Views, ScopeTyped
    <3>3. CASE c # a BY <1>1, <3>0, <3>1, <3>2, <3>3, ToldFrame DEF ScopeTyped
    <3>4. CASE c = a
      <4>1. step'[c] = "stated" /\ held' = held BY <1>1, <3>4 DEF ScopeTyped
      <4>2. Knows(c, m)' <=> Knows(c, m) BY <1>0, <1>1, <3>4, <4>1 DEF Knows, ScopeTyped
      <4> QED BY <1>0, <3>0, <3>1, <3>2, <3>4, <4>1, <4>2, ToldOn
    <3> QED BY <3>3, <3>4
  <2> QED BY <2>1, <2>2, <2>3, <2>4
<1>2. CASE ~fresh[a]
  <2>0. /\ Owner[a] \in shared
        /\ step' = [step EXCEPT ![a] = "in"] /\ held' = [held EXCEPT ![a] = <<>>]
        /\ roster' = [roster EXCEPT ![a] = Scope!FoldLeft(Scope!Shows, answer[a], held[a])]
        /\ UNCHANGED <<fresh, hash, visits, shared, crossed, asking>>
        /\ answer' = [answer EXCEPT ![a] = {}]
    <3>1. Owner[a] \in shared BY <1>0, <1>2 DEF Alone, Joining
    <3>2. [roster EXCEPT ![a] = answer[a]][a] = answer[a] BY DEF ScopeTyped
    <3>3. [[roster EXCEPT ![a] = answer[a]] EXCEPT ![a] = Scope!FoldLeft(Scope!Shows, answer[a],
         held[a])]
            = [roster EXCEPT ![a] = Scope!FoldLeft(Scope!Shows, answer[a], held[a])]
      BY DEF ScopeTyped
    <3> QED BY <1>2, <3>1, <3>2, <3>3 DEF Scope!Done
  <2>1. ScopeTyped'
    <3>1. Scope!FoldLeft(Scope!Shows, answer[a], held[a]) \in SUBSET Scope!Members BY <1>0, NewsFold
    <3>2. <<>> \in Seq(News) BY EmptySeq
    <3> QED BY <2>0, <3>1, <3>2 DEF ScopeTyped, Scope!Steps
  <2>2. Written' BY <1>0, <2>0 DEF Written, ScopeTyped, Joining
  <2>3. Alone' BY <1>0, <2>0 DEF Alone, ScopeTyped, Joining
  <2>4. Views'
    <3> SUFFICES ASSUME NEW c \in Conns, c \in Scope!Group', NEW m \in Scope!Members, m \notin shared'
      PROVE Told(c, m)'
      BY DEF Views, Scope!Group
    <3>m. m # Owner[a] /\ m \notin shared BY <2>0
    <3>0. Arrived(m)' => Arrived(m) BY <2>0, <3>m DEF Arrived, ScopeTyped
    <3>1. Away(m)' => Away(m) BY <2>0, <3>m DEF Away, ScopeTyped
    <3>2. c \in Scope!Group /\ Told(c, m) BY <1>0, <2>0, <3>m DEF Scope!Group, Views, ScopeTyped
    <3>3. CASE c # a BY <2>0, <3>0, <3>1, <3>2, <3>3, ToldFrame DEF ScopeTyped
    <3>4. CASE c = a
      <4>1. step'[a] = "in" /\ a \notin asking' /\ roster'[a] = Scope!FoldLeft(Scope!Shows, answer[a], held[a])
        BY <1>0, <2>0 DEF ScopeTyped
      <4>2. /\ Arrived(m)' => Lastly(held[a], Scope!Join(m)) \/ (Silent(held[a], m) /\ m \in answer[a])
            /\ Away(m)' => Lastly(held[a], Scope!Leave(m)) \/ (Silent(held[a], m) /\ m \notin answer[a])
        BY <1>0, <3>0, <3>1, <3>2, <3>4 DEF Told, Knows
      <4> QED BY <1>0, <3>4, <4>1, <4>2, ToldAll
    <3> QED BY <3>3, <3>4
  <2> QED BY <2>1, <2>2, <2>3, <2>4
<1> QED BY <1>1, <1>2

(* Its member is announced, to it last.                                    *)
LEMMA AnnounceJoinKeeps == ASSUME ScopeInv, NEW a \in Conns, Scope!AnnounceJoin(a) PROVE ScopeInv'
<1> USE DEF ScopeInv
<1> DEFINE e == Scope!Join(Owner[a])
           h == Append(held[a], e)
<1>0. /\ step[a] = "stated" /\ a \notin asking /\ a \in Scope!Group /\ held[a] \in Seq(News)
      /\ roster[a] \in SUBSET Scope!Members
  BY DEF Scope!AnnounceJoin, ScopeTyped, Written, Scope!Group
<1>1. e \in News /\ e.member = Owner[a] /\ Owner[a] \in Scope!Members BY OfConns
<1>2. /\ Scope!HeldWith(e) \in [Conns -> Seq(News)] /\ Scope!RosterWith(e) \in [Conns -> SUBSET Scope!Members]
      /\ Scope!Crossing(e) \in [Conns -> SUBSET Scope!Members]
  BY <1>1, BroadcastTyped
<1>3. Scope!HeldWith(e)[a] = h /\ Scope!RosterWith(e)[a] = roster[a]
  BY <1>0 DEF Scope!HeldWith, Scope!RosterWith
<1>4. h \in Seq(News) /\ Lastly(h, e) BY <1>0, <1>1, NewsAppended
<1>5. /\ step' = [step EXCEPT ![a] = "in"] /\ fresh' = [fresh EXCEPT ![a] = FALSE]
      /\ held' = [Scope!HeldWith(e) EXCEPT ![a] = <<>>]
      /\ roster' = [Scope!RosterWith(e) EXCEPT ![a] = Scope!FoldLeft(Scope!Shows, roster[a], h)]
      /\ crossed' = Scope!Crossing(e)
      /\ UNCHANGED <<answer, asking, hash, visits, shared>>
  BY <1>3 DEF Scope!AnnounceJoin, Scope!Done
<1> HIDE DEF e, h
<1>6. Scope!FoldLeft(Scope!Shows, roster[a], h) \in SUBSET Scope!Members BY <1>0, <1>4, NewsFold
<1>7. ScopeTyped'
  <2>1. <<>> \in Seq(News) BY EmptySeq
  <2> QED BY <1>2, <1>5, <1>6, <2>1 DEF ScopeTyped, Scope!Steps
<1>8. Written'
  <2>1. \A c \in Conns : step'[c] \notin Joining => held'[c] = <<>>
    BY <1>0, <1>2, <1>5 DEF Written, ScopeTyped, Joining, Scope!HeldWith, Scope!Group, Scope!Steps
  <2> QED BY <2>1, <1>0, <1>5 DEF Written, ScopeTyped, Joining
<1>9. Alone' BY <1>0, <1>5 DEF Alone, ScopeTyped, Joining
<1>10. Views'
  <2> SUFFICES ASSUME NEW c \in Conns, c \in Scope!Group', NEW m \in Scope!Members, m \notin shared'
    PROVE Told(c, m)'
    BY DEF Views, Scope!Group
  <2>0. ~Away(Owner[a])' BY <1>5 DEF Away, ScopeTyped
  <2>1. m # Owner[a] => (Arrived(m)' => Arrived(m)) /\ (Away(m)' => Away(m))
    BY <1>5 DEF Arrived, Away, ScopeTyped
  <2>2. c \in Scope!Group /\ Told(c, m) BY <1>0, <1>5 DEF Scope!Group, Views, ScopeTyped
  <2>3. CASE c # a
    <3>1. /\ step'[c] = step[c] /\ answer'[c] = answer[c] /\ asking' = asking
          /\ held'[c] = Scope!HeldWith(e)[c] /\ roster'[c] = Scope!RosterWith(e)[c] /\ crossed' = Scope!Crossing(e)
          /\ (c \in asking => step[c] = "in")
      BY <1>2, <1>5, <2>3 DEF ScopeTyped, Written
    <3>2. CASE m # Owner[a]
      BY <1>1, <2>1, <2>2, <3>1, <3>2, ToldNews DEF ScopeTyped
    <3>3. CASE m = Owner[a]
      BY <2>0, <2>2, <3>1, <3>3, ToldIt DEF ScopeTyped, e, Scope!Join, Scope!Leave
    <3> QED BY <3>2, <3>3
  <2>4. CASE c = a
    <3>1. step'[a] = "in" /\ a \notin asking' /\ roster'[a] = Scope!FoldLeft(Scope!Shows, roster[a], h)
      BY <1>0, <1>2, <1>5 DEF ScopeTyped
    <3>2. /\ Arrived(m)' => Lastly(h, Scope!Join(m)) \/ (Silent(h, m) /\ m \in roster[a])
          /\ Away(m)' => Lastly(h, Scope!Leave(m)) \/ (Silent(h, m) /\ m \notin roster[a])
      <4>1. CASE m = Owner[a] BY <4>1, <1>4, <2>0 DEF e
      <4>2. CASE m # Owner[a]
        <5>1. /\ Arrived(m) => Lastly(held[a], Scope!Join(m)) \/ (Silent(held[a], m) /\ m \in roster[a])
              /\ Away(m) => Lastly(held[a], Scope!Leave(m)) \/ (Silent(held[a], m) /\ m \notin roster[a])
          BY <1>0, <2>2, <2>4 DEF Told, Knows
        <5>2. /\ Lastly(held[a], Scope!Join(m)) => Lastly(h, Scope!Join(m))
              /\ Lastly(held[a], Scope!Leave(m)) => Lastly(h, Scope!Leave(m))
              /\ Silent(held[a], m) => Silent(h, m)
          BY <1>0, <1>1, <4>2, NewsAppended DEF h
        <5> QED BY <5>1, <5>2, <2>1, <4>2
      <4> QED BY <4>1, <4>2
    <3> QED BY <1>0, <1>4, <2>4, <3>1, <3>2, ToldAll
  <2> QED BY <2>3, <2>4
<1> QED BY <1>7, <1>8, <1>9, <1>10

(* It asks for the roster again and is answered.                           *)
LEMMA AskingKeeps ==
    ASSUME ScopeInv, NEW a \in Conns, Scope!Request(a) \/ Scope!AnswerRequest(a)
    PROVE  ScopeInv'
<1> USE DEF ScopeInv, Scope!Request, Scope!AnswerRequest
<1>1. ScopeTyped' BY OfConns DEF ScopeTyped, Scope!Steps
<1>2. Written' BY DEF Written, ScopeTyped, Joining
<1>3. Alone' BY DEF Alone, ScopeTyped, Joining
<1>4. Views'
  <2> SUFFICES ASSUME NEW c \in Conns, c \in Scope!Group', NEW m \in Scope!Members, m \notin shared'
    PROVE Told(c, m)'
    BY DEF Views, Scope!Group
  <2>0. Arrived(m)' <=> Arrived(m) BY DEF Arrived
  <2>1. Away(m)' <=> Away(m) BY DEF Away
  <2>2. c \in Scope!Group /\ Told(c, m) BY DEF Scope!Group, Views
  <2>3. CASE c # a BY <2>0, <2>1, <2>2, <2>3, ToldFrame DEF ScopeTyped
  <2>4. CASE c = a /\ Scope!Request(a)
    <3>1. step'[c] = "in" /\ (Knows(c, m)' <=> m \in Scope!Present) BY <2>4 DEF Knows, ScopeTyped
    <3> QED BY <2>0, <2>1, <3>1, PresentIs DEF Told
  <2>5. CASE c = a /\ Scope!AnswerRequest(a)
    <3>1. step'[c] = "in" /\ step[c] = "in" /\ crossed' = crossed BY <2>5 DEF Written
    <3>2. Knows(c, m)' <=> Knows(c, m) BY <2>5, <3>1 DEF Knows, ScopeTyped
    <3> QED BY <2>0, <2>1, <2>2, <3>1, <3>2 DEF Told
  <2> QED BY <2>3, <2>4, <2>5
<1> QED BY <1>1, <1>2, <1>3, <1>4

(* It leaves the group and the store: nobody is told.                      *)
LEMMA LeavingKeeps ==
    ASSUME ScopeInv, NEW a \in Conns, Scope!Unsubscribe(a) \/ Scope!Discard(a) \/ Scope!ReadRemaining(a)
      PROVE ScopeInv'
<1> USE DEF ScopeInv, Scope!Unsubscribe, Scope!Discard, Scope!ReadRemaining
<1>1. ScopeTyped' BY OfConns DEF ScopeTyped, Scope!Steps
<1>2. Written' BY DEF Written, ScopeTyped, Joining
<1>3. Alone'
  <2>1. ASSUME NEW c \in Conns, NEW d \in Conns, c # d, Owner[c] = Owner[d], step'[c] # "out",
       step'[d] # "out"
        PROVE  Owner[c] \in shared'
    BY <2>1 DEF Alone, ScopeTyped
  <2>2. ASSUME NEW c \in Conns, step'[c] \in Joining \cup {"left"}, Owner[c] \notin shared'
    PROVE fresh'[c]
    <3>1. CASE c # a \/ ~Scope!ReadRemaining(a) BY <2>2, <3>1 DEF Alone, ScopeTyped, Joining
    <3>2. CASE c = a /\ Scope!ReadRemaining(a)
      <4>1. \A d \in Conns : d # a /\ Owner[d] = Owner[a] => step[d] = "out" BY <2>2, <3>2 DEF Alone
      <4>2. Owner[a] \notin Scope!Present BY <3>2, <4>1 DEF Scope!Present, Written, ScopeTyped
      <4> QED BY <4>2, <3>2 DEF ScopeTyped
    <3> QED BY <3>1, <3>2
  <2> QED BY <2>1, <2>2 DEF Alone
<1>4. Views'
  <2> SUFFICES ASSUME NEW c \in Conns, c \in Scope!Group', NEW m \in Scope!Members, m \notin shared'
    PROVE Told(c, m)'
    BY DEF Views, Scope!Group
  <2>0. Arrived(m)' => Arrived(m) BY DEF Arrived, ScopeTyped
  <2>1. Away(m)' => Away(m) BY DEF Away, ScopeTyped
  <2>2. c # a /\ c \in Scope!Group /\ Told(c, m) BY DEF Scope!Group, Views, ScopeTyped
  <2> QED BY <2>0, <2>1, <2>2, ToldFrame DEF ScopeTyped
<1> QED BY <1>1, <1>2, <1>3, <1>4

(* Its member is announced to have left.                                   *)
LEMMA AnnounceLeaveKeeps == ASSUME ScopeInv, NEW a \in Conns, Scope!AnnounceLeave(a) PROVE ScopeInv'
<1> USE DEF ScopeInv
<1> DEFINE e == Scope!Leave(Owner[a])
<1>1. e \in News /\ e.member = Owner[a] /\ Owner[a] \in Scope!Members BY OfConns
<1>2. /\ Scope!HeldWith(e) \in [Conns -> Seq(News)] /\ Scope!RosterWith(e) \in [Conns -> SUBSET Scope!Members]
      /\ Scope!Crossing(e) \in [Conns -> SUBSET Scope!Members]
  BY <1>1, BroadcastTyped
<1>3. /\ step[a] = "left" /\ step' = [step EXCEPT ![a] = "out"] /\ fresh' = [fresh EXCEPT ![a] = FALSE]
      /\ \/ ~fresh[a] /\ UNCHANGED <<held, roster, crossed>>
         \/ fresh[a] /\ held' = Scope!HeldWith(e) /\ roster' = Scope!RosterWith(e) /\ crossed' = Scope!Crossing(e)
      /\ UNCHANGED <<answer, asking, hash, visits, shared>>
  BY DEF Scope!AnnounceLeave
<1> HIDE DEF e
<1>4. ScopeTyped' BY <1>2, <1>3 DEF ScopeTyped, Scope!Steps
<1>5. Written'
  <2>1. \A c \in Conns : step'[c] \notin Joining => held'[c] = <<>>
    BY <1>3 DEF Written, ScopeTyped, Joining, Scope!HeldWith, Scope!Group, Scope!Steps
  <2> QED BY <2>1, <1>3 DEF Written, ScopeTyped, Joining
<1>6. Alone' BY <1>3 DEF Alone, ScopeTyped, Joining
<1>7. Views'
  <2> SUFFICES ASSUME NEW c \in Conns, c \in Scope!Group', NEW m \in Scope!Members, m \notin shared'
    PROVE Told(c, m)'
    BY DEF Views, Scope!Group
  <2>0. Arrived(m)' => Arrived(m) BY <1>3 DEF Arrived, ScopeTyped
  <2>1. m # Owner[a] => (Away(m)' => Away(m)) BY <1>3 DEF Away, ScopeTyped
  <2>2. c # a /\ c \in Scope!Group /\ m \notin shared /\ Told(c, m)
    BY <1>3 DEF Scope!Group, Views, ScopeTyped
  <2>3. /\ step'[c] = step[c] /\ answer'[c] = answer[c] /\ asking' = asking
        /\ (c \in asking => step[c] = "in")
    BY <1>3, <2>2 DEF ScopeTyped, Written
  <2>4. CASE m = Owner[a]
    <3>1. fresh[a] BY <1>3, <2>2, <2>4 DEF Alone
    <3>2. ~Arrived(m)'
      BY <1>3, <2>2, <2>4 DEF Alone, Arrived, ScopeTyped
    <3> QED BY <1>3, <2>2, <2>3, <2>4, <3>1, <3>2, ToldIt DEF ScopeTyped, e, Scope!Join, Scope!Leave
  <2>5. CASE m # Owner[a] /\ fresh[a]
    BY <1>1, <1>3, <2>0, <2>1, <2>2, <2>3, <2>5, ToldNews DEF ScopeTyped
  <2>6. CASE m # Owner[a] /\ ~fresh[a]
    BY <1>3, <2>0, <2>1, <2>2, <2>3, <2>6, ToldFrame
  <2> QED BY <2>4, <2>5, <2>6
<1> QED BY <1>4, <1>5, <1>6, <1>7

(* Every step keeps the invariant.                                         *)
LEMMA ScopeStep == ScopeInv /\ [Scope!Next]_Scope!vars => ScopeInv'
<1> SUFFICES ASSUME ScopeInv, [Scope!Next]_Scope!vars PROVE ScopeInv' OBVIOUS
<1>1. CASE UNCHANGED Scope!vars
  <2>1. (\A c, m : Told(c, m)' <=> Told(c, m)) /\ Scope!Group' = Scope!Group
    BY <1>1 DEF Scope!vars, Scope!Group, Told, Knows, Arrived, Away, Silent, Lastly, Scope!Join,
         Scope!Leave
  <2> QED BY <1>1, <2>1 DEF Scope!vars, ScopeInv, ScopeTyped, Written, Alone, Views
<1>2. CASE Scope!Next
  BY <1>2, SubscribeKeeps, AddKeeps, ReadMembersKeeps, SendStateKeeps, AnnounceJoinKeeps,
       AskingKeeps,
     LeavingKeeps, AnnounceLeaveKeeps DEF Scope!Next
<1> QED BY <1>1, <1>2

(* The roster: where nobody has two connections, the tabs agree on who is  *)
(* present once every broadcast is delivered.                              *)
THEOREM RostersStayTrue == Spec => []RostersAgree
<1>1. Init => ScopeInv
  BY ScopeInit DEF Init
<1>2. [Next]_vars => [Scope!Next]_(Scope!vars)
  <2>1. UNCHANGED presence => UNCHANGED Scope!vars
    BY DEF presence, Scope!vars
  <2> QED
    BY <2>1 DEF Next, vars, AssistantPanel, SpeechPanel, RecorderOfVoicePanel, CaptionsOfVoicePanel,
                ChatOfRoomPanel, NotificationPanel, RosterOfRoomPanel, AgentPanel
<1>3. ScopeInv /\ [Next]_vars => ScopeInv'
  BY <1>2, ScopeStep
<1>4. ScopeInv => RostersAgree
  BY ScopeAgrees DEF RostersAgree
<1> QED BY <1>1, <1>3, <1>4, PTL DEF Spec

-----------------------------------------------------------------------------
(* The finals that are published, and the utterances that are shown.       *)
Finals == [action : {"transcript_final"}, id : Nat \ {0}, text : Words, ms : Nat]
Shown == [id : Nat \ {0}, finals : Seq(Words), partial : Words \cup {""}, done : BOOLEAN, endMs : Nat]

\* Every utterance shown once, and no more than the limit.
Listed(us) ==
    /\ us \in Seq(Shown) /\ Len(us) <= Limit
    /\ \A j, k \in DOMAIN us : us[j].id = us[k].id => j = k

(* What the variables hold.                                                *)
CaptionsTyped ==
    /\ stream \in {"open", "closed"} /\ tied \in BOOLEAN
    /\ ids \in Nat /\ current \in 0 .. ids /\ settled \in Nat /\ reached \in Nat
    /\ captions.utterances \in Seq(Shown)
    /\ captions = [utterances |-> captions.utterances, speaking |-> captions.speaking]
    /\ Listed(captions.utterances)
    /\ \A k \in DOMAIN captions.utterances : captions.utterances[k].id <= ids
    /\ last \in Finals \cup {Captions!Ended(0)} /\ last.id <= ids
    /\ received = [i \in DOMAIN received |-> received[i]] /\ DOMAIN received \subseteq 1 .. ids
    /\ \A i \in DOMAIN received : received[i] \in Seq(Finals)

\* The utterance being spoken is not over, and its finals are settled.
CurrentIsOpen == current # 0 =>
    /\ \A k \in DOMAIN captions.utterances : captions.utterances[k].id = current => ~captions.utterances[k].done
    /\ current \in DOMAIN received => \A k \in DOMAIN received[current] : received[current][k].ms <= settled
    /\ settled <= reached
    /\ last.id = current => last.ms <= settled

(* The tab was sent m since it was last cleared.                           *)
Had(m) == m.id \in DOMAIN received /\ \E k \in DOMAIN received[m.id] : received[m.id][k] = m

\* A final that may be replayed and has been shown is recognised; that of the utterance being
\* spoken is on the screen.
ReplayIsKnown == last.id # 0 /\ Had(last) =>
    /\ \A k \in DOMAIN captions.utterances :
          captions.utterances[k].id = last.id => Captions!Replayed(captions.utterances[k], last)
    /\ last.id = current => \E k \in DOMAIN captions.utterances : captions.utterances[k].id = current

(* The inductive invariant: nothing is added to an utterance that is over, *)
(* since the one being spoken is not, and a final the tab has already      *)
(* shown is recognised when it is replayed.                                *)
CaptionsInv == CaptionsTyped /\ CurrentIsOpen /\ ReplayIsKnown

\* A sequence is a prefix of itself and of one that is longer by an item.
LEMMA PrefixOfLonger ==
    ASSUME NEW S, NEW s \in Seq(S), NEW e \in S
    PROVE  Captions!IsPrefix(s, s) /\ Captions!IsPrefix(s, Append(s, e))
<1>1. Len(s) \in Nat /\ Len(Append(s, e)) = Len(s) + 1 /\ \A k \in 1 .. Len(s) : Append(s, e)[k] = s[k]
  BY AppendProperties
<1>2. \A k \in 1 .. Len(s) : s[k] \in S BY ElementOfSeq
<1> DEFINE n == Len(s)
           t == Append(s, e)
<1>3. /\ SubSeq(s, 1, n) \in Seq(S) /\ Len(SubSeq(s, 1, n)) = IF 1 <= n THEN n - 1 + 1 ELSE 0
      /\ \A k \in 1 .. n - 1 + 1 : SubSeq(s, 1, n)[k] = s[1 + k - 1]
  BY <1>1, <1>2, SubSeqProperties
<1>4. /\ SubSeq(t, 1, n) \in Seq(S) /\ Len(SubSeq(t, 1, n)) = IF 1 <= n THEN n - 1 + 1 ELSE 0
      /\ \A k \in 1 .. n - 1 + 1 : SubSeq(t, 1, n)[k] = t[1 + k - 1]
  <2>1. \A k \in 1 .. n : t[k] \in S BY <1>1, <1>2
  <2> HIDE DEF t
  <2> QED BY <1>1, <2>1, SubSeqProperties
<1>5. SubSeq(s, 1, n) = SubSeq(t, 1, n)
  <2>1. \A k \in 1 .. n : SubSeq(s, 1, n)[k] = SubSeq(t, 1, n)[k]
    <3> TAKE k \in 1 .. n
    <3>1. k \in 1 .. n - 1 + 1 /\ 1 + k - 1 = k BY <1>1
    <3>2. SubSeq(s, 1, n)[k] = s[k] BY <1>3, <3>1
    <3>3. SubSeq(t, 1, n)[k] = t[k] BY <1>4, <3>1
    <3> QED BY <1>1, <3>2, <3>3
  <2>2. Len(SubSeq(s, 1, n)) = n /\ Len(SubSeq(t, 1, n)) = n BY <1>1, <1>3, <1>4
  <2> HIDE DEF n, t
  <2> QED BY <1>3, <1>4, <2>1, <2>2, SeqEqual
<1> QED BY <1>1, <1>5 DEF Captions!IsPrefix

\* What the screen keeps of a list one too long is all of it but the first.
LEMMA SliceIs ==
    ASSUME NEW us \in Seq(Shown), Len(us) <= Limit + 1
    PROVE  LET n == Len(us)
               d == IF n > Limit THEN 1 ELSE 0
           IN  /\ Captions!Slice(us) \in Seq(Shown) /\ Len(Captions!Slice(us)) = n - d
               /\ \A k \in 1 .. n - d : Captions!Slice(us)[k] = us[k + d]
<1> DEFINE n == Len(us)
           d == IF n > Limit THEN 1 ELSE 0
           f == IF n > Limit THEN n - Limit + 1 ELSE 1
<1>1. n \in Nat /\ d \in {0, 1} /\ f = d + 1 /\ f \in Int /\ (d = 1 => n >= 1)
  BY CaptionsConstants
<1>2. Captions!Slice(us) = SubSeq(us, f, n) BY DEF Captions!Slice
<1>3. \A k \in f .. n : us[k] \in Shown BY <1>1, ElementOfSeq
<1> HIDE DEF n, d, f
<1>4. /\ SubSeq(us, f, n) \in Seq(Shown) /\ Len(SubSeq(us, f, n)) = IF f <= n THEN n - f + 1 ELSE 0
      /\ \A k \in 1 .. n - f + 1 : SubSeq(us, f, n)[k] = us[f + k - 1]
  BY <1>1, <1>3, SubSeqProperties
<1>5. Len(Captions!Slice(us)) = n - d BY <1>1, <1>2, <1>4
<1>6. \A k \in 1 .. n - d : Captions!Slice(us)[k] = us[k + d]
  <2> TAKE k \in 1 .. n - d
  <2>1. k \in 1 .. n - f + 1 /\ f + k - 1 = k + d BY <1>1
  <2> QED BY <1>2, <1>4, <2>1
<1> QED BY <1>2, <1>4, <1>5, <1>6 DEF n, d

\* The screen us, with the utterance w changed on it or added to it.
Renewed(us, w, vs) ==
    /\ Listed(vs)
    /\ \A k \in DOMAIN vs : vs[k] = w \/ (vs[k].id # w.id /\ \E j \in DOMAIN us : vs[k] = us[j])
    /\ \E k \in DOMAIN vs : vs[k] = w

(* What is known of an utterance is what is shown of it.                   *)
LEMMA KnownIs ==
    ASSUME NEW s, Listed(s.utterances), NEW i \in Nat \ {0}
    PROVE  /\ Captions!Known(s, i) \in Shown /\ Captions!Known(s, i).id = i
           /\ \A k \in DOMAIN s.utterances : s.utterances[k].id = i => s.utterances[k] = Captions!Known(s, i)
           /\ ~Captions!Has(s, i) => Captions!Known(s, i) = Captions!Blank(i)
           /\ Captions!Has(s, i) => \E k \in DOMAIN s.utterances : s.utterances[k] = Captions!Known(s, i)
<1> DEFINE us == s.utterances
<1>1. us \in Seq(Shown) /\ \A j, k \in DOMAIN us : us[j].id = us[k].id => j = k BY DEF Listed
<1>2. \A k \in DOMAIN us : us[k] \in Shown BY <1>1, ElementOfSeq
<1>3. Captions!Has(s, i) <=> \E k \in DOMAIN us : us[k].id = i BY DEF Captions!Has
<1>4. Captions!Known(s, i) = IF Captions!Has(s, i) THEN CHOOSE u \in {us[k] : k \in DOMAIN us} : u.id = i ELSE Captions!Blank(i)
  BY Zenon DEF Captions!Known, Captions!ToSet
<1> HIDE DEF us
<1>5. CASE Captions!Has(s, i)
  <2>1. PICK k \in DOMAIN us : us[k].id = i BY <1>3, <1>5
  <2>2. \A u \in {us[j] : j \in DOMAIN us} : u.id = i => u = us[k] BY <1>1, <2>1
  <2>3. Captions!Known(s, i) = us[k] BY <1>4, <1>5, <2>1, <2>2
  <2> QED BY <1>1, <1>2, <1>5, <2>1, <2>3 DEF us
<1>6. CASE ~Captions!Has(s, i)
  <2>1. <<>> \in Seq(Words) BY EmptySeq
  <2>2. Captions!Blank(i) \in Shown /\ Captions!Blank(i).id = i BY <2>1 DEF Captions!Blank, Shown
  <2> QED BY <1>3, <1>4, <1>6, <2>2 DEF us
<1> QED BY <1>5, <1>6

(* An update changes one utterance on the screen, or adds it and may drop  *)
(* the first.                                                              *)
LEMMA UpdateIs ==
    ASSUME NEW s, s = [utterances |-> s.utterances, speaking |-> s.speaking], Listed(s.utterances),
           NEW w \in Shown
    PROVE  /\ Captions!Update(s, w) = [utterances |-> Captions!Update(s, w).utterances, speaking |-> s.speaking]
           /\ Renewed(s.utterances, w, Captions!Update(s, w).utterances)
<1> DEFINE us == s.utterances
           ws == IF Captions!Has(s, w.id) THEN [k \in DOMAIN us |-> IF us[k].id = w.id THEN w ELSE us[k]]
                 ELSE Append(us, w)
           d == IF Len(ws) > Limit THEN 1 ELSE 0
           vs == Captions!Slice(ws)
<1>1. /\ us \in Seq(Shown) /\ Len(us) \in Nat /\ DOMAIN us = 1 .. Len(us) /\ Len(us) <= Limit
      /\ \A j, k \in DOMAIN us : us[j].id = us[k].id => j = k
      /\ \A k \in DOMAIN us : us[k] \in Shown
  BY ElementOfSeq DEF Listed
<1>2. Captions!Has(s, w.id) <=> \E k \in DOMAIN us : us[k].id = w.id BY DEF Captions!Has
<1>3. Captions!Update(s, w) = [utterances |-> vs, speaking |-> s.speaking]
  <2>1. Captions!Update(s, w) = [s EXCEPT !.utterances = vs] BY Zenon DEF Captions!Update
  <2> HIDE DEF vs
  <2> QED BY <2>1
<1>4. /\ ws \in Seq(Shown) /\ Len(ws) \in Nat /\ DOMAIN ws = 1 .. Len(ws) /\ Len(ws) <= Limit + 1
      /\ \A j, k \in DOMAIN ws : ws[j].id = ws[k].id => j = k
      /\ \A k \in DOMAIN ws : ws[k] = w \/ (ws[k].id # w.id /\ \E j \in DOMAIN us : ws[k] = us[j])
      /\ \E k \in DOMAIN ws : ws[k] = w /\ (Len(ws) > Limit => k > 1)
  <2>0. Limit \in Nat \ {0} BY CaptionsConstants
  <2>1. CASE Captions!Has(s, w.id)
    <3>1. ws = [k \in 1 .. Len(us) |-> IF us[k].id = w.id THEN w ELSE us[k]] BY <1>1, <2>1
    <3>2. PICK n \in 1 .. Len(us) : us[n].id = w.id BY <1>1, <1>2, <2>1
    <3> HIDE DEF us
    <3>3. ws \in Seq(Shown) /\ Len(ws) = Len(us) /\ DOMAIN ws = 1 .. Len(us)
      <4>1. ws \in [1 .. Len(us) -> Shown] BY <1>1, <3>1
      <4> HIDE DEF ws
      <4>2. ws \in Seq(Shown)
        <5>1. Len(us) \in Nat BY <1>1
        <5> DEFINE len == Len(us)
        <5> HIDE DEF len
        <5>2. ws \in [1 .. len -> Shown] /\ len \in Nat BY <4>1, <5>1 DEF len
        <5> QED BY <5>2, SeqDef
      <4>3. DOMAIN ws = 1 .. Len(us) BY <4>1
      <4> QED BY <1>1, <4>2, <4>3, LenProperties
    <3>4. \A k \in 1 .. Len(us) : ws[k] = IF us[k].id = w.id THEN w ELSE us[k] BY <3>1
    <3> HIDE DEF ws
    <3>5. \A k \in 1 .. Len(us) : ws[k].id = us[k].id BY <3>4
    <3>6. ws[n] = w BY <3>2, <3>4
    <3> QED BY <1>1, <2>0, <3>2, <3>3, <3>4, <3>5, <3>6
  <2>2. CASE ~Captions!Has(s, w.id)
    <3>1. ws = Append(us, w) BY <2>2
    <3> HIDE DEF us
    <3>2. /\ Append(us, w) \in Seq(Shown) /\ Len(Append(us, w)) = Len(us) + 1
          /\ DOMAIN Append(us, w) = 1 .. Len(us) + 1 /\ Append(us, w)[Len(us) + 1] = w
          /\ \A k \in 1 .. Len(us) : Append(us, w)[k] = us[k]
      BY <1>1, AppendProperties
    <3> HIDE DEF ws
    <3>3. Len(us) + 1 \in DOMAIN ws /\ ws[Len(us) + 1] = w /\ (Len(ws) > Limit => Len(us) + 1 > 1)
      BY <1>1, <2>0, <3>1, <3>2
    <3>4. \A k \in 1 .. Len(us) : us[k].id # w.id BY <1>1, <1>2, <2>2
    <3>5. \A k \in DOMAIN ws : k = Len(us) + 1 \/ k \in 1 .. Len(us) BY <1>1, <3>1, <3>2
    <3>6. \A k \in 1 .. Len(us) : ws[k] = us[k] BY <3>1, <3>2
    <3>7. \A j, k \in DOMAIN ws : ws[j].id = ws[k].id => j = k BY <1>1, <3>3, <3>4, <3>5, <3>6
    <3>8. \A k \in DOMAIN ws : ws[k] = w \/ (ws[k].id # w.id /\ \E j \in DOMAIN us : ws[k] = us[j])
      BY <1>1, <3>3, <3>4, <3>5, <3>6
    <3>9. ws \in Seq(Shown) /\ DOMAIN ws = 1 .. Len(ws) /\ Len(ws) = Len(us) + 1 BY <1>1, <3>1, <3>2
    <3>10. Len(ws) \in Nat /\ Len(ws) <= Limit + 1 BY <1>1, <2>0, <3>9
    <3> QED BY <3>3, <3>7, <3>8, <3>9, <3>10
  <2> QED BY <2>1, <2>2
<1> HIDE DEF us, ws
<1>5. /\ vs \in Seq(Shown) /\ Len(vs) = Len(ws) - d /\ DOMAIN vs = 1 .. Len(ws) - d
      /\ \A k \in 1 .. Len(ws) - d : vs[k] = ws[k + d]
  <2>1. /\ vs \in Seq(Shown) /\ Len(vs) = Len(ws) - d
        /\ \A k \in 1 .. Len(ws) - d : vs[k] = ws[k + d]
    BY <1>4, SliceIs
  <2>2. DOMAIN vs = 1 .. Len(vs) BY <2>1
  <2> QED BY <2>1, <2>2
<1>6. d \in {0, 1} /\ Len(ws) - d <= Limit /\ Limit \in Nat /\ (d = 1 <=> Len(ws) > Limit)
  BY <1>4, CaptionsConstants
<1> HIDE DEF vs, d
<1>7. \A k \in DOMAIN vs : k + d \in DOMAIN ws /\ vs[k] = ws[k + d] BY <1>4, <1>5, <1>6
<1>8. Listed(vs)
  <2>1. \A j, k \in DOMAIN vs : vs[j].id = vs[k].id => j = k
    <3> TAKE j, k \in DOMAIN vs
    <3> HAVE vs[j].id = vs[k].id
    <3>1. j + d = k + d BY <1>4, <1>7
    <3> QED BY <1>5, <1>6, <3>1
  <2> QED BY <1>5, <1>6, <2>1 DEF Listed
<1>9. \E k \in DOMAIN vs : vs[k] = w
  <2>1. PICK n \in DOMAIN ws : ws[n] = w /\ (Len(ws) > Limit => n > 1) BY <1>4
  <2>2. n - d \in 1 .. Len(ws) - d /\ (n - d) + d = n BY <1>4, <1>6, <2>1
  <2> QED BY <1>5, <2>1, <2>2
<1>10. \A k \in DOMAIN vs : vs[k] = w \/ (vs[k].id # w.id /\ \E j \in DOMAIN us : vs[k] = us[j])
  BY <1>4, <1>7
<1> QED BY <1>3, <1>8, <1>9, <1>10 DEF Renewed, us

\* What is shown of a screen s, of which only the utterance w is changed.
Snapshot(s) == s = [utterances |-> s.utterances, speaking |-> s.speaking] /\ Listed(s.utterances)

(* A partial leaves the finals of its utterance as they were.              *)
LEMMA PartialShown ==
    ASSUME NEW s, Snapshot(s), NEW i \in Nat \ {0}, NEW t \in Words, NEW ms \in Nat
    PROVE  LET u == Captions!Known(s, i)
               n == Captions!On(s, Captions!Partial(i, t, ms))
           IN  \E w \in Shown :
                  /\ w.id = i /\ w.finals = u.finals /\ w.endMs = ms /\ w.done = u.done
                  /\ Snapshot(n) /\ Renewed(s.utterances, w, n.utterances)
<1> DEFINE u == Captions!Known(s, i)
           w == [u EXCEPT !.partial = t, !.endMs = ms]
           n == Captions!On(s, Captions!Partial(i, t, ms))
<1>1. u \in Shown /\ u.id = i BY KnownIs DEF Snapshot
<1>2. n = Captions!Update(s, w)
  <2> HIDE DEF w, u
  <2> USE DEF Captions!Partial
  <2>1. n = Captions!OnPartial(s, Captions!Partial(i, t, ms)) BY DEF Captions!On
  <2> QED BY <2>1 DEF Captions!OnPartial, w, u
<1> HIDE DEF u
<1>3. w \in Shown /\ w.id = i /\ w.finals = u.finals /\ w.endMs = ms /\ w.done = u.done
  BY <1>1 DEF Shown
<1> HIDE DEF w
<1>4. Renewed(s.utterances, w, n.utterances) /\ n = [utterances |-> n.utterances, speaking |-> s.speaking]
  BY <1>2, <1>3, UpdateIs DEF Snapshot
<1> HIDE DEF n
<1>5. Snapshot(n) BY <1>4 DEF Snapshot, Renewed
<1> QED BY <1>3, <1>4, <1>5 DEF n, u

(* A final is added to those of its utterance, unless it is taken for a    *)
(* replay; either way it is taken for one from now on.                     *)
LEMMA FinalShown ==
    ASSUME NEW s, Snapshot(s), NEW m \in Finals
    PROVE  LET u == Captions!Known(s, m.id)
               n == Captions!On(s, m)
           IN  \E w \in Shown :
                  /\ w.id = m.id /\ Captions!IsPrefix(u.finals, w.finals) /\ w.done = u.done
                  /\ Captions!Replayed(w, m) /\ (Captions!Replayed(u, m) => w = u)
                  /\ ~Captions!Replayed(u, m) => w.finals = Append(u.finals, m.text)
                  /\ Snapshot(n) /\ Renewed(s.utterances, w, n.utterances)
<1> DEFINE u == Captions!Known(s, m.id)
           v == [u EXCEPT !.finals = Append(u.finals, m.text), !.partial = "", !.endMs = m.ms]
           w == IF Captions!Replayed(u, m) THEN u ELSE v
           n == Captions!On(s, m)
<1>0. m.id \in Nat \ {0} /\ m.text \in Words /\ m.ms \in Nat /\ m.action = "transcript_final"
  BY DEF Finals
<1>1. u \in Shown /\ u.id = m.id BY <1>0, KnownIs DEF Snapshot
<1>2. n = Captions!Update(s, w)
  <2> HIDE DEF u
  <2>1. n = Captions!OnFinal(s, m) BY <1>0 DEF Captions!On
  <2>2. w = IF Captions!Replayed(u, m) THEN u ELSE [u EXCEPT !.finals = Append(@, m.text), !.partial = "", !.endMs = m.ms]
    BY <1>1 DEF Shown
  <2> HIDE DEF w
  <2> QED BY <2>1, <2>2 DEF Captions!OnFinal, u
<1> HIDE DEF u
<1>3. u.finals \in Seq(Words) /\ Append(u.finals, m.text) \in Seq(Words)
  BY <1>0, <1>1, AppendProperties DEF Shown
<1>4. v \in Shown /\ v.id = m.id /\ v.finals = Append(u.finals, m.text) /\ v.done = u.done /\ v.endMs = m.ms
  BY <1>0, <1>1, <1>3 DEF Shown
<1>5. Captions!IsPrefix(u.finals, u.finals) /\ Captions!IsPrefix(u.finals, v.finals)
  BY <1>0, <1>3, <1>4, PrefixOfLonger
<1> HIDE DEF v
<1>6. Captions!Replayed(v, m)
  <2>1. /\ Len(v.finals) = Len(u.finals) + 1 /\ v.finals[Len(u.finals) + 1] = m.text
        /\ Len(u.finals) \in Nat /\ v.finals # <<>>
    BY <1>0, <1>3, <1>4, AppendProperties, EmptySeq
  <2> QED BY <1>0, <1>4, <2>1 DEF Captions!Replayed, Captions!Last
<1>7. w \in Shown /\ w.id = m.id /\ w.done = u.done /\ Captions!IsPrefix(u.finals, w.finals) /\ Captions!Replayed(w, m)
      /\ (Captions!Replayed(u, m) => w = u) /\ (~Captions!Replayed(u, m) => w.finals = Append(u.finals, m.text))
  BY <1>1, <1>4, <1>5, <1>6
<1> HIDE DEF w
<1>8. Renewed(s.utterances, w, n.utterances) /\ n = [utterances |-> n.utterances, speaking |-> s.speaking]
  BY <1>2, <1>7, UpdateIs DEF Snapshot
<1> HIDE DEF n
<1>9. Snapshot(n) BY <1>8 DEF Snapshot, Renewed
<1> QED BY <1>7, <1>8, <1>9 DEF n, u

(* The end of an utterance that is shown leaves its finals; of another it  *)
(* changes nothing.                                                        *)
LEMMA EndShown ==
    ASSUME NEW s, Snapshot(s), NEW i \in Nat \ {0}
    PROVE  LET u == Captions!Known(s, i)
               n == Captions!On(s, Captions!Ended(i))
           IN  /\ Snapshot(n)
               /\ ~Captions!Has(s, i) => n.utterances = s.utterances
               /\ Captions!Has(s, i) => \E w \in Shown :
                     /\ w.id = i /\ w.finals = u.finals /\ w.endMs = u.endMs
                     /\ Renewed(s.utterances, w, n.utterances)
<1> DEFINE u == Captions!Known(s, i)
           q == [s EXCEPT !.speaking = FALSE]
           w == [u EXCEPT !.partial = "", !.done = TRUE]
           n == Captions!On(s, Captions!Ended(i))
<1>1. u \in Shown /\ u.id = i BY KnownIs DEF Snapshot
<1>2. /\ q = [utterances |-> q.utterances, speaking |-> q.speaking]
      /\ q.utterances = s.utterances /\ Listed(q.utterances)
  <2> HIDE DEF q
  <2>1. PICK us, p : s = [utterances |-> us, speaking |-> p] BY DEF Snapshot
  <2>2. PICK b : b = FALSE OBVIOUS
  <2>3. [s EXCEPT !.speaking = b] = [utterances |-> us, speaking |-> b] /\ s.utterances = us BY <2>1
  <2> HIDE DEF q
  <2>4. q = [utterances |-> us, speaking |-> b] BY <2>2, <2>3 DEF q
  <2> QED BY <2>3, <2>4 DEF Snapshot
<1>3. n = IF Captions!Has(s, i) THEN Captions!Update(q, w) ELSE q
  <2> HIDE DEF w, u, q
  <2> USE DEF Captions!Ended
  <2>1. n = Captions!OnUtteranceEnd(s, Captions!Ended(i)) BY DEF Captions!On
  <2> QED BY <2>1 DEF Captions!OnUtteranceEnd, w, u, q
<1> HIDE DEF u
<1>4. w \in Shown /\ w.id = i /\ w.finals = u.finals /\ w.endMs = u.endMs
  BY <1>1 DEF Shown
<1> HIDE DEF w, q
<1>5. CASE Captions!Has(s, i)
  <2>1. Renewed(s.utterances, w, n.utterances) /\ n = [utterances |-> n.utterances, speaking |-> q.speaking]
    BY <1>2, <1>3, <1>4, <1>5, UpdateIs
  <2> HIDE DEF n
  <2>2. Snapshot(n) BY <2>1 DEF Snapshot, Renewed
  <2> QED BY <1>4, <1>5, <2>1, <2>2 DEF n, u
<1>6. CASE ~Captions!Has(s, i)
  <2>1. Snapshot(n) /\ n.utterances = s.utterances BY <1>2, <1>3, <1>6 DEF Snapshot
  <2> QED BY <1>6, <2>1
<1> QED BY <1>5, <1>6

\* Whether a step leaves what was announced as it was.
Settled(us, vs) ==
    \A j \in DOMAIN us, k \in DOMAIN vs : us[j].id = vs[k].id =>
        /\ Captions!IsPrefix(us[j].finals, vs[k].finals)
        /\ us[j].done /\ received' = received => vs[k] = us[j]

(* A screen that stays as it is takes nothing back.                        *)
LEMMA Unshaken == ASSUME NEW us, Listed(us) PROVE Settled(us, us)
<1> SUFFICES ASSUME NEW j \in DOMAIN us PROVE Captions!IsPrefix(us[j].finals, us[j].finals)
  BY DEF Settled, Listed
<1>1. us[j] \in Shown BY ElementOfSeq DEF Listed
<1>2. us[j].finals \in Seq(Words) BY <1>1 DEF Shown
<1>3. Len(us[j].finals) \in Nat BY <1>2, LenProperties
<1> QED BY <1>3 DEF Captions!IsPrefix

(* Nor does one on which an utterance grows that is not over.              *)
LEMMA Stays ==
    ASSUME NEW us, Listed(us), NEW w \in Shown, NEW vs, Renewed(us, w, vs),
           \A j \in DOMAIN us : us[j].id = w.id =>
               /\ Captions!IsPrefix(us[j].finals, w.finals)
               /\ us[j].done /\ received' = received => w = us[j]
    PROVE  Settled(us, vs)
<1> SUFFICES ASSUME NEW j \in DOMAIN us, NEW k \in DOMAIN vs, us[j].id = vs[k].id
             PROVE  /\ Captions!IsPrefix(us[j].finals, vs[k].finals)
                    /\ us[j].done /\ received' = received => vs[k] = us[j]
  BY DEF Settled
<1>1. Settled(us, us) BY Unshaken
<1>2. CASE vs[k] = w BY <1>2
<1>3. CASE vs[k] # w
  <2>1. PICK n \in DOMAIN us : vs[k] = us[n] BY <1>3 DEF Renewed
  <2> QED BY <1>1, <2>1 DEF Settled
<1> QED BY <1>2, <1>3

(* A final the tab is sent is noted once.                                  *)
LEMMA ReceivedIs ==
    ASSUME CaptionsTyped, NEW m \in Finals
    PROVE  LET r == Captions!Received(m)
           IN  /\ r = [i \in DOMAIN r |-> r[i]] /\ DOMAIN r = DOMAIN received \cup {m.id}
               /\ \A i \in DOMAIN r : r[i] \in Seq(Finals)
               /\ \A i \in DOMAIN r : \A k \in DOMAIN r[i] :
                     \/ r[i][k] = m
                     \/ i \in DOMAIN received /\ \E j \in DOMAIN received[i] : r[i][k] = received[i][j]
               /\ \A i \in DOMAIN r : i # m.id => i \in DOMAIN received /\ r[i] = received[i]
               /\ \E k \in DOMAIN r[m.id] : r[m.id][k] = m
               /\ r = received <=> Had(m)
               /\ ~Had(m) => r[m.id] = Append(IF m.id \in DOMAIN received THEN received[m.id] ELSE <<>>, m)
<1> DEFINE r == Captions!Received(m)
           old(i) == IF i \in DOMAIN received THEN received[i] ELSE <<>>
<1>1. /\ received = [i \in DOMAIN received |-> received[i]]
      /\ \A i \in DOMAIN received : received[i] \in Seq(Finals)
  BY DEF CaptionsTyped
<1>2. Captions!Sent(m) <=> ~Had(m) BY DEF Captions!Sent, Had, Finals
<1>3. CASE Had(m)
  <2>1. r = received BY <1>2, <1>3 DEF Captions!Received
  <2>2. m.id \in DOMAIN received /\ \E k \in DOMAIN received[m.id] : received[m.id][k] = m
    BY <1>3 DEF Had
  <2> HIDE DEF r
  <2>3. DOMAIN r = DOMAIN received \cup {m.id} BY <2>1, <2>2
  <2> QED BY <1>1, <1>3, <2>1, <2>2, <2>3 DEF r
<1>4. CASE ~Had(m)
  <2>1. r = [i \in DOMAIN received \cup {m.id} |-> old(i) \o (IF i = m.id THEN <<m>> ELSE <<>>)]
    BY <1>2, <1>4 DEF Captions!Received
  <2>2. \A i : old(i) \in Seq(Finals) BY <1>1, EmptySeq
  <2> HIDE DEF r, old
  <2>3. r = [i \in DOMAIN r |-> r[i]] /\ DOMAIN r = DOMAIN received \cup {m.id} BY <2>1
  <2>4. \A i \in DOMAIN r : i # m.id => r[i] = old(i) /\ i \in DOMAIN received
    <3> TAKE i \in DOMAIN r
    <3> HAVE i # m.id
    <3>1. r[i] = old(i) \o <<>> BY <2>1, <2>3
    <3> QED BY <2>2, <2>3, <3>1, ConcatEmptySeq
  <2> DEFINE o == old(m.id)
             n == Len(o)
  <2>5. /\ r[m.id] \in Seq(Finals) /\ n \in Nat /\ DOMAIN r[m.id] = 1 .. n + 1
        /\ r[m.id][n + 1] = m /\ \A k \in 1 .. n : r[m.id][k] = o[k]
        /\ r[m.id] = Append(o, m)
    <3>1. r[m.id] = o \o <<m>> BY <2>1, <2>3
    <3>2. o \in Seq(Finals) /\ <<m>> \in Seq(Finals) BY <2>2
    <3>3. r[m.id] = Append(o, m) BY <3>1, <3>2, AppendIsConcat
    <3> HIDE DEF o
    <3> QED BY <3>2, <3>3, AppendProperties
  <2>6. DOMAIN o = 1 .. n BY <2>2
  <2>7. \A k \in 1 .. n : m.id \in DOMAIN received /\ o[k] = received[m.id][k] /\ k \in DOMAIN received[m.id]
    <3>1. m.id \notin DOMAIN received => o = <<>> BY DEF old
    <3>2. m.id \in DOMAIN received => o = received[m.id] BY DEF old
    <3>3. o = <<>> => n = 0 BY EmptySeq
    <3> HIDE DEF o
    <3>4. m.id \notin DOMAIN received => 1 .. n = {} BY <3>1, <3>3
    <3> QED BY <2>6, <3>2, <3>4
  <2>a. r[m.id] = Append(IF m.id \in DOMAIN received THEN received[m.id] ELSE <<>>, m) BY <2>5 DEF old
  <2> HIDE DEF o, n
  <2>8. n + 1 \in DOMAIN r[m.id] /\ \A k \in DOMAIN r[m.id] : k = n + 1 \/ k \in 1 .. n BY <2>5
  <2>9. ASSUME NEW i \in DOMAIN r, NEW k \in DOMAIN r[i]
        PROVE  \/ r[i][k] = m
               \/ i \in DOMAIN received /\ \E j \in DOMAIN received[i] : r[i][k] = received[i][j]
    <3>1. CASE i # m.id BY <2>4, <3>1 DEF old
    <3>2. CASE i = m.id BY <2>5, <2>7, <2>8, <3>2
    <3> QED BY <3>1, <3>2
  <2>10. r # received BY <1>4, <2>3, <2>5, <2>8 DEF Had
  <2>11. \A i \in DOMAIN r : r[i] \in Seq(Finals) BY <2>2, <2>4, <2>5
  <2>12. \A i \in DOMAIN r : i # m.id => i \in DOMAIN received /\ r[i] = received[i] BY <2>4 DEF old
  <2> QED BY <1>4, <2>3, <2>5, <2>8, <2>9, <2>10, <2>11, <2>12, <2>a DEF r
<1> QED BY <1>3, <1>4

\* A step that changes nothing the tab shows, with no utterance being spoken after it.
LEMMA NobodySpeaks ==
    ASSUME CaptionsInv, current' = 0, settled' \in Nat, reached' \in Nat, stream' \in {"open", "closed"},
           tied' \in BOOLEAN, UNCHANGED <<captions, received, last, ids>>
    PROVE  CaptionsInv' /\ Settled(captions.utterances, captions'.utterances)
<1>1. CaptionsTyped' BY DEF CaptionsInv, CaptionsTyped, Listed
<1>2. CurrentIsOpen' BY DEF CurrentIsOpen
<1>3. ReplayIsKnown' BY DEF CaptionsInv, CaptionsTyped, ReplayIsKnown, Had
<1>4. Settled(captions.utterances, captions'.utterances) BY Unshaken DEF CaptionsInv, CaptionsTyped
<1> QED BY <1>1, <1>2, <1>3, <1>4 DEF CaptionsInv

\* The utterance spoken, or the one before it, ends.
LEMMA EndKeeps ==
    ASSUME CaptionsInv, current # 0, current' = 0, stream' \in {"open", "closed"},
           Captions!Publish(Captions!Ended(current)), UNCHANGED <<ids, settled, reached>>
    PROVE  CaptionsInv' /\ Settled(captions.utterances, captions'.utterances)
<1> DEFINE us == captions.utterances
           vs == captions'.utterances
<1>1. current \in Nat \ {0} /\ Snapshot(captions) /\ settled \in Nat /\ reached \in Nat /\ tied' \in BOOLEAN
  BY DEF CaptionsInv, CaptionsTyped, Captions!Publish, Snapshot
<1>2. last' = last /\ received' = received
  BY DEF Captions!Publish, Captions!Ended, Captions!Received, Captions!Sent
<1>3. CASE ~tied
  BY <1>1, <1>2, <1>3, NobodySpeaks DEF Captions!Publish
<1>4. CASE tied
  <2>1. captions' = Captions!On(captions, Captions!Ended(current)) BY <1>4 DEF Captions!Publish
  <2>2. Snapshot(captions') BY <1>1, <2>1, EndShown
  <2>3. CASE ~Captions!Has(captions, current)
    <3>1. vs = us BY <1>1, <2>1, <2>3, EndShown
    <3>2. CaptionsTyped' BY <1>1, <1>2, <2>2, <3>1 DEF CaptionsInv, CaptionsTyped, Snapshot, Listed
    <3>3. CurrentIsOpen' BY DEF CurrentIsOpen
    <3>4. ReplayIsKnown' BY <1>2, <3>1 DEF CaptionsInv, CaptionsTyped, ReplayIsKnown, Had
    <3>5. Settled(us, vs) BY <1>1, <3>1, Unshaken DEF Snapshot
    <3> QED BY <3>2, <3>3, <3>4, <3>5 DEF CaptionsInv
  <2>4. CASE Captions!Has(captions, current)
    <3> DEFINE u == Captions!Known(captions, current)
    <3>1. PICK w \in Shown : /\ w.id = current /\ w.finals = u.finals /\ w.endMs = u.endMs
                             /\ Renewed(us, w, vs)
      BY <1>1, <2>1, <2>4, EndShown
    <3>2. u.id = current /\ \A k \in DOMAIN us : us[k].id = current => us[k] = u
      BY <1>1, KnownIs DEF Snapshot
    <3>3. PICK n \in DOMAIN us : us[n] = u BY <1>1, <2>4, KnownIs DEF Snapshot
    <3>4. Settled(us, vs)
      <4>1. \A j \in DOMAIN us : us[j].id = w.id => Captions!IsPrefix(us[j].finals, w.finals) /\ ~us[j].done
        <5>1. Settled(us, us) BY <1>1, Unshaken DEF Snapshot
        <5> QED BY <3>1, <3>2, <5>1 DEF Settled, CaptionsInv, CurrentIsOpen
      <4> QED BY <1>1, <3>1, <4>1, Stays DEF Snapshot
    <3>5. CaptionsTyped'
      <4>1. current <= ids /\ \A k \in DOMAIN us : us[k].id <= ids BY DEF CaptionsInv, CaptionsTyped
      <4>2. \A k \in DOMAIN vs : vs[k].id <= ids
        <5> HIDE DEF us, vs
        <5> QED BY <3>1, <4>1 DEF Renewed
      <4> QED BY <1>1, <1>2, <2>2, <4>2 DEF CaptionsInv, CaptionsTyped, Snapshot, Listed
    <3>6. CurrentIsOpen' BY DEF CurrentIsOpen
    <3>7. ReplayIsKnown'
      <4> SUFFICES ASSUME last.id # 0, Had(last), NEW k \in DOMAIN vs, vs[k].id = last.id
                   PROVE  Captions!Replayed(vs[k], last)
        BY <1>2 DEF ReplayIsKnown, Had, CaptionsInv, CaptionsTyped
      <4>1. \A j \in DOMAIN us : us[j].id = last.id => Captions!Replayed(us[j], last)
        BY DEF CaptionsInv, ReplayIsKnown
      <4>2. CASE vs[k] = w
        <5>1. Captions!Replayed(us[n], last) BY <3>1, <3>2, <3>3, <4>1, <4>2
        <5> QED BY <3>1, <3>3, <4>2, <5>1 DEF Captions!Replayed
      <4>3. CASE vs[k] # w BY <3>1, <4>1, <4>3 DEF Renewed
      <4> QED BY <4>2, <4>3
    <3> QED BY <3>4, <3>5, <3>6, <3>7 DEF CaptionsInv
  <2> QED BY <2>3, <2>4
<1> QED BY <1>3, <1>4

\* Hears, of a partial and of a final: of the utterance being spoken or of a new one.
LEMMA UtteranceIs ==
    ASSUME CaptionsInv, NEW ms \in Nat, Captions!Segment(ms), reached' = ms,
           current' = Captions!Utterance, ids' = IF current = 0 THEN ids + 1 ELSE ids
    PROVE  /\ Captions!Utterance \in Nat \ {0} /\ Captions!Utterance <= ids' /\ ids' \in Nat /\ ids <= ids'
           /\ Snapshot(captions) /\ ms > settled
           /\ \A k \in DOMAIN captions.utterances :
                 captions.utterances[k].id = Captions!Utterance => current # 0 /\ ~captions.utterances[k].done
           /\ ~Captions!Known(captions, Captions!Utterance).done
           /\ last.id = Captions!Utterance => current # 0 /\ last.ms <= settled
           /\ Captions!Utterance \in DOMAIN received =>
                 current # 0 /\ \A k \in DOMAIN received[Captions!Utterance] : received[Captions!Utterance][k].ms <= settled
<1>1. /\ ids \in Nat /\ current \in 0 .. ids /\ settled \in Nat /\ Snapshot(captions) /\ last.id <= ids
      /\ \A k \in DOMAIN captions.utterances : captions.utterances[k].id <= ids
      /\ DOMAIN received \subseteq 1 .. ids
  BY DEF CaptionsInv, CaptionsTyped, Snapshot
<1>2. Captions!Utterance \in Nat \ {0} /\ Captions!Utterance <= ids' /\ ids' \in Nat /\ ids <= ids' /\ ms > settled
  BY <1>1 DEF Captions!Utterance, Captions!Segment
<1>3. current = 0 => Captions!Utterance > ids BY <1>1 DEF Captions!Utterance
<1>4. current # 0 => Captions!Utterance = current BY DEF Captions!Utterance
<1>5. \A k \in DOMAIN captions.utterances :
         captions.utterances[k].id = Captions!Utterance => current # 0 /\ ~captions.utterances[k].done
  <2>1. \A k \in DOMAIN captions.utterances : captions.utterances[k].id \in Nat
    <3> DEFINE us == captions.utterances
    <3>1. us \in Seq(Shown) BY DEF CaptionsInv, CaptionsTyped
    <3> HIDE DEF us
    <3>2. \A k \in DOMAIN us : us[k] \in Shown BY <3>1, ElementOfSeq
    <3>3. \A k \in DOMAIN us : us[k].id \in Nat BY <3>2 DEF Shown
    <3> QED BY <3>3 DEF us
  <2> QED BY <1>1, <1>2, <1>3, <1>4, <2>1 DEF CaptionsInv, CurrentIsOpen
<1>6. ~Captions!Known(captions, Captions!Utterance).done
  <2> DEFINE u == Captions!Known(captions, Captions!Utterance)
  <2>1. CASE Captions!Has(captions, Captions!Utterance)
    <3>1. PICK k \in DOMAIN captions.utterances : captions.utterances[k] = u
      BY <1>1, <1>2, <2>1, KnownIs DEF Snapshot
    <3>2. u.id = Captions!Utterance /\ u \in Shown BY <1>1, <1>2, KnownIs DEF Snapshot
    <3> QED BY <1>5, <3>1, <3>2 DEF Shown
  <2>2. CASE ~Captions!Has(captions, Captions!Utterance)
    <3>1. u = Captions!Blank(Captions!Utterance) BY <1>1, <1>2, <2>2, KnownIs DEF Snapshot
    <3>2. ~Captions!Blank(Captions!Utterance).done BY DEF Captions!Blank
    <3> QED BY <3>1, <3>2
  <2> QED BY <2>1, <2>2
<1>7. last.id = Captions!Utterance => current # 0 /\ last.ms <= settled
  BY <1>1, <1>2, <1>3, <1>4 DEF CaptionsInv, CurrentIsOpen, CaptionsTyped, Finals, Captions!Ended
<1>8. Captions!Utterance \in DOMAIN received =>
         current # 0 /\ \A k \in DOMAIN received[Captions!Utterance] : received[Captions!Utterance][k].ms <= settled
  BY <1>1, <1>2, <1>3, <1>4 DEF CaptionsInv, CurrentIsOpen
<1> QED BY <1>1, <1>2, <1>5, <1>6, <1>7, <1>8

(* A partial is heard: of an utterance that is not over.                   *)
LEMMA PartialKeeps ==
    ASSUME CaptionsInv, NEW t \in Words, NEW ms \in Nat, Captions!Segment(ms), reached' = ms,
           current' = Captions!Utterance, ids' = IF current = 0 THEN ids + 1 ELSE ids,
           Captions!Publish(Captions!Partial(Captions!Utterance, t, ms)), UNCHANGED <<stream, settled>>
    PROVE  CaptionsInv' /\ Settled(captions.utterances, captions'.utterances)
<1> DEFINE us == captions.utterances
           vs == captions'.utterances
           u == Captions!Known(captions, Captions!Utterance)
<1>0. /\ Captions!Utterance \in Nat \ {0} /\ Captions!Utterance <= ids' /\ ids' \in Nat /\ ids <= ids' /\ ids \in Nat
      /\ Snapshot(captions) /\ ms > settled /\ settled \in Nat
      /\ \A k \in DOMAIN us : us[k].id = Captions!Utterance => current # 0 /\ ~us[k].done
      /\ ~u.done
      /\ last.id = Captions!Utterance => current # 0 /\ last.ms <= settled
      /\ Captions!Utterance \in DOMAIN received =>
            current # 0 /\ \A k \in DOMAIN received[Captions!Utterance] : received[Captions!Utterance][k].ms <= settled
  BY UtteranceIs DEF CaptionsInv, CaptionsTyped
<1>1. last' = last /\ received' = received
  BY DEF Captions!Publish, Captions!Partial, Captions!Received, Captions!Sent
<1>2. u.id = Captions!Utterance /\ \A k \in DOMAIN us : us[k].id = Captions!Utterance => us[k] = u
  BY <1>0, KnownIs DEF Snapshot
<1>3. ASSUME Snapshot(captions'), Settled(us, vs), \A k \in DOMAIN vs : vs[k].id <= ids',
             \A k \in DOMAIN vs : vs[k].id = Captions!Utterance => ~vs[k].done,
             last.id # 0 /\ Had(last) =>
                /\ \A k \in DOMAIN vs : vs[k].id = last.id => Captions!Replayed(vs[k], last)
                /\ last.id = Captions!Utterance => \E k \in DOMAIN vs : vs[k].id = Captions!Utterance
      PROVE  CaptionsInv' /\ Settled(us, vs)
  <2>1. CaptionsTyped'
    <3>1. tied' \in BOOLEAN /\ stream' \in {"open", "closed"} /\ settled' \in Nat /\ reached' \in Nat
      BY DEF Captions!Publish, CaptionsInv, CaptionsTyped
    <3>2. current' \in 0 .. ids' BY <1>0
    <3>3. (last \in Finals \cup {Captions!Ended(0)})' /\ last.id' <= ids'
      BY <1>0, <1>1 DEF CaptionsInv, CaptionsTyped, Finals, Captions!Ended
    <3>4. DOMAIN received' \subseteq 1 .. ids' BY <1>0, <1>1 DEF CaptionsInv, CaptionsTyped
    <3> QED
      BY <1>0, <1>1, <1>3, <3>1, <3>2, <3>3, <3>4 DEF CaptionsInv, CaptionsTyped, Snapshot, Listed
  <2>2. CurrentIsOpen' BY <1>0, <1>1, <1>3 DEF CurrentIsOpen
  <2>3. ReplayIsKnown' BY <1>1, <1>3 DEF ReplayIsKnown, Had
  <2> QED BY <1>3, <2>1, <2>2, <2>3 DEF CaptionsInv
<1>4. /\ \A k \in DOMAIN us : us[k].id <= ids
      /\ last.id # 0 /\ Had(last) =>
            /\ \A k \in DOMAIN us : us[k].id = last.id => Captions!Replayed(us[k], last)
            /\ last.id = current => \E k \in DOMAIN us : us[k].id = current
  BY DEF CaptionsInv, CaptionsTyped, ReplayIsKnown
<1>5. CASE ~tied
  <2>1. captions' = captions BY <1>5 DEF Captions!Publish
  <2>2. \A k \in DOMAIN us : us[k].id <= ids'
    <3>1. \A k \in DOMAIN us : us[k].id \in Nat
      <4> HIDE DEF us
      <4>1. us \in Seq(Shown) BY <1>0 DEF us, Snapshot, Listed
      <4>2. \A k \in DOMAIN us : us[k] \in Shown BY <4>1, ElementOfSeq
      <4> QED BY <4>2 DEF Shown
    <3> QED BY <1>0, <1>4, <3>1
  <2>3. Settled(us, us) BY <1>0, Unshaken DEF Snapshot
  <2>4. last.id = Captions!Utterance => last.id = current BY <1>0 DEF Captions!Utterance
  <2> QED BY <1>0, <1>3, <1>4, <2>1, <2>2, <2>3, <2>4
<1>6. CASE tied
  <2>1. captions' = Captions!On(captions, Captions!Partial(Captions!Utterance, t, ms))
    BY <1>6 DEF Captions!Publish
  <2>2. PICK w \in Shown : /\ w.id = Captions!Utterance /\ w.finals = u.finals /\ w.endMs = ms /\ w.done = u.done
                           /\ Snapshot(captions') /\ Renewed(us, w, vs)
    BY <1>0, <2>1, PartialShown
  <2>3. Settled(us, vs)
    <3>1. Settled(us, us) BY <1>0, Unshaken DEF Snapshot
    <3>2. \A j \in DOMAIN us : us[j].id = w.id => Captions!IsPrefix(us[j].finals, w.finals) /\ ~us[j].done
      BY <1>0, <1>2, <2>2, <3>1 DEF Settled
    <3> QED BY <1>0, <2>2, <3>2, Stays DEF Snapshot
  <2> HIDE DEF us, vs, u
  <2>4. \A k \in DOMAIN us : us[k].id \in Nat
    <3>1. us \in Seq(Shown) BY <1>0 DEF us, Snapshot, Listed
    <3>2. \A k \in DOMAIN us : us[k] \in Shown BY <3>1, ElementOfSeq
    <3> QED BY <3>2 DEF Shown
  <2>5. \A k \in DOMAIN vs : vs[k].id <= ids' BY <1>0, <1>4, <2>2, <2>4 DEF Renewed
  <2>6. \A k \in DOMAIN vs : vs[k].id = Captions!Utterance => ~vs[k].done
    <3>1. ~w.done BY <1>0, <2>2
    <3> QED BY <2>2, <3>1 DEF Renewed
  <2>7. ASSUME last.id # 0, Had(last), NEW k \in DOMAIN vs, vs[k].id = last.id PROVE Captions!Replayed(vs[k], last)
    <3>1. CASE vs[k] = w
      <4>1. last.id = Captions!Utterance /\ last.id = current /\ last.ms <= settled
        BY <1>0, <2>2, <2>7, <3>1 DEF Captions!Utterance
      <4>2. PICK n \in DOMAIN us : us[n].id = last.id BY <1>4, <2>7, <4>1
      <4>3. Captions!Replayed(u, last) BY <1>2, <1>4, <2>7, <4>1, <4>2
      <4>4. last.ms \in Nat BY <2>7 DEF CaptionsInv, CaptionsTyped, Finals, Captions!Ended
      <4>5. w.endMs >= last.ms BY <1>0, <2>2, <4>1, <4>4
      <4> QED BY <2>2, <3>1, <4>3, <4>5 DEF Captions!Replayed
    <3>2. CASE vs[k] # w BY <1>4, <2>2, <2>7, <3>2 DEF Renewed
    <3> QED BY <3>1, <3>2
  <2>8. \E k \in DOMAIN vs : vs[k].id = Captions!Utterance BY <2>2 DEF Renewed
  <2> QED BY <1>3, <2>2, <2>3, <2>5, <2>6, <2>7, <2>8 DEF us, vs
<1> QED BY <1>5, <1>6

(* A final is heard: the tab was not sent it before, for it ends later.    *)
LEMMA FinalKeeps ==
    ASSUME CaptionsInv, NEW t \in Words, NEW ms \in Nat, Captions!Segment(ms), reached' = ms,
           current' = Captions!Utterance, ids' = IF current = 0 THEN ids + 1 ELSE ids,
           Captions!Publish(Captions!Final(Captions!Utterance, t, ms)), settled' = ms, UNCHANGED stream
    PROVE  CaptionsInv' /\ Settled(captions.utterances, captions'.utterances)
<1> DEFINE us == captions.utterances
           vs == captions'.utterances
           u == Captions!Known(captions, Captions!Utterance)
<1>m. PICK m : m = Captions!Final(Captions!Utterance, t, ms) OBVIOUS
<1>0. /\ Captions!Utterance \in Nat \ {0} /\ Captions!Utterance <= ids' /\ ids' \in Nat /\ ids <= ids' /\ ids \in Nat
      /\ Snapshot(captions) /\ ms > settled /\ settled \in Nat
      /\ \A k \in DOMAIN us : us[k].id = Captions!Utterance => current # 0 /\ ~us[k].done
      /\ ~u.done
      /\ Captions!Utterance \in DOMAIN received =>
            current # 0 /\ \A k \in DOMAIN received[Captions!Utterance] : received[Captions!Utterance][k].ms <= settled
  BY UtteranceIs DEF CaptionsInv, CaptionsTyped
<1>1. m \in Finals /\ m.id = Captions!Utterance /\ m.ms = ms /\ m.action = "transcript_final"
  BY <1>0, <1>m DEF Captions!Final, Finals
<1>2. u.id = Captions!Utterance /\ \A k \in DOMAIN us : us[k].id = Captions!Utterance => us[k] = u
  BY <1>0, KnownIs DEF Snapshot
<1>3. ~Had(m)
  <2> SUFFICES ASSUME Captions!Utterance \in DOMAIN received, NEW k \in DOMAIN received[Captions!Utterance],
                      received[Captions!Utterance][k] = m
               PROVE  FALSE
    BY <1>1 DEF Had
  <2>1. m.ms <= settled BY <1>0
  <2> QED BY <1>0, <1>1, <2>1
<1>4. last' = m BY <1>1, <1>m DEF Captions!Publish
<1>5. /\ \A k \in DOMAIN us : us[k].id <= ids'
      /\ \A k \in DOMAIN us : us[k].id \in Nat
  <2>1. us \in Seq(Shown) /\ \A k \in DOMAIN us : us[k].id <= ids BY DEF CaptionsInv, CaptionsTyped
  <2> HIDE DEF us
  <2>2. \A k \in DOMAIN us : us[k] \in Shown BY <2>1, ElementOfSeq
  <2>3. \A k \in DOMAIN us : us[k].id \in Nat BY <2>2 DEF Shown
  <2> QED BY <1>0, <2>1, <2>3
<1>6. ASSUME Snapshot(captions'), \A k \in DOMAIN vs : vs[k].id <= ids',
             \A k \in DOMAIN vs : vs[k].id = Captions!Utterance => ~vs[k].done,
             /\ received' = [i \in DOMAIN received' |-> received'[i]]
             /\ DOMAIN received' \subseteq 1 .. ids'
             /\ \A i \in DOMAIN received' : received'[i] \in Seq(Finals),
             Captions!Utterance \in DOMAIN received' =>
                \A k \in DOMAIN received'[Captions!Utterance] : received'[Captions!Utterance][k].ms <= ms,
             Had(m)' => /\ \A k \in DOMAIN vs : vs[k].id = Captions!Utterance => Captions!Replayed(vs[k], m)
                        /\ \E k \in DOMAIN vs : vs[k].id = Captions!Utterance
      PROVE  CaptionsInv'
  <2>1. CaptionsTyped'
    <3>1. tied' \in BOOLEAN /\ stream' \in {"open", "closed"} /\ settled' \in Nat /\ reached' \in Nat
      BY DEF Captions!Publish, CaptionsInv, CaptionsTyped
    <3>2. current' \in 0 .. ids' BY <1>0
    <3>3. (last \in Finals \cup {Captions!Ended(0)})' /\ last.id' <= ids' BY <1>0, <1>1, <1>4
    <3> QED BY <1>0, <1>6, <3>1, <3>2, <3>3 DEF CaptionsTyped, Snapshot, Listed
  <2>2. CurrentIsOpen' BY <1>0, <1>1, <1>4, <1>6 DEF CurrentIsOpen
  <2>3. ReplayIsKnown' BY <1>1, <1>4, <1>6 DEF ReplayIsKnown, Had
  <2> QED BY <2>1, <2>2, <2>3 DEF CaptionsInv
<1>7. CASE ~tied
  <2>1. captions' = captions /\ received' = received BY <1>7 DEF Captions!Publish
  <2>2. Settled(us, us) BY <1>0, Unshaken DEF Snapshot
  <2>3. ~Had(m)' BY <1>3, <2>1 DEF Had
  <2>4. /\ received = [i \in DOMAIN received |-> received[i]] /\ DOMAIN received \subseteq 1 .. ids'
        /\ \A i \in DOMAIN received : received[i] \in Seq(Finals)
    BY <1>0 DEF CaptionsInv, CaptionsTyped
  <2>5. Captions!Utterance \in DOMAIN received =>
           \A k \in DOMAIN received[Captions!Utterance] : received[Captions!Utterance][k].ms <= ms
    <3> SUFFICES ASSUME Captions!Utterance \in DOMAIN received, NEW k \in DOMAIN received[Captions!Utterance]
                 PROVE  received[Captions!Utterance][k].ms <= ms
      OBVIOUS
    <3>1. received[Captions!Utterance] \in Seq(Finals) BY <2>4
    <3>2. received[Captions!Utterance][k] \in Finals BY <3>1, ElementOfSeq
    <3>3. received[Captions!Utterance][k].ms \in Nat BY <3>2 DEF Finals
    <3> QED BY <1>0, <3>3
  <2>6. CaptionsInv' BY <1>0, <1>5, <1>6, <2>1, <2>3, <2>4, <2>5
  <2> QED BY <2>1, <2>2, <2>6
<1>8. CASE tied
  <2> DEFINE r == Captions!Received(m)
  <2>1. captions' = Captions!On(captions, m) /\ received' = r BY <1>8, <1>m DEF Captions!Publish
  <2>2. PICK w \in Shown : /\ w.id = m.id /\ Captions!IsPrefix(u.finals, w.finals) /\ w.done = u.done
                           /\ Captions!Replayed(w, m)
                           /\ Snapshot(captions') /\ Renewed(us, w, vs)
    BY <1>0, <1>1, <2>1, FinalShown
  <2>3. Settled(us, vs)
    <3>1. \A j \in DOMAIN us : us[j].id = w.id => Captions!IsPrefix(us[j].finals, w.finals) /\ ~us[j].done
      BY <1>0, <1>1, <1>2, <2>2
    <3> QED BY <1>0, <2>2, <3>1, Stays DEF Snapshot
  <2> HIDE DEF us, vs, u
  <2>4. \A k \in DOMAIN vs : vs[k].id <= ids' BY <1>0, <1>1, <1>5, <2>2 DEF Renewed
  <2>5. \A k \in DOMAIN vs : vs[k].id = Captions!Utterance => vs[k] = w BY <1>1, <2>2 DEF Renewed
  <2>6. ~w.done BY <1>0, <2>2
  <2>7. /\ r = [i \in DOMAIN r |-> r[i]] /\ DOMAIN r = DOMAIN received \cup {m.id}
        /\ \A i \in DOMAIN r : r[i] \in Seq(Finals)
        /\ \A i \in DOMAIN r : \A k \in DOMAIN r[i] :
              \/ r[i][k] = m
              \/ i \in DOMAIN received /\ \E j \in DOMAIN received[i] : r[i][k] = received[i][j]
    BY <1>1, ReceivedIs DEF CaptionsInv
  <2> HIDE DEF r
  <2>8. DOMAIN r \subseteq 1 .. ids'
    <3>1. DOMAIN received \subseteq 1 .. ids BY DEF CaptionsInv, CaptionsTyped
    <3> QED BY <1>0, <1>1, <2>7, <3>1
  <2>9. Captions!Utterance \in DOMAIN r => \A k \in DOMAIN r[Captions!Utterance] : r[Captions!Utterance][k].ms <= ms
    <3> SUFFICES ASSUME Captions!Utterance \in DOMAIN r, NEW k \in DOMAIN r[Captions!Utterance]
                 PROVE  r[Captions!Utterance][k].ms <= ms
      OBVIOUS
    <3>1. r[Captions!Utterance][k].ms = ms \/ r[Captions!Utterance][k].ms <= settled
      BY <1>0, <1>1, <2>7
    <3>2. r[Captions!Utterance][k] \in Finals BY <2>7, ElementOfSeq
    <3>3. r[Captions!Utterance][k].ms \in Nat BY <3>2 DEF Finals
    <3> QED BY <1>0, <3>1, <3>3
  <2>10. \E k \in DOMAIN vs : vs[k].id = Captions!Utterance BY <1>1, <2>2 DEF Renewed
  <2>11. CaptionsInv' BY <1>6, <2>1, <2>2, <2>4, <2>5, <2>6, <2>7, <2>8, <2>9, <2>10 DEF vs
  <2> QED BY <2>3, <2>11 DEF us, vs
<1> QED BY <1>7, <1>8

(* The last final is replayed: if the tab had it, nothing changes; if not, *)
(* it belongs to an utterance that had missed it.                          *)
LEMMA ReplayKeeps ==
    ASSUME CaptionsInv, last.id # 0, captions' = Captions!On(captions, last), received' = Captions!Received(last),
           tied' = TRUE, UNCHANGED <<Captions!session, last>>
    PROVE  CaptionsInv' /\ Settled(captions.utterances, captions'.utterances)
<1> DEFINE us == captions.utterances
           vs == captions'.utterances
           u == Captions!Known(captions, last.id)
           r == Captions!Received(last)
<1>0. /\ last \in Finals /\ last.id \in Nat \ {0} /\ last.id <= ids /\ ids \in Nat /\ Snapshot(captions)
      /\ \A k \in DOMAIN us : us[k].id <= ids
      /\ settled \in Nat
  BY DEF CaptionsInv, CaptionsTyped, Snapshot, Finals, Captions!Ended
<1>1. u.id = last.id /\ \A k \in DOMAIN us : us[k].id = last.id => us[k] = u
  BY <1>0, KnownIs DEF Snapshot
<1>2. PICK w \in Shown : /\ w.id = last.id /\ Captions!IsPrefix(u.finals, w.finals) /\ w.done = u.done
                         /\ Captions!Replayed(w, last) /\ (Captions!Replayed(u, last) => w = u)
                         /\ Snapshot(captions') /\ Renewed(us, w, vs)
  BY <1>0, FinalShown
<1>3. /\ r = [i \in DOMAIN r |-> r[i]] /\ DOMAIN r = DOMAIN received \cup {last.id}
      /\ \A i \in DOMAIN r : r[i] \in Seq(Finals)
      /\ \A i \in DOMAIN r : \A k \in DOMAIN r[i] :
            \/ r[i][k] = last
            \/ i \in DOMAIN received /\ \E j \in DOMAIN received[i] : r[i][k] = received[i][j]
      /\ \A i \in DOMAIN r : i # last.id => i \in DOMAIN received /\ r[i] = received[i]
      /\ r = received <=> Had(last)
  BY <1>0, ReceivedIs DEF CaptionsInv
<1> HIDE DEF r
<1>4. Settled(us, vs)
  <2>1. \A j \in DOMAIN us : us[j].id = w.id =>
           /\ Captions!IsPrefix(us[j].finals, w.finals)
           /\ us[j].done /\ received' = received => w = us[j]
    <3> TAKE j \in DOMAIN us
    <3> HAVE us[j].id = w.id
    <3>1. us[j] = u BY <1>1, <1>2
    <3>2. received' = received => Captions!Replayed(u, last)
      BY <1>0, <1>2, <1>3, <3>1 DEF CaptionsInv, ReplayIsKnown, r
    <3> QED BY <1>2, <3>1, <3>2
  <2> QED BY <1>0, <1>2, <2>1, Stays DEF Snapshot
<1>5. CaptionsTyped'
  <2>1. \A k \in DOMAIN vs : vs[k].id <= ids
    <3> HIDE DEF us, vs
    <3> QED BY <1>0, <1>2 DEF Renewed
  <2>2. DOMAIN r \subseteq 1 .. ids BY <1>0, <1>3 DEF CaptionsInv, CaptionsTyped
  <2>3. received' = r BY DEF r
  <2> QED
    BY <1>2, <1>3, <2>1, <2>2, <2>3 DEF CaptionsInv, CaptionsTyped, Snapshot, Listed, Captions!session
<1>6. CurrentIsOpen'
  <2> SUFFICES ASSUME current # 0
               PROVE  /\ \A k \in DOMAIN vs : vs[k].id = current => ~vs[k].done
                      /\ current \in DOMAIN r => \A k \in DOMAIN r[current] : r[current][k].ms <= settled
                      /\ settled <= reached
                      /\ last.id = current => last.ms <= settled
    BY DEF CurrentIsOpen, Captions!session, r
  <2>1. /\ \A k \in DOMAIN us : us[k].id = current => ~us[k].done
        /\ current \in DOMAIN received => \A k \in DOMAIN received[current] : received[current][k].ms <= settled
        /\ settled <= reached
        /\ last.id = current => last.ms <= settled
    BY DEF CaptionsInv, CurrentIsOpen
  <2>2. last.id = current => ~u.done
    <3>1. CASE Captions!Has(captions, last.id) BY <1>0, <1>1, <2>1, <3>1, KnownIs DEF Snapshot
    <3>2. CASE ~Captions!Has(captions, last.id)
      <4>1. u = Captions!Blank(last.id) BY <1>0, <3>2, KnownIs DEF Snapshot
      <4>2. ~Captions!Blank(last.id).done BY DEF Captions!Blank
      <4> QED BY <4>1, <4>2
    <3> QED BY <3>1, <3>2
  <2> HIDE DEF us, vs, u
  <2>3. \A k \in DOMAIN vs : vs[k].id = current => ~vs[k].done
    BY <1>2, <2>1, <2>2 DEF Renewed
  <2>4. ASSUME current \in DOMAIN r, NEW k \in DOMAIN r[current] PROVE r[current][k].ms <= settled
    <3>1. CASE r[current][k] = last
      <4>1. CASE last.id = current BY <2>1, <3>1, <4>1
      <4>2. CASE last.id # current
        <5>1. current \in DOMAIN received /\ r[current] = received[current] BY <1>3, <2>4, <4>2
        <5> QED BY <2>1, <2>4, <5>1
      <4> QED BY <4>1, <4>2
    <3>2. CASE r[current][k] # last BY <1>3, <2>1, <2>4, <3>2
    <3> QED BY <3>1, <3>2
  <2> QED BY <2>1, <2>3, <2>4
<1>7. ReplayIsKnown'
  <2> HIDE DEF us, vs
  <2>1. \A k \in DOMAIN vs : vs[k].id = last.id => Captions!Replayed(vs[k], last)
    BY <1>2 DEF Renewed
  <2>2. \E k \in DOMAIN vs : vs[k].id = last.id BY <1>2 DEF Renewed
  <2> QED BY <2>1, <2>2 DEF ReplayIsKnown, vs, Captions!session
<1> QED BY <1>4, <1>5, <1>6, <1>7 DEF CaptionsInv

(* Nothing is shown yet.                                                   *)
LEMMA CaptionsInit == Captions!Init => CaptionsInv
<1> SUFFICES ASSUME Captions!Init PROVE CaptionsInv OBVIOUS
<1> USE DEF Captions!Init
<1>1. Listed(captions.utterances)
  <2>1. captions.utterances = <<>> OBVIOUS
  <2> QED BY <2>1, EmptySeq, CaptionsConstants DEF Listed
<1>2. CaptionsTyped BY <1>1, EmptySeq DEF CaptionsTyped, Listed, Captions!Ended
<1>3. CurrentIsOpen BY DEF CurrentIsOpen
<1>4. ReplayIsKnown BY DEF ReplayIsKnown, Captions!Ended
<1> QED BY <1>2, <1>3, <1>4 DEF CaptionsInv

(* Every step keeps the invariant and takes nothing back.                  *)
LEMMA CaptionsStep ==
    ASSUME CaptionsInv, [Captions!Next]_Captions!vars
    PROVE  CaptionsInv' /\ Settled(captions.utterances, captions'.utterances)
<1>0. /\ ids \in Nat /\ current \in 0 .. ids /\ settled \in Nat /\ reached \in Nat /\ Snapshot(captions)
      /\ stream \in {"open", "closed"} /\ tied \in BOOLEAN
  BY DEF CaptionsInv, CaptionsTyped, Snapshot
<1>1. ASSUME UNCHANGED <<current, ids, settled, reached, received, last, captions>>, stream' \in {"open", "closed"},
             tied' \in BOOLEAN
      PROVE  CaptionsInv' /\ Settled(captions.utterances, captions'.utterances)
  <2>1. CaptionsTyped' /\ CurrentIsOpen' /\ ReplayIsKnown'
    BY <1>1 DEF CaptionsInv, CaptionsTyped, CurrentIsOpen, ReplayIsKnown, Had, Listed
  <2> QED BY <1>0, <1>1, <2>1, Unshaken DEF CaptionsInv, Snapshot
<1>2. CASE Captions!Begin BY <1>0, <1>2, NobodySpeaks DEF Captions!Begin, Captions!tab
<1>3. CASE Captions!SpeechStarts
  <2>1. captions'.utterances = captions.utterances /\ Snapshot(captions') /\ UNCHANGED <<received, last, tied>>
    <3>1. UNCHANGED <<last, tied>> /\ received' = received
      BY <1>3 DEF Captions!SpeechStarts, Captions!Publish, Captions!Received, Captions!Sent,
           Captions!Started
    <3>2. CASE tied
      <4>1. captions' = [captions EXCEPT !.speaking = TRUE]
        BY <1>3, <3>2 DEF Captions!SpeechStarts, Captions!Publish, Captions!On, Captions!Started
      <4>2. PICK us, p : captions = [utterances |-> us, speaking |-> p] BY <1>0 DEF Snapshot
      <4>3. PICK b : b = TRUE OBVIOUS
      <4>4. [captions EXCEPT !.speaking = b] = [utterances |-> us, speaking |-> b] /\ captions.utterances = us
        BY <4>2
      <4>5. captions' = [utterances |-> us, speaking |-> b] BY <4>1, <4>3, <4>4
      <4> QED BY <1>0, <3>1, <4>4, <4>5 DEF Snapshot
    <3>3. CASE ~tied BY <1>0, <1>3, <3>1, <3>3 DEF Captions!SpeechStarts, Captions!Publish
    <3> QED BY <3>2, <3>3
  <2>2. UNCHANGED <<stream, current, ids, settled, reached>>
    BY <1>3 DEF Captions!SpeechStarts, Captions!Listening
  <2>3. CaptionsTyped' /\ CurrentIsOpen' /\ ReplayIsKnown'
    BY <2>1, <2>2 DEF CaptionsInv, CaptionsTyped, CurrentIsOpen, ReplayIsKnown, Had, Listed,
         Snapshot
  <2> QED BY <1>0, <2>1, <2>3, Unshaken DEF CaptionsInv, Snapshot
<1>4. CASE Captions!Pauses
  <2>1. CASE current # 0 BY <1>0, <1>4, <2>1, EndKeeps DEF Captions!Pauses, Captions!Listening
  <2>2. CASE current = 0
    BY <1>0, <1>1, <1>4, <2>2 DEF Captions!Pauses, Captions!Listening, Captions!tab
  <2> QED BY <2>1, <2>2
<1>5. CASE Captions!Closes
  <2>1. CASE current # 0 BY <1>0, <1>5, <2>1, EndKeeps DEF Captions!Closes
  <2>2. CASE current = 0 BY <1>0, <1>1, <1>5, <2>2 DEF Captions!Closes, Captions!tab
  <2> QED BY <2>1, <2>2
<1>6. CASE Captions!Fails BY <1>0, <1>6, NobodySpeaks DEF Captions!Fails, Captions!tab
<1>7. CASE Captions!Lose BY <1>0, <1>1, <1>7 DEF Captions!Lose, Captions!session
<1>8. CASE Captions!Return
  <2>1. CASE UNCHANGED <<captions, received>>
    BY <1>0, <1>1, <1>8, <2>1 DEF Captions!Return, Captions!session
  <2>2. CASE last.id # 0 /\ captions' = Captions!On(captions, last) /\ received' = Captions!Received(last)
    BY <1>8, <2>2, ReplayKeeps DEF Captions!Return
  <2> QED BY <1>8, <2>1, <2>2 DEF Captions!Return
<1>9. CASE Captions!Wipe
  <2>1. /\ captions'.utterances = <<>> /\ captions' = [utterances |-> captions'.utterances, speaking |-> captions'.speaking]
        /\ received' = <<>> /\ UNCHANGED <<Captions!session, tied, last>>
    BY <1>9 DEF Captions!Wipe
  <2>2. Listed(captions'.utterances) BY <2>1, EmptySeq, CaptionsConstants DEF Listed
  <2>3. CaptionsTyped'
    BY <2>1, <2>2, EmptySeq DEF CaptionsInv, CaptionsTyped, Listed, Captions!session
  <2>4. CurrentIsOpen' /\ ReplayIsKnown'
    BY <2>1, EmptySeq DEF CaptionsInv, CurrentIsOpen, ReplayIsKnown, Had, Captions!session
  <2>5. Settled(captions.utterances, captions'.utterances) BY <2>1, EmptySeq DEF Settled
  <2> QED BY <2>3, <2>4, <2>5 DEF CaptionsInv
<1>10. ASSUME NEW w \in Words, NEW ms \in reached .. reached + 1, Captions!Hears(w, ms)
       PROVE  CaptionsInv' /\ Settled(captions.utterances, captions'.utterances)
  <2>1. ms \in Nat BY <1>0
  <2>2. CASE Captions!Publish(Captions!Partial(Captions!Utterance, w, ms)) /\ UNCHANGED settled
    BY <1>10, <2>1, <2>2, PartialKeeps DEF Captions!Hears, Captions!Listening
  <2>3. CASE Captions!Publish(Captions!Final(Captions!Utterance, w, ms)) /\ settled' = ms
    BY <1>10, <2>1, <2>3, FinalKeeps DEF Captions!Hears, Captions!Listening
  <2> QED BY <1>10, <2>2, <2>3 DEF Captions!Hears
<1>11. CASE UNCHANGED Captions!vars
  BY <1>0, <1>1, <1>11 DEF Captions!vars, Captions!session, Captions!tab
<1> QED BY <1>2, <1>3, <1>4, <1>5, <1>6, <1>7, <1>8, <1>9, <1>10, <1>11 DEF Captions!Next

-----------------------------------------------------------------------------
(* Unrepeated takes one item after another.                                *)
Skipping(s, f, n) ==
    IF n = 0 THEN <<>> ELSE IF n > 1 /\ s[n] = s[n - 1] THEN f[n - 1] ELSE Append(f[n - 1], s[n])

LEMMA UnrepeatedSteps ==
    ASSUME NEW D, NEW s \in Seq(D)
    PROVE  \E f : /\ f[0] = <<>>
                  /\ \A n \in 1 .. Len(s) : f[n] = IF n > 1 /\ s[n] = s[n - 1] THEN f[n - 1] ELSE Append(f[n - 1], s[n])
                  /\ Captions!Unrepeated(s) = f[Len(s)]
<1> DEFINE N == Len(s)
           K == {k \in 1 .. N : ~ (k > 1 /\ s[k] = s[k - 1])}
           f == CHOOSE f : f = [k \in 0 .. N |-> Skipping(s, f, k)]
<1>0. N \in Nat OBVIOUS
<1>1. Captions!Unrepeated(s) = f[N] BY Zenon DEF Captions!Unrepeated, Skipping
<1>2. f = [k \in 0 .. N |-> Skipping(s, f, k)]
  <2>1. PICK h : h = [k \in 0 .. N |-> Taking(s, K, h, k)] BY <1>0, TakenExists
  <2>2. \A k \in 0 .. N : Taking(s, K, h, k) = Skipping(s, h, k)
    <3>1. \A k \in 0 .. N : k # 0 => (k \in K <=> ~ (k > 1 /\ s[k] = s[k - 1])) BY <1>0
    <3> HIDE DEF K, N
    <3> QED BY <3>1 DEF Taking, Skipping
  <2> HIDE DEF K, N
  <2>3. h = [k \in 0 .. N |-> Skipping(s, h, k)] BY <2>1, <2>2
  <2> QED BY <2>3
<1> HIDE DEF f, N, K
<1>3. f[0] = <<>> BY <1>0, <1>2 DEF Skipping
<1>4. ASSUME NEW n \in 1 .. N PROVE f[n] = IF n > 1 /\ s[n] = s[n - 1] THEN f[n - 1] ELSE Append(f[n - 1], s[n])
  <2>1. n \in 0 .. N /\ n # 0 BY <1>0
  <2>2. f[n] = Skipping(s, f, n) BY <1>2, <2>1
  <2> QED BY <2>1, <2>2 DEF Skipping
<1> QED BY <1>1, <1>3, <1>4 DEF N

(* It ends with what its sequence ends with.                               *)
LEMMA UnrepeatedIs ==
    ASSUME NEW D, NEW s \in Seq(D)
    PROVE  LET w == Captions!Unrepeated(s)
           IN  w \in Seq(D) /\ (w = <<>> <=> s = <<>>) /\ (s # <<>> => w[Len(w)] = s[Len(s)])
<1> DEFINE N == Len(s)
<1>0. N \in Nat /\ DOMAIN s = 1 .. N OBVIOUS
<1>1. PICK f : /\ f[0] = <<>>
               /\ \A n \in 1 .. N : f[n] = IF n > 1 /\ s[n] = s[n - 1] THEN f[n - 1] ELSE Append(f[n - 1], s[n])
               /\ Captions!Unrepeated(s) = f[N]
  BY UnrepeatedSteps
<1> HIDE DEF N
<1> DEFINE Ends(n) == f[n] \in Seq(D) /\ (n # 0 => f[n] # <<>> /\ f[n][Len(f[n])] = s[n])
           G == {n \in 0 .. N : Ends(n)}
<1>2. 0 \in G
  <2>1. f[0] \in Seq(D) BY <1>1
  <2> QED BY <1>0, <2>1
<1>3. ASSUME NEW n \in 1 .. N, n - 1 \in G PROVE n \in G
  <2> DEFINE v == f[n - 1]
             w == f[n]
  <2>1. v \in Seq(D) /\ (n - 1 # 0 => v # <<>> /\ v[Len(v)] = s[n - 1]) BY <1>3
  <2>2. w = IF n > 1 /\ s[n] = s[n - 1] THEN v ELSE Append(v, s[n]) BY <1>1
  <2>3. s[n] \in D /\ n \in 0 .. N /\ n # 0 BY <1>0
  <2> HIDE DEF v, w
  <2>4. w \in Seq(D) /\ w # <<>> /\ w[Len(w)] = s[n]
    <3>1. CASE n > 1 /\ s[n] = s[n - 1]
      <4>1. n - 1 # 0 BY <3>1, <1>0
      <4> QED BY <2>1, <2>2, <3>1, <4>1
    <3>2. CASE ~ (n > 1 /\ s[n] = s[n - 1])
      <4>1. w = Append(v, s[n]) BY <2>2, <3>2
      <4>2. w \in Seq(D) /\ Len(w) = Len(v) + 1 /\ w[Len(v) + 1] = s[n] /\ Len(v) \in Nat BY <2>1, <2>3, <4>1
      <4>3. w # <<>> BY <4>2
      <4> QED BY <4>2, <4>3
    <3> QED BY <3>1, <3>2
  <2> QED BY <2>3, <2>4 DEF w
<1>4. N \in G
  <2> HIDE DEF G
  <2> QED BY <1>0, <1>2, <1>3, CountUp
<1>5. s = <<>> <=> N = 0 BY DEF N
<1>6. f[N] \in Seq(D) /\ (N # 0 => f[N] # <<>> /\ f[N][Len(f[N])] = s[N]) BY <1>4
<1> HIDE DEF Ends, G
<1> QED BY <1>1, <1>5, <1>6 DEF N

(* One item more: nothing new if it repeats the one before.                *)
LEMMA UnrepeatedMore ==
    ASSUME NEW D, NEW s \in Seq(D), NEW x \in D
    PROVE  Captions!Unrepeated(Append(s, x)) =
               IF s # <<>> /\ s[Len(s)] = x THEN Captions!Unrepeated(s) ELSE Append(Captions!Unrepeated(s), x)
<1> DEFINE N == Len(s)
           t == Append(s, x)
<1>0. N \in Nat /\ t \in Seq(D) /\ Len(t) = N + 1 /\ t[N + 1] = x /\ \A k \in 1 .. N : t[k] = s[k] OBVIOUS
<1>e. s = <<>> <=> N = 0 OBVIOUS
<1>1. PICK f : /\ f[0] = <<>>
               /\ \A n \in 1 .. N : f[n] = IF n > 1 /\ s[n] = s[n - 1] THEN f[n - 1] ELSE Append(f[n - 1], s[n])
               /\ Captions!Unrepeated(s) = f[N]
  BY UnrepeatedSteps
<1> HIDE DEF t
<1>2. PICK g : /\ g[0] = <<>>
               /\ \A n \in 1 .. Len(t) : g[n] = IF n > 1 /\ t[n] = t[n - 1] THEN g[n - 1] ELSE Append(g[n - 1], t[n])
               /\ Captions!Unrepeated(t) = g[Len(t)]
  BY <1>0, UnrepeatedSteps
<1> HIDE DEF N
<1> DEFINE G == {n \in 0 .. N : f[n] = g[n]}
<1>3. 0 \in G BY <1>0, <1>1, <1>2
<1>4. ASSUME NEW n \in 1 .. N, n - 1 \in G PROVE n \in G
  <2>1. n \in 1 .. Len(t) /\ n \in 0 .. N /\ t[n] = s[n] /\ (n > 1 => t[n - 1] = s[n - 1])
    <3>1. n > 1 => n - 1 \in 1 .. N BY <1>0
    <3> QED BY <1>0, <3>1
  <2>2. f[n - 1] = g[n - 1] BY <1>4
  <2> QED BY <1>1, <1>2, <2>1, <2>2
<1>5. N \in G
  <2>1. N \in Nat /\ N \in 0 .. N BY <1>0
  <2> HIDE DEF G
  <2>2. \A n \in 1 .. N : n - 1 \in G => n \in G BY <1>4
  <2>3. \A n \in 0 .. N : n \in G BY <1>3, <2>1, <2>2, CountUp
  <2> QED BY <2>1, <2>3
<1>6. g[N] = Captions!Unrepeated(s) BY <1>1, <1>5
<1>7. Captions!Unrepeated(t) = IF N + 1 > 1 /\ x = t[N] THEN g[N] ELSE Append(g[N], x)
  <2>1. N + 1 \in 1 .. Len(t) /\ (N + 1) - 1 = N BY <1>0
  <2> QED BY <1>0, <1>2, <2>1
<1>8. N # 0 => t[N] = s[N] BY <1>0
<1>9. N + 1 > 1 <=> N # 0 BY <1>0
<1> QED BY <1>e, <1>6, <1>7, <1>8, <1>9 DEF t, N

-----------------------------------------------------------------------------
(* What is shown of an utterance is what was sent of it.                   *)
Same(a, b) == a \in Seq(Words) /\ b \in Seq(Words) /\ Captions!Unrepeated(a) = Captions!Unrepeated(b) /\ Len(a) <= Len(b)

TextsIn(r)   == [k \in DOMAIN r |-> r[k].text]
SentOf(r, i) == IF i \in DOMAIN r THEN TextsIn(r[i]) ELSE <<>>

LEMMA SameGrows ==
    ASSUME NEW a, NEW b, NEW x \in Words, Same(a, b)
    PROVE  /\ Same(Append(a, x), Append(b, x))
           /\ a # <<>> /\ a[Len(a)] = x => Same(a, Append(b, x))
<1>1. /\ a \in Seq(Words) /\ b \in Seq(Words) /\ Captions!Unrepeated(a) = Captions!Unrepeated(b)
      /\ Len(a) \in Nat /\ Len(b) \in Nat /\ Len(a) <= Len(b)
  BY DEF Same
<1>2. /\ Append(a, x) \in Seq(Words) /\ Append(b, x) \in Seq(Words)
      /\ Len(Append(a, x)) = Len(a) + 1 /\ Len(Append(b, x)) = Len(b) + 1
  BY <1>1
<1> DEFINE A == Captions!Unrepeated(a)
           B == Captions!Unrepeated(b)
<1>3. (A = <<>> <=> a = <<>>) /\ (a # <<>> => A[Len(A)] = a[Len(a)]) BY <1>1, UnrepeatedIs
<1>4. (B = <<>> <=> b = <<>>) /\ (b # <<>> => B[Len(B)] = b[Len(b)]) BY <1>1, UnrepeatedIs
<1>5. Captions!Unrepeated(Append(a, x)) = IF a # <<>> /\ a[Len(a)] = x THEN A ELSE Append(A, x) BY <1>1, UnrepeatedMore
<1>6. Captions!Unrepeated(Append(b, x)) = IF b # <<>> /\ b[Len(b)] = x THEN B ELSE Append(B, x) BY <1>1, UnrepeatedMore
<1>7. (a = <<>> <=> b = <<>>) /\ (a # <<>> => a[Len(a)] = b[Len(b)]) BY <1>1, <1>3, <1>4
<1> HIDE DEF A, B
<1>8. A = B BY <1>1 DEF A, B
<1>9. Captions!Unrepeated(Append(a, x)) = Captions!Unrepeated(Append(b, x)) BY <1>5, <1>6, <1>7, <1>8
<1>10. a # <<>> /\ a[Len(a)] = x => A = Captions!Unrepeated(Append(b, x)) BY <1>6, <1>7, <1>8
<1>11. Len(a) <= Len(b) + 1 /\ Len(a) + 1 <= Len(b) + 1 BY <1>1
<1> QED BY <1>1, <1>2, <1>9, <1>10, <1>11 DEF Same, A

LEMMA TextsGrow ==
    ASSUME NEW r \in Seq(Finals), NEW m \in Finals
    PROVE  /\ TextsIn(r) \in Seq(Words) /\ Len(TextsIn(r)) = Len(r)
           /\ TextsIn(Append(r, m)) = Append(TextsIn(r), m.text)
<1> DEFINE n == Len(r)
           t == Append(r, m)
<1>1. n \in Nat /\ DOMAIN r = 1 .. n /\ \A k \in 1 .. n : r[k] \in Finals OBVIOUS
<1>2. DOMAIN t = 1 .. n + 1 /\ t[n + 1] = m /\ \A k \in 1 .. n : t[k] = r[k]
  <2> HIDE DEF Finals
  <2> QED OBVIOUS
<1> HIDE DEF t, n
<1>3. m.text \in Words /\ \A k \in 1 .. n : r[k].text \in Words BY <1>1 DEF Finals
<1>4. TextsIn(r) \in [1 .. n -> Words] BY <1>1, <1>3 DEF TextsIn
<1>5. TextsIn(r) \in Seq(Words) /\ DOMAIN TextsIn(r) = 1 .. n /\ Len(TextsIn(r)) = n
  <2>1. TextsIn(r) \in Seq(Words) BY <1>1, <1>4, SeqDef
  <2>2. DOMAIN TextsIn(r) = 1 .. n BY <1>1 DEF TextsIn
  <2> QED BY <1>1, <2>1, <2>2
<1>6. TextsIn(t) = Append(TextsIn(r), m.text)
  <2> DEFINE p == TextsIn(t)
             q == Append(TextsIn(r), m.text)
  <2>1. DOMAIN q = 1 .. n + 1 /\ q[n + 1] = m.text /\ q = [k \in 1 .. n + 1 |-> q[k]] /\ \A k \in 1 .. n : q[k] = TextsIn(r)[k]
    BY <1>1, <1>3, <1>5
  <2>2. DOMAIN p = 1 .. n + 1 /\ p = [k \in 1 .. n + 1 |-> p[k]] /\ \A k \in 1 .. n + 1 : p[k] = t[k].text
    BY <1>2 DEF TextsIn
  <2>3. \A k \in 1 .. n : TextsIn(r)[k] = r[k].text BY <1>1 DEF TextsIn
  <2>a. q = [k \in 1 .. n + 1 |-> q[k]] BY <1>1, <1>3, <1>5
  <2> HIDE DEF p, q
  <2>4. \A k \in 1 .. n + 1 : p[k] = q[k]
    <3> SUFFICES ASSUME NEW k \in 1 .. n + 1 PROVE p[k] = q[k] OBVIOUS
    <3>1. CASE k = n + 1 BY <1>2, <2>1, <2>2, <3>1
    <3>2. CASE k # n + 1
      <4>1. k \in 1 .. n BY <1>1, <3>2
      <4> QED BY <1>2, <2>1, <2>2, <2>3, <4>1
    <3> QED BY <3>1, <3>2
  <2> QED BY <2>2, <2>a, <2>4 DEF p, q
<1> QED BY <1>5, <1>6 DEF t, n

(* Of each utterance shown; and the one being spoken, when the tab was sent*)
(* a final of it, is shown, and its final is the last that was published.  *)
AllSame(us, r) == \A k \in DOMAIN us : Same(us[k].finals, SentOf(r, us[k].id))
SpokenIsShown  == current # 0 /\ current \in DOMAIN received => last.id = current /\ Captions!Has(captions, current)

FinalsInv == CaptionsInv /\ AllSame(captions.utterances, received) /\ SpokenIsShown

LEMMA FinalsShow == FinalsInv => FinalsInOrder
<1> SUFFICES ASSUME FinalsInv, NEW k \in DOMAIN captions.utterances
             PROVE  LET u == captions.utterances[k]
                        came == IF u.id \in DOMAIN received THEN Captions!Texts(u.id) ELSE <<>>
                    IN  /\ Captions!Unrepeated(Captions!Announced(u)) = Captions!Unrepeated(came)
                        /\ Len(Captions!Announced(u)) <= Len(came)
  BY DEF FinalsInOrder, Captions!FinalsInOrder
<1> DEFINE u == captions.utterances[k]
<1>1. Same(u.finals, SentOf(received, u.id)) BY DEF FinalsInv, AllSame
<1> HIDE DEF u
<1>2. SentOf(received, u.id) = IF u.id \in DOMAIN received THEN Captions!Texts(u.id) ELSE <<>>
  BY DEF SentOf, TextsIn, Captions!Texts
<1>3. Captions!Announced(u) = u.finals BY DEF Captions!Announced
<1> QED BY <1>1, <1>2, <1>3 DEF Same, u

LEMMA KnownSame ==
    ASSUME Snapshot(captions), CaptionsTyped, AllSame(captions.utterances, received), NEW i \in Nat \ {0},
           i \in DOMAIN received => Captions!Has(captions, i)
    PROVE  Same(Captions!Known(captions, i).finals, SentOf(received, i))
<1> DEFINE u == Captions!Known(captions, i)
<1>1. CASE Captions!Has(captions, i)
  <2>1. PICK k \in DOMAIN captions.utterances : captions.utterances[k] = u BY <1>1, KnownIs DEF Snapshot
  <2>2. u.id = i BY KnownIs DEF Snapshot
  <2> HIDE DEF u
  <2> QED BY <2>1, <2>2 DEF AllSame, u
<1>2. CASE ~Captions!Has(captions, i)
  <2>1. u = Captions!Blank(i) BY <1>2, KnownIs DEF Snapshot
  <2>2. Captions!Blank(i).finals = <<>> BY DEF Captions!Blank
  <2>3. SentOf(received, i) = <<>> BY <1>2 DEF SentOf
  <2>4. <<>> \in Seq(Words) /\ Len(<<>>) = 0 OBVIOUS
  <2>5. Same(<<>>, <<>>) BY <2>4 DEF Same
  <2> QED BY <2>1, <2>2, <2>3, <2>5
<1> QED BY <1>1, <1>2

LEMMA RenewedSame ==
    ASSUME NEW us, NEW vs, NEW w, NEW r, NEW q, AllSame(us, r), Renewed(us, w, vs),
           Same(w.finals, SentOf(q, w.id)), \A i : i # w.id => SentOf(q, i) = SentOf(r, i)
    PROVE  AllSame(vs, q)
<1> SUFFICES ASSUME NEW k \in DOMAIN vs PROVE Same(vs[k].finals, SentOf(q, vs[k].id)) BY DEF AllSame
<1>1. CASE vs[k] = w BY <1>1
<1>2. CASE vs[k] # w
  <2>1. vs[k].id # w.id /\ \E j \in DOMAIN us : vs[k] = us[j] BY <1>2 DEF Renewed
  <2> QED BY <2>1 DEF AllSame
<1> QED BY <1>1, <1>2

(* A final that is shown counts as sent, and one that is taken for a replay*)
(* said what the last one had said.                                        *)
LEMMA FinalSame ==
    ASSUME FinalsInv, NEW m \in Finals, m.id \in DOMAIN received => Captions!Has(captions, m.id),
           captions' = Captions!On(captions, m), received' = Captions!Received(m),
           Had(m) => \A k \in DOMAIN captions.utterances :
                        captions.utterances[k].id = m.id => Captions!Replayed(captions.utterances[k], m)
    PROVE  AllSame(captions'.utterances, received') /\ Captions!Has(captions', m.id)
<1> DEFINE us == captions.utterances
           vs == captions'.utterances
           u == Captions!Known(captions, m.id)
           r == Captions!Received(m)
           had == IF m.id \in DOMAIN received THEN received[m.id] ELSE <<>>
<1>0. /\ CaptionsTyped /\ Snapshot(captions) /\ AllSame(us, received) /\ m.id \in Nat \ {0} /\ m.text \in Words
      /\ \A i \in DOMAIN received : received[i] \in Seq(Finals)
  BY DEF FinalsInv, CaptionsInv, CaptionsTyped, Snapshot, Finals
<1>1. PICK w \in Shown : /\ w.id = m.id /\ (Captions!Replayed(u, m) => w = u)
                         /\ ~Captions!Replayed(u, m) => w.finals = Append(u.finals, m.text)
                         /\ Snapshot(captions') /\ Renewed(us, w, vs)
  BY <1>0, FinalShown
<1>2. /\ DOMAIN r = DOMAIN received \cup {m.id}
      /\ \A i \in DOMAIN r : i # m.id => i \in DOMAIN received /\ r[i] = received[i]
      /\ r = received <=> Had(m)
      /\ ~Had(m) => r[m.id] = Append(had, m)
  BY <1>0, ReceivedIs
<1>3. Same(u.finals, SentOf(received, m.id)) BY <1>0, KnownSame
<1>4. Captions!Has(captions, m.id) => u.id = m.id /\ \E k \in DOMAIN us : us[k] = u
  BY <1>0, KnownIs DEF Snapshot
<1>5. received' = r BY DEF r
<1> HIDE DEF us, vs, u, r
<1>6. \A i : i # m.id => SentOf(r, i) = SentOf(received, i) BY <1>2 DEF SentOf
<1>7. Same(w.finals, SentOf(r, m.id))
  <2>1. CASE Had(m)
    <3>1. Captions!Has(captions, m.id) BY <2>1 DEF Had
    <3>2. Captions!Replayed(u, m) BY <1>4, <2>1, <3>1 DEF us
    <3> QED BY <1>1, <1>2, <1>3, <2>1, <3>2
  <2>2. CASE ~Had(m)
    <3>1. had \in Seq(Finals) /\ SentOf(received, m.id) = TextsIn(had)
      <4>1. CASE m.id \in DOMAIN received BY <1>0, <4>1 DEF SentOf
      <4>2. CASE m.id \notin DOMAIN received
        <5>1. had = <<>> BY <4>2
        <5>2. <<>> \in Seq(Finals) OBVIOUS
        <5>3. TextsIn(<<>>) = <<>> BY DEF TextsIn
        <5> QED BY <4>2, <5>1, <5>2, <5>3 DEF SentOf
      <4> QED BY <4>1, <4>2
    <3>2. SentOf(r, m.id) = TextsIn(Append(had, m)) BY <1>2, <2>2 DEF SentOf
    <3> HIDE DEF had
    <3>3. SentOf(r, m.id) = Append(SentOf(received, m.id), m.text) BY <3>1, <3>2, TextsGrow
    <3>4. CASE ~Captions!Replayed(u, m)
      <4>1. w.finals = Append(u.finals, m.text) BY <1>1, <3>4
      <4> QED BY <1>0, <1>3, <3>3, <4>1, SameGrows
    <3>5. CASE Captions!Replayed(u, m)
      <4>1. u.finals # <<>> /\ u.finals[Len(u.finals)] = m.text BY <3>5 DEF Captions!Replayed, Captions!Last
      <4>2. w = u BY <1>1, <3>5
      <4> QED BY <1>0, <1>3, <3>3, <4>1, <4>2, SameGrows
    <3> QED BY <3>4, <3>5
  <2> QED BY <2>1, <2>2
<1>8. AllSame(vs, r) BY <1>0, <1>1, <1>6, <1>7, RenewedSame DEF us
<1>9. Captions!Has(captions', m.id) BY <1>1 DEF Captions!Has, Renewed, vs
<1> QED BY <1>5, <1>8, <1>9 DEF vs

\* A step that changes neither what is shown nor what was sent, nor whose turn it is.
LEMMA NothingShown ==
    ASSUME FinalsInv, CaptionsInv', captions'.utterances = captions.utterances, received' = received,
           last' = last, current' \in {0, current}
    PROVE  FinalsInv'
<1>1. AllSame(captions'.utterances, received') BY DEF FinalsInv
<1>2. SpokenIsShown' BY DEF FinalsInv, SpokenIsShown, Captions!Has
<1> QED BY <1>1, <1>2 DEF FinalsInv

LEMMA EndSame ==
    ASSUME FinalsInv, CaptionsInv', current # 0, current' = 0, Captions!Publish(Captions!Ended(current))
    PROVE  FinalsInv'
<1> DEFINE us == captions.utterances
           vs == captions'.utterances
           u == Captions!Known(captions, current)
<1>0. /\ CaptionsTyped /\ Snapshot(captions) /\ AllSame(us, received) /\ current \in Nat \ {0}
  BY DEF FinalsInv, CaptionsInv, CaptionsTyped, Snapshot
<1>1. last' = last /\ received' = received
  BY DEF Captions!Publish, Captions!Ended, Captions!Received, Captions!Sent
<1>2. CASE ~tied BY <1>1, <1>2, NothingShown DEF Captions!Publish
<1>3. CASE tied
  <2>1. captions' = Captions!On(captions, Captions!Ended(current)) BY <1>3 DEF Captions!Publish
  <2>2. CASE ~Captions!Has(captions, current)
    <3>1. vs = us BY <1>0, <2>1, <2>2, EndShown
    <3> QED BY <1>1, <3>1, NothingShown
  <2>3. CASE Captions!Has(captions, current)
    <3>1. PICK w \in Shown : w.id = current /\ w.finals = u.finals /\ Renewed(us, w, vs)
      BY <1>0, <2>1, <2>3, EndShown
    <3>2. Same(u.finals, SentOf(received, current)) BY <1>0, <2>3, KnownSame
    <3> HIDE DEF us, vs, u
    <3>3. AllSame(vs, received) BY <1>0, <3>1, <3>2, RenewedSame
    <3> QED BY <1>1, <3>3 DEF FinalsInv, SpokenIsShown, vs
  <2> QED BY <2>2, <2>3
<1> QED BY <1>2, <1>3

\* The utterance that is heard is shown if the tab was sent a final of it.
LEMMA HeardIsShown ==
    ASSUME FinalsInv, Captions!Utterance \in DOMAIN received
    PROVE  current # 0 /\ Captions!Utterance = current /\ last.id = current /\ Captions!Has(captions, Captions!Utterance)
<1>1. ids \in Nat /\ DOMAIN received \subseteq 1 .. ids BY DEF FinalsInv, CaptionsInv, CaptionsTyped
<1>2. current # 0 BY <1>1 DEF Captions!Utterance
<1> QED BY <1>2 DEF FinalsInv, SpokenIsShown, Captions!Utterance

LEMMA PartialSame ==
    ASSUME FinalsInv, CaptionsInv', NEW t \in Words, NEW ms \in Nat, current' = Captions!Utterance,
           Captions!Publish(Captions!Partial(Captions!Utterance, t, ms))
    PROVE  FinalsInv'
<1> DEFINE us == captions.utterances
           vs == captions'.utterances
           i == Captions!Utterance
           u == Captions!Known(captions, i)
<1>0. CaptionsTyped /\ Snapshot(captions) /\ AllSame(us, received) /\ i \in Nat \ {0}
  <2>1. ids \in Nat /\ current \in 0 .. ids BY DEF FinalsInv, CaptionsInv, CaptionsTyped
  <2>2. i \in Nat \ {0} BY <2>1 DEF Captions!Utterance
  <2> QED BY <2>2 DEF FinalsInv, CaptionsInv, CaptionsTyped, Snapshot
<1>1. last' = last /\ received' = received
  BY DEF Captions!Publish, Captions!Partial, Captions!Received, Captions!Sent
<1>2. i \in DOMAIN received => last.id = i /\ Captions!Has(captions, i) BY HeardIsShown
<1>3. CASE ~tied
  <2>1. captions' = captions BY <1>3 DEF Captions!Publish
  <2> QED BY <1>1, <1>2, <2>1 DEF FinalsInv, SpokenIsShown
<1>4. CASE tied
  <2>1. captions' = Captions!On(captions, Captions!Partial(i, t, ms)) BY <1>4 DEF Captions!Publish
  <2>2. PICK w \in Shown : w.id = i /\ w.finals = u.finals /\ Renewed(us, w, vs) BY <1>0, <2>1, PartialShown
  <2>3. Same(u.finals, SentOf(received, i)) BY <1>0, <1>2, KnownSame
  <2>4. current' = i OBVIOUS
  <2> HIDE DEF us, vs, u, i
  <2>5. AllSame(vs, received) BY <1>0, <2>2, <2>3, RenewedSame
  <2>6. Captions!Has(captions', i) BY <2>2 DEF Captions!Has, Renewed, vs
  <2> QED BY <1>1, <1>2, <2>4, <2>5, <2>6 DEF FinalsInv, SpokenIsShown, vs
<1> QED BY <1>3, <1>4

LEMMA HeardSame ==
    ASSUME FinalsInv, CaptionsInv', NEW t \in Words, NEW ms \in Nat, Captions!Segment(ms), reached' = ms,
           current' = Captions!Utterance, ids' = IF current = 0 THEN ids + 1 ELSE ids,
           Captions!Publish(Captions!Final(Captions!Utterance, t, ms))
    PROVE  FinalsInv'
<1> DEFINE i == Captions!Utterance
<1>m. PICK m : m = Captions!Final(i, t, ms) OBVIOUS
<1>0. /\ i \in Nat \ {0} /\ ms > settled /\ settled \in Nat
      /\ i \in DOMAIN received => \A k \in DOMAIN received[i] : received[i][k].ms <= settled
  BY UtteranceIs DEF FinalsInv, CaptionsInv, CaptionsTyped
<1>1. m \in Finals /\ m.id = i /\ m.ms = ms /\ m.action = "transcript_final"
  BY <1>0, <1>m DEF Captions!Final, Finals
<1>2. ~Had(m)
  <2> SUFFICES ASSUME i \in DOMAIN received, NEW k \in DOMAIN received[i], received[i][k] = m PROVE FALSE
    BY <1>1 DEF Had
  <2>1. m.ms <= settled BY <1>0
  <2> QED BY <1>0, <1>1, <2>1
<1>3. last' = m BY <1>1, <1>m DEF Captions!Publish
<1>4. i \in DOMAIN received => Captions!Has(captions, i) BY HeardIsShown
<1>5. current' = i OBVIOUS
<1>6. CASE ~tied
  <2>1. captions' = captions /\ received' = received BY <1>6 DEF Captions!Publish
  <2> HIDE DEF i
  <2> QED BY <1>1, <1>3, <1>4, <1>5, <2>1 DEF FinalsInv, SpokenIsShown
<1>7. CASE tied
  <2>1. captions' = Captions!On(captions, m) /\ received' = Captions!Received(m) BY <1>7, <1>m DEF Captions!Publish
  <2> HIDE DEF i
  <2>2. AllSame(captions'.utterances, received') /\ Captions!Has(captions', m.id)
    BY <1>1, <1>2, <1>4, <2>1, FinalSame
  <2> QED BY <1>1, <1>3, <1>5, <2>2 DEF FinalsInv, SpokenIsShown
<1> QED BY <1>6, <1>7

LEMMA ReplaySame ==
    ASSUME FinalsInv, CaptionsInv', last.id # 0, last.id \in DOMAIN received => Captions!Has(captions, last.id),
           captions' = Captions!On(captions, last), received' = Captions!Received(last),
           UNCHANGED <<current, last>>
    PROVE  FinalsInv'
<1>1. last \in Finals BY DEF FinalsInv, CaptionsInv, CaptionsTyped, Captions!Ended
<1>2. AllSame(captions'.utterances, received') /\ Captions!Has(captions', last.id)
  BY <1>1, FinalSame DEF FinalsInv, CaptionsInv, ReplayIsKnown
<1>3. DOMAIN received' = DOMAIN received \cup {last.id} BY <1>1, ReceivedIs DEF FinalsInv, CaptionsInv
<1>4. SpokenIsShown' BY <1>2, <1>3 DEF FinalsInv, SpokenIsShown
<1> QED BY <1>2, <1>4 DEF FinalsInv

LEMMA FinalsInit == Captions!Init => FinalsInv
<1> SUFFICES ASSUME Captions!Init PROVE FinalsInv OBVIOUS
<1>1. CaptionsInv BY CaptionsInit
<1>2. captions.utterances = <<>> /\ current = 0 BY DEF Captions!Init
<1>3. DOMAIN captions.utterances = {} BY <1>2
<1> QED BY <1>1, <1>2, <1>3 DEF FinalsInv, AllSame, SpokenIsShown

LEMMA FinalsStep == FinalsInv /\ [Captions!Next]_(Captions!vars) => FinalsInv'
<1> SUFFICES ASSUME FinalsInv, [Captions!Next]_(Captions!vars) PROVE FinalsInv' OBVIOUS
<1>0. CaptionsInv' BY CaptionsStep DEF FinalsInv
<1>1. CASE Captions!Begin BY <1>0, <1>1, NothingShown DEF Captions!Begin, Captions!tab
<1>2. CASE Captions!SpeechStarts
  <2>1. captions'.utterances = captions.utterances
    <3>1. CASE tied
      <4>1. captions' = [captions EXCEPT !.speaking = TRUE]
        BY <1>2, <3>1 DEF Captions!SpeechStarts, Captions!Publish, Captions!On, Captions!Started
      <4>2. PICK us, p : captions = [utterances |-> us, speaking |-> p] BY DEF FinalsInv, CaptionsInv, CaptionsTyped
      <4>3. PICK b : b = TRUE OBVIOUS
      <4>4. [captions EXCEPT !.speaking = b] = [utterances |-> us, speaking |-> b] /\ captions.utterances = us
        BY <4>2
      <4>5. captions' = [utterances |-> us, speaking |-> b] BY <4>1, <4>3, <4>4
      <4> QED BY <4>4, <4>5
    <3>2. CASE ~tied BY <1>2, <3>2 DEF Captions!SpeechStarts, Captions!Publish
    <3> QED BY <3>1, <3>2
  <2>2. last' = last /\ received' = received /\ current' = current
    BY <1>2 DEF Captions!SpeechStarts, Captions!Publish, Captions!Received, Captions!Sent, Captions!Started
  <2> QED BY <1>0, <2>1, <2>2, NothingShown
<1>3. CASE Captions!Pauses
  <2>1. CASE current # 0 BY <1>0, <1>3, <2>1, EndSame DEF Captions!Pauses
  <2>2. CASE current = 0 BY <1>0, <1>3, <2>2, NothingShown DEF Captions!Pauses, Captions!tab
  <2> QED BY <2>1, <2>2
<1>4. CASE Captions!Closes
  <2>1. CASE current # 0 BY <1>0, <1>4, <2>1, EndSame DEF Captions!Closes
  <2>2. CASE current = 0 BY <1>0, <1>4, <2>2, NothingShown DEF Captions!Closes, Captions!tab
  <2> QED BY <2>1, <2>2
<1>5. CASE Captions!Fails BY <1>0, <1>5, NothingShown DEF Captions!Fails, Captions!tab
<1>6. CASE Captions!Lose BY <1>0, <1>6, NothingShown DEF Captions!Lose, Captions!session
<1>7. CASE Captions!Return
  <2>1. CASE UNCHANGED <<captions, received>>
    BY <1>0, <1>7, <2>1, NothingShown DEF Captions!Return, Captions!session
  <2>2. CASE ~UNCHANGED <<captions, received>>
    BY <1>0, <1>7, <2>2, ReplaySame DEF Captions!Return, Captions!session
  <2> QED BY <2>1, <2>2
<1>8. CASE Captions!Wipe
  <2>1. captions'.utterances = <<>> /\ received' = <<>> BY <1>8 DEF Captions!Wipe
  <2>2. DOMAIN captions'.utterances = {} /\ DOMAIN received' = {} BY <2>1
  <2>3. SpokenIsShown' BY <2>2 DEF SpokenIsShown
  <2> QED BY <1>0, <2>2, <2>3 DEF FinalsInv, AllSame
<1>9. ASSUME NEW w \in Words, NEW ms \in reached .. reached + 1, Captions!Hears(w, ms) PROVE FinalsInv'
  <2>1. ms \in Nat BY DEF FinalsInv, CaptionsInv, CaptionsTyped
  <2>2. CASE Captions!Publish(Captions!Partial(Captions!Utterance, w, ms))
    BY <1>0, <1>9, <2>1, <2>2, PartialSame DEF Captions!Hears
  <2>3. CASE Captions!Publish(Captions!Final(Captions!Utterance, w, ms))
    BY <1>0, <1>9, <2>1, <2>3, HeardSame DEF Captions!Hears
  <2> QED BY <1>9, <2>2, <2>3 DEF Captions!Hears
<1>10. CASE UNCHANGED Captions!vars
  BY <1>0, <1>10, NothingShown DEF Captions!vars, Captions!session, Captions!tab
<1> QED BY <1>1, <1>2, <1>3, <1>4, <1>5, <1>6, <1>7, <1>8, <1>9, <1>10 DEF Captions!Next

(* The captions: text a tab has announced is not taken back.               *)
THEOREM AnnouncedTextStays == Spec => SettledStays
<1>1. Init => CaptionsInv
  BY CaptionsInit DEF Init
<1>2. [Next]_vars => [Captions!Next]_(Captions!vars)
  <2>1. UNCHANGED transcript => UNCHANGED Captions!vars
    BY DEF transcript, Captions!vars, Captions!session, Captions!tab
  <2> QED
    BY <2>1 DEF Next, vars, AssistantPanel, SpeechPanel, RecorderOfVoicePanel, CaptionsOfVoicePanel,
                ChatOfRoomPanel, NotificationPanel, RosterOfRoomPanel, AgentPanel
<1>3. CaptionsInv /\ [Next]_vars => CaptionsInv' /\ Settled(captions.utterances, captions'.utterances)
  BY <1>2, CaptionsStep
<1>4. CaptionsInv /\ [Next]_vars => CaptionsInv'
  BY <1>3
<1>5. CaptionsInv /\ [Next]_vars =>
        [\A j \in DOMAIN captions.utterances, k \in DOMAIN captions'.utterances :
            LET u == captions.utterances[j]
                v == captions'.utterances[k]
            IN  u.id = v.id => /\ Captions!IsPrefix(Captions!Announced(u), Captions!Announced(v))
                               /\ u.done /\ received' = received => v = u]_(Captions!vars)
  BY <1>3 DEF Settled, Captions!Announced
<1> QED BY <1>1, <1>4, <1>5, PTL DEF Spec, SettledStays, Captions!SettledStays

(* The captions show of an utterance the finals the tab was sent of it:    *)
(* every one, in order and once, whatever is replayed when the socket is   *)
(* back.                                                                   *)
THEOREM FinalsStayInOrder == Spec => []FinalsInOrder
<1>1. Init => FinalsInv
  BY FinalsInit DEF Init
<1>2. [Next]_vars => [Captions!Next]_(Captions!vars)
  <2>1. UNCHANGED transcript => UNCHANGED Captions!vars
    BY DEF transcript, Captions!vars, Captions!session, Captions!tab
  <2> QED
    BY <2>1 DEF Next, vars, AssistantPanel, SpeechPanel, RecorderOfVoicePanel, CaptionsOfVoicePanel,
                ChatOfRoomPanel, NotificationPanel, RosterOfRoomPanel, AgentPanel
<1>3. FinalsInv /\ [Next]_vars => FinalsInv'
  BY <1>2, FinalsStep
<1>4. FinalsInv => FinalsInOrder
  BY FinalsShow DEF FinalsInOrder
<1> QED BY <1>1, <1>3, <1>4, PTL DEF Spec

-----------------------------------------------------------------------------
(* Sentences: of which run, and which of it.                               *)
Sentences == (1 .. MaxRuns) \X Nat

(* What the variables hold.                                                *)
AssistantTyped ==
    /\ runs \in 0 .. MaxRuns /\ run \in [id : 0 .. MaxRuns, step : {"none", "starting", "talking", "ending"}]
    /\ said \in [1 .. MaxRuns -> Nat] /\ queue \in Seq(Sentences) /\ voice \in Seq(Sentences)

(* Only the last run begun is in flight, and it was not cut.               *)
RunIsTheLast ==
    /\ cut \subseteq 0 .. runs
    /\ run.step # "none" => run.id = runs /\ runs >= 1 /\ runs \notin cut
    /\ run.step = "none" => run = Assistant!NoRun

(* From the moment the synthesizer is cleared until the run is cancelled,  *)
(* what is queued slipped in; once the tab is told, what it plays as well. *)
SlippedSince ==
    /\ ears \in {"cleared", "told"} => Assistant!ToSet(queue) \subseteq slipped
    /\ ears = "told" => Assistant!ToSet(voice) \subseteq slipped

(* The inductive invariant. That the run interrupted is silent when it is  *)
(* cancelled (Keeps) is what SlippedSince says at that step; that a run    *)
(* begun later has other sentences is what RunIsTheLast does.              *)
AssistantInv == AssistantTyped /\ RunIsTheLast /\ SlippedSince /\ Assistant!InterruptedIsSilent

(* What a sequence holds, of one longer, shorter or empty.                 *)
LEMMA ToSetOfSequences ==
    ASSUME NEW S, NEW s \in Seq(S), NEW e \in S
    PROVE  /\ Assistant!ToSet(Append(s, e)) = Assistant!ToSet(s) \cup {e}
           /\ s # <<>> => /\ Assistant!ToSet(Tail(s)) \subseteq Assistant!ToSet(s)
                          /\ Head(s) \in Assistant!ToSet(s)
                          /\ Tail(s) \in Seq(S) /\ Head(s) \in S
           /\ Assistant!ToSet(<<>>) = {}
           /\ Assistant!ToSet(s) \subseteq S
           /\ Append(s, e) \in Seq(S)
<1>1. Assistant!ToSet(Append(s, e)) = Assistant!ToSet(s) \cup {e}
  BY AppendProperties DEF Assistant!ToSet
<1>2. s # <<>> => /\ Assistant!ToSet(Tail(s)) \subseteq Assistant!ToSet(s)
                  /\ Head(s) \in Assistant!ToSet(s)
                  /\ Tail(s) \in Seq(S) /\ Head(s) \in S
  BY HeadTailProperties, EmptySeq DEF Assistant!ToSet
<1>3. Assistant!ToSet(<<>>) = {} /\ Assistant!ToSet(s) \subseteq S /\ Append(s, e) \in Seq(S)
  BY AppendProperties, ElementOfSeq, EmptySeq DEF Assistant!ToSet
<1> QED BY <1>1, <1>2, <1>3

(* No run is begun and nothing is said.                                    *)
LEMMA AssistantInit == Assistant!Init => AssistantInv
<1> SUFFICES ASSUME Assistant!Init PROVE AssistantInv OBVIOUS
<1>1. Assistant!ToSet(<<>>) = {} BY EmptySeq DEF Assistant!ToSet
<1>2. AssistantTyped BY AssistantConstants, EmptySeq DEF Assistant!Init, Assistant!NoRun,
       AssistantTyped
<1> QED BY <1>1, <1>2 DEF Assistant!Init, Assistant!NoRun, AssistantInv, RunIsTheLast, SlippedSince,
       Assistant!InterruptedIsSilent, Assistant!Coming

(* Every step of the agent, the transcriber and the tab keeps it. Most of  *)
(* them only take sentences from the queue or the player and leave the run *)
(* or end it: <1>1 is about all of those.                                  *)
LEMMA AssistantStep == AssistantInv /\ [Assistant!Next]_Assistant!vars => AssistantInv'
<1> SUFFICES ASSUME AssistantInv, [Assistant!Next]_Assistant!vars PROVE AssistantInv' OBVIOUS
<1> USE DEF AssistantInv, Assistant!NoRun, Assistant!Running
<1> DEFINE Fewer(q, r) == r \in Seq(Sentences) /\ Assistant!ToSet(r) \subseteq Assistant!ToSet(q)
<1>0. \A q \in Seq(Sentences) : /\ Fewer(q, q) /\ Fewer(q, <<>>)
                                /\ q # <<>> => Fewer(q, Tail(q)) /\ Head(q) \in Assistant!ToSet(q)
                                       /\ Head(q) \in Sentences
  <2> TAKE q \in Seq(Sentences)
  <2>1. Fewer(q, q) /\ Fewer(q, <<>>)
    BY EmptySeq DEF Assistant!ToSet
  <2>2. ASSUME q # <<>> PROVE Fewer(q, Tail(q)) /\ Head(q) \in Assistant!ToSet(q) /\ Head(q) \in
         Sentences
    BY <2>2, Head(q) \in Sentences, ToSetOfSequences, HeadTailProperties
  <2> QED BY <2>1, <2>2
<1> HIDE DEF Fewer
<1>1. ASSUME UNCHANGED <<runs, said, ears, slipped, cut>>,
             run' \in {run, Assistant!NoRun} \/ (run.step # "none" /\ run'.id = run.id /\ run'.step
                    # "none"
                 /\ run' \in [id : 0 .. MaxRuns, step : {"none", "starting", "talking", "ending"}]),
             Fewer(queue, queue'), Fewer(voice, voice')
      PROVE AssistantInv'
  <2>1. AssistantTyped' BY <1>1, AssistantConstants DEF AssistantTyped, Fewer
  <2>2. RunIsTheLast' BY <1>1 DEF RunIsTheLast
  <2>3. SlippedSince' BY <1>1 DEF SlippedSince, Fewer
  <2>4. Assistant!InterruptedIsSilent' BY <1>1 DEF Assistant!InterruptedIsSilent, Assistant!Coming,
         Fewer
  <2> QED BY <2>1, <2>2, <2>3, <2>4
<1>2. CASE UNCHANGED Assistant!vars
  BY <1>2, <1>1, <1>0 DEF Assistant!vars, Assistant!agent, Assistant!history, Assistant!tab,
         AssistantTyped
<1>3. ASSUME Assistant!StartRun, ~Assistant!Running, UNCHANGED <<said, queue, ears, voice, slipped,
       cut>> PROVE AssistantInv'
  <2>1. AssistantTyped' BY <1>3, AssistantConstants DEF AssistantTyped, Assistant!StartRun
  <2>2. RunIsTheLast' BY <1>3 DEF RunIsTheLast, Assistant!StartRun, AssistantTyped
  <2>3. SlippedSince' BY <1>3 DEF SlippedSince
  <2>4. Assistant!InterruptedIsSilent' BY <1>3 DEF Assistant!InterruptedIsSilent, Assistant!Coming
  <2> QED BY <2>1, <2>2, <2>3, <2>4
<1>4. CASE Assistant!Typed BY <1>4, <1>3 DEF Assistant!Typed, Assistant!tab, Assistant!history
<1>5. CASE Assistant!RunBegins BY <1>5, <1>1, <1>0 DEF Assistant!RunBegins, Assistant!tab,
       Assistant!history, AssistantTyped
<1>6. CASE Assistant!Say
  <2> DEFINE p == <<run.id, said[run.id] + 1>>
  <2>1. /\ run.id = runs /\ runs \in 1 .. MaxRuns /\ runs \notin cut
        /\ p \in Sentences
    BY <1>6 DEF Assistant!Say, AssistantTyped, RunIsTheLast, Sentences
  <2>2. queue' \in Seq(Sentences) /\ Assistant!ToSet(queue') = Assistant!ToSet(queue) \cup {p}
    <3>1. queue' = Append(queue, p) BY <1>6 DEF Assistant!Say
    <3>2. queue \in Seq(Sentences) BY DEF AssistantTyped
    <3>3. p \in Sentences BY <2>1
    <3> HIDE DEF p
    <3> QED BY <3>1, <3>2, <3>3, ToSetOfSequences
  <2>3. slipped \subseteq slipped' /\ (ears \in {"cleared", "told"} => p \in slipped')
    BY <1>6 DEF Assistant!Say
  <2>4. said' \in [1 .. MaxRuns -> Nat] BY <1>6, <2>1 DEF Assistant!Say, AssistantTyped
  <2>5. UNCHANGED <<run, runs, ears, voice, cut>> BY <1>6 DEF Assistant!Say, Assistant!tab
  <2>6. AssistantTyped' BY <2>2, <2>4, <2>5 DEF AssistantTyped
  <2>7. RunIsTheLast' BY <2>5 DEF RunIsTheLast
  <2>8. SlippedSince' BY <2>2, <2>3, <2>5 DEF SlippedSince
  <2>9. Assistant!InterruptedIsSilent'
    <3>1. p[1] \notin cut BY <2>1
    <3> QED BY <3>1, <2>2, <2>3, <2>5 DEF Assistant!InterruptedIsSilent, Assistant!Coming
  <2> QED BY <2>6, <2>7, <2>8, <2>9
<1>7. CASE Assistant!RunEnds BY <1>7, <1>1, <1>0 DEF Assistant!RunEnds, Assistant!tab,
       Assistant!history, AssistantTyped
<1>8. CASE Assistant!RunOver BY <1>8, <1>1, <1>0 DEF Assistant!RunOver, Assistant!tab,
       Assistant!history, AssistantTyped
<1>9. CASE Assistant!Produce
  <2>1. /\ Fewer(queue, queue') /\ Head(queue) \in Sentences /\ Head(queue) \in
         Assistant!ToSet(queue)
        /\ voice' = Append(voice, Head(queue))
    BY <1>9, <1>0 DEF Assistant!Produce, AssistantTyped
  <2>2. voice' \in Seq(Sentences) /\ Assistant!ToSet(voice') = Assistant!ToSet(voice) \cup
         {Head(queue)}
    BY <2>1, ToSetOfSequences DEF AssistantTyped
  <2>3. UNCHANGED <<run, runs, said, ears, slipped, cut>> BY <1>9 DEF Assistant!Produce,
         Assistant!agent, Assistant!history
  <2>4. AssistantTyped' BY <2>1, <2>2, <2>3 DEF AssistantTyped, Fewer
  <2>5. RunIsTheLast' BY <2>3 DEF RunIsTheLast
  <2>6. SlippedSince' BY <2>1, <2>2, <2>3 DEF SlippedSince, Fewer
  <2>7. Assistant!InterruptedIsSilent' BY <2>1, <2>2, <2>3 DEF Assistant!InterruptedIsSilent,
         Assistant!Coming, Fewer
  <2> QED BY <2>4, <2>5, <2>6, <2>7
<1>10. CASE Assistant!Play BY <1>10, <1>1, <1>0 DEF Assistant!Play, Assistant!agent,
       Assistant!history, AssistantTyped
<1>11. CASE Assistant!SpeechStarts
  <2>1. AssistantTyped' /\ RunIsTheLast' /\ Assistant!InterruptedIsSilent'
    <3>1. UNCHANGED <<run, runs, said, queue, slipped, cut>> BY <1>11 DEF Assistant!SpeechStarts
    <3>2. Fewer(voice, voice') BY <1>11, <1>0 DEF Assistant!SpeechStarts, AssistantTyped
    <3> QED BY <3>1, <3>2 DEF AssistantTyped, RunIsTheLast, Assistant!InterruptedIsSilent,
           Assistant!Coming, Fewer
  <2>2. ears' \in {"listening", "clearing"} BY <1>11 DEF Assistant!SpeechStarts
  <2> QED BY <2>1, <2>2 DEF SlippedSince
<1>12. CASE Assistant!Clears
  <2>1. AssistantTyped' /\ RunIsTheLast' /\ Assistant!InterruptedIsSilent'
    <3>1. UNCHANGED <<run, runs, said, voice, slipped, cut>> BY <1>12 DEF Assistant!Clears,
           Assistant!agent, Assistant!tab, Assistant!history
    <3>2. Fewer(queue, queue') BY <1>12, <1>0 DEF Assistant!Clears, AssistantTyped
    <3> QED BY <3>1, <3>2 DEF AssistantTyped, RunIsTheLast, Assistant!InterruptedIsSilent,
           Assistant!Coming, Fewer
  <2>2. Assistant!ToSet(queue') = {} /\ ears' = "cleared" BY <1>12, EmptySeq DEF Assistant!Clears,
         Assistant!ToSet
  <2> QED BY <2>1, <2>2 DEF SlippedSince
<1>13. CASE Assistant!Tells
  <2>1. AssistantTyped' /\ RunIsTheLast' /\ Assistant!InterruptedIsSilent'
    <3>1. UNCHANGED <<run, runs, said, queue, slipped, cut>> BY <1>13 DEF Assistant!Tells,
           Assistant!agent, Assistant!history
    <3>2. Fewer(voice, voice') BY <1>13, <1>0 DEF Assistant!Tells, AssistantTyped
    <3> QED BY <3>1, <3>2 DEF AssistantTyped, RunIsTheLast, Assistant!InterruptedIsSilent,
           Assistant!Coming, Fewer
  <2>2. Assistant!ToSet(voice') = {} /\ UNCHANGED <<queue, slipped>> /\ Assistant!ToSet(queue)
         \subseteq slipped
    BY <1>13, EmptySeq DEF Assistant!Tells, Assistant!ToSet, Assistant!agent, Assistant!history,
           SlippedSince
  <2> QED BY <2>1, <2>2 DEF SlippedSince
<1>14. CASE Assistant!Keeps
  <2>1. /\ UNCHANGED <<runs, said, queue, voice, slipped>> /\ run' = Assistant!NoRun /\ ears' =
         "listening"
        /\ cut' \subseteq cut \cup {runs}
    BY <1>14 DEF Assistant!Keeps, Assistant!tab
  <2>2. Assistant!ToSet(queue) \subseteq slipped /\ Assistant!ToSet(voice) \subseteq slipped
    BY <1>14 DEF Assistant!Keeps, SlippedSince
  <2>3. AssistantTyped' BY <2>1, AssistantConstants DEF AssistantTyped
  <2>4. RunIsTheLast' BY <2>1 DEF RunIsTheLast, AssistantTyped
  <2>5. SlippedSince' BY <2>1 DEF SlippedSince
  <2>6. Assistant!InterruptedIsSilent' BY <2>1, <2>2 DEF Assistant!InterruptedIsSilent,
         Assistant!Coming
  <2> QED BY <2>3, <2>4, <2>5, <2>6
<1>15. CASE Assistant!UtteranceEnds
  <2>1. CASE Assistant!Running BY <2>1, <1>15, <1>1, <1>0 DEF Assistant!UtteranceEnds,
         Assistant!history, AssistantTyped
  <2>2. CASE ~Assistant!Running BY <2>2, <1>15, <1>3 DEF Assistant!UtteranceEnds, Assistant!history
  <2> QED BY <2>1, <2>2
<1>16. CASE Assistant!StopReply BY <1>16, <1>1, <1>0 DEF Assistant!StopReply, Assistant!agent,
       Assistant!history, AssistantTyped
<1>17. CASE Assistant!HandleClear BY <1>17, <1>1, <1>0 DEF Assistant!HandleClear, Assistant!agent,
       Assistant!history, AssistantTyped
<1>18. CASE Assistant!HandleCancel BY <1>18, <1>1, <1>0 DEF Assistant!HandleCancel,
       Assistant!history, AssistantTyped
<1> QED BY <1>2, <1>4, <1>5, <1>6, <1>7, <1>8, <1>9, <1>10, <1>11, <1>12, <1>13, <1>14, <1>15,
           <1>16, <1>17, <1>18 DEF Assistant!Next

(* The voice agent: nothing of a run the user's voice interrupted is       *)
(* queued or played after interrupt(), but what was said while it waited.  *)
THEOREM InterruptedStaysSilent == Spec => []InterruptedIsSilent
<1>1. Init => AssistantInv
  BY AssistantInit DEF Init
<1>2. [Next]_vars => [Assistant!Next]_(Assistant!vars)
  <2>1. UNCHANGED assistant => UNCHANGED Assistant!vars
    BY DEF assistant, Assistant!vars, Assistant!agent, Assistant!tab, Assistant!history
  <2> QED
    BY <2>1 DEF Next, vars, AssistantPanel, SpeechPanel, RecorderOfVoicePanel, CaptionsOfVoicePanel,
                ChatOfRoomPanel, NotificationPanel, RosterOfRoomPanel, AgentPanel
<1>3. AssistantInv /\ [Next]_vars => AssistantInv'
  BY <1>2, AssistantStep
<1>4. AssistantInv => InterruptedIsSilent
  BY DEF AssistantInv, InterruptedIsSilent
<1> QED BY <1>1, <1>3, <1>4, PTL DEF Spec

(* The turns of a conversation, and what it holds of reply n.              *)
UserTurns == [role : {"user"}, of : Nat, length : {0}]
Replies   == [role : {"assistant"}, of : 1 .. MaxRuns, length : Nat]
Turns     == UserTurns \cup Replies

Rem(ms, n) == {k \in DOMAIN ms : ms[k].role = "assistant" /\ ms[k].of = n}

MemoryTyped ==
    /\ memory \in Seq(Turns) /\ turns \in Nat /\ heard \in [1 .. MaxRuns -> Nat]
    /\ spoken \in 0 .. runs /\ cutting \in 0 .. runs /\ reply \in 0 .. runs
    /\ \A k \in DOMAIN memory : memory[k].role = "assistant" => memory[k].of <= runs

(* What the user said is all there.                                        *)
TurnsAreThere == Room!Among(memory, UserTurns) = [k \in 1 .. turns |-> Assistant!User(k)]

RepliesOnce == \A n \in 1 .. runs : n \notin stale => \A j, k \in Rem(memory, n) : j = k
CutAsHeard  == \A n \in 1 .. runs : n \in cut => \A k \in Rem(memory, n) : memory[k].length <= heard[n]

(* The last run: nothing is remembered of it until it ends; and while its  *)
(* list is held, by the agent or by interrupt(), what is remembered of it  *)
(* is the reply that Keeps takes out.                                      *)
LastRun ==
    /\ run.step \in {"starting", "talking"} => Rem(memory, runs) = {}
    /\ runs >= 1 /\ runs \in {spoken, cutting} =>
         \A k \in Rem(memory, runs) : reply = runs /\ memory[k] = Assistant!Reply(runs, said[runs])

(* A run's list is held once, from its start until it is cut.              *)
ListsHeld ==
    /\ run.step = "starting" => runs \notin {spoken, cutting}
    /\ cutting # 0 => spoken # cutting
    /\ \A n \in {spoken, cutting} : n # 0 => n \notin cut

MemoryInv ==
    /\ AssistantInv
    /\ MemoryTyped /\ TurnsAreThere /\ RepliesOnce /\ CutAsHeard /\ LastRun /\ ListsHeld

LEMMA MemoryInit == Assistant!Init => MemoryInv
<1> SUFFICES ASSUME Assistant!Init PROVE MemoryInv OBVIOUS
<1>1. AssistantInv BY AssistantInit
<1>2. memory = <<>> /\ runs = 0 /\ turns = 0 /\ spoken = 0 /\ cutting = 0 /\ reply = 0 /\ run.step = "none"
  BY DEF Assistant!Init, Assistant!NoRun
<1>3. <<>> \in Seq(Turns) /\ DOMAIN <<>> = {} OBVIOUS
<1>4. MemoryTyped BY <1>2, <1>3, AssistantConstants DEF MemoryTyped, Assistant!Init
<1>5. TurnsAreThere
  <2>1. [k \in 1 .. 0 |-> Assistant!User(k)] = <<>> BY SMT
  <2> QED BY <1>2, <2>1, AmongNone DEF TurnsAreThere
<1>6. RepliesOnce /\ CutAsHeard BY <1>2 DEF RepliesOnce, CutAsHeard
<1>7. LastRun /\ ListsHeld BY <1>2, <1>3 DEF LastRun, ListsHeld, Rem
<1> QED BY <1>1, <1>4, <1>5, <1>6, <1>7 DEF MemoryInv

(* The invariant gives the property.                                       *)
LEMMA MemoryShows == MemoryInv => Assistant!RemembersTheConversation
<1> SUFFICES ASSUME MemoryInv PROVE Assistant!RemembersTheConversation OBVIOUS
<1> USE DEF MemoryInv
<1> DEFINE U == {t \in Assistant!ToSet(memory) : t.role = "user"}
<1>1. memory \in Seq(Turns) BY DEF MemoryTyped
<1>2. \A k \in 1 .. Len(memory) : memory[k] \in U <=> memory[k] \in UserTurns
  <2> TAKE k \in 1 .. Len(memory)
  <2>1. memory[k] \in Turns /\ memory[k] \in Assistant!ToSet(memory) BY <1>1 DEF Assistant!ToSet
  <2> QED BY <2>1 DEF Turns, UserTurns, Replies
<1> HIDE DEF U
<1>3. Room!Among(memory, U) = Room!Among(memory, UserTurns) BY <1>1, <1>2, AmongAlike
<1>4. Assistant!Among(memory, U) = [k \in 1 .. turns |-> Assistant!User(k)]
  BY <1>3, AmongIsOne DEF TurnsAreThere
<1>5. \A n : Assistant!Remembered(n) = Rem(memory, n) BY DEF Assistant!Remembered, Rem
<1>6. ASSUME NEW n \in 1 .. runs, n \notin stale PROVE Assistant!Cardinality(Assistant!Remembered(n)) <= 1
  <2>1. Assistant!Cardinality(Rem(memory, n)) = Cardinality(Rem(memory, n))
    BY Zenon DEF Assistant!Cardinality, Cardinality, Assistant!IsFiniteSet, IsFiniteSet
  <2>2. CASE Rem(memory, n) = {} BY <2>2, FS_EmptySet, <2>1, <1>5
  <2>3. CASE Rem(memory, n) # {}
    <3>1. PICK j \in Rem(memory, n) : TRUE BY <2>3
    <3>2. Rem(memory, n) = {j} BY <3>1, <1>6 DEF RepliesOnce
    <3>3. Cardinality({j}) = 1 BY FS_Singleton
    <3> QED BY <3>2, <3>3, <2>1, <1>5
  <2> QED BY <2>2, <2>3
<1>7. ASSUME NEW n \in 1 .. runs, n \in cut, NEW k \in Assistant!Remembered(n) PROVE memory[k].length <= heard[n]
  BY <1>5, <1>7 DEF CutAsHeard
<1> QED BY <1>4, <1>6, <1>7 DEF Assistant!RemembersTheConversation, U

(* What is remembered of a run when a turn is added.                       *)
OfRun(x, n) == x.role = "assistant" /\ x.of = n

TurnMore(ms, x, us) ==
    DOMAIN us = 1 .. Len(ms) + 1 /\ us[Len(ms) + 1] = x /\ \A k \in DOMAIN ms : us[k] = ms[k]

LEMMA OneTurnMore ==
    ASSUME NEW ms \in Seq(Turns), NEW x, NEW us, TurnMore(ms, x, us)
    PROVE  \A n : \A k \in Rem(us, n) :
             \/ k \in Rem(ms, n) /\ us[k] = ms[k]
             \/ k = Len(ms) + 1 /\ OfRun(x, n) /\ us[k] = x
<1> TAKE n
<1> TAKE k \in Rem(us, n)
<1>1. k \in DOMAIN us /\ us[k].role = "assistant" /\ us[k].of = n BY DEF Rem
<1>2. Len(ms) \in Nat /\ DOMAIN ms = 1 .. Len(ms) OBVIOUS
<1>3. CASE k = Len(ms) + 1 BY <1>1, <1>2, <1>3 DEF TurnMore, OfRun
<1>4. CASE k # Len(ms) + 1
  <2>1. k \in DOMAIN ms BY <1>1, <1>2, <1>4 DEF TurnMore
  <2> QED BY <1>1, <1>2, <2>1 DEF TurnMore, Rem
<1> QED BY <1>3, <1>4

(* Steps that leave the conversation, and the runs begun.                  *)
LEMMA MemoryStays ==
    ASSUME MemoryInv, AssistantInv', UNCHANGED <<runs, said, reply, memory, turns, stale, cut>>,
           spoken' \in {0, spoken, cutting}, cutting' \in {0, spoken, cutting},
           cutting' # 0 => spoken' # cutting',
           heard' \in [1 .. MaxRuns -> Nat], \A n \in 1 .. MaxRuns : heard[n] <= heard'[n],
           run' = run \/ run'.step \notin {"starting", "talking"}
    PROVE  MemoryInv'
<1> USE DEF MemoryInv
<1>0. runs \in Nat /\ runs <= MaxRuns /\ MaxRuns \in Nat BY AssistantConstants DEF AssistantInv, AssistantTyped
<1>1. MemoryTyped' BY <1>0 DEF MemoryTyped
<1>2. TurnsAreThere' /\ RepliesOnce' BY DEF TurnsAreThere, RepliesOnce
<1>3. CutAsHeard'
  <2> SUFFICES ASSUME NEW n \in 1 .. runs, n \in cut, NEW k \in Rem(memory, n)
               PROVE  memory[k].length <= heard'[n]
    BY DEF CutAsHeard
  <2>1. memory[k].length <= heard[n] BY DEF CutAsHeard
  <2>2. memory[k] \in Replies
    <3>1. k \in DOMAIN memory /\ memory \in Seq(Turns) /\ memory[k].role = "assistant" BY DEF Rem, MemoryTyped
    <3>2. memory[k] \in Turns BY <3>1
    <3> QED BY <3>1, <3>2 DEF Turns, UserTurns
  <2>3. memory[k].length \in Nat BY <2>2 DEF Replies
  <2>4. n \in 1 .. MaxRuns BY <1>0
  <2>5. heard[n] \in Nat /\ heard'[n] \in Nat /\ heard[n] <= heard'[n] BY <2>4 DEF MemoryTyped
  <2> QED BY <2>1, <2>3, <2>5
<1>4. LastRun'
  <2>1. run'.step \in {"starting", "talking"} => Rem(memory, runs) = {} BY DEF LastRun
  <2>2. runs >= 1 => runs # 0 BY <1>0
  <2>3. runs >= 1 /\ runs \in {spoken', cutting'} => runs \in {spoken, cutting} BY <2>2
  <2>4. ASSUME runs >= 1, runs \in {spoken', cutting'}, NEW k \in Rem(memory, runs)
        PROVE  reply = runs /\ memory[k] = Assistant!Reply(runs, said[runs])
    <3>1. runs \in {spoken, cutting} BY <2>3, <2>4
    <3> QED BY <2>4, <3>1 DEF LastRun
  <2>5. runs' = runs /\ said' = said /\ reply' = reply /\ memory' = memory OBVIOUS
  <2> HIDE DEF MemoryInv
  <2> QED BY Zenon, <2>1, <2>4, <2>5 DEF LastRun
<1>5. ListsHeld'
  <2>1. run.step = "starting" => runs # 0 BY <1>0 DEF AssistantInv, RunIsTheLast
  <2> QED BY <2>1 DEF ListsHeld
<1> QED BY <1>1, <1>2, <1>3, <1>4, <1>5

(* A run is begun; the user's turn may be what begins it.                  *)
LEMMA MemoryOfTurn ==
    ASSUME MemoryInv, AssistantInv', UNCHANGED <<said, reply, heard, spoken, cutting, stale, cut>>,
           \/ UNCHANGED <<memory, turns>>
           \/ turns' = turns + 1 /\ memory' = Append(memory, Assistant!User(turns + 1)),
           UNCHANGED <<run, runs>> \/ (runs < MaxRuns /\ runs' = runs + 1 /\ run'.step = "starting")
    PROVE  MemoryInv'
<1> USE DEF MemoryInv
<1>0. runs \in Nat /\ runs <= MaxRuns /\ MaxRuns \in Nat /\ runs' \in {runs, runs + 1}
  BY AssistantConstants DEF AssistantInv, AssistantTyped
<1>1. memory \in Seq(Turns) /\ turns \in Nat /\ Assistant!User(turns + 1) \in UserTurns
  BY DEF MemoryTyped, Assistant!User, UserTurns
<1>2. Assistant!User(turns + 1) \in Turns /\ Assistant!User(turns + 1).role # "assistant"
  BY <1>1 DEF Turns, UserTurns
<1>3. \A n : \A k \in Rem(memory', n) : k \in Rem(memory, n) /\ memory'[k] = memory[k]
  <2> DEFINE u == Assistant!User(turns + 1)
  <2>1. CASE UNCHANGED memory BY <2>1 DEF Rem
  <2>2. CASE memory' = Append(memory, u)
    <3>1. u \in Turns /\ u.role # "assistant" BY <1>2
    <3> HIDE DEF u
    <3>2. TurnMore(memory, u, memory') BY <1>1, <2>2, <3>1 DEF TurnMore
    <3> QED BY <1>1, <3>1, <3>2, OneTurnMore DEF OfRun
  <2> QED BY <2>1, <2>2
<1>4. \A k \in DOMAIN memory' : memory'[k].role = "assistant" => k \in DOMAIN memory /\ memory'[k] = memory[k]
  BY <1>3 DEF Rem
<1>5. MemoryTyped'
  <2>1. memory' \in Seq(Turns) /\ turns' \in Nat BY <1>1, <1>2
  <2>2. \A k \in DOMAIN memory' : memory'[k].role = "assistant" => memory'[k].of <= runs'
    <3> SUFFICES ASSUME NEW k \in DOMAIN memory', memory'[k].role = "assistant" PROVE memory'[k].of <= runs'
      OBVIOUS
    <3>1. k \in DOMAIN memory /\ memory'[k] = memory[k] BY <1>4
    <3>2. memory[k] \in Turns BY <1>1, <3>1
    <3>3. memory[k].of \in Nat BY <3>2, <3>1, AssistantConstants DEF Turns, UserTurns, Replies
    <3>4. memory[k].of <= runs BY <3>1 DEF MemoryTyped
    <3> QED BY <3>1, <3>3, <3>4, <1>0
  <2> QED BY <2>1, <2>2, <1>0 DEF MemoryTyped
<1>6. TurnsAreThere'
  <2> DEFINE u == Assistant!User(turns + 1)
             us == [k \in 1 .. turns |-> Assistant!User(k)]
  <2>1. CASE UNCHANGED <<memory, turns>> BY <2>1 DEF TurnsAreThere
  <2>2. CASE turns' = turns + 1 /\ memory' = Append(memory, u)
    <3>1. Room!Among(memory', UserTurns) = Append(us, u)
      <4>1. u \in Turns /\ u \in UserTurns BY <1>1, <1>2
      <4> HIDE DEF u
      <4>2. Room!Among(Append(memory, u), UserTurns) = Append(Room!Among(memory, UserTurns), u)
        BY <4>1, <1>1, AmongMore
      <4> QED BY <4>2, <2>2 DEF TurnsAreThere
    <3>2. Append(us, u) = [k \in 1 .. turns + 1 |-> Assistant!User(k)]
      <4>1. us \in Seq(UserTurns) /\ Len(us) = turns
        <5>1. \A k \in 1 .. turns : Assistant!User(k) \in UserTurns BY <1>1 DEF Assistant!User, UserTurns
        <5> HIDE DEF UserTurns
        <5> QED BY <1>1, <5>1, SeqDef
      <4> QED BY <4>1, <1>1
    <3> QED BY <3>1, <3>2, <2>2 DEF TurnsAreThere
  <2> QED BY <2>1, <2>2
<1>7. runs' = runs + 1 => Rem(memory', runs + 1) = {}
  <2> SUFFICES ASSUME NEW k \in Rem(memory', runs + 1) PROVE FALSE OBVIOUS
  <2>1. k \in Rem(memory, runs + 1) BY <1>3
  <2>2. k \in DOMAIN memory /\ memory[k].role = "assistant" /\ memory[k].of = runs + 1 BY <2>1 DEF Rem
  <2>3. memory[k].of <= runs BY <2>2 DEF MemoryTyped
  <2> QED BY <2>2, <2>3, <1>0
<1>8. RepliesOnce' /\ CutAsHeard'
  <2> SUFFICES ASSUME NEW n \in 1 .. runs'
               PROVE  /\ n \notin stale => \A j, k \in Rem(memory', n) : j = k
                      /\ n \in cut => \A k \in Rem(memory', n) : memory'[k].length <= heard[n]
    BY DEF RepliesOnce, CutAsHeard
  <2>1. CASE n \in 1 .. runs BY <2>1, <1>3 DEF RepliesOnce, CutAsHeard
  <2>2. CASE n \notin 1 .. runs
    <3>1. n = runs + 1 /\ runs' = runs + 1 BY <2>2, <1>0
    <3> QED BY <3>1, <1>7
  <2> QED BY <2>1, <2>2
<1>9. LastRun' /\ ListsHeld'
  <2>1. CASE UNCHANGED <<run, runs>> BY <2>1, <1>3 DEF LastRun, ListsHeld
  <2>2. CASE runs' = runs + 1
    <3>1. spoken # runs + 1 /\ cutting # runs + 1 BY <1>0 DEF MemoryTyped
    <3> QED BY <3>1, <2>2, <1>7 DEF LastRun, ListsHeld
  <2> QED BY <2>1, <2>2
<1> QED BY <1>5, <1>6, <1>8, <1>9

(* The run ends: its reply is remembered.                                  *)
LEMMA MemoryOfReply == MemoryInv /\ AssistantInv' /\ Assistant!RunEnds => MemoryInv'
<1> SUFFICES ASSUME MemoryInv, AssistantInv', Assistant!RunEnds PROVE MemoryInv' OBVIOUS
<1> USE DEF MemoryInv
<1>0. /\ runs \in 1 .. MaxRuns /\ MaxRuns \in Nat /\ run.id = runs /\ runs \notin cut /\ run.step = "talking"
      /\ said[runs] \in Nat /\ run'.step = "ending"
      /\ UNCHANGED <<runs, said, spoken, cutting, turns, heard, stale, cut>>
  BY AssistantConstants DEF AssistantInv, AssistantTyped, RunIsTheLast, Assistant!RunEnds, Assistant!history
<1>1. CASE said[runs] = 0
  <2>1. UNCHANGED <<memory, reply>> BY <1>0, <1>1 DEF Assistant!RunEnds
  <2>2. \A n \in 1 .. MaxRuns : heard[n] <= heard[n] BY DEF MemoryTyped
  <2>3. heard \in [1 .. MaxRuns -> Nat] /\ (cutting # 0 => spoken # cutting) BY DEF MemoryTyped, ListsHeld
  <2> QED BY <2>1, <2>2, <2>3, <1>0, MemoryStays
<1>2. CASE said[runs] > 0
  <2> DEFINE r == Assistant!Reply(runs, said[runs])
  <2>1. memory' = Append(memory, r) /\ reply' = runs BY <1>0, <1>2 DEF Assistant!RunEnds
  <2>2. r \in Replies /\ r.role = "assistant" /\ r.of = runs BY <1>0 DEF Assistant!Reply, Replies
  <2>3. r \in Turns /\ r \notin UserTurns BY <2>2 DEF Turns, UserTurns
  <2>4. memory \in Seq(Turns) /\ Len(memory) \in Nat /\ DOMAIN memory = 1 .. Len(memory) BY DEF MemoryTyped
  <2> HIDE DEF r
  <2>5. \A n : \A k \in Rem(memory', n) :
          \/ k \in Rem(memory, n) /\ memory'[k] = memory[k]
          \/ k = Len(memory) + 1 /\ n = runs /\ memory'[k] = r
    <3>1. memory \in Seq(Turns) /\ r \in Turns /\ memory' = Append(memory, r) BY <2>1, <2>3, <2>4
    <3>2. \A n : \A k \in Rem(memory', n) :
            \/ k \in Rem(memory, n) /\ memory'[k] = memory[k]
            \/ k = Len(memory) + 1 /\ OfRun(r, n) /\ memory'[k] = r
      <4>1. TurnMore(memory, r, memory') BY ONLY <3>1 DEF TurnMore
      <4>2. memory \in Seq(Turns) BY <3>1
      <4> QED BY <4>1, <4>2, OneTurnMore
    <3> QED BY <3>2, <2>2 DEF OfRun
  <2>6. Rem(memory, runs) = {} BY <1>0 DEF LastRun
  <2>7. MemoryTyped'
    <3>1. memory' \in Seq(Turns) BY <2>1, <2>3, <2>4
    <3>2. \A k \in DOMAIN memory' : memory'[k].role = "assistant" => memory'[k].of <= runs
      <4> SUFFICES ASSUME NEW k \in DOMAIN memory', memory'[k].role = "assistant" PROVE memory'[k].of <= runs
        OBVIOUS
      <4>1. k \in Rem(memory', memory'[k].of) BY DEF Rem
      <4>2. CASE k \in Rem(memory, memory'[k].of) /\ memory'[k] = memory[k] BY <4>2 DEF Rem, MemoryTyped
      <4>3. CASE memory'[k].of = runs BY <4>3, <1>0
      <4> QED BY <4>1, <4>2, <4>3, <2>5
    <3> QED BY <3>1, <3>2, <1>0, <2>1 DEF MemoryTyped
  <2>8. TurnsAreThere'
    <3>1. Room!Among(memory', UserTurns) = Room!Among(memory, UserTurns) BY <2>1, <2>3, <2>4, AmongMore
    <3> QED BY <3>1, <1>0 DEF TurnsAreThere
  <2>9. RepliesOnce' BY <2>5, <2>6, <1>0 DEF RepliesOnce
  <2>10. CutAsHeard' BY <2>5, <1>0 DEF CutAsHeard
  <2>11. LastRun' BY <2>1, <2>5, <2>6, <1>0 DEF LastRun, r
  <2>12. ListsHeld' BY <1>0 DEF ListsHeld
  <2> QED BY <2>7, <2>8, <2>9, <2>10, <2>11, <2>12
<1> QED BY <1>0, <1>1, <1>2

(* interrupt() takes out the reply remembered whole, and puts in what was  *)
(* heard of the run it cuts.                                               *)
LEMMA MemoryOfCut == MemoryInv /\ AssistantInv' /\ Assistant!Keeps => MemoryInv'
<1> SUFFICES ASSUME MemoryInv, AssistantInv', Assistant!Keeps PROVE MemoryInv' OBVIOUS
<1> USE DEF MemoryInv
<1>0. /\ runs \in 0 .. MaxRuns /\ MaxRuns \in Nat /\ cutting \in 0 .. runs /\ spoken \in 0 .. runs
      /\ UNCHANGED <<runs, said, spoken, turns, heard>> /\ cutting' = 0 /\ reply' = 0 /\ run'.step = "none"
      /\ cut' = cut \cup ({cutting} \cap {runs}) /\ stale' = stale \cup ({cutting} \ {0, runs})
      /\ memory' = Assistant!Kept(memory, reply)
  BY AssistantConstants DEF AssistantInv, AssistantTyped, MemoryTyped, Assistant!Keeps, Assistant!NoRun,
     Assistant!tab
<1> DEFINE S == {t \in Assistant!ToSet(memory) : reply = 0 \/ t # Assistant!Reply(reply, said[reply])}
           w == Room!Among(memory, S)
           r == Assistant!Reply(cutting, heard[cutting])
           Added == cutting # 0 /\ heard[cutting] > 0
<1>1. memory' = IF Added THEN Append(w, r) ELSE w BY <1>0, AmongIsOne DEF Assistant!Kept
<1>2. memory \in Seq(Turns) /\ DOMAIN memory = 1 .. Len(memory) BY DEF MemoryTyped
<1>3. Remains(Turns, memory, S, w, Len(memory))
  <2> HIDE DEF S
  <2> QED BY <1>2, AmongIs
<1>4. \A t \in S : reply # 0 => t # Assistant!Reply(reply, said[reply]) OBVIOUS
<1>5. \A k \in 1 .. Len(memory) : memory[k] \in UserTurns => memory[k] \in S
  <2>1. \A k \in 1 .. Len(memory) : memory[k] \in Assistant!ToSet(memory) BY <1>2 DEF Assistant!ToSet
  <2>2. \A t \in UserTurns : t # Assistant!Reply(reply, said[reply]) BY DEF UserTurns, Assistant!Reply
  <2> QED BY <2>1, <2>2
<1>6. Added => r \in Replies /\ r.role = "assistant" /\ r.of = cutting /\ r.length = heard[cutting]
  BY <1>0 DEF Assistant!Reply, Replies, MemoryTyped
<1>7. Added => r \in Turns /\ r \notin UserTurns BY <1>6 DEF Turns, UserTurns
<1> HIDE DEF S, w, r
<1>8. w \in Seq(Turns) /\ Len(w) \in Nat /\ DOMAIN w = 1 .. Len(w) BY <1>3 DEF Remains
<1>9. \A n : \A j \in Rem(w, n) : w[j] \in S /\ \E k \in Rem(memory, n) : memory[k] = w[j]
  <2> TAKE n
  <2> TAKE j \in Rem(w, n)
  <2>1. j \in DOMAIN w /\ w[j].role = "assistant" /\ w[j].of = n BY DEF Rem
  <2>2. w[j] \in S /\ \E k \in 1 .. Len(memory) : w[j] = memory[k] BY <2>1, <1>3 DEF Remains
  <2> QED BY <2>1, <2>2, <1>2 DEF Rem
<1>10. ASSUME NEW n, \A j, k \in Rem(memory, n) : j = k PROVE \A j, k \in Rem(w, n) : j = k
  <2>1. ASSUME NEW j \in Rem(w, n), NEW l \in Rem(w, n), j < l PROVE FALSE
    <3>1. j \in DOMAIN w /\ l \in DOMAIN w BY DEF Rem
    <3>2. PICK k \in 1 .. Len(memory), m \in 1 .. Len(memory) : k < m /\ w[j] = memory[k] /\ w[l] = memory[m]
      BY <2>1, <3>1, <1>3 DEF Remains
    <3>3. k \in Rem(memory, n) /\ m \in Rem(memory, n) BY <3>2, <1>2 DEF Rem
    <3>4. k # m BY <3>2
    <3> QED BY <3>3, <3>4, <1>10
  <2>2. \A j, k \in Rem(w, n) : j \in Nat /\ k \in Nat BY <1>8 DEF Rem
  <2> QED BY <2>1, <2>2
<1>11. ASSUME runs >= 1, runs \in {spoken, cutting} PROVE Rem(w, runs) = {}
  <2> SUFFICES ASSUME NEW j \in Rem(w, runs) PROVE FALSE OBVIOUS
  <2>1. PICK k \in Rem(memory, runs) : memory[k] = w[j] BY <1>9
  <2>2. w[j] \in S BY <1>9
  <2>3. reply = runs /\ memory[k] = Assistant!Reply(runs, said[runs]) BY <1>11 DEF LastRun
  <2>4. reply # 0 BY <2>3, <1>11
  <2> QED BY <2>1, <2>2, <2>3, <2>4, <1>4
<1>12. \A n : \A k \in Rem(memory', n) :
         \/ k \in Rem(w, n) /\ memory'[k] = w[k]
         \/ k = Len(w) + 1 /\ Added /\ n = cutting /\ memory'[k] = r
  <2>1. CASE ~Added BY <2>1, <1>1
  <2>2. CASE Added
    <3> HIDE DEF Added
    <3>1. w \in Seq(Turns) /\ r \in Turns /\ memory' = Append(w, r) BY <2>2, <1>1, <1>7, <1>8
    <3>2. \A n : \A k \in Rem(memory', n) :
            \/ k \in Rem(w, n) /\ memory'[k] = w[k]
            \/ k = Len(w) + 1 /\ OfRun(r, n) /\ memory'[k] = r
      <4>1. TurnMore(w, r, memory') BY ONLY <3>1 DEF TurnMore
      <4>2. w \in Seq(Turns) BY <3>1
      <4> QED BY <4>1, <4>2, OneTurnMore
    <3> QED BY <3>2, <2>2, <1>6 DEF OfRun
  <2> QED BY <2>1, <2>2
<1> HIDE DEF Added
<1>13. MemoryTyped'
  <2>1. memory' \in Seq(Turns) BY <1>1, <1>7, <1>8
  <2>2. \A k \in DOMAIN memory' : memory'[k].role = "assistant" => memory'[k].of <= runs
    <3> SUFFICES ASSUME NEW k \in DOMAIN memory', memory'[k].role = "assistant" PROVE memory'[k].of <= runs
      OBVIOUS
    <3> DEFINE n == memory'[k].of
    <3>1. k \in Rem(memory', n) BY DEF Rem
    <3>2. CASE k \in Rem(w, n)
      <4>1. PICK j \in Rem(memory, n) : TRUE BY <3>2, <1>9
      <4>2. j \in DOMAIN memory /\ memory[j].role = "assistant" /\ memory[j].of = n BY <4>1 DEF Rem
      <4> QED BY <4>2 DEF MemoryTyped
    <3>3. CASE n = cutting BY <3>3, <1>0
    <3> QED BY <3>1, <3>2, <3>3, <1>12
  <2> QED BY <2>1, <2>2, <1>0 DEF MemoryTyped
<1>14. TurnsAreThere'
  <2>1. Room!Among(w, UserTurns) = Room!Among(memory, UserTurns) BY <1>2, <1>5, AmongThose DEF w
  <2>2. Room!Among(memory', UserTurns) = Room!Among(w, UserTurns)
    <3>1. CASE ~Added BY <3>1, <1>1
    <3>2. CASE Added BY <3>2, <1>1, <1>7, <1>8, AmongMore
    <3> QED BY <3>1, <3>2
  <2> QED BY <2>1, <2>2, <1>0 DEF TurnsAreThere
<1>15. ASSUME NEW n \in 1 .. runs, n = cutting, n \notin stale' \/ n \in cut'
       PROVE  n = runs /\ Rem(w, n) = {}
  <2>1. n # 0 /\ runs >= 1 BY <1>0
  <2>2. n \notin cut BY <2>1, <1>15 DEF ListsHeld
  <2>3. n = runs BY <2>1, <2>2, <1>15, <1>0
  <2> QED BY <2>1, <2>3, <1>15, <1>11
<1>16. RepliesOnce'
  <2> SUFFICES ASSUME NEW n \in 1 .. runs, n \notin stale', NEW j \in Rem(memory', n), NEW k \in Rem(memory', n)
               PROVE  j = k
    BY <1>0 DEF RepliesOnce
  <2>1. CASE n = cutting BY <2>1, <1>12, <1>15
  <2>2. CASE n # cutting
    <3>1. n \notin stale BY <1>0
    <3>2. \A i, m \in Rem(w, n) : i = m BY <3>1, <1>10 DEF RepliesOnce
    <3> QED BY <3>2, <2>2, <1>12
  <2> QED BY <2>1, <2>2
<1>17. CutAsHeard'
  <2> SUFFICES ASSUME NEW n \in 1 .. runs, n \in cut', NEW k \in Rem(memory', n)
               PROVE  memory'[k].length <= heard[n]
    BY <1>0 DEF CutAsHeard
  <2>1. CASE n = cutting
    <3>1. memory'[k] = r /\ Added BY <2>1, <1>12, <1>15
    <3>2. n \in 1 .. MaxRuns BY <1>0
    <3>3. heard[n] \in Nat BY <3>2 DEF MemoryTyped
    <3> QED BY <3>1, <3>3, <2>1, <1>6
  <2>2. CASE n # cutting
    <3>1. n \in cut BY <2>2, <1>0
    <3>2. k \in Rem(w, n) /\ memory'[k] = w[k] BY <2>2, <1>12
    <3>3. PICK j \in Rem(memory, n) : memory[j] = w[k] BY <3>2, <1>9
    <3> QED BY <3>1, <3>2, <3>3 DEF CutAsHeard
  <2> QED BY <2>1, <2>2
<1>18. LastRun'
  <2> SUFFICES ASSUME runs >= 1, runs = spoken PROVE Rem(memory', runs) = {}
    BY <1>0 DEF LastRun
  <2>1. Rem(w, runs) = {} BY <1>11
  <2>2. runs # cutting BY DEF ListsHeld
  <2> QED BY <2>1, <2>2, <1>12
<1>19. ListsHeld' BY <1>0 DEF ListsHeld
<1> QED BY <1>13, <1>14, <1>16, <1>17, <1>18, <1>19

(* Every step keeps it.                                                    *)
LEMMA MemoryStep == MemoryInv /\ [Assistant!Next]_Assistant!vars => MemoryInv'
<1> SUFFICES ASSUME MemoryInv, [Assistant!Next]_Assistant!vars PROVE MemoryInv' OBVIOUS
<1> USE DEF MemoryInv
<1>0. AssistantInv' BY AssistantStep
<1>1. /\ runs \in 0 .. MaxRuns /\ MaxRuns \in Nat /\ heard \in [1 .. MaxRuns -> Nat]
      /\ \A n \in 1 .. MaxRuns : heard[n] <= heard[n]
      /\ cutting # 0 => spoken # cutting
      /\ queue \in Seq(Sentences) /\ voice \in Seq(Sentences)
  BY AssistantConstants DEF AssistantInv, AssistantTyped, MemoryTyped, ListsHeld
<1> HIDE DEF MemoryInv
<1>2. CASE UNCHANGED Assistant!vars
  BY <1>2, <1>0, <1>1, MemoryStays DEF Assistant!vars, Assistant!agent, Assistant!history, Assistant!tab
<1>3. CASE Assistant!Typed
  BY <1>3, <1>0, MemoryOfTurn DEF Assistant!Typed, Assistant!StartRun, Assistant!history
<1>4. CASE Assistant!RunBegins
  <2>1. /\ run.step = "starting" /\ run.id = runs /\ runs >= 1 /\ runs \notin cut
        /\ run'.step = "talking" /\ spoken' = runs /\ reply' = 0
        /\ UNCHANGED <<runs, said, memory, cutting, turns, heard, stale, cut>>
    BY <1>4 DEF Assistant!RunBegins, Assistant!history, MemoryInv, AssistantInv, RunIsTheLast, AssistantTyped
  <2>2. Rem(memory, runs) = {} /\ runs \notin {spoken, cutting} BY <2>1 DEF MemoryInv, LastRun, ListsHeld
  <2>3. MemoryTyped' BY <2>1, <1>1 DEF MemoryInv, MemoryTyped
  <2>4. TurnsAreThere' /\ RepliesOnce' /\ CutAsHeard' BY <2>1 DEF MemoryInv, TurnsAreThere, RepliesOnce, CutAsHeard
  <2>5. LastRun' BY <2>1, <2>2 DEF LastRun
  <2>6. ListsHeld' BY <2>1, <2>2 DEF MemoryInv, ListsHeld
  <2> QED BY <1>0, <2>3, <2>4, <2>5, <2>6 DEF MemoryInv
<1>5. CASE Assistant!Say
  <2>1. /\ run.step = "talking" /\ UNCHANGED <<run, runs, reply, memory, spoken, cutting, turns, heard, stale, cut>>
    BY <1>5 DEF Assistant!Say
  <2>2. Rem(memory, runs) = {} BY <2>1 DEF MemoryInv, LastRun
  <2>3. MemoryTyped' /\ TurnsAreThere' /\ RepliesOnce' /\ CutAsHeard' /\ ListsHeld'
    BY <2>1 DEF MemoryInv, MemoryTyped, TurnsAreThere, RepliesOnce, CutAsHeard, ListsHeld
  <2>4. LastRun' BY <2>1, <2>2 DEF LastRun
  <2> QED BY <1>0, <2>3, <2>4 DEF MemoryInv
<1>6. CASE Assistant!RunEnds BY <1>6, <1>0, MemoryOfReply
<1>7. CASE Assistant!RunOver
  BY <1>7, <1>0, <1>1, MemoryStays DEF Assistant!RunOver, Assistant!history, Assistant!NoRun
<1>8. CASE Assistant!Produce
  BY <1>8, <1>0, <1>1, MemoryStays DEF Assistant!Produce, Assistant!agent, Assistant!history
<1>9. CASE Assistant!Play
  <2>1. Head(voice)[1] \in 1 .. MaxRuns /\ Head(voice)[2] \in Nat
    <3>1. Head(voice) \in Sentences BY <1>9, <1>1, HeadTailProperties DEF Assistant!Play
    <3> QED BY <3>1 DEF Sentences
  <2>2. heard' = [heard EXCEPT ![Head(voice)[1]] = IF Head(voice)[2] > heard[Head(voice)[1]] THEN Head(voice)[2]
                                                   ELSE heard[Head(voice)[1]]]
    BY <1>9 DEF Assistant!Play
  <2>3. heard' \in [1 .. MaxRuns -> Nat] /\ \A n \in 1 .. MaxRuns : heard[n] <= heard'[n] BY <2>1, <2>2, <1>1
  <2> QED BY <1>9, <2>3, <1>0, <1>1, MemoryStays DEF Assistant!Play, Assistant!agent, Assistant!history
<1>10. CASE Assistant!SpeechStarts
  BY <1>10, <1>0, <1>1, MemoryStays DEF Assistant!SpeechStarts
<1>11. CASE Assistant!Clears
  BY <1>11, <1>0, <1>1, MemoryStays DEF Assistant!Clears, Assistant!agent, Assistant!history
<1>12. CASE Assistant!Tells
  BY <1>12, <1>0, <1>1, MemoryStays DEF Assistant!Tells, Assistant!agent, Assistant!history
<1>13. CASE Assistant!Keeps BY <1>13, <1>0, MemoryOfCut
<1>14. CASE Assistant!UtteranceEnds
  BY <1>14, <1>0, MemoryOfTurn DEF Assistant!UtteranceEnds, Assistant!StartRun, Assistant!history
<1>15. CASE Assistant!StopReply
  BY <1>15, <1>0, <1>1, MemoryStays DEF Assistant!StopReply, Assistant!agent, Assistant!history
<1>16. CASE Assistant!HandleClear
  BY <1>16, <1>0, <1>1, MemoryStays DEF Assistant!HandleClear, Assistant!agent, Assistant!history
<1>17. CASE Assistant!HandleCancel
  BY <1>17, <1>0, <1>1, MemoryStays DEF Assistant!HandleCancel, Assistant!history, Assistant!NoRun
<1> QED BY <1>2, <1>3, <1>4, <1>5, <1>6, <1>7, <1>8, <1>9, <1>10, <1>11, <1>12, <1>13, <1>14, <1>15,
           <1>16, <1>17 DEF Assistant!Next

(* The agent's memory: every turn of the user, in order; no reply twice,   *)
(* but one that was over when the user spoke over the next; and of a reply *)
(* that was cut no more than the user heard.                               *)
THEOREM ConversationIsRemembered == Spec => []RemembersTheConversation
<1>1. Init => MemoryInv
  BY MemoryInit DEF Init
<1>2. [Next]_vars => [Assistant!Next]_(Assistant!vars)
  <2>1. UNCHANGED assistant => UNCHANGED Assistant!vars
    BY DEF assistant, Assistant!vars, Assistant!agent, Assistant!tab, Assistant!history
  <2> QED
    BY <2>1 DEF Next, vars, AssistantPanel, SpeechPanel, RecorderOfVoicePanel, CaptionsOfVoicePanel,
                ChatOfRoomPanel, NotificationPanel, RosterOfRoomPanel, AgentPanel
<1>3. MemoryInv /\ [Next]_vars => MemoryInv'
  BY <1>2, MemoryStep
<1>4. MemoryInv => RemembersTheConversation
  BY MemoryShows DEF RemembersTheConversation
<1> QED BY <1>1, <1>3, <1>4, PTL DEF Spec

-----------------------------------------------------------------------------
(* The agent's thread: what events, calls and messages are.                *)
Names     == {"text", "call", "result", "user", "none"} \X Nat \X Nat
Starting  == {"TOOL_CALL_START", "TOOL_CALL_CHUNK"}
Texted    == {"TEXT_MESSAGE_CONTENT", "TEXT_MESSAGE_CHUNK"}
Argued    == {"TOOL_CALL_ARGS", "TOOL_CALL_CHUNK"}
Terminal  == {"RUN_FINISHED", "RUN_ERROR"}
RunEvents == [type : {"RUN_STARTED", "TEXT_MESSAGE_START", "TOOL_CALL_START", "TOOL_CALL_RESULT"}
                     \cup Texted \cup Argued \cup Terminal,
              run : Nat, seq : Nat, id : Names, parent : Names]
ToolCalls == [id : Names, args : Seq(Nat)]
Bubbles   == [id : Names, role : {"assistant", "tool", "user"}, content : Seq(Nat), calls : Seq(ToolCalls),
              bare : BOOLEAN]
Tabs      == [messages : Seq(Bubbles), runId : Nat, running : BOOLEAN, error : BOOLEAN, lastSeq : Nat]

(* Among the first n events of b: the start of a text, of a call.          *)
StartOf(e, id)   == e.type = "TEXT_MESSAGE_START" /\ e.id = id
HasText(b, n, id) == \E k \in 1 .. n : StartOf(b[k], id)
Called(b, n, id) == \E k \in 1 .. n : b[k].type \in Starting /\ b[k].id = id

(* What an agent sends as the k-th event of run r, after those before it.  *)
SentAt(b, k, r) ==
    LET e == b[k] IN
    /\ e.seq = k /\ e.run = r /\ (k = 1 <=> e.type = "RUN_STARTED")
    /\ e.type \in {"RUN_STARTED"} \cup Terminal => e.id = Panel!None
    /\ e.type = "TEXT_MESSAGE_START" => e.id[1] = "text" /\ e.id[2] = r /\ ~HasText(b, k - 1, e.id)
    /\ e.type = "TEXT_MESSAGE_CONTENT" => HasText(b, k - 1, e.id)
    /\ e.type = "TEXT_MESSAGE_CHUNK" =>
          \/ HasText(b, k - 1, e.id)
          \/ /\ e.id = Panel!None
             /\ \E j \in 1 .. k - 1 :
                   /\ StartOf(b[j], e.parent)
                   /\ \A i \in j + 1 .. k - 1 : b[i].type \notin {"TEXT_MESSAGE_START", "TOOL_CALL_RESULT"}
    /\ e.type \in Starting \cup Argued => e.id = Panel!Call(r)
    /\ e.parent = Panel!None \/ HasText(b, k - 1, e.parent)
    /\ e.type = "TOOL_CALL_START" => ~Called(b, k - 1, e.id)
    /\ e.type = "TOOL_CALL_ARGS" => Called(b, k - 1, e.id)
    /\ e.type = "TOOL_CALL_RESULT" => e.id = Panel!Result(r) /\ \A j \in 1 .. k - 1 : b[j].type # "TOOL_CALL_RESULT"
Logged(b, r) == b \in Seq(RunEvents) /\ \A k \in DOMAIN b : SentAt(b, k, r)

(* Texts are numbered as they start.                                       *)
Begins(b) == {b[k].id : k \in {j \in DOMAIN b : b[j].type \in {"TEXT_MESSAGE_START"}}}
Counted(b, r) ==
    /\ Panel!IsFiniteSet(Begins(b))
    /\ Begins(b) # {} => HasText(b, Len(b), Panel!Text(r, Panel!Cardinality(Begins(b))))
    /\ \A k \in DOMAIN b : b[k].type = "TEXT_MESSAGE_START" =>
          /\ b[k].id = Panel!Text(r, b[k].id[3]) /\ b[k].id[3] <= Panel!Cardinality(Begins(b))
          /\ \A j \in 1 .. k - 1 : b[j].type = "TEXT_MESSAGE_START" => b[j].id[3] < b[k].id[3]

ThreadInv ==
    /\ begun \in Nat /\ asks \in Nat /\ active \in {0, begun}
    /\ active = 0 => buffer = <<>> /\ ~ended
    /\ active # 0 =>
          /\ Logged(buffer, active) /\ Len(buffer) >= 1 /\ Counted(buffer, active)
          /\ \A k \in DOMAIN buffer : buffer[k].type \in Terminal <=> ended /\ k = Len(buffer)

(* Messages: each once, of runs begun and of what was asked.               *)
Sane(ms, g, a) ==
    /\ ms \in Seq(Bubbles)
    /\ \A j, k \in DOMAIN ms : ms[j].id = ms[k].id => j = k
    /\ \A k \in DOMAIN ms :
          /\ ms[k].id[2] <= g /\ (ms[k].id[1] = "user" => ms[k].id[3] <= a)
          /\ \A c \in DOMAIN ms[k].calls : ms[k].calls[c].id[2] <= g

(* s is the pieces of id among the first n events, in order.               *)
PieceOf(b, x, types, id) == b[x].type \in types /\ Panel!Of(b[x], id)
ArePieces(s, b, n, types, id) ==
    /\ Panel!InOrder(s)
    /\ \A i \in DOMAIN s : s[i] \in 1 .. n /\ PieceOf(b, s[i], types, id)
    /\ \A x \in 1 .. n : PieceOf(b, x, types, id) => \E i \in DOMAIN s : s[i] = x

(* What messages made of the first n events of run r are.                  *)
TextsOf(ms, b, n) ==
    \A x \in 1 .. n : b[x].type = "TEXT_MESSAGE_START" =>
        \E k \in DOMAIN ms : /\ ms[k].id = b[x].id /\ ms[k].role = "assistant" /\ ~ms[k].bare
                             /\ ArePieces(ms[k].content, b, n, Texted, b[x].id)
CallIn(ms, b, n, id) ==
    \E k \in DOMAIN ms : \E c \in DOMAIN ms[k].calls :
        /\ ms[k].calls[c].id = id /\ ArePieces(ms[k].calls[c].args, b, n, Argued, id)
        /\ \A l \in DOMAIN ms : \A d \in DOMAIN ms[l].calls : ms[l].calls[d].id = id => l = k /\ d = c
OnlyTheirs(ms, b, n, r) ==
    \A k \in DOMAIN ms :
        /\ ms[k].id[2] = r => \E x \in 1 .. n : b[x].id = ms[k].id
        /\ \A c \in DOMAIN ms[k].calls : ms[k].calls[c].id = Panel!Call(r) => Called(b, n, Panel!Call(r))
InTextNow(b, n, x) ==
    b[x].type = "TEXT_MESSAGE_START" /\ \A i \in x + 1 .. n : b[i].type \notin {"TEXT_MESSAGE_START", "TOOL_CALL_RESULT"}
EndsInText(ms, b, n) == \A x \in 1 .. n : InTextNow(b, n, x) => ms # <<>> /\ ms[Len(ms)].id = b[x].id
MadeOf(ms, b, n, r) ==
    /\ TextsOf(ms, b, n) /\ (Called(b, n, Panel!Call(r)) => CallIn(ms, b, n, Panel!Call(r)))
    /\ OnlyTheirs(ms, b, n, r) /\ EndsInText(ms, b, n)

(* A tab has applied the first n events of run r.                          *)
Applied(t, b, n, r) ==
    /\ MadeOf(t.messages, b, n, r) /\ (n = 0 => t.runId # r)
    /\ n > 0 => t.lastSeq = n /\ t.runId = IF b[n].type \in Terminal THEN 0 ELSE r
Fits(t, g, a) == t \in Tabs /\ Sane(t.messages, g, a) /\ t.runId <= g
TabInv ==
    /\ Fits(thread, begun, asks)
    /\ active # 0 /\ active \notin again \cup mixed =>
          \E n \in 0 .. Len(buffer) : Applied(thread, buffer, n, active) /\ (here => n = Len(buffer))

PanelInv == ThreadInv /\ TabInv
-----------------------------------------------------------------------------
(* A replay, event by event.                                               *)
(* What an event of a replay is applied to: over sets of indices, from the *)
(* last.                                                                   *)
Replaying(b, s, it, S) == IF S = {} THEN b ELSE Panel!Apply(it[S \ {Panel!Max(S)}], s[Panel!Max(S)])

(* The last index of a set that contains n.                                *)
LEMMA LastOfInterval ==
  ASSUME NEW n \in Nat, NEW S \in SUBSET (1 .. n), n \in S
  PROVE  Panel!Max(S) = n
<1>1. n \in S /\ \A y \in S : n >= y OBVIOUS
<1>2. \A x \in S : (\A y \in S : x >= y) => x = n OBVIOUS
<1> QED BY <1>1, <1>2 DEF Panel!Max

(* There is a function that satisfies the recursion.                       *)
LEMMA ReplayExists ==
  ASSUME NEW b, NEW s, NEW n \in Nat
  PROVE  \E it : it = [S \in SUBSET (1 .. n) |-> Replaying(b, s, it, S)]
<1> DEFINE Upto(m, it) == \A S \in SUBSET (1 .. m) : it[S] = Replaying(b, s, it, S)
           T == {m \in Nat : m <= n /\ ~ \E it : Upto(m, it)}
<1>1. 0 \notin T
  <2> DEFINE it == [S \in SUBSET (1 .. 0) |-> b]
  <2>1. \A S \in SUBSET (1 .. 0) : S = {} OBVIOUS
  <2>2. Upto(0, it) BY <2>1 DEF Replaying
  <2> QED BY <2>2
<1>2. ASSUME NEW m \in Nat, m + 1 <= n, m \notin T PROVE m + 1 \notin T
  <2>1. PICK it : Upto(m, it) BY <1>2
  <2> DEFINE jt == [S \in SUBSET (1 .. m + 1) |->
                      IF m + 1 \in S THEN Panel!Apply(it[S \ {m + 1}], s[m + 1]) ELSE it[S]]
  <2>2. ASSUME NEW S \in SUBSET (1 .. m + 1) PROVE jt[S] = Replaying(b, s, jt, S)
    <3>1. CASE m + 1 \in S
      <4>1. Panel!Max(S) = m + 1 BY <3>1, LastOfInterval
      <4>2. S \ {m + 1} \in SUBSET (1 .. m + 1) /\ m + 1 \notin S \ {m + 1} OBVIOUS
      <4>3. jt[S \ {m + 1}] = it[S \ {m + 1}] BY <4>2
      <4> QED BY <3>1, <4>1, <4>3 DEF Replaying
    <3>2. CASE m + 1 \notin S
      <4>1. S \in SUBSET (1 .. m) BY <3>2
      <4>2. jt[S] = it[S] BY <3>2
      <4>3. S \ {Panel!Max(S)} \in SUBSET (1 .. m + 1) /\ m + 1 \notin S \ {Panel!Max(S)} BY <3>2
      <4>4. jt[S \ {Panel!Max(S)}] = it[S \ {Panel!Max(S)}] BY <4>3
      <4>5. it[S] = Replaying(b, s, it, S) BY <2>1, <4>1
      <4> QED BY <4>2, <4>4, <4>5 DEF Replaying
    <3> QED BY <3>1, <3>2
  <2> HIDE DEF jt
  <2>3. Upto(m + 1, jt) BY <2>2
  <2> QED BY <2>3
<1>3. T = {}
  <2> SUFFICES ASSUME T # {} PROVE FALSE OBVIOUS
  <2>1. PICK k \in T : \A j \in T : k <= j
    <3>1. T \subseteq Nat OBVIOUS
    <3> HIDE DEF T
    <3> QED BY <3>1, LeastNumber
  <2>2. k \in Nat /\ k <= n OBVIOUS
  <2>3. k # 0 BY <1>1
  <2>4. k - 1 \in Nat /\ (k - 1) + 1 = k /\ (k - 1) + 1 <= n BY <2>2, <2>3
  <2> HIDE DEF T
  <2>5. k - 1 \notin T BY <2>1, <2>4
  <2> QED BY <1>2, <2>4, <2>5
<1>4. PICK it : Upto(n, it)
  <2> HIDE DEF Upto
  <2>1. n \notin T
    <3> HIDE DEF T
    <3> QED BY <1>3
  <2> QED BY <2>1
<1> DEFINE jt == [S \in SUBSET (1 .. n) |-> it[S]]
<1>5. ASSUME NEW S \in SUBSET (1 .. n) PROVE jt[S] = Replaying(b, s, jt, S)
  <2>1. S \ {Panel!Max(S)} \in SUBSET (1 .. n) OBVIOUS
  <2>2. jt[S \ {Panel!Max(S)}] = it[S \ {Panel!Max(S)}] /\ jt[S] = it[S] BY <2>1
  <2> QED BY <2>2, <1>4 DEF Replaying
<1>6. jt = [S \in SUBSET (1 .. n) |-> jt[S]] OBVIOUS
<1> HIDE DEF jt
<1>7. jt = [S \in SUBSET (1 .. n) |-> Replaying(b, s, jt, S)] BY <1>5, <1>6
<1> QED BY <1>7

(* FoldLeft applies the events one after another.                          *)
Stages(b, s, f) ==
    /\ f[0] = b
    /\ \A k \in 1 .. Len(s) : f[k] = Panel!Apply(f[k - 1], s[k])
    /\ Panel!FoldLeft(Panel!Apply, b, s) = f[Len(s)]

LEMMA ReplaySteps == ASSUME NEW b, NEW D, NEW s \in Seq(D) PROVE \E f : Stages(b, s, f)
<1> DEFINE n == Len(s)
           it == CHOOSE it : it = [S \in SUBSET DOMAIN s |-> Replaying(b, s, it, S)]
           f == [k \in 0 .. n |-> it[1 .. k]]
<1>0. n \in Nat /\ DOMAIN s = 1 .. n OBVIOUS
<1>1. Panel!FoldLeft(Panel!Apply, b, s) = it[DOMAIN s]
  BY Zenon DEF Panel!FoldLeft, Panel!MapThenFoldSet, Replaying
<1>2. it = [S \in SUBSET (1 .. n) |-> Replaying(b, s, it, S)] BY <1>0, ReplayExists
<1> HIDE DEF it, n
<1>3. Panel!FoldLeft(Panel!Apply, b, s) = f[n] BY <1>0, <1>1
<1>4. f[0] = b
  <2>1. 1 .. 0 = {} /\ f[0] = it[1 .. 0] BY <1>0
  <2> QED BY <2>1, <1>2 DEF Replaying
<1>5. ASSUME NEW k \in 1 .. n PROVE f[k] = Panel!Apply(f[k - 1], s[k])
  <2>1. Panel!Max(1 .. k) = k BY <1>0, LastOfInterval
  <2>2. (1 .. k) \ {k} = 1 .. (k - 1) BY <1>0
  <2>3. (1 .. k) \in SUBSET (1 .. n) /\ 1 .. k # {} BY <1>0
  <2>4. it[1 .. k] = Panel!Apply(it[1 .. (k - 1)], s[k]) BY <1>2, <2>1, <2>2, <2>3 DEF Replaying
  <2>5. f[k] = it[1 .. k] /\ f[k - 1] = it[1 .. (k - 1)] BY <1>0
  <2> QED BY <2>4, <2>5
<1> HIDE DEF f
<1>6. Stages(b, s, f) BY <1>3, <1>4, <1>5 DEF n, Stages
<1> QED BY <1>6

-----------------------------------------------------------------------------
(* Sequences with one more, or one changed.                                *)
LEMMA Longer ==
    ASSUME NEW D, NEW s \in Seq(D), NEW x \in D
    PROVE  /\ Append(s, x) \in Seq(D) /\ Len(s) \in Nat /\ DOMAIN s = 1 .. Len(s)
           /\ Len(Append(s, x)) = Len(s) + 1 /\ Append(s, x)[Len(s) + 1] = x
           /\ DOMAIN Append(s, x) = 1 .. Len(s) + 1
           /\ \A k \in DOMAIN s : k \in DOMAIN Append(s, x) /\ Append(s, x)[k] = s[k]
  OBVIOUS

(* A sequence with one element replaced.                                   *)
LEMMA Changed ==
    ASSUME NEW D, NEW s \in Seq(D), NEW x \in D, NEW p \in DOMAIN s
    PROVE  /\ [s EXCEPT ![p] = x] \in Seq(D) /\ Len(s) \in Nat /\ DOMAIN s = 1 .. Len(s)
           /\ Len([s EXCEPT ![p] = x]) = Len(s) /\ [s EXCEPT ![p] = x][p] = x
           /\ DOMAIN [s EXCEPT ![p] = x] = 1 .. Len(s)
           /\ \A k \in DOMAIN s : k # p => [s EXCEPT ![p] = x][k] = s[k]
<1>1. s \in [1 .. Len(s) -> D] /\ Len(s) \in Nat /\ DOMAIN s = 1 .. Len(s) OBVIOUS
<1> DEFINE z == [s EXCEPT ![p] = x]
<1>2. z \in [1 .. Len(s) -> D] BY <1>1
<1>3. z \in Seq(D) /\ Len(z) = Len(s) BY <1>1, <1>2, IsASeq
<1> QED BY <1>1, <1>2, <1>3

(* The least index with a property: Min is of the set.                     *)
LEMMA MinIs ==
    ASSUME NEW I, I \subseteq Nat, I # {}
    PROVE  Panel!Min(I) \in I
<1>1. \E x \in I : \A y \in I : x <= y BY LeastNumber
<1> QED BY <1>1 DEF Panel!Min

(* findIndex: the index of the message with an id, or 0.                   *)
LEMMA IndexIs ==
    ASSUME NEW ms \in Seq(Bubbles), NEW id
    PROVE  \/ Panel!Index(ms, id) = 0 /\ \A k \in DOMAIN ms : ms[k].id # id
           \/ Panel!Index(ms, id) \in DOMAIN ms /\ ms[Panel!Index(ms, id)].id = id
<1> DEFINE I == {i \in 1 .. Len(ms) : ms[i].id = id}
<1>1. Panel!Index(ms, id) = IF I # {} THEN Panel!Min(I) ELSE 0 BY Zenon DEF Panel!Index, Panel!SelectInSeq
<1>2. I \subseteq Nat /\ DOMAIN ms = 1 .. Len(ms) OBVIOUS
<1>3. CASE I = {} BY <1>1, <1>2, <1>3
<1>4. CASE I # {}
  <2>1. Panel!Min(I) \in I
    <3> HIDE DEF I
    <3> QED BY <1>2, <1>4, MinIs
  <2> QED BY <1>1, <1>2, <1>4, <2>1
<1> QED BY <1>3, <1>4

(* A message with the id of one that is there takes its place.             *)
Apart(ms) == \A j, k \in DOMAIN ms : ms[j].id = ms[k].id => j = k
(* upsertMessage at the place the id has.                                  *)
LEMMA AtPlace ==
    ASSUME NEW ms \in Seq(Bubbles), Apart(ms), NEW p \in DOMAIN ms, NEW m, m.id = ms[p].id
    PROVE  Panel!Existing(ms, m) = ms[p] /\ Panel!Upsert(ms, m) = [ms EXCEPT ![p] = m]
<1>1. Panel!Index(ms, m.id) = p
  <2>1. DOMAIN ms = 1 .. Len(ms) /\ Len(ms) \in Nat OBVIOUS
  <2> QED BY <2>1, IndexIs DEF Apart
<1>2. p # 0
  <2>1. DOMAIN ms = 1 .. Len(ms) /\ Len(ms) \in Nat OBVIOUS
  <2> QED BY <2>1
<1> QED BY <1>1, <1>2 DEF Panel!Existing, Panel!Upsert

(* Any other is added.                                                     *)
LEMMA AtEnd ==
    ASSUME NEW ms \in Seq(Bubbles), NEW m, \A k \in DOMAIN ms : ms[k].id # m.id
    PROVE  Panel!Existing(ms, m) = m /\ Panel!Upsert(ms, m) = Append(ms, m)
<1>1. Panel!Index(ms, m.id) = 0 BY IndexIs
<1> QED BY <1>1 DEF Panel!Existing, Panel!Upsert

(* The message that has a call.                                            *)
LEMMA HolderIs ==
    ASSUME NEW ms \in Seq(Bubbles), NEW id
    PROVE  LET p == Panel!SelectInSeq(ms, LAMBDA m : Panel!HasCall(m, id)) IN
           \/ p = 0 /\ \A k \in DOMAIN ms : ~Panel!HasCall(ms[k], id)
           \/ p \in DOMAIN ms /\ p # 0 /\ Panel!HasCall(ms[p], id)
<1> DEFINE I == {i \in 1 .. Len(ms) : Panel!HasCall(ms[i], id)}
           p == Panel!SelectInSeq(ms, LAMBDA m : Panel!HasCall(m, id))
<1>1. p = IF I # {} THEN Panel!Min(I) ELSE 0 BY Zenon DEF Panel!SelectInSeq
<1>2. I \subseteq Nat /\ DOMAIN ms = 1 .. Len(ms) /\ Len(ms) \in Nat OBVIOUS
<1>3. CASE I = {} BY <1>1, <1>2, <1>3
<1>4. CASE I # {}
  <2>1. Panel!Min(I) \in I
    <3> HIDE DEF I
    <3> QED BY <1>2, <1>4, MinIs
  <2>2. p = Panel!Min(I) BY <1>1, <1>4
  <2> HIDE DEF p
  <2>3. p \in 1 .. Len(ms) /\ Panel!HasCall(ms[p], id) BY <2>1, <2>2
  <2>4. p # 0 BY <2>3
  <2> QED BY <1>2, <2>3, <2>4 DEF p
<1> QED BY <1>3, <1>4

-----------------------------------------------------------------------------
(* Whatever events make of messages, each is there once.                   *)
Fair(id, g, a) == id \in Names /\ id[2] <= g /\ (id[1] = "user" => id[3] <= a)
CallsUpTo(m, g) == \A c \in DOMAIN m.calls : m.calls[c].id[2] <= g

(* Each of the appliers keeps the messages each once and of what was begun *)
(* or asked.                                                               *)
LEMMA SaneUpsert ==
    ASSUME NEW ms, NEW g \in Nat, NEW a \in Nat, Sane(ms, g, a),
           NEW m \in Bubbles, Fair(m.id, g, a), CallsUpTo(m, g)
    PROVE  Sane(Panel!Upsert(ms, m), g, a)
<1>1. ms \in Seq(Bubbles) /\ Apart(ms) /\ Len(ms) \in Nat /\ DOMAIN ms = 1 .. Len(ms) BY DEF Sane, Apart
<1>2. CASE \E p \in DOMAIN ms : ms[p].id = m.id
  <2>1. PICK p \in DOMAIN ms : ms[p].id = m.id BY <1>2
  <2>2. PICK z : z = [ms EXCEPT ![p] = m] OBVIOUS
  <2>3. Panel!Upsert(ms, m) = z BY <1>1, <2>1, <2>2, AtPlace
  <2>4. z \in Seq(Bubbles) /\ DOMAIN z = DOMAIN ms /\ z[p] = m /\ \A k \in DOMAIN ms : k # p => z[k] = ms[k]
    BY <1>1, <2>2, Changed
  <2>5. \A k \in DOMAIN z : z[k].id = ms[k].id BY <2>1, <2>4
  <2> QED BY <2>1, <2>3, <2>4, <2>5 DEF Sane, CallsUpTo
<1>3. CASE \A p \in DOMAIN ms : ms[p].id # m.id
  <2>2. PICK z : z = Append(ms, m) OBVIOUS
  <2>3. Panel!Upsert(ms, m) = z BY <1>1, <1>3, <2>2, AtEnd
  <2>4. /\ z \in Seq(Bubbles) /\ DOMAIN z = 1 .. Len(ms) + 1 /\ z[Len(ms) + 1] = m
        /\ \A k \in DOMAIN ms : z[k] = ms[k]
    BY <1>1, <2>2, Longer
  <2>5. \A k \in DOMAIN z : k \in DOMAIN ms \/ k = Len(ms) + 1 BY <1>1, <2>4
  <2>6. \A j, k \in DOMAIN z : z[j].id = z[k].id => j = k
    BY <1>1, <1>3, <2>4, <2>5 DEF Apart
  <2>7. ASSUME NEW k \in DOMAIN z
        PROVE  /\ z[k].id[2] <= g /\ (z[k].id[1] = "user" => z[k].id[3] <= a)
               /\ \A c \in DOMAIN z[k].calls : z[k].calls[c].id[2] <= g
    <3>1. CASE k \in DOMAIN ms BY <2>4, <3>1 DEF Sane
    <3>2. CASE k = Len(ms) + 1 BY <2>4, <3>2 DEF Fair, CallsUpTo
    <3> QED BY <2>5, <3>1, <3>2
  <2> QED BY <2>3, <2>4, <2>6, <2>7 DEF Sane
<1> QED BY <1>2, <1>3

(* The message an applier finds, or makes.                                 *)
LEMMA ExistingIs ==
    ASSUME NEW ms, NEW g \in Nat, NEW a \in Nat, Sane(ms, g, a),
           NEW m \in Bubbles, CallsUpTo(m, g)
    PROVE  /\ Panel!Existing(ms, m) \in Bubbles /\ Panel!Existing(ms, m).id = m.id /\ CallsUpTo(Panel!Existing(ms, m), g)
<1>1. ms \in Seq(Bubbles) BY DEF Sane
<1>2. CASE Panel!Index(ms, m.id) = 0 BY <1>2 DEF Panel!Existing
<1>3. CASE Panel!Index(ms, m.id) # 0
  <2>1. PICK p : p = Panel!Index(ms, m.id) OBVIOUS
  <2>2. p \in DOMAIN ms /\ ms[p].id = m.id BY <1>1, <1>3, <2>1, IndexIs
  <2>3. ms[p] \in Bubbles BY <1>1, <2>2
  <2> QED BY <1>3, <2>1, <2>2, <2>3 DEF Panel!Existing, Sane, CallsUpTo
<1> QED BY <1>2, <1>3

(* A message made anew.                                                    *)
LEMMA NewMessage ==
    ASSUME NEW id \in Names, NEW role \in {"assistant", "tool", "user"}
    PROVE  /\ Panel!Message(id, role) \in Bubbles /\ Panel!Message(id, role).id = id /\ Panel!Message(id, role).role = role
           /\ Panel!Message(id, role).content = <<>> /\ Panel!Message(id, role).calls = <<>> /\ ~Panel!Message(id, role).bare
           /\ \A g : CallsUpTo(Panel!Message(id, role), g)
<1>1. <<>> \in Seq(Nat) /\ <<>> \in Seq(ToolCalls) /\ DOMAIN <<>> = {} OBVIOUS
<1> QED BY <1>1 DEF Panel!Message, Bubbles, CallsUpTo

(* appendText, whatever the id.                                            *)
LEMMA SaneText ==
    ASSUME NEW ms, NEW g \in Nat, NEW a \in Nat, Sane(ms, g, a), NEW id, Fair(id, g, a), NEW piece \in Nat
    PROVE  Sane(Panel!AppendText(ms, id, piece), g, a)
<1>1. PICK new : new = Panel!Message(id, "assistant") OBVIOUS
<1>2. new \in Bubbles /\ new.id = id /\ CallsUpTo(new, g) BY <1>1, NewMessage DEF Fair
<1>3. PICK m : m = IF Panel!Existing(ms, new).bare THEN new ELSE Panel!Existing(ms, new) OBVIOUS
<1>4. m \in Bubbles /\ m.id = id /\ CallsUpTo(m, g) BY <1>2, <1>3, ExistingIs
<1>5. PICK z : z = [m EXCEPT !.content = Append(@, piece)] OBVIOUS
<1>6. Append(m.content, piece) \in Seq(Nat) BY <1>4 DEF Bubbles
<1>7. z \in Bubbles /\ z.id = id /\ CallsUpTo(z, g) BY <1>4, <1>5, <1>6 DEF Bubbles, CallsUpTo
<1>8. Panel!AppendText(ms, id, piece) = Panel!Upsert(ms, z) BY <1>1, <1>3, <1>5 DEF Panel!AppendText
<1> QED BY <1>7, <1>8, SaneUpsert

(* One call more.                                                          *)
OneCallMore(m, id) == [m EXCEPT !.calls = Append(@, [id |-> id, args |-> <<>>])]
(* A message with one call more.                                           *)
LEMMA WithCall ==
    ASSUME NEW m \in Bubbles, NEW id \in Names
    PROVE  LET z == OneCallMore(m, id) IN
           /\ z \in Bubbles /\ z.id = m.id /\ z.role = m.role /\ z.content = m.content /\ z.bare = m.bare
           /\ Len(m.calls) \in Nat /\ DOMAIN m.calls = 1 .. Len(m.calls) /\ DOMAIN z.calls = 1 .. Len(m.calls) + 1
           /\ z.calls[Len(m.calls) + 1] = [id |-> id, args |-> <<>>]
           /\ \A c \in DOMAIN m.calls : z.calls[c] = m.calls[c]
<1>1. m.calls \in Seq(ToolCalls) /\ [id |-> id, args |-> <<>>] \in ToolCalls BY DEF Bubbles, ToolCalls
<1>2. PICK s : s = Append(m.calls, [id |-> id, args |-> <<>>]) OBVIOUS
<1>3. /\ s \in Seq(ToolCalls) /\ Len(m.calls) \in Nat /\ DOMAIN m.calls = 1 .. Len(m.calls)
      /\ DOMAIN s = 1 .. Len(m.calls) + 1 /\ s[Len(m.calls) + 1] = [id |-> id, args |-> <<>>]
      /\ \A c \in DOMAIN m.calls : s[c] = m.calls[c]
  BY <1>1, <1>2, Longer
<1>4. PICK z : z = OneCallMore(m, id) OBVIOUS
<1>5. /\ z \in Bubbles /\ z.id = m.id /\ z.role = m.role /\ z.content = m.content /\ z.bare = m.bare
      /\ z.calls = s
  BY <1>2, <1>3, <1>4 DEF Bubbles, OneCallMore
<1> QED BY <1>3, <1>4, <1>5

(* startToolCall, wherever the call goes.                                  *)
LEMMA SaneCall ==
    ASSUME NEW ms, NEW g \in Nat, NEW a \in Nat, Sane(ms, g, a), NEW e \in RunEvents,
           Fair(e.id, g, a), Fair(e.parent, g, a)
    PROVE  Sane(Panel!StartToolCall(ms, e), g, a)
<1>1. PICK id : id = Panel!AssistantFor(ms, e) OBVIOUS
<1>2. Fair(id, g, a)
  <2>1. CASE id = e.parent \/ id = e.id BY <2>1
  <2>2. CASE id # e.parent /\ id # e.id
    <3>1. ms # <<>> /\ id = Panel!Last(ms).id BY <1>1, <2>2 DEF Panel!AssistantFor
    <3>2. ms \in Seq(Bubbles) /\ Len(ms) \in DOMAIN ms
      <4>1. ms \in Seq(Bubbles) BY DEF Sane
      <4> QED BY <3>1, <4>1, EmptySeq
    <3>3. id = ms[Len(ms)].id /\ ms[Len(ms)] \in Bubbles BY <3>1, <3>2 DEF Panel!Last
    <3> QED BY <3>2, <3>3 DEF Sane, Fair, Bubbles
  <2> QED BY <2>1, <2>2
<1>3. PICK new : new = [Panel!Message(id, "assistant") EXCEPT !.bare = TRUE] OBVIOUS
<1>4. new \in Bubbles /\ new.id = id /\ CallsUpTo(new, g)
  <2>1. PICK p : p = Panel!Message(id, "assistant") OBVIOUS
  <2>2. p \in Bubbles /\ p.id = id /\ CallsUpTo(p, g) BY <1>2, <2>1, NewMessage DEF Fair
  <2> QED BY <1>3, <2>1, <2>2 DEF Bubbles, CallsUpTo
<1>5. PICK m : m = Panel!Existing(ms, new) OBVIOUS
<1>6. m \in Bubbles /\ m.id = id /\ CallsUpTo(m, g) BY <1>4, <1>5, ExistingIs
<1>7. PICK z : z = OneCallMore(m, e.id) OBVIOUS
<1>8. z \in Bubbles /\ z.id = id /\ CallsUpTo(z, g)
  <2>1. e.id \in Names /\ e.id[2] <= g BY DEF Fair
  <2>2. /\ z \in Bubbles /\ z.id = id /\ DOMAIN z.calls = 1 .. Len(m.calls) + 1
        /\ DOMAIN m.calls = 1 .. Len(m.calls) /\ Len(m.calls) \in Nat
        /\ z.calls[Len(m.calls) + 1] = [id |-> e.id, args |-> <<>>]
        /\ \A c \in DOMAIN m.calls : z.calls[c] = m.calls[c]
    BY <1>6, <1>7, <2>1, WithCall
  <2>3. ASSUME NEW c \in DOMAIN z.calls PROVE z.calls[c].id[2] <= g
    <3>1. CASE c \in DOMAIN m.calls BY <1>6, <2>2, <3>1 DEF CallsUpTo
    <3>2. CASE c = Len(m.calls) + 1 BY <2>1, <2>2, <3>2
    <3> QED BY <2>2, <3>1, <3>2
  <2> QED BY <2>2, <2>3 DEF CallsUpTo
<1>9. Panel!StartToolCall(ms, e) = Panel!Upsert(ms, IF Panel!HasCall(m, e.id) THEN m ELSE z)
  BY <1>1, <1>3, <1>5, <1>7 DEF Panel!StartToolCall, OneCallMore
<1> QED BY <1>2, <1>6, <1>8, <1>9, SaneUpsert

(* More arguments for a call.                                              *)
ArgsTo(m, e) == [m EXCEPT !.calls = [k \in DOMAIN @ |-> Panel!MoreArgs(@[k], e)]]
(* A message with a piece more in the arguments of a call.                 *)
LEMMA WithArgs ==
    ASSUME NEW m \in Bubbles, NEW e \in RunEvents
    PROVE  LET z == ArgsTo(m, e) IN
           /\ z \in Bubbles /\ z.id = m.id /\ z.role = m.role /\ z.content = m.content /\ z.bare = m.bare
           /\ DOMAIN z.calls = DOMAIN m.calls
           /\ \A c \in DOMAIN m.calls :
                /\ z.calls[c].id = m.calls[c].id
                /\ z.calls[c].args = IF m.calls[c].id = e.id THEN Append(m.calls[c].args, e.seq) ELSE m.calls[c].args
<1>1. m.calls \in Seq(ToolCalls) /\ Len(m.calls) \in Nat /\ DOMAIN m.calls = 1 .. Len(m.calls) /\ e.seq \in Nat
  BY DEF Bubbles, RunEvents
<1>2. PICK s : s = [k \in DOMAIN m.calls |-> Panel!MoreArgs(m.calls[k], e)] OBVIOUS
<1>3. ASSUME NEW c \in DOMAIN m.calls
      PROVE  /\ s[c] \in ToolCalls /\ s[c].id = m.calls[c].id
             /\ s[c].args = IF m.calls[c].id = e.id THEN Append(m.calls[c].args, e.seq) ELSE m.calls[c].args
  <2>1. m.calls[c] \in ToolCalls BY <1>1
  <2>2. Append(m.calls[c].args, e.seq) \in Seq(Nat) BY <1>1, <2>1 DEF ToolCalls
  <2> QED BY <1>2, <2>1, <2>2 DEF ToolCalls, Panel!MoreArgs
<1>4. s \in Seq(ToolCalls) /\ DOMAIN s = DOMAIN m.calls
  <2>1. s \in [1 .. Len(m.calls) -> ToolCalls] BY <1>1, <1>2, <1>3
  <2> QED BY <1>1, <2>1, IsASeq
<1>5. PICK z : z = ArgsTo(m, e) OBVIOUS
<1>6. /\ z \in Bubbles /\ z.id = m.id /\ z.role = m.role /\ z.content = m.content /\ z.bare = m.bare
      /\ z.calls = s
  BY <1>2, <1>4, <1>5 DEF Bubbles, ArgsTo
<1> QED BY <1>3, <1>4, <1>5, <1>6

(* appendArgs changes the message that holds the call, or nothing.         *)
LEMMA ArgsIs ==
    ASSUME NEW ms \in Seq(Bubbles), NEW e
    PROVE  \/ Panel!AppendArgs(ms, e) = ms /\ \A k \in DOMAIN ms : ~Panel!HasCall(ms[k], e.id)
           \/ \E p \in DOMAIN ms : Panel!HasCall(ms[p], e.id) /\ Panel!AppendArgs(ms, e) = [ms EXCEPT ![p] = ArgsTo(ms[p], e)]
<1> DEFINE p == Panel!SelectInSeq(ms, LAMBDA m : Panel!HasCall(m, e.id))
<1>2. \/ p = 0 /\ \A k \in DOMAIN ms : ~Panel!HasCall(ms[k], e.id)
      \/ p \in DOMAIN ms /\ p # 0 /\ Panel!HasCall(ms[p], e.id)
  BY HolderIs
<1>3. Panel!AppendArgs(ms, e) = IF p = 0 THEN ms ELSE [ms EXCEPT ![p].calls = [k \in DOMAIN @ |-> Panel!MoreArgs(@[k], e)]]
  BY DEF Panel!AppendArgs
<1> HIDE DEF p
<1>4. [ms EXCEPT ![p].calls = [k \in DOMAIN @ |-> Panel!MoreArgs(@[k], e)]] = [ms EXCEPT ![p] = ArgsTo(ms[p], e)]
  BY DEF ArgsTo
<1> QED BY <1>2, <1>3, <1>4

(* appendArgs, whatever the call.                                          *)
LEMMA SaneArgs ==
    ASSUME NEW ms, NEW g \in Nat, NEW a \in Nat, Sane(ms, g, a), NEW e \in RunEvents
    PROVE  Sane(Panel!AppendArgs(ms, e), g, a)
<1>1. ms \in Seq(Bubbles) /\ Apart(ms) BY DEF Sane, Apart
<1>2. CASE Panel!AppendArgs(ms, e) = ms BY <1>2
<1>3. ASSUME NEW p \in DOMAIN ms, Panel!AppendArgs(ms, e) = [ms EXCEPT ![p] = ArgsTo(ms[p], e)]
      PROVE  Sane(Panel!AppendArgs(ms, e), g, a)
  <2>1. ms[p] \in Bubbles BY <1>1
  <2>2. PICK m : m = ArgsTo(ms[p], e) OBVIOUS
  <2>3. /\ m \in Bubbles /\ m.id = ms[p].id /\ DOMAIN m.calls = DOMAIN ms[p].calls
        /\ \A c \in DOMAIN ms[p].calls : m.calls[c].id = ms[p].calls[c].id
    BY <2>1, <2>2, WithArgs
  <2>4. Fair(m.id, g, a) /\ CallsUpTo(m, g) BY <2>1, <2>3 DEF Sane, Fair, CallsUpTo, Bubbles
  <2>5. Panel!Upsert(ms, m) = [ms EXCEPT ![p] = m] BY <1>1, <2>3, AtPlace
  <2>6. Panel!AppendArgs(ms, e) = Panel!Upsert(ms, m) BY <1>3, <2>2, <2>5
  <2>7. Sane(Panel!Upsert(ms, m), g, a) BY <2>3, <2>4, SaneUpsert
  <2> QED BY <2>6, <2>7
<1> QED BY <1>1, <1>2, <1>3, ArgsIs

(* What applyAgUiEvent makes of an event, whichever it is.                 *)
LEMMA SaneMessages ==
    ASSUME NEW ms, NEW g \in Nat, NEW a \in Nat, Sane(ms, g, a), NEW e \in RunEvents,
           Fair(e.id, g, a), Fair(e.parent, g, a)
    PROVE  Sane(Panel!Messages(ms, e), g, a)
<1>0. e.id \in Names /\ e.seq \in Nat BY DEF RunEvents
<1>1. CASE e.type = "TEXT_MESSAGE_START"
  <2>1. PICK new : new = Panel!Message(e.id, "assistant") OBVIOUS
  <2>2. new \in Bubbles /\ new.id = e.id /\ CallsUpTo(new, g) BY <1>0, <2>1, NewMessage
  <2>3. PICK m : m = Panel!Existing(ms, new) OBVIOUS
  <2>4. m \in Bubbles /\ m.id = e.id /\ CallsUpTo(m, g) BY <2>2, <2>3, ExistingIs
  <2>5. Panel!Messages(ms, e) = Panel!Upsert(ms, m) BY <1>1, <2>1, <2>3 DEF Panel!Messages
  <2> QED BY <2>4, <2>5, SaneUpsert
<1>2. CASE e.type = "TEXT_MESSAGE_CONTENT"
  <2>1. Panel!Messages(ms, e) = Panel!AppendText(ms, e.id, e.seq) BY <1>2 DEF Panel!Messages
  <2> QED BY <1>0, <2>1, SaneText
<1>3. CASE e.type = "TEXT_MESSAGE_CHUNK"
  <2>1. Panel!Messages(ms, e) = Panel!AppendText(ms, Panel!ChunkTo(ms, e), e.seq) BY <1>3 DEF Panel!Messages
  <2>2. Fair(Panel!ChunkTo(ms, e), g, a)
    <3>1. CASE Panel!ChunkTo(ms, e) = e.id BY <3>1
    <3>2. CASE Panel!ChunkTo(ms, e) # e.id
      <4>1. ms # <<>> /\ Panel!ChunkTo(ms, e) = Panel!Last(ms).id BY <3>2 DEF Panel!ChunkTo
      <4>2. ms \in Seq(Bubbles) BY DEF Sane
      <4>3. Len(ms) \in DOMAIN ms BY <4>1, <4>2, EmptySeq
      <4>4. Panel!ChunkTo(ms, e) = ms[Len(ms)].id /\ ms[Len(ms)] \in Bubbles BY <4>1, <4>2, <4>3 DEF Panel!Last
      <4> QED BY <4>3, <4>4 DEF Sane, Fair, Bubbles
    <3> QED BY <3>1, <3>2
  <2> QED BY <1>0, <2>1, <2>2, SaneText
<1>4. CASE e.type = "TOOL_CALL_START"
  <2>1. Panel!Messages(ms, e) = Panel!StartToolCall(ms, e) BY <1>4 DEF Panel!Messages
  <2> QED BY <2>1, SaneCall
<1>5. CASE e.type = "TOOL_CALL_ARGS"
  <2>1. Panel!Messages(ms, e) = Panel!AppendArgs(ms, e) BY <1>5 DEF Panel!Messages
  <2> QED BY <2>1, SaneArgs
<1>6. CASE e.type = "TOOL_CALL_CHUNK"
  <2>1. PICK y : y = IF \E k \in DOMAIN ms : Panel!HasCall(ms[k], e.id) THEN ms ELSE Panel!StartToolCall(ms, e) OBVIOUS
  <2>2. Panel!Messages(ms, e) = Panel!AppendArgs(y, e) BY <1>6, <2>1 DEF Panel!Messages
  <2>3. Sane(y, g, a) BY <2>1, SaneCall
  <2> QED BY <2>2, <2>3, SaneArgs
<1>7. CASE e.type = "TOOL_CALL_RESULT"
  <2>1. PICK new : new = Panel!Message(e.id, "tool") OBVIOUS
  <2>2. new \in Bubbles /\ new.id = e.id /\ CallsUpTo(new, g) BY <1>0, <2>1, NewMessage
  <2>3. PICK m : m = [new EXCEPT !.content = <<e.seq>>] OBVIOUS
  <2>4. <<e.seq>> \in Seq(Nat) BY <1>0
  <2>5. m \in Bubbles /\ m.id = e.id /\ CallsUpTo(m, g) BY <2>2, <2>3, <2>4 DEF Bubbles, CallsUpTo
  <2>6. Panel!Messages(ms, e) = Panel!Upsert(ms, m) BY <1>7, <2>1, <2>3 DEF Panel!Messages
  <2> QED BY <2>5, <2>6, SaneUpsert
<1>8. CASE e.type \in {"RUN_STARTED"} \cup Terminal
  <2>1. Panel!Messages(ms, e) = ms BY <1>8 DEF Panel!Messages, Terminal
  <2> QED BY <2>1
<1> QED BY <1>1, <1>2, <1>3, <1>4, <1>5, <1>6, <1>7, <1>8 DEF RunEvents, Texted, Argued

-----------------------------------------------------------------------------
(* Events of a run: their ids, and which text a piece is of.               *)
LEMMA LogFacts ==
    ASSUME NEW b, NEW r, Logged(b, r)
    PROVE  /\ Len(b) \in Nat /\ DOMAIN b = 1 .. Len(b)
           /\ \A k \in DOMAIN b : b[k] \in RunEvents /\ SentAt(b, k, r) /\ b[k].seq = k
<1>1. b \in Seq(RunEvents) BY DEF Logged
<1> QED BY <1>1 DEF Logged, SentAt

(* What the id of a text says.                                             *)
LEMMA TextIds ==
    ASSUME NEW b, NEW r, Logged(b, r), NEW n \in 0 .. Len(b), NEW id, HasText(b, n, id)
    PROVE  id \in Names /\ id[1] = "text" /\ id[2] = r /\ id # Panel!None
<1>1. PICK k \in 1 .. n : StartOf(b[k], id) BY DEF HasText
<1>2. k \in DOMAIN b BY LogFacts
<1> QED BY <1>1, <1>2, LogFacts DEF StartOf, SentAt, RunEvents, Panel!None

(* An event names what its run, or one before it, has begun.               *)
LEMMA EventIds ==
    ASSUME NEW b, NEW r \in Nat, Logged(b, r), NEW k \in DOMAIN b, NEW g \in Nat, r <= g, NEW a \in Nat
    PROVE  Fair(b[k].id, g, a) /\ Fair(b[k].parent, g, a)
<1>1. /\ b[k] \in RunEvents /\ SentAt(b, k, r) /\ k - 1 \in 0 .. Len(b)
  BY LogFacts
<1>2. b[k].id \in Names /\ b[k].parent \in Names BY <1>1 DEF RunEvents
<1>3. \A id : HasText(b, k - 1, id) => Fair(id, g, a) BY <1>1, TextIds DEF Fair
<1>4. Fair(Panel!None, g, a) /\ Fair(Panel!Call(r), g, a) /\ Fair(Panel!Result(r), g, a)
  <2>1. Panel!None \in Names /\ Panel!Call(r) \in Names /\ Panel!Result(r) \in Names BY DEF Panel!None, Panel!Call, Panel!Result, Names
  <2>2. Panel!None[2] <= g /\ Panel!Call(r)[2] <= g /\ Panel!Result(r)[2] <= g BY DEF Panel!None, Panel!Call, Panel!Result
  <2>3. Panel!None[1] # "user" /\ Panel!Call(r)[1] # "user" /\ Panel!Result(r)[1] # "user" BY DEF Panel!None, Panel!Call, Panel!Result
  <2> QED BY ONLY <2>1, <2>2, <2>3 DEF Fair
<1>5. b[k].parent = Panel!None \/ HasText(b, k - 1, b[k].parent) BY <1>1 DEF SentAt
<1>6. CASE b[k].type = "TEXT_MESSAGE_START"
  <2>1. b[k].id[1] = "text" /\ b[k].id[2] = r BY <1>1, <1>6 DEF SentAt
  <2>2. Fair(b[k].id, g, a) BY <1>2, <2>1 DEF Fair
  <2> QED BY <1>3, <1>4, <1>5, <2>2
<1>7. CASE b[k].type # "TEXT_MESSAGE_START"
  <2>1. \/ b[k].id \in {Panel!None, Panel!Call(r), Panel!Result(r)} \/ HasText(b, k - 1, b[k].id)
    BY <1>1, <1>7 DEF SentAt, RunEvents, Texted, Argued, Terminal, Starting
  <2> QED BY <1>3, <1>4, <1>5, <2>1
<1> QED BY <1>3, <1>4, <1>5, <1>6, <1>7

(* A piece of text is of one that was started before.                      *)
LEMMA PieceOfText ==
    ASSUME NEW b, NEW r, Logged(b, r), NEW x \in DOMAIN b, NEW id, PieceOf(b, x, Texted, id)
    PROVE  HasText(b, x - 1, id)
<1>1. SentAt(b, x, r) /\ x - 1 \in 0 .. Len(b) /\ x \in Nat BY LogFacts
<1>2. HasText(b, x - 1, b[x].id) => b[x].id # Panel!None BY <1>1, TextIds
<1>3. b[x].type \in Texted /\ Panel!Of(b[x], id) BY DEF PieceOf
<1>4. b[x].id = Panel!None => HasText(b, x - 1, b[x].parent)
  BY <1>1, <1>2, <1>3 DEF SentAt, Texted, HasText
<1>5. b[x].id # Panel!None => HasText(b, x - 1, b[x].id) BY <1>1, <1>3 DEF SentAt, Texted
<1> QED BY <1>3, <1>4, <1>5 DEF Panel!Of

(* Arguments are of the call of the run.                                   *)
LEMMA PieceOfCall ==
    ASSUME NEW b, NEW r, Logged(b, r), NEW x \in DOMAIN b, NEW id
    PROVE  PieceOf(b, x, Argued, id) <=> b[x].type \in Argued /\ id = Panel!Call(r)
<1>1. SentAt(b, x, r) BY LogFacts
<1>2. b[x].type \in Argued => b[x].id = Panel!Call(r) BY <1>1 DEF SentAt
<1>3. Panel!Call(r) # Panel!None BY DEF Panel!Call, Panel!None
<1> QED BY <1>2, <1>3 DEF PieceOf, Panel!Of

(* What was started stays started.                                         *)
LEMMA HasMore ==
    ASSUME NEW b, NEW m \in Nat, NEW n \in Nat, m <= n, NEW id
    PROVE  (HasText(b, m, id) => HasText(b, n, id)) /\ (Called(b, m, id) => Called(b, n, id))
<1>1. \A k \in 1 .. m : k \in 1 .. n OBVIOUS
<1> QED BY <1>1 DEF HasText, Called

(* No piece yet.                                                           *)
LEMMA NoPieces ==
    ASSUME NEW b, NEW n, NEW types, NEW id, \A x \in 1 .. n : ~PieceOf(b, x, types, id)
    PROVE  ArePieces(<<>>, b, n, types, id)
<1>1. DOMAIN <<>> = {} OBVIOUS
<1> QED BY <1>1 DEF ArePieces, Panel!InOrder

(* An event that is no piece.                                              *)
LEMMA PiecesStay ==
    ASSUME NEW b, NEW x \in Nat \ {0}, NEW types, NEW id, NEW s, ArePieces(s, b, x - 1, types, id),
           ~PieceOf(b, x, types, id)
    PROVE  ArePieces(s, b, x, types, id)
<1>1. \A y \in 1 .. x - 1 : y \in 1 .. x OBVIOUS
<1>2. \A y \in 1 .. x : y \in 1 .. x - 1 \/ y = x OBVIOUS
<1>3. \A i \in DOMAIN s : s[i] \in 1 .. x /\ PieceOf(b, s[i], types, id) BY <1>1 DEF ArePieces
<1>4. \A y \in 1 .. x : PieceOf(b, y, types, id) => \E i \in DOMAIN s : s[i] = y BY <1>2 DEF ArePieces
<1> QED BY <1>3, <1>4 DEF ArePieces

(* An event that is one.                                                   *)
LEMMA PiecesMore ==
    ASSUME NEW b, NEW x \in Nat \ {0}, NEW types, NEW id, NEW s \in Seq(Nat), ArePieces(s, b, x - 1, types, id),
           PieceOf(b, x, types, id)
    PROVE  ArePieces(Append(s, x), b, x, types, id)
<1>1. PICK z : z = Append(s, x) OBVIOUS
<1>2. /\ Len(s) \in Nat /\ DOMAIN s = 1 .. Len(s) /\ DOMAIN z = 1 .. Len(s) + 1 /\ z[Len(s) + 1] = x
      /\ \A k \in DOMAIN s : k \in DOMAIN z /\ z[k] = s[k]
  BY <1>1, Longer
<1>3. \A k \in DOMAIN z : k \in DOMAIN s \/ k = Len(s) + 1 BY <1>2
<1>4. \A k \in DOMAIN s : z[k] \in 1 .. x - 1 /\ PieceOf(b, z[k], types, id) BY <1>2 DEF ArePieces
<1>5. \A k \in DOMAIN z : z[k] \in 1 .. x /\ PieceOf(b, z[k], types, id)
  <2>1. \A y \in 1 .. x - 1 : y \in 1 .. x OBVIOUS
  <2>2. x \in 1 .. x OBVIOUS
  <2> QED BY <1>2, <1>3, <1>4, <2>1, <2>2
<1>6. Panel!InOrder(z)
  <2>1. Panel!InOrder(s) BY DEF ArePieces
  <2>2. ASSUME NEW j \in DOMAIN z, NEW k \in DOMAIN z, j < k PROVE z[j] < z[k]
    <3>0. j \in DOMAIN s BY <1>2, <1>3, <2>2
    <3>1. CASE k \in DOMAIN s BY <1>2, <2>1, <2>2, <3>0, <3>1 DEF Panel!InOrder
    <3>2. CASE k = Len(s) + 1
      <4>1. z[j] \in 1 .. x - 1 /\ z[k] = x BY <1>2, <1>4, <3>0, <3>2
      <4> QED BY <4>1
    <3> QED BY <1>3, <3>1, <3>2
  <2> QED BY <2>2 DEF Panel!InOrder
<1>7. ASSUME NEW y \in 1 .. x, PieceOf(b, y, types, id) PROVE \E i \in DOMAIN z : z[i] = y
  <2>1. CASE y \in 1 .. x - 1
    <3>1. PICK i \in DOMAIN s : s[i] = y BY <1>7, <2>1 DEF ArePieces
    <3> QED BY <1>2, <3>1
  <2>2. CASE y = x
    <3>1. Len(s) + 1 \in DOMAIN z BY <1>2
    <3> QED BY <1>2, <2>2, <3>1
  <2>3. y \in 1 .. x - 1 \/ y = x OBVIOUS
  <2> QED BY <2>1, <2>2, <2>3
<1> QED BY <1>1, <1>5, <1>6, <1>7 DEF ArePieces

(* Either.                                                                 *)
LEMMA PiecesOn ==
    ASSUME NEW b, NEW x \in Nat \ {0}, NEW types, NEW id, NEW s \in Seq(Nat), ArePieces(s, b, x - 1, types, id),
           NEW z, z = IF PieceOf(b, x, types, id) THEN Append(s, x) ELSE s
    PROVE  ArePieces(z, b, x, types, id)
<1>1. CASE PieceOf(b, x, types, id) BY <1>1, PiecesMore
<1>2. CASE ~PieceOf(b, x, types, id) BY <1>2, PiecesStay
<1> QED BY <1>1, <1>2

-----------------------------------------------------------------------------
(* What the messages are after the x-th event: those before, with what the *)
(* event is a piece of; and the one it starts.                             *)
Follows(y, z, b, x) ==
    /\ z \in Seq(Bubbles) /\ Len(z) \in {Len(y), Len(y) + 1}
    /\ \A k \in DOMAIN y :
          /\ z[k].id = y[k].id /\ z[k].role = y[k].role /\ z[k].bare = y[k].bare
          /\ z[k].content = IF PieceOf(b, x, Texted, y[k].id) THEN Append(y[k].content, x) ELSE y[k].content
          /\ DOMAIN z[k].calls = DOMAIN y[k].calls
          /\ \A c \in DOMAIN y[k].calls :
                /\ z[k].calls[c].id = y[k].calls[c].id
                /\ z[k].calls[c].args = IF PieceOf(b, x, Argued, y[k].calls[c].id)
                                        THEN Append(y[k].calls[c].args, x) ELSE y[k].calls[c].args
    /\ b[x].type = "TEXT_MESSAGE_START" =>
          Len(z) = Len(y) + 1 /\ z[Len(z)] = Panel!Message(b[x].id, "assistant")
    /\ Len(z) = Len(y) + 1 =>
          /\ b[x].type \in {"TEXT_MESSAGE_START", "TOOL_CALL_RESULT"}
          /\ z[Len(z)].id = b[x].id /\ z[Len(z)].calls = <<>>

(* Messages made of x - 1 events are, one event on, made of x.             *)
LEMMA GoesOn ==
    ASSUME NEW b, NEW r, Logged(b, r), NEW x \in DOMAIN b, NEW y \in Seq(Bubbles), Apart(y),
           TextsOf(y, b, x - 1), EndsInText(y, b, x - 1), OnlyTheirs(y, b, x, r),
           Called(b, x, Panel!Call(r)) => CallIn(y, b, x - 1, Panel!Call(r)),
           NEW z, Follows(y, z, b, x)
    PROVE  MadeOf(z, b, x, r)
<1>0. /\ Len(b) \in Nat /\ DOMAIN b = 1 .. Len(b) /\ b[x] \in RunEvents /\ SentAt(b, x, r)
      /\ x \in Nat \ {0} /\ x - 1 \in 0 .. Len(b)
  BY LogFacts
<1>1. /\ Len(y) \in Nat /\ DOMAIN y = 1 .. Len(y) /\ z \in Seq(Bubbles) /\ DOMAIN z = 1 .. Len(z)
      /\ Len(z) = Len(y) \/ Len(z) = Len(y) + 1
  BY DEF Follows
<1>2. /\ \A k \in DOMAIN y : k \in DOMAIN z /\ y[k] \in Bubbles
      /\ \A k \in DOMAIN z : k \in DOMAIN y \/ (k = Len(y) + 1 /\ Len(z) = Len(y) + 1)
  <2>1. \A k \in DOMAIN y : y[k] \in Bubbles OBVIOUS
  <2>2. PICK i, j : i = Len(y) /\ j = Len(z) /\ i \in Nat /\ (j = i \/ j = i + 1) BY <1>1
  <2>3. /\ \A k \in 1 .. i : k \in 1 .. j
        /\ \A k \in 1 .. j : k \in 1 .. i \/ (k = i + 1 /\ j = i + 1)
    BY ONLY <2>2
  <2> QED BY <1>1, <2>1, <2>2, <2>3
<1>3. \A k \in 1 .. x : k \in 1 .. x - 1 \/ k = x BY <1>0
<1>4. TextsOf(z, b, x)
  <2>1. ASSUME NEW k \in 1 .. x - 1, b[k].type = "TEXT_MESSAGE_START"
        PROVE  \E i \in DOMAIN z : /\ z[i].id = b[k].id /\ z[i].role = "assistant" /\ ~z[i].bare
                                   /\ ArePieces(z[i].content, b, x, Texted, b[k].id)
    <3>1. PICK i \in DOMAIN y : /\ y[i].id = b[k].id /\ y[i].role = "assistant" /\ ~y[i].bare
                                /\ ArePieces(y[i].content, b, x - 1, Texted, b[k].id)
      BY <2>1 DEF TextsOf
    <3>2. y[i].content \in Seq(Nat) BY <1>2 DEF Bubbles
    <3>3. /\ z[i].id = y[i].id /\ z[i].role = y[i].role /\ z[i].bare = y[i].bare
          /\ z[i].content = IF PieceOf(b, x, Texted, b[k].id) THEN Append(y[i].content, x) ELSE y[i].content
      BY <3>1 DEF Follows
    <3>4. ArePieces(z[i].content, b, x, Texted, b[k].id) BY <1>0, <3>1, <3>2, <3>3, PiecesOn
    <3> QED BY <1>2, <3>1, <3>3, <3>4
  <2>2. ASSUME b[x].type = "TEXT_MESSAGE_START"
        PROVE  \E i \in DOMAIN z : /\ z[i].id = b[x].id /\ z[i].role = "assistant" /\ ~z[i].bare
                                   /\ ArePieces(z[i].content, b, x, Texted, b[x].id)
    <3>0. z[Len(z)] = Panel!Message(b[x].id, "assistant") /\ Len(z) = Len(y) + 1 BY <2>2 DEF Follows
    <3>1. Len(z) \in DOMAIN z
      <4>1. Len(z) \in 1 .. Len(z) BY ONLY <1>1, <3>0
      <4> QED BY <1>1, <4>1
    <3>2. b[x].id \in Names BY <1>0 DEF RunEvents
    <3>3. ASSUME NEW k \in 1 .. x PROVE ~PieceOf(b, k, Texted, b[x].id)
      <4>1. k \in DOMAIN b /\ k - 1 \in Nat /\ x - 1 \in Nat /\ k - 1 <= x - 1 BY <1>0
      <4>2. ~HasText(b, x - 1, b[x].id) BY <1>0, <2>2 DEF SentAt
      <4>3. HasText(b, k - 1, b[x].id) => HasText(b, x - 1, b[x].id) BY <4>1, HasMore
      <4> QED BY <4>1, <4>2, <4>3, PieceOfText
    <3>4. ArePieces(<<>>, b, x, Texted, b[x].id) BY <3>3, NoPieces
    <3> QED BY <3>0, <3>1, <3>2, <3>4, NewMessage
  <2> QED BY <1>3, <2>1, <2>2 DEF TextsOf
<1>5. ASSUME Called(b, x, Panel!Call(r)) PROVE CallIn(z, b, x, Panel!Call(r))
  <2>0. CallIn(y, b, x - 1, Panel!Call(r)) BY <1>5
  <2>1. PICK k \in DOMAIN y : \E c \in DOMAIN y[k].calls :
           /\ y[k].calls[c].id = Panel!Call(r) /\ ArePieces(y[k].calls[c].args, b, x - 1, Argued, Panel!Call(r))
           /\ \A l \in DOMAIN y : \A d \in DOMAIN y[l].calls : y[l].calls[d].id = Panel!Call(r) => l = k /\ d = c
    BY <2>0 DEF CallIn
  <2>2. PICK c \in DOMAIN y[k].calls :
           /\ y[k].calls[c].id = Panel!Call(r) /\ ArePieces(y[k].calls[c].args, b, x - 1, Argued, Panel!Call(r))
           /\ \A l \in DOMAIN y : \A d \in DOMAIN y[l].calls : y[l].calls[d].id = Panel!Call(r) => l = k /\ d = c
    BY <2>1
  <2>3. y[k].calls[c].args \in Seq(Nat)
    <3>1. y[k].calls \in Seq(ToolCalls) BY <1>2 DEF Bubbles
    <3>2. y[k].calls[c] \in ToolCalls BY <3>1, ElementOfSeq, LenProperties
    <3> QED BY <3>2 DEF ToolCalls
  <2>4. /\ c \in DOMAIN z[k].calls /\ z[k].calls[c].id = Panel!Call(r)
        /\ z[k].calls[c].args = IF PieceOf(b, x, Argued, Panel!Call(r)) THEN Append(y[k].calls[c].args, x)
                                ELSE y[k].calls[c].args
    BY <2>2 DEF Follows
  <2>5. ArePieces(z[k].calls[c].args, b, x, Argued, Panel!Call(r)) BY <1>0, <2>2, <2>3, <2>4, PiecesOn
  <2>6. ASSUME NEW l \in DOMAIN z, NEW d \in DOMAIN z[l].calls, z[l].calls[d].id = Panel!Call(r) PROVE l = k /\ d = c
    <3>1. CASE l \in DOMAIN y
      <4>1. d \in DOMAIN y[l].calls /\ y[l].calls[d].id = Panel!Call(r) BY <2>6, <3>1 DEF Follows
      <4> QED BY <2>2, <3>1, <4>1
    <3>2. CASE l = Len(y) + 1 /\ Len(z) = Len(y) + 1
      <4>1. z[l].calls = <<>> BY <3>2 DEF Follows
      <4>2. DOMAIN <<>> = {} OBVIOUS
      <4> QED BY <2>6, <4>1, <4>2
    <3> QED BY <1>2, <3>1, <3>2
  <2>7. \E i \in DOMAIN z[k].calls :
           /\ z[k].calls[i].id = Panel!Call(r) /\ ArePieces(z[k].calls[i].args, b, x, Argued, Panel!Call(r))
           /\ \A l \in DOMAIN z : \A d \in DOMAIN z[l].calls : z[l].calls[d].id = Panel!Call(r) => l = k /\ d = i
    BY <2>4, <2>5, <2>6
  <2> QED BY <1>2, <2>7 DEF CallIn
<1>6. OnlyTheirs(z, b, x, r)
  <2>1. ASSUME NEW k \in DOMAIN z
        PROVE  /\ z[k].id[2] = r => \E j \in 1 .. x : b[j].id = z[k].id
               /\ \A c \in DOMAIN z[k].calls : z[k].calls[c].id = Panel!Call(r) => Called(b, x, Panel!Call(r))
    <3>1. CASE k \in DOMAIN y
      <4>1. /\ z[k].id = y[k].id /\ DOMAIN z[k].calls = DOMAIN y[k].calls
            /\ \A c \in DOMAIN y[k].calls : z[k].calls[c].id = y[k].calls[c].id
        BY <3>1 DEF Follows
      <4> QED BY <3>1, <4>1 DEF OnlyTheirs
    <3>2. CASE k = Len(y) + 1 /\ Len(z) = Len(y) + 1
      <4>1. z[k].id = b[x].id /\ z[k].calls = <<>> BY <3>2 DEF Follows
      <4>2. DOMAIN <<>> = {} /\ x \in 1 .. x BY <1>0
      <4> QED BY <4>1, <4>2
    <3> QED BY <1>2, <3>1, <3>2
  <2> QED BY <2>1 DEF OnlyTheirs
<1>7. EndsInText(z, b, x)
  <2>1. ASSUME NEW k \in 1 .. x, InTextNow(b, x, k) PROVE z # <<>> /\ z[Len(z)].id = b[k].id
    <3>1. CASE k = x
      <4>1. b[x].type = "TEXT_MESSAGE_START" BY <2>1, <3>1 DEF InTextNow
      <4>2. Len(z) = Len(y) + 1 BY <4>1 DEF Follows
      <4>3. z[Len(z)].id = b[x].id BY <4>2 DEF Follows
      <4>4. z # <<>> BY <1>1, <4>2, EmptySeq
      <4> QED BY <3>1, <4>3, <4>4
    <3>2. CASE k \in 1 .. x - 1
      <4>1. /\ b[x].type \notin {"TEXT_MESSAGE_START", "TOOL_CALL_RESULT"} /\ InTextNow(b, x - 1, k)
        <5>1. x \in k + 1 .. x /\ \A i \in k + 1 .. x - 1 : i \in k + 1 .. x BY <1>0, <3>2
        <5> QED BY <2>1, <5>1 DEF InTextNow
      <4>2. y # <<>> /\ y[Len(y)].id = b[k].id BY <3>2, <4>1 DEF EndsInText
      <4>3. Len(z) = Len(y) BY <1>1, <4>1 DEF Follows
      <4>4. Len(y) # 0 BY <4>2, EmptySeq
      <4>7. Len(y) \in 1 .. Len(y)
        <5>1. PICK i : i = Len(y) /\ i \in Nat /\ i # 0 BY <1>1, <4>4
        <5>2. i \in 1 .. i BY ONLY <5>1
        <5> QED BY <5>1, <5>2
      <4>5. z[Len(z)].id = y[Len(y)].id BY <1>1, <4>3, <4>7 DEF Follows
      <4>6. z # <<>> BY <4>3, <4>4, EmptySeq
      <4> QED BY <4>2, <4>5, <4>6
    <3> QED BY <1>3, <3>1, <3>2
  <2> QED BY <2>1 DEF EndsInText
<1> QED BY <1>4, <1>5, <1>6, <1>7 DEF MadeOf

-----------------------------------------------------------------------------
(* What one event of a run makes of messages made of those before it.      *)
LEMMA IdsByType ==
    ASSUME NEW b, NEW r, Logged(b, r), NEW j \in DOMAIN b
    PROVE  /\ b[j].id[1] = "text" => HasText(b, j, b[j].id)
           /\ b[j].id = Panel!Call(r) => Called(b, j, Panel!Call(r))
           /\ b[j].id = Panel!Result(r) => b[j].type = "TOOL_CALL_RESULT"
<1>1. /\ b[j] \in RunEvents /\ SentAt(b, j, r) /\ j \in Nat /\ j - 1 \in Nat /\ j - 1 <= j
      /\ j - 1 \in 0 .. Len(b) /\ j \in 1 .. j
  BY LogFacts
<1>2. /\ HasText(b, j - 1, b[j].id) => HasText(b, j, b[j].id) /\ b[j].id[1] = "text"
      /\ Called(b, j - 1, b[j].id) => Called(b, j, b[j].id)
  <2>1. HasText(b, j - 1, b[j].id) => HasText(b, j, b[j].id) BY <1>1, HasMore
  <2>2. Called(b, j - 1, b[j].id) => Called(b, j, b[j].id) BY <1>1, HasMore
  <2>3. HasText(b, j - 1, b[j].id) => b[j].id[1] = "text" BY <1>1, TextIds
  <2> QED BY <2>1, <2>2, <2>3
<1>3. /\ Panel!None[1] = "none" /\ Panel!Call(r)[1] = "call" /\ Panel!Result(r)[1] = "result"
  BY DEF Panel!None, Panel!Call, Panel!Result
<1>4. CASE b[j].type = "TEXT_MESSAGE_START"
  <2>1. HasText(b, j, b[j].id) BY <1>1, <1>4 DEF HasText, StartOf
  <2>2. b[j].id[1] = "text" BY <1>1, <1>4 DEF SentAt
  <2> QED BY <1>3, <2>1, <2>2
<1>5. CASE b[j].type \in Texted
  <2>1. HasText(b, j - 1, b[j].id) \/ b[j].id = Panel!None BY <1>1, <1>5 DEF SentAt, Texted
  <2> QED BY <1>2, <1>3, <2>1
<1>6. CASE b[j].type \in Starting \cup Argued
  <2>1. b[j].id = Panel!Call(r) BY <1>1, <1>6 DEF SentAt
  <2>2. Called(b, j, b[j].id)
    <3>1. CASE b[j].type \in Starting BY <1>1, <3>1 DEF Called
    <3>2. CASE b[j].type \notin Starting
      <4>1. b[j].type = "TOOL_CALL_ARGS" BY <1>6, <3>2 DEF Argued, Starting
      <4> QED BY <1>1, <1>2, <4>1 DEF SentAt
    <3> QED BY <3>1, <3>2
  <2> QED BY <1>3, <2>1, <2>2
<1>7. CASE b[j].type = "TOOL_CALL_RESULT"
  <2>1. b[j].id = Panel!Result(r) BY <1>1, <1>7 DEF SentAt
  <2> QED BY <1>3, <1>7, <2>1
<1>8. CASE b[j].type \in {"RUN_STARTED"} \cup Terminal
  <2>1. b[j].id = Panel!None BY <1>1, <1>8 DEF SentAt
  <2> QED BY <1>3, <2>1
<1>9. b[j].type \in {"RUN_STARTED", "TEXT_MESSAGE_START", "TOOL_CALL_RESULT"}
                      \cup Texted \cup Starting \cup Argued \cup Terminal
  BY <1>1 DEF RunEvents, Starting
<1> QED BY <1>4, <1>5, <1>6, <1>7, <1>8, <1>9

(* No argument comes before its call.                                      *)
LEMMA NoArgsYet ==
    ASSUME NEW b, NEW r, Logged(b, r), NEW n \in 0 .. Len(b), ~Called(b, n, Panel!Call(r))
    PROVE  ArePieces(<<>>, b, n, Argued, Panel!Call(r))
<1>1. ASSUME NEW x \in 1 .. n, PieceOf(b, x, Argued, Panel!Call(r)) PROVE FALSE
  <2>1. x \in DOMAIN b /\ x \in Nat /\ n \in Nat /\ x <= n BY LogFacts
  <2>2. SentAt(b, x, r) /\ b[x].type \in Argued BY <1>1, <2>1, LogFacts DEF PieceOf
  <2>3. b[x].id = Panel!Call(r) BY <2>2 DEF SentAt
  <2>4. Called(b, x, Panel!Call(r)) BY <2>1, <2>3, IdsByType
  <2> QED BY <2>1, <2>4, HasMore
<1> QED BY <1>1, NoPieces

(* Nothing but theirs, one event on.                                       *)
LEMMA TheirsLonger ==
    ASSUME NEW ms, NEW b, NEW x \in Nat \ {0}, NEW r, OnlyTheirs(ms, b, x - 1, r)
    PROVE  OnlyTheirs(ms, b, x, r)
<1>1. Called(b, x - 1, Panel!Call(r)) => Called(b, x, Panel!Call(r))
  <2>1. x - 1 \in Nat /\ x \in Nat /\ x - 1 <= x OBVIOUS
  <2> QED BY <2>1, HasMore
<1>2. \A j \in 1 .. x - 1 : j \in 1 .. x OBVIOUS
<1> QED BY <1>1, <1>2 DEF OnlyTheirs

(* An event that starts no call leaves the calls as they were.             *)
LEMMA SameCalled ==
    ASSUME NEW b, NEW x \in Nat \ {0}, NEW id, b[x].type \notin Starting, Called(b, x, id)
    PROVE  Called(b, x - 1, id)
<1>1. \A k \in 1 .. x : k \in 1 .. x - 1 \/ k = x OBVIOUS
<1> QED BY <1>1 DEF Called

(* Any event but one of a tool call: as it goes on, so it is made.         *)
LEMMA MadeBy ==
    ASSUME NEW b, NEW r, Logged(b, r), NEW x \in DOMAIN b, NEW ms \in Seq(Bubbles), Apart(ms),
           MadeOf(ms, b, x - 1, r), b[x].type \notin Starting, NEW z, Follows(ms, z, b, x)
    PROVE  MadeOf(z, b, x, r)
<1>1. x \in Nat \ {0} BY LogFacts
<1>2. TextsOf(ms, b, x - 1) /\ EndsInText(ms, b, x - 1) /\ OnlyTheirs(ms, b, x - 1, r) BY DEF MadeOf
<1>3. OnlyTheirs(ms, b, x, r) BY <1>1, <1>2, TheirsLonger
<1>4. Called(b, x, Panel!Call(r)) => CallIn(ms, b, x - 1, Panel!Call(r)) BY <1>1, SameCalled DEF MadeOf
<1> QED BY <1>2, <1>3, <1>4, GoesOn

(* One message more, of an event that is not a piece.                      *)
LEMMA FollowsMore ==
    ASSUME NEW ms \in Seq(Bubbles), NEW b, NEW x, b[x].type \in {"TEXT_MESSAGE_START", "TOOL_CALL_RESULT"},
           NEW m \in Bubbles, m.id = b[x].id, m.calls = <<>>,
           b[x].type = "TEXT_MESSAGE_START" => m = Panel!Message(b[x].id, "assistant")
    PROVE  Follows(ms, Append(ms, m), b, x)
<1>1. PICK z : z = Append(ms, m) OBVIOUS
<1>2. /\ z \in Seq(Bubbles) /\ Len(z) = Len(ms) + 1 /\ z[Len(ms) + 1] = m
      /\ \A k \in DOMAIN ms : z[k] = ms[k]
  BY <1>1, Longer
<1>3. \A id : ~PieceOf(b, x, Texted, id) /\ ~PieceOf(b, x, Argued, id) BY DEF PieceOf, Texted, Argued
<1> QED BY <1>1, <1>2, <1>3 DEF Follows

(* The text goes to its message, whose calls it leaves alone.              *)
LEMMA TextGoes ==
    ASSUME NEW b, NEW r, Logged(b, r), NEW x \in DOMAIN b, b[x].type \in Texted,
           NEW ms \in Seq(Bubbles), Apart(ms), TextsOf(ms, b, x - 1),
           NEW t, HasText(b, x - 1, t), \A id : Panel!Of(b[x], id) <=> id = t
    PROVE  Follows(ms, Panel!AppendText(ms, t, x), b, x)
<1>0. x \in Nat BY LogFacts
<1>1. PICK j \in 1 .. x - 1 : StartOf(b[j], t) BY DEF HasText
<1>2. PICK p \in DOMAIN ms : ms[p].id = t /\ ms[p].role = "assistant" /\ ~ms[p].bare
  BY <1>1 DEF TextsOf, StartOf
<1>3. ms[p] \in Bubbles BY <1>2
<1>4. Append(ms[p].content, x) \in Seq(Nat) BY <1>0, <1>3 DEF Bubbles
<1>5. PICK m : m = [ms[p] EXCEPT !.content = Append(@, x)] OBVIOUS
<1>6. /\ m \in Bubbles /\ m.id = t /\ m.role = ms[p].role /\ m.bare = ms[p].bare /\ m.calls = ms[p].calls
      /\ m.content = Append(ms[p].content, x)
  BY <1>2, <1>3, <1>4, <1>5 DEF Bubbles
<1>7. Panel!AppendText(ms, t, x) = [ms EXCEPT ![p] = m]
  <2>1. t \in Names BY <1>2, <1>3 DEF Bubbles
  <2>2. Panel!Message(t, "assistant").id = t BY <2>1, NewMessage
  <2>3. Panel!Existing(ms, Panel!Message(t, "assistant")) = ms[p] BY <1>2, <2>2, AtPlace
  <2>4. Panel!Upsert(ms, m) = [ms EXCEPT ![p] = m] BY <1>2, <1>6, AtPlace
  <2> QED BY <1>2, <1>5, <2>3, <2>4 DEF Panel!AppendText
<1>8. PICK z : z = [ms EXCEPT ![p] = m] OBVIOUS
<1>9. z \in Seq(Bubbles) /\ Len(z) = Len(ms) /\ z[p] = m /\ \A k \in DOMAIN ms : k # p => z[k] = ms[k]
  BY <1>2, <1>6, <1>8, Changed
<1>10. \A id : ~PieceOf(b, x, Argued, id) BY DEF PieceOf, Texted, Argued
<1>11. \A id : PieceOf(b, x, Texted, id) <=> id = t BY DEF PieceOf
<1>12. ASSUME NEW k \in DOMAIN ms
       PROVE  /\ z[k].id = ms[k].id /\ z[k].role = ms[k].role /\ z[k].bare = ms[k].bare /\ z[k].calls = ms[k].calls
              /\ z[k].content = IF PieceOf(b, x, Texted, ms[k].id) THEN Append(ms[k].content, x) ELSE ms[k].content
  <2>1. CASE k = p BY <1>2, <1>6, <1>9, <1>11, <2>1
  <2>2. CASE k # p
    <3>1. ms[k].id # t BY <1>2, <2>2 DEF Apart
    <3> QED BY <1>9, <1>11, <2>2, <3>1
  <2> QED BY <2>1, <2>2
<1>13. b[x].type # "TEXT_MESSAGE_START" /\ Len(ms) \in Nat /\ Len(ms) # Len(ms) + 1 BY DEF Texted
<1> QED BY <1>7, <1>8, <1>9, <1>10, <1>12, <1>13 DEF Follows

(* Arguments go to the call, which is in one message.                      *)
LEMMA ArgsGo ==
    ASSUME NEW b, NEW r, Logged(b, r), NEW x \in DOMAIN b, b[x].type \in Argued,
           NEW y \in Seq(Bubbles), CallIn(y, b, x - 1, Panel!Call(r))
    PROVE  Follows(y, Panel!AppendArgs(y, b[x]), b, x)
<1>0. x \in Nat /\ b[x] \in RunEvents /\ SentAt(b, x, r) /\ b[x].seq = x BY LogFacts
<1>1. b[x].id = Panel!Call(r) BY <1>0 DEF SentAt
<1>2. PICK k \in DOMAIN y : \E c \in DOMAIN y[k].calls :
         /\ y[k].calls[c].id = Panel!Call(r)
         /\ \A l \in DOMAIN y : \A d \in DOMAIN y[l].calls : y[l].calls[d].id = Panel!Call(r) => l = k /\ d = c
  BY DEF CallIn
<1>3. Panel!HasCall(y[k], Panel!Call(r)) BY <1>2 DEF Panel!HasCall
<1>4. PICK p \in DOMAIN y : /\ Panel!HasCall(y[p], b[x].id)
                            /\ Panel!AppendArgs(y, b[x]) = [y EXCEPT ![p] = ArgsTo(y[p], b[x])]
  BY <1>1, <1>3, ArgsIs
<1>5. \A l \in DOMAIN y : Panel!HasCall(y[l], Panel!Call(r)) => l = k BY <1>2 DEF Panel!HasCall
<1>6. p = k BY <1>1, <1>4, <1>5
<1>7. PICK m : m = ArgsTo(y[p], b[x]) OBVIOUS
<1>8. y[p] \in Bubbles BY <1>4
<1>9. /\ m \in Bubbles /\ m.id = y[p].id /\ m.role = y[p].role /\ m.content = y[p].content /\ m.bare = y[p].bare
      /\ DOMAIN m.calls = DOMAIN y[p].calls
      /\ \A c \in DOMAIN y[p].calls :
           /\ m.calls[c].id = y[p].calls[c].id
           /\ m.calls[c].args = IF y[p].calls[c].id = b[x].id THEN Append(y[p].calls[c].args, b[x].seq)
                                ELSE y[p].calls[c].args
  BY <1>0, <1>7, <1>8, WithArgs
<1>10. PICK z : z = [y EXCEPT ![p] = m] OBVIOUS
<1>11. z \in Seq(Bubbles) /\ Len(z) = Len(y) /\ z[p] = m /\ \A l \in DOMAIN y : l # p => z[l] = y[l]
  BY <1>4, <1>9, <1>10, Changed
<1>12. \A id : ~PieceOf(b, x, Texted, id) BY DEF PieceOf, Texted, Argued
<1>13. \A id : PieceOf(b, x, Argued, id) <=> id = Panel!Call(r) BY PieceOfCall
<1>14. ASSUME NEW l \in DOMAIN y
       PROVE  /\ z[l].id = y[l].id /\ z[l].role = y[l].role /\ z[l].bare = y[l].bare /\ z[l].content = y[l].content
              /\ DOMAIN z[l].calls = DOMAIN y[l].calls
              /\ \A c \in DOMAIN y[l].calls :
                   /\ z[l].calls[c].id = y[l].calls[c].id
                   /\ z[l].calls[c].args = IF PieceOf(b, x, Argued, y[l].calls[c].id)
                                           THEN Append(y[l].calls[c].args, x) ELSE y[l].calls[c].args
  <2>1. CASE l = p BY <1>0, <1>1, <1>9, <1>11, <1>13, <2>1
  <2>2. CASE l # p
    <3>1. \A c \in DOMAIN y[l].calls : y[l].calls[c].id # Panel!Call(r) BY <1>5, <1>6, <2>2 DEF Panel!HasCall
    <3> QED BY <1>11, <1>13, <2>2, <3>1
  <2> QED BY <2>1, <2>2
<1>15. b[x].type # "TEXT_MESSAGE_START" /\ Len(y) \in Nat /\ Len(y) # Len(y) + 1 BY DEF Argued
<1>16. \A l \in DOMAIN y :
          z[l].content = IF PieceOf(b, x, Texted, y[l].id) THEN Append(y[l].content, x) ELSE y[l].content
  BY <1>12, <1>14
<1>17. Panel!AppendArgs(y, b[x]) = z BY <1>4, <1>7, <1>10
<1>18. Len(z) \in {Len(y), Len(y) + 1} /\ Len(z) # Len(y) + 1 BY <1>11, <1>15
<1>19. Follows(y, z, b, x) BY <1>11, <1>14, <1>15, <1>16, <1>18 DEF Follows
<1> QED BY <1>17, <1>19

(* A call goes to the parent it names, to the last message, or to one of   *)
(* its own, which is then the last.                                        *)
LEMMA CallGoes ==
    ASSUME NEW b, NEW r, Logged(b, r), NEW x \in DOMAIN b, b[x].type \in Starting, ~Called(b, x - 1, Panel!Call(r)),
           NEW ms \in Seq(Bubbles), Apart(ms), MadeOf(ms, b, x - 1, r),
           NEW y, y = Panel!StartToolCall(ms, b[x]), y \in Seq(Bubbles)
    PROVE  /\ TextsOf(y, b, x - 1) /\ EndsInText(y, b, x - 1) /\ OnlyTheirs(y, b, x, r)
           /\ CallIn(y, b, x - 1, Panel!Call(r))
<1>0. /\ b[x] \in RunEvents /\ SentAt(b, x, r) /\ x \in Nat \ {0} /\ x - 1 \in 0 .. Len(b)
      /\ Len(ms) \in Nat /\ DOMAIN ms = 1 .. Len(ms)
  BY LogFacts
<1>1. PICK e : e = b[x] OBVIOUS
<1>2. e.id = Panel!Call(r) /\ (e.parent = Panel!None \/ HasText(b, x - 1, e.parent)) BY <1>0, <1>1 DEF SentAt
<1>3. TextsOf(ms, b, x - 1) /\ OnlyTheirs(ms, b, x - 1, r) /\ EndsInText(ms, b, x - 1) BY DEF MadeOf
<1>4. OnlyTheirs(ms, b, x, r) BY <1>0, <1>3, TheirsLonger
<1>5. \A k \in DOMAIN ms : ~Panel!HasCall(ms[k], Panel!Call(r)) BY <1>3 DEF OnlyTheirs, Panel!HasCall
<1>6. Called(b, x, Panel!Call(r))
  <2>1. x \in 1 .. x BY <1>0
  <2> QED BY <1>1, <1>2, <2>1 DEF Called
<1>7. ArePieces(<<>>, b, x - 1, Argued, Panel!Call(r)) BY <1>0, NoArgsYet
<1>8. Panel!Call(r) \in Names
  <2>1. e.id \in Names BY <1>0, <1>1 DEF RunEvents
  <2> QED BY <1>2, <2>1
<1>9. PICK id : id = Panel!AssistantFor(ms, e) OBVIOUS
<1>10. PICK new : new = [Panel!Message(id, "assistant") EXCEPT !.bare = TRUE] OBVIOUS
<1>11. new.id = id /\ new.calls = <<>> /\ new.role = "assistant" BY <1>10 DEF Panel!Message
<1>12. y = LET m == Panel!Existing(ms, new) IN Panel!Upsert(ms, IF Panel!HasCall(m, e.id) THEN m ELSE OneCallMore(m, e.id))
  BY <1>1, <1>9, <1>10 DEF Panel!StartToolCall, OneCallMore
(* One call more in the p-th message.                                      *)
<1>13. ASSUME NEW p \in 1 .. Len(y), NEW m \in Bubbles, y[p] = OneCallMore(m, Panel!Call(r)), ~Panel!HasCall(m, Panel!Call(r)),
              \A k \in DOMAIN y : k # p => k \in DOMAIN ms /\ y[k] = ms[k]
       PROVE  CallIn(y, b, x - 1, Panel!Call(r))
  <2>1. DOMAIN y = 1 .. Len(y) OBVIOUS
  <2>2. PICK c : c = Len(m.calls) + 1 OBVIOUS
  <2>3. /\ c \in DOMAIN y[p].calls /\ y[p].calls[c] = [id |-> Panel!Call(r), args |-> <<>>]
        /\ \A d \in DOMAIN y[p].calls : d = c \/ (d \in DOMAIN m.calls /\ y[p].calls[d] = m.calls[d])
    <3>1. PICK z : z = OneCallMore(m, Panel!Call(r)) OBVIOUS
    <3>2. /\ Len(m.calls) \in Nat /\ DOMAIN m.calls = 1 .. Len(m.calls) /\ DOMAIN z.calls = 1 .. Len(m.calls) + 1
          /\ z.calls[Len(m.calls) + 1] = [id |-> Panel!Call(r), args |-> <<>>]
          /\ \A d \in DOMAIN m.calls : z.calls[d] = m.calls[d]
      BY <1>8, <3>1, WithCall
    <3>3. c \in DOMAIN z.calls /\ \A d \in DOMAIN z.calls : d = c \/ d \in DOMAIN m.calls BY <2>2, <3>2
    <3> QED BY <1>13, <2>2, <3>1, <3>2, <3>3
  <2>4. ASSUME NEW l \in DOMAIN y, NEW d \in DOMAIN y[l].calls, y[l].calls[d].id = Panel!Call(r) PROVE l = p /\ d = c
    <3>1. CASE l = p BY <1>13, <2>3, <2>4, <3>1 DEF Panel!HasCall
    <3>2. CASE l # p BY <1>5, <1>13, <2>4, <3>2 DEF Panel!HasCall
    <3> QED BY <3>1, <3>2
  <2>5. /\ y[p].calls[c].id = Panel!Call(r) /\ ArePieces(y[p].calls[c].args, b, x - 1, Argued, Panel!Call(r))
        /\ \A l \in DOMAIN y : \A d \in DOMAIN y[l].calls : y[l].calls[d].id = Panel!Call(r) => l = p /\ d = c
    BY <1>7, <2>3, <2>4
  <2>6. \E d \in DOMAIN y[p].calls :
           /\ y[p].calls[d].id = Panel!Call(r) /\ ArePieces(y[p].calls[d].args, b, x - 1, Argued, Panel!Call(r))
           /\ \A l \in DOMAIN y : \A i \in DOMAIN y[l].calls : y[l].calls[i].id = Panel!Call(r) => l = p /\ i = d
    BY <2>3, <2>5
  <2> QED BY <2>1, <2>6 DEF CallIn
<1>14. CASE \E p \in DOMAIN ms : ms[p].id = id
  <2>1. PICK p \in DOMAIN ms : ms[p].id = id BY <1>14
  <2>2. PICK m : m = ms[p] OBVIOUS
  <2>3. m \in Bubbles /\ ~Panel!HasCall(m, Panel!Call(r)) BY <1>5, <2>1, <2>2
  <2>4. PICK z : z = OneCallMore(m, Panel!Call(r)) OBVIOUS
  <2>5. z \in Bubbles /\ z.id = m.id /\ z.role = m.role /\ z.content = m.content /\ z.bare = m.bare
    BY <1>8, <2>3, <2>4, WithCall
  <2>6. Panel!Existing(ms, new) = m BY <1>11, <2>1, <2>2, AtPlace
  <2>7. Panel!Upsert(ms, z) = [ms EXCEPT ![p] = z] BY <2>1, <2>2, <2>5, AtPlace
  <2>8. y = [ms EXCEPT ![p] = z] BY <1>2, <1>12, <2>3, <2>4, <2>6, <2>7
  <2>9. /\ Len(y) = Len(ms) /\ DOMAIN y = 1 .. Len(ms) /\ y[p] = z
        /\ \A k \in DOMAIN ms : k # p => y[k] = ms[k]
    BY <2>1, <2>5, <2>8, Changed
  <2>10. \A k \in DOMAIN y : /\ k \in DOMAIN ms /\ y[k].id = ms[k].id /\ y[k].role = ms[k].role
                             /\ y[k].bare = ms[k].bare /\ y[k].content = ms[k].content
    BY <1>0, <2>2, <2>5, <2>9
  <2>11. TextsOf(y, b, x - 1)
    <3>1. DOMAIN y = DOMAIN ms BY <1>0, <2>9
    <3> QED BY <1>3, <2>10, <3>1 DEF TextsOf
  <2>12. EndsInText(y, b, x - 1)
    <3>1. ASSUME NEW j \in 1 .. x - 1, InTextNow(b, x - 1, j) PROVE y # <<>> /\ y[Len(y)].id = b[j].id
      <4>1. ms # <<>> /\ ms[Len(ms)].id = b[j].id BY <1>3, <3>1 DEF EndsInText
      <4>2. Len(ms) # 0 BY <4>1, EmptySeq
      <4>3. Len(ms) \in DOMAIN ms BY ONLY <1>0, <4>2
      <4>4. y[Len(y)].id = ms[Len(ms)].id BY <1>0, <2>9, <2>10, <4>3
      <4>5. y # <<>> BY <2>9, <4>2, EmptySeq
      <4> QED BY <4>1, <4>4, <4>5
    <3> QED BY <3>1 DEF EndsInText
  <2>13. OnlyTheirs(y, b, x, r) BY <1>4, <1>6, <2>10 DEF OnlyTheirs
  <2>14. CallIn(y, b, x - 1, Panel!Call(r))
    <3>1. p \in 1 .. Len(y) /\ y[p] = OneCallMore(m, Panel!Call(r)) BY <1>0, <2>1, <2>4, <2>9
    <3>2. \A k \in DOMAIN y : k # p => k \in DOMAIN ms /\ y[k] = ms[k] BY <1>0, <2>9
    <3> QED BY <1>13, <2>3, <3>1, <3>2
  <2> QED BY <2>11, <2>12, <2>13, <2>14
<1>15. CASE \A p \in DOMAIN ms : ms[p].id # id
  <2>1. \A t : HasText(b, x - 1, t) => \E k \in DOMAIN ms : ms[k].id = t /\ ms[k].role = "assistant"
    BY <1>3 DEF HasText, StartOf, TextsOf
  <2>2. ms # <<>> => Len(ms) \in DOMAIN ms
    <3>1. ms # <<>> => Len(ms) # 0 BY EmptySeq
    <3>2. Len(ms) # 0 => Len(ms) \in DOMAIN ms BY ONLY <1>0
    <3> QED BY <3>1, <3>2
  <2>3. e.parent = Panel!None
    <3>1. e.parent # Panel!None => id = e.parent BY <1>9 DEF Panel!AssistantFor
    <3> QED BY <1>2, <1>15, <2>1, <3>1
  <2>4. id = Panel!Call(r) /\ ~(ms # <<>> /\ ms[Len(ms)].role = "assistant")
    BY <1>2, <1>9, <1>15, <2>2, <2>3 DEF Panel!AssistantFor, Panel!Last
  <2>5. \A j \in 1 .. x - 1 : ~InTextNow(b, x - 1, j)
    <3>1. ASSUME NEW j \in 1 .. x - 1, InTextNow(b, x - 1, j) PROVE FALSE
      <4>1. ms # <<>> /\ ms[Len(ms)].id = b[j].id BY <1>3, <3>1 DEF EndsInText
      <4>2. HasText(b, x - 1, b[j].id) BY <3>1 DEF InTextNow, HasText, StartOf
      <4>3. PICK k \in DOMAIN ms : ms[k].id = b[j].id /\ ms[k].role = "assistant" BY <2>1, <4>2
      <4>4. k = Len(ms) BY <2>2, <4>1, <4>3 DEF Apart
      <4> QED BY <2>4, <4>1, <4>3, <4>4
    <3> QED BY <3>1
  <2>6. new \in Bubbles
    <3>1. Panel!Message(id, "assistant") \in Bubbles BY <1>8, <2>4, NewMessage
    <3> QED BY <1>10, <3>1 DEF Bubbles
  <2>7. ~Panel!HasCall(new, Panel!Call(r))
    <3>1. DOMAIN <<>> = {} OBVIOUS
    <3> QED BY <1>11, <3>1 DEF Panel!HasCall
  <2>8. PICK z : z = OneCallMore(new, Panel!Call(r)) OBVIOUS
  <2>9. z \in Bubbles /\ z.id = id BY <1>8, <1>11, <2>6, <2>8, WithCall
  <2>10. Panel!Existing(ms, new) = new BY <1>11, <1>15, AtEnd
  <2>11. Panel!Upsert(ms, z) = Append(ms, z) BY <1>15, <2>9, AtEnd
  <2>12. y = Append(ms, z) BY <1>2, <1>12, <2>7, <2>8, <2>10, <2>11
  <2>13. /\ Len(y) = Len(ms) + 1 /\ DOMAIN y = 1 .. Len(ms) + 1 /\ y[Len(ms) + 1] = z
         /\ \A k \in DOMAIN ms : k \in DOMAIN y /\ y[k] = ms[k]
    BY <2>9, <2>12, Longer
  <2>14. \A k \in DOMAIN y : k # Len(ms) + 1 => k \in DOMAIN ms /\ y[k] = ms[k]
    <3>1. \A k \in 1 .. Len(ms) + 1 : k # Len(ms) + 1 => k \in 1 .. Len(ms) BY ONLY <1>0
    <3> QED BY <1>0, <2>13, <3>1
  <2>15. TextsOf(y, b, x - 1) BY <1>3, <2>13 DEF TextsOf
  <2>16. EndsInText(y, b, x - 1) BY <2>5 DEF EndsInText
  <2>17. OnlyTheirs(y, b, x, r)
    <3>1. ASSUME NEW k \in DOMAIN y
          PROVE  /\ y[k].id[2] = r => \E j \in 1 .. x : b[j].id = y[k].id
                 /\ \A c \in DOMAIN y[k].calls : y[k].calls[c].id = Panel!Call(r) => Called(b, x, Panel!Call(r))
      <4>1. CASE k = Len(ms) + 1
        <5>1. x \in 1 .. x BY <1>0
        <5> QED BY <1>1, <1>2, <1>6, <2>4, <2>9, <2>13, <4>1, <5>1
      <4>2. CASE k # Len(ms) + 1 BY <1>4, <2>14, <4>2 DEF OnlyTheirs
      <4> QED BY <4>1, <4>2
    <3> QED BY <3>1 DEF OnlyTheirs
  <2>18. CallIn(y, b, x - 1, Panel!Call(r))
    <3>1. Len(ms) + 1 \in 1 .. Len(y) BY <1>0, <2>13
    <3>2. y[Len(ms) + 1] = OneCallMore(new, Panel!Call(r)) BY <2>8, <2>13
    <3> QED BY <1>13, <2>6, <2>7, <2>14, <3>1, <3>2
  <2> QED BY <2>15, <2>16, <2>17, <2>18
<1> QED BY <1>14, <1>15

(* What is no piece, and starts nothing, changes nothing.                  *)
LEMMA FollowsSame ==
    ASSUME NEW ms \in Seq(Bubbles), NEW b, NEW x,
           b[x].type \notin Texted \cup Argued \cup {"TEXT_MESSAGE_START", "TOOL_CALL_RESULT"}
    PROVE  Follows(ms, ms, b, x)
<1>1. \A id : ~PieceOf(b, x, Texted, id) /\ ~PieceOf(b, x, Argued, id) BY DEF PieceOf
<1>2. Len(ms) \in Nat /\ Len(ms) # Len(ms) + 1 OBVIOUS
<1> QED BY <1>1, <1>2 DEF Follows

(* The id of a text or of the result that an event starts is new.          *)
LEMMA StartsNew ==
    ASSUME NEW b, NEW r, Logged(b, r), NEW x \in DOMAIN b,
           b[x].type \in {"TEXT_MESSAGE_START", "TOOL_CALL_RESULT"},
           NEW ms \in Seq(Bubbles), OnlyTheirs(ms, b, x - 1, r)
    PROVE  \A k \in DOMAIN ms : ms[k].id # b[x].id
<1>0. b[x] \in RunEvents /\ SentAt(b, x, r) /\ x \in Nat \ {0} BY LogFacts
<1>1. b[x].id[2] = r BY <1>0 DEF SentAt, Panel!Result
<1>2. ASSUME NEW k \in DOMAIN ms, ms[k].id = b[x].id PROVE FALSE
  <2>1. PICK j \in 1 .. x - 1 : b[j].id = b[x].id BY <1>1, <1>2 DEF OnlyTheirs
  <2>2. j \in DOMAIN b /\ j \in Nat /\ x - 1 \in Nat /\ j <= x - 1 BY <1>0, LogFacts
  <2>3. CASE b[x].type = "TEXT_MESSAGE_START"
    <3>1. b[x].id[1] = "text" /\ ~HasText(b, x - 1, b[x].id) BY <1>0, <2>3 DEF SentAt
    <3>2. HasText(b, j, b[j].id) BY <2>1, <2>2, <3>1, IdsByType
    <3>3. HasText(b, x - 1, b[j].id) BY <2>2, <3>2, HasMore
    <3> QED BY <2>1, <3>1, <3>3
  <2>4. CASE b[x].type = "TOOL_CALL_RESULT"
    <3>1. b[x].id = Panel!Result(r) /\ b[j].type # "TOOL_CALL_RESULT" BY <1>0, <2>4 DEF SentAt
    <3> QED BY <2>1, <2>2, <3>1, IdsByType
  <2> QED BY <2>3, <2>4
<1> QED BY <1>2

(* Each event takes messages made of those before it one further.          *)
LEMMA MessagesMade ==
    ASSUME NEW b, NEW r \in Nat, Logged(b, r), NEW x \in DOMAIN b, NEW g \in Nat, r <= g, NEW a \in Nat,
           NEW ms, Sane(ms, g, a), MadeOf(ms, b, x - 1, r)
    PROVE  MadeOf(Panel!Messages(ms, b[x]), b, x, r)
<1>0. /\ b[x] \in RunEvents /\ SentAt(b, x, r) /\ x \in Nat \ {0} /\ x - 1 \in Nat /\ x - 1 \in 0 .. Len(b)
      /\ b[x].seq = x
  BY LogFacts
<1>1. ms \in Seq(Bubbles) /\ Apart(ms) BY DEF Sane, Apart
<1>2. /\ TextsOf(ms, b, x - 1) /\ OnlyTheirs(ms, b, x - 1, r) /\ EndsInText(ms, b, x - 1)
      /\ Called(b, x - 1, Panel!Call(r)) => CallIn(ms, b, x - 1, Panel!Call(r))
  BY DEF MadeOf
<1>3. b[x].id \in Names BY <1>0 DEF RunEvents
<1>4. PICK z : z = Panel!Messages(ms, b[x]) OBVIOUS
<1>5. CASE b[x].type = "TEXT_MESSAGE_START"
  <2>1. PICK m : m = Panel!Message(b[x].id, "assistant") OBVIOUS
  <2>2. m \in Bubbles /\ m.id = b[x].id /\ m.calls = <<>> BY <1>3, <2>1, NewMessage
  <2>3. \A k \in DOMAIN ms : ms[k].id # m.id BY <1>1, <1>2, <1>5, <2>2, StartsNew
  <2>4. Panel!Existing(ms, m) = m /\ Panel!Upsert(ms, m) = Append(ms, m) BY <1>1, <2>3, AtEnd
  <2>5. z = Append(ms, m) BY <1>4, <1>5, <2>1, <2>4 DEF Panel!Messages
  <2>6. Follows(ms, z, b, x) BY <1>1, <1>5, <2>1, <2>2, <2>5, FollowsMore
  <2>7. b[x].type \notin Starting BY <1>5 DEF Starting
  <2> QED BY <1>1, <1>4, <2>6, <2>7, MadeBy
<1>6. CASE b[x].type = "TOOL_CALL_RESULT"
  <2>1. PICK m : m = [Panel!Message(b[x].id, "tool") EXCEPT !.content = <<b[x].seq>>] OBVIOUS
  <2>2. m \in Bubbles /\ m.id = b[x].id /\ m.calls = <<>>
    <3>0. b[x].seq \in Nat BY <1>0
    <3>1. <<b[x].seq>> \in Seq(Nat) BY <3>0
    <3>2. /\ Panel!Message(b[x].id, "tool") \in Bubbles /\ Panel!Message(b[x].id, "tool").id = b[x].id
          /\ Panel!Message(b[x].id, "tool").calls = <<>>
      BY <1>3, NewMessage
    <3> QED BY <2>1, <3>1, <3>2 DEF Bubbles
  <2>3. \A k \in DOMAIN ms : ms[k].id # m.id BY <1>1, <1>2, <1>6, <2>2, StartsNew
  <2>4. Panel!Upsert(ms, m) = Append(ms, m) BY <1>1, <2>3, AtEnd
  <2>5. z = Append(ms, m) BY <1>4, <1>6, <2>1, <2>4 DEF Panel!Messages
  <2>6. Follows(ms, z, b, x)
    <3>1. b[x].type = "TEXT_MESSAGE_START" => m = Panel!Message(b[x].id, "assistant") BY <1>6
    <3> QED BY <1>1, <1>6, <2>2, <2>5, <3>1, FollowsMore
  <2>7. b[x].type \notin Starting BY <1>6 DEF Starting
  <2> QED BY <1>1, <1>4, <2>6, <2>7, MadeBy
<1>7. CASE b[x].type \in Texted
  <2>1. \E t : HasText(b, x - 1, t) /\ (\A id : Panel!Of(b[x], id) <=> id = t) /\ z = Panel!AppendText(ms, t, x)
    <3>1. CASE HasText(b, x - 1, b[x].id)
      <4>1. b[x].id # Panel!None BY <1>0, <3>1, TextIds
      <4>2. \A id : Panel!Of(b[x], id) <=> id = b[x].id BY <4>1 DEF Panel!Of
      <4>3. z = Panel!AppendText(ms, b[x].id, x) BY <1>0, <1>4, <1>7, <4>1 DEF Panel!Messages, Panel!ChunkTo, Texted
      <4> QED BY <3>1, <4>2, <4>3
    <3>2. CASE ~HasText(b, x - 1, b[x].id)
      <4>1. b[x].type = "TEXT_MESSAGE_CHUNK" /\ b[x].id = Panel!None BY <1>0, <1>7, <3>2 DEF SentAt, Texted
      <4>2. PICK j \in 1 .. x - 1 :
               /\ StartOf(b[j], b[x].parent)
               /\ \A i \in j + 1 .. x - 1 : b[i].type \notin {"TEXT_MESSAGE_START", "TOOL_CALL_RESULT"}
        BY <1>0, <3>2, <4>1 DEF SentAt
      <4>3. InTextNow(b, x - 1, j) /\ b[j].id = b[x].parent BY <4>2 DEF InTextNow, StartOf
      <4>4. ms # <<>> /\ ms[Len(ms)].id = b[x].parent BY <1>2, <4>3 DEF EndsInText
      <4>5. Panel!ChunkTo(ms, b[x]) = b[x].parent BY <4>1, <4>4 DEF Panel!ChunkTo, Panel!Last
      <4>6. HasText(b, x - 1, b[x].parent) BY <4>2 DEF HasText
      <4>7. \A id : Panel!Of(b[x], id) <=> id = b[x].parent BY <4>1 DEF Panel!Of
      <4>8. z = Panel!AppendText(ms, b[x].parent, x) BY <1>0, <1>4, <4>1, <4>5 DEF Panel!Messages
      <4> QED BY <4>6, <4>7, <4>8
    <3> QED BY <3>1, <3>2
  <2>2. PICK t : HasText(b, x - 1, t) /\ (\A id : Panel!Of(b[x], id) <=> id = t) /\ z = Panel!AppendText(ms, t, x)
    BY <2>1
  <2>3. Follows(ms, z, b, x) BY <1>1, <1>2, <1>7, <2>2, TextGoes
  <2>4. b[x].type \notin Starting BY <1>7 DEF Starting, Texted
  <2> QED BY <1>1, <1>4, <2>3, <2>4, MadeBy
<1>8. CASE b[x].type = "TOOL_CALL_ARGS"
  <2>1. b[x].id = Panel!Call(r) /\ Called(b, x - 1, b[x].id) BY <1>0, <1>8 DEF SentAt, Argued
  <2>2. CallIn(ms, b, x - 1, Panel!Call(r)) BY <1>2, <2>1
  <2>3. b[x].type \in Argued /\ b[x].type \notin Starting BY <1>8 DEF Argued, Starting
  <2>4. z = Panel!AppendArgs(ms, b[x]) BY <1>4, <1>8 DEF Panel!Messages
  <2>5. Follows(ms, z, b, x) BY <1>1, <2>2, <2>3, <2>4, ArgsGo
  <2> QED BY <1>1, <1>4, <2>3, <2>5, MadeBy
<1>9. CASE b[x].type \in {"RUN_STARTED"} \cup Terminal
  <2>1. z = ms BY <1>4, <1>9 DEF Panel!Messages, Terminal
  <2>2. /\ b[x].type \notin Texted \cup Argued \cup {"TEXT_MESSAGE_START", "TOOL_CALL_RESULT"}
        /\ b[x].type \notin Starting
    BY <1>9 DEF Texted, Argued, Terminal, Starting
  <2>3. Follows(ms, z, b, x) BY <1>1, <2>1, <2>2, FollowsSame
  <2> QED BY <1>1, <1>4, <2>2, <2>3, MadeBy
<1>10. ASSUME ~Called(b, x - 1, Panel!Call(r)), b[x].type \in Starting, NEW y, y = Panel!StartToolCall(ms, b[x])
       PROVE  /\ y \in Seq(Bubbles) /\ Apart(y)
              /\ TextsOf(y, b, x - 1) /\ EndsInText(y, b, x - 1) /\ OnlyTheirs(y, b, x, r)
              /\ CallIn(y, b, x - 1, Panel!Call(r))
  <2>1. Fair(b[x].id, g, a) /\ Fair(b[x].parent, g, a) BY EventIds
  <2>2. Sane(y, g, a) BY <1>0, <1>10, <2>1, SaneCall
  <2>3. y \in Seq(Bubbles) /\ Apart(y) BY <2>2 DEF Sane, Apart
  <2> QED BY <1>1, <1>10, <2>3, CallGoes
<1>11. CASE b[x].type = "TOOL_CALL_START"
  <2>1. b[x].id = Panel!Call(r) /\ b[x].type \in Starting /\ ~Called(b, x - 1, Panel!Call(r))
    BY <1>0, <1>11 DEF SentAt, Starting
  <2>2. z = Panel!StartToolCall(ms, b[x]) BY <1>4, <1>11 DEF Panel!Messages
  <2>3. /\ z \in Seq(Bubbles) /\ Apart(z)
        /\ TextsOf(z, b, x - 1) /\ EndsInText(z, b, x - 1) /\ OnlyTheirs(z, b, x, r)
        /\ CallIn(z, b, x - 1, Panel!Call(r))
    BY <1>10, <2>1, <2>2
  <2>4. b[x].type \notin Texted \cup Argued \cup {"TEXT_MESSAGE_START", "TOOL_CALL_RESULT"}
    BY <1>11 DEF Texted, Argued
  <2>5. Follows(z, z, b, x) BY <2>3, <2>4, FollowsSame
  <2>6. MadeOf(z, b, x, r) BY <2>3, <2>5, GoesOn
  <2> QED BY <1>4, <2>6
<1>12. CASE b[x].type = "TOOL_CALL_CHUNK"
  <2>1. b[x].id = Panel!Call(r) /\ b[x].type \in Starting /\ b[x].type \in Argued
    BY <1>0, <1>12 DEF SentAt, Starting, Argued
  <2>2. PICK y : y = IF \E k \in DOMAIN ms : Panel!HasCall(ms[k], b[x].id) THEN ms ELSE Panel!StartToolCall(ms, b[x])
    OBVIOUS
  <2>3. z = Panel!AppendArgs(y, b[x]) BY <1>4, <1>12, <2>2 DEF Panel!Messages
  <2>4. /\ y \in Seq(Bubbles) /\ Apart(y)
        /\ TextsOf(y, b, x - 1) /\ EndsInText(y, b, x - 1) /\ OnlyTheirs(y, b, x, r)
        /\ CallIn(y, b, x - 1, Panel!Call(r))
    <3>1. CASE Called(b, x - 1, Panel!Call(r))
      <4>1. CallIn(ms, b, x - 1, Panel!Call(r)) BY <1>2, <3>1
      <4>2. \E k \in DOMAIN ms : Panel!HasCall(ms[k], Panel!Call(r)) BY <4>1 DEF CallIn, Panel!HasCall
      <4>3. y = ms BY <2>1, <2>2, <4>2
      <4>4. OnlyTheirs(ms, b, x, r) BY <1>0, <1>2, TheirsLonger
      <4> QED BY <1>1, <1>2, <4>1, <4>3, <4>4
    <3>2. CASE ~Called(b, x - 1, Panel!Call(r))
      <4>1. \A k \in DOMAIN ms : ~Panel!HasCall(ms[k], Panel!Call(r)) BY <1>2, <3>2 DEF OnlyTheirs, Panel!HasCall
      <4>2. y = Panel!StartToolCall(ms, b[x]) BY <2>1, <2>2, <4>1
      <4> QED BY <1>10, <2>1, <3>2, <4>2
    <3> QED BY <3>1, <3>2
  <2>5. Follows(y, z, b, x) BY <2>1, <2>3, <2>4, ArgsGo
  <2>6. MadeOf(z, b, x, r) BY <2>4, <2>5, GoesOn
  <2> QED BY <1>4, <2>6
<1>13. b[x].type \in {"RUN_STARTED", "TEXT_MESSAGE_START", "TOOL_CALL_RESULT", "TOOL_CALL_START",
                      "TOOL_CALL_ARGS", "TOOL_CALL_CHUNK"} \cup Texted \cup Terminal
  BY <1>0 DEF RunEvents, Argued
<1> QED BY <1>5, <1>6, <1>7, <1>8, <1>9, <1>11, <1>12, <1>13

-----------------------------------------------------------------------------
(* What a tab makes of an event.                                           *)
LEMMA ApplyFits ==
    ASSUME NEW g \in Nat, NEW a \in Nat, NEW t, Fits(t, g, a), NEW e \in RunEvents, e.run <= g,
           Fair(e.id, g, a), Fair(e.parent, g, a)
    PROVE  Fits(Panel!Apply(t, e), g, a)
<1>1. /\ t \in Tabs /\ Sane(t.messages, g, a) /\ t.runId <= g /\ t.messages \in Seq(Bubbles)
      /\ t.runId \in Nat /\ t.running \in BOOLEAN /\ t.error \in BOOLEAN /\ t.lastSeq \in Nat
  BY DEF Fits, Tabs
<1>2. e.seq \in Nat /\ e.run \in Nat BY DEF RunEvents
<1>3. PICK q : q = IF e.type = "RUN_STARTED" /\ ~Panel!ReplayedStart(t, e) THEN e.seq
                   ELSE IF e.seq > t.lastSeq THEN e.seq ELSE t.lastSeq
  OBVIOUS
<1>4. q \in Nat BY <1>1, <1>2, <1>3
<1>5. PICK s : s = [t EXCEPT !.lastSeq = q] OBVIOUS
<1>6. /\ s \in Tabs /\ s.messages = t.messages /\ s.runId = t.runId /\ s.running = t.running /\ s.error = t.error
      /\ s.lastSeq = q
  BY <1>1, <1>4, <1>5 DEF Tabs
<1>7. PICK u : u = Panel!Apply(t, e) OBVIOUS
<1>8. CASE Panel!Skipped(t, e) BY <1>8 DEF Panel!Apply
<1>9. CASE ~Panel!Skipped(t, e)
  <2>1. u = CASE e.type = "RUN_STARTED"  -> [s EXCEPT !.runId = e.run, !.running = TRUE, !.error = FALSE]
              [] e.type = "RUN_FINISHED" -> [s EXCEPT !.runId = 0, !.running = FALSE]
              [] e.type = "RUN_ERROR"    -> [s EXCEPT !.runId = 0, !.running = FALSE, !.error = TRUE]
              [] OTHER                   -> [s EXCEPT !.messages = Panel!Messages(@, e)]
    BY <1>3, <1>5, <1>7, <1>9 DEF Panel!Apply
  <2>2. CASE e.type = "RUN_STARTED"
    <3>1. u = [s EXCEPT !.runId = e.run, !.running = TRUE, !.error = FALSE] BY <2>1, <2>2
    <3>2. u \in Tabs /\ u.messages = t.messages /\ u.runId = e.run BY <1>2, <1>6, <3>1 DEF Tabs
    <3> QED BY <1>1, <1>7, <3>2 DEF Fits
  <2>3. CASE e.type \in Terminal
    <3>1. \/ u = [s EXCEPT !.runId = 0, !.running = FALSE]
          \/ u = [s EXCEPT !.runId = 0, !.running = FALSE, !.error = TRUE]
      BY <2>1, <2>3 DEF Terminal
    <3>2. u \in Tabs /\ u.messages = t.messages /\ u.runId = 0
      <4>1. CASE u = [s EXCEPT !.runId = 0, !.running = FALSE] BY <1>6, <4>1 DEF Tabs
      <4>2. CASE u = [s EXCEPT !.runId = 0, !.running = FALSE, !.error = TRUE] BY <1>6, <4>2 DEF Tabs
      <4> QED BY <3>1, <4>1, <4>2
    <3> QED BY <1>1, <1>7, <3>2 DEF Fits
  <2>4. CASE e.type \notin {"RUN_STARTED"} \cup Terminal
    <3>1. u = [s EXCEPT !.messages = Panel!Messages(@, e)] BY <2>1, <2>4 DEF Terminal
    <3>2. Sane(Panel!Messages(t.messages, e), g, a)
      <4>1. PICK ms : ms = t.messages OBVIOUS
      <4>2. Sane(ms, g, a) BY <1>1, <4>1
      <4>3. Sane(Panel!Messages(ms, e), g, a) BY <4>2, SaneMessages
      <4> QED BY <4>1, <4>3
    <3>3. Panel!Messages(t.messages, e) \in Seq(Bubbles) BY <3>2 DEF Sane
    <3>4. u \in Tabs /\ u.messages = Panel!Messages(t.messages, e) /\ u.runId = t.runId BY <1>6, <3>1, <3>3 DEF Tabs
    <3> QED BY <1>1, <1>7, <3>2, <3>4 DEF Fits
  <2> QED BY <2>2, <2>3, <2>4
<1> QED BY <1>8, <1>9

(* The next event takes it one further, and those before are skipped.      *)
LEMMA ApplyNext ==
    ASSUME NEW b, NEW r \in Nat, Logged(b, r), NEW x \in DOMAIN b, NEW g \in Nat, r <= g, NEW a \in Nat,
           NEW t, Fits(t, g, a), Applied(t, b, x - 1, r), x > 1 => b[x - 1].type \notin Terminal
    PROVE  Applied(Panel!Apply(t, b[x]), b, x, r)
<1>0. /\ b[x] \in RunEvents /\ SentAt(b, x, r) /\ x \in Nat \ {0} /\ x - 1 \in Nat /\ b[x].seq = x /\ b[x].run = r
      /\ x = 1 <=> b[x].type = "RUN_STARTED"
  BY LogFacts DEF SentAt
<1>1. /\ t \in Tabs /\ t.runId \in Nat /\ t.lastSeq \in Nat /\ Sane(t.messages, g, a)
      /\ MadeOf(t.messages, b, x - 1, r)
  BY DEF Fits, Tabs, Applied
<1>2. PICK ms : ms = Panel!Messages(t.messages, b[x]) OBVIOUS
<1>3. MadeOf(ms, b, x, r) BY <1>1, <1>2, MessagesMade
<1>4. PICK u : u = Panel!Apply(t, b[x]) OBVIOUS
<1>5. CASE x = 1
  <2>1. b[x].type = "RUN_STARTED" /\ t.runId # r BY <1>0, <1>5 DEF Applied
  <2>2. ~Panel!ReplayedStart(t, b[x]) /\ ~Panel!Skipped(t, b[x]) BY <1>0, <2>1 DEF Panel!ReplayedStart, Panel!Skipped
  <2>3. u = [[t EXCEPT !.lastSeq = b[x].seq] EXCEPT !.runId = b[x].run, !.running = TRUE, !.error = FALSE]
    BY <1>4, <2>1, <2>2 DEF Panel!Apply
  <2>4. u.messages = t.messages /\ u.lastSeq = x /\ u.runId = r BY <1>0, <1>1, <2>3 DEF Tabs
  <2>5. ms = t.messages BY <1>2, <2>1 DEF Panel!Messages
  <2>6. b[x].type \notin Terminal BY <2>1 DEF Terminal
  <2> QED BY <1>0, <1>3, <1>4, <2>4, <2>5, <2>6 DEF Applied
<1>6. CASE x # 1
  <2>1. b[x].type # "RUN_STARTED" /\ x - 1 > 0 BY <1>0, <1>6
  <2>2. t.lastSeq = x - 1 /\ t.runId = r BY <1>0, <2>1 DEF Applied
  <2>3. ~(b[x].seq <= t.lastSeq) /\ b[x].seq > t.lastSeq BY <1>0, <2>2
  <2>4. ~Panel!Skipped(t, b[x]) BY <2>3 DEF Panel!Skipped
  <2>5. PICK s : s = [t EXCEPT !.lastSeq = b[x].seq] OBVIOUS
  <2>6. s \in Tabs /\ s.messages = t.messages /\ s.runId = r /\ s.lastSeq = x BY <1>0, <1>1, <2>2, <2>5 DEF Tabs
  <2>7. u = CASE b[x].type = "RUN_STARTED"  -> [s EXCEPT !.runId = b[x].run, !.running = TRUE, !.error = FALSE]
              [] b[x].type = "RUN_FINISHED" -> [s EXCEPT !.runId = 0, !.running = FALSE]
              [] b[x].type = "RUN_ERROR"    -> [s EXCEPT !.runId = 0, !.running = FALSE, !.error = TRUE]
              [] OTHER                   -> [s EXCEPT !.messages = Panel!Messages(@, b[x])]
    BY <1>4, <2>1, <2>3, <2>4, <2>5 DEF Panel!Apply
  <2>8. CASE b[x].type \in Terminal
    <3>1. \/ u = [s EXCEPT !.runId = 0, !.running = FALSE]
          \/ u = [s EXCEPT !.runId = 0, !.running = FALSE, !.error = TRUE]
      BY <2>7, <2>8 DEF Terminal
    <3>2. u.messages = t.messages /\ u.runId = 0 /\ u.lastSeq = x BY <2>6, <3>1 DEF Tabs
    <3>3. ms = t.messages BY <1>2, <2>8 DEF Panel!Messages, Terminal
    <3> QED BY <1>0, <1>3, <1>4, <2>8, <3>2, <3>3 DEF Applied
  <2>9. CASE b[x].type \notin Terminal
    <3>1. u = [s EXCEPT !.messages = Panel!Messages(@, b[x])] BY <2>1, <2>7, <2>9 DEF Terminal
    <3>2. u.messages = ms /\ u.runId = r /\ u.lastSeq = x BY <1>2, <2>6, <3>1 DEF Tabs
    <3> QED BY <1>0, <1>3, <1>4, <2>9, <3>2 DEF Applied
  <2> QED BY <2>8, <2>9
<1> QED BY <1>5, <1>6

(* "Skip what was already applied": the snapshot's events up to lastSeq.   *)
LEMMA ApplySkips ==
    ASSUME NEW b, NEW r, Logged(b, r), NEW x \in DOMAIN b, NEW t, t.runId = r, x <= t.lastSeq
    PROVE  Panel!Apply(t, b[x]) = t
<1>1. b[x].seq = x /\ b[x].run = r BY LogFacts DEF SentAt
<1>2. Panel!Skipped(t, b[x]) BY <1>1 DEF Panel!Skipped, Panel!ReplayedStart
<1> QED BY <1>2 DEF Panel!Apply

-----------------------------------------------------------------------------
(* What is said of the first n events is said of them alone.               *)
LEMMA SamePrefix ==
    ASSUME NEW b, NEW c, NEW n \in Nat, \A k \in 1 .. n : c[k] = b[k]
    PROVE  /\ \A id : HasText(c, n, id) <=> HasText(b, n, id)
           /\ \A id : Called(c, n, id) <=> Called(b, n, id)
           /\ \A ms, r : MadeOf(ms, b, n, r) => MadeOf(ms, c, n, r)
           /\ \A t, r : Applied(t, b, n, r) => Applied(t, c, n, r)
<1>1. \A id : HasText(c, n, id) <=> HasText(b, n, id) BY DEF HasText, StartOf
<1>2. \A id : Called(c, n, id) <=> Called(b, n, id) BY DEF Called
<1>3. \A s, types, id : ArePieces(s, b, n, types, id) => ArePieces(s, c, n, types, id)
  BY DEF ArePieces, PieceOf, Panel!Of
<1>4. \A x \in 1 .. n : InTextNow(c, n, x) => InTextNow(b, n, x)
  <2>1. \A x \in 1 .. n : \A i \in x + 1 .. n : i \in 1 .. n OBVIOUS
  <2> QED BY <2>1 DEF InTextNow
<1>5. ASSUME NEW ms, NEW r, MadeOf(ms, b, n, r) PROVE MadeOf(ms, c, n, r)
  <2>1. TextsOf(ms, c, n) BY <1>3, <1>5 DEF MadeOf, TextsOf
  <2>2. Called(c, n, Panel!Call(r)) => CallIn(ms, c, n, Panel!Call(r)) BY <1>2, <1>3, <1>5 DEF MadeOf, CallIn
  <2>3. OnlyTheirs(ms, c, n, r) BY <1>2, <1>5 DEF MadeOf, OnlyTheirs
  <2>4. EndsInText(ms, c, n) BY <1>4, <1>5 DEF MadeOf, EndsInText
  <2> QED BY <2>1, <2>2, <2>3, <2>4 DEF MadeOf
<1>6. n > 0 => n \in 1 .. n OBVIOUS
<1> QED BY <1>1, <1>2, <1>5, <1>6 DEF Applied

(* What was sent depends on the events before it.                          *)
LEMMA SameSent ==
    ASSUME NEW b, NEW c, NEW x \in Nat \ {0}, \A k \in 1 .. x : c[k] = b[k], NEW r, SentAt(b, x, r)
    PROVE  SentAt(c, x, r)
<1>1. x \in 1 .. x /\ x - 1 \in Nat /\ \A k \in 1 .. x - 1 : k \in 1 .. x OBVIOUS
<1>2. c[x] = b[x] /\ \A k \in 1 .. x - 1 : c[k] = b[k] BY <1>1
<1>3. /\ \A id : HasText(c, x - 1, id) <=> HasText(b, x - 1, id)
      /\ \A id : Called(c, x - 1, id) <=> Called(b, x - 1, id)
  BY <1>1, <1>2, SamePrefix
<1>4. \A j \in 1 .. x - 1 : \A i \in j + 1 .. x - 1 : i \in 1 .. x - 1 OBVIOUS
<1>5. ASSUME NEW j \in 1 .. x - 1, NEW id, StartOf(b[j], id),
             \A i \in j + 1 .. x - 1 : b[i].type \notin {"TEXT_MESSAGE_START", "TOOL_CALL_RESULT"}
      PROVE  StartOf(c[j], id) /\ \A i \in j + 1 .. x - 1 : c[i].type \notin {"TEXT_MESSAGE_START", "TOOL_CALL_RESULT"}
  BY <1>2, <1>4, <1>5
<1>6. (\A j \in 1 .. x - 1 : b[j].type # "TOOL_CALL_RESULT") => \A j \in 1 .. x - 1 : c[j].type # "TOOL_CALL_RESULT"
  BY <1>2
<1> QED BY <1>2, <1>3, <1>5, <1>6 DEF SentAt

(* A tab that rejoins is replayed the run: it has applied all of it.       *)
LEMMA Replayed ==
    ASSUME NEW b, NEW r \in Nat, Logged(b, r), \A k \in DOMAIN b : b[k].type \in Terminal => k = Len(b),
           NEW g \in Nat, r <= g, NEW a \in Nat, NEW t, Fits(t, g, a)
    PROVE  /\ Fits(Panel!FoldLeft(Panel!Apply, t, b), g, a)
           /\ \A n \in 0 .. Len(b) : Applied(t, b, n, r) /\ (n > 0 => b[n].type \notin Terminal)
                                     => Applied(Panel!FoldLeft(Panel!Apply, t, b), b, Len(b), r)
<1>0. Len(b) \in Nat /\ DOMAIN b = 1 .. Len(b) /\ b \in Seq(RunEvents) BY LogFacts DEF Logged
<1>1. PICK f : /\ f[0] = t
               /\ \A k \in 1 .. Len(b) : f[k] = Panel!Apply(f[k - 1], b[k])
               /\ Panel!FoldLeft(Panel!Apply, t, b) = f[Len(b)]
  <2>1. b \in Seq(RunEvents) BY <1>0
  <2>2. PICK f : Stages(t, b, f) BY <2>1, ReplaySteps
  <2> QED BY <2>2 DEF Stages
<1>2. \A k \in 0 .. Len(b) : Fits(f[k], g, a)
  <2> DEFINE G == {k \in 0 .. Len(b) : Fits(f[k], g, a)}
  <2>1. 0 \in G BY <1>0, <1>1
  <2>2. ASSUME NEW k \in 1 .. Len(b), k - 1 \in G PROVE k \in G
    <3>1. Fits(f[k - 1], g, a) BY <2>2
    <3>2. PICK e : e = b[k] OBVIOUS
    <3>3. e \in RunEvents /\ e.run <= g BY <1>0, <3>2, LogFacts DEF SentAt
    <3>4. Fair(e.id, g, a) /\ Fair(e.parent, g, a) BY <1>0, <3>2, EventIds
    <3>5. Fits(Panel!Apply(f[k - 1], e), g, a) BY <3>1, <3>3, <3>4, ApplyFits
    <3>6. Fits(f[k], g, a) BY <1>1, <3>2, <3>5
    <3> QED BY <3>6
  <2> HIDE DEF G
  <2>3. \A k \in 0 .. Len(b) : k \in G BY <1>0, <2>1, <2>2, CountUp
  <2> QED BY <2>3 DEF G
<1>3. ASSUME NEW n \in 0 .. Len(b), Applied(t, b, n, r), n > 0 => b[n].type \notin Terminal
      PROVE  Applied(f[Len(b)], b, Len(b), r)
  <2> DEFINE G == {k \in 0 .. Len(b) : /\ k <= n => f[k] = t
                                       /\ k >= n => Applied(f[k], b, k, r)}
  <2>1. 0 \in G
    <3>1. 0 >= n => n = 0 BY <1>0
    <3> QED BY <1>0, <1>1, <1>3, <3>1
  <2>2. ASSUME NEW k \in 1 .. Len(b), k - 1 \in G PROVE k \in G
    <3>1. /\ k \in DOMAIN b /\ k \in Nat /\ k - 1 \in 0 .. Len(b)
          /\ k - 1 <= n => f[k - 1] = t
          /\ k - 1 >= n => Applied(f[k - 1], b, k - 1, r)
      BY <1>0, <2>2
    <3>2. f[k] = Panel!Apply(f[k - 1], b[k]) BY <1>1
    <3>3. CASE k <= n
      <4>1. n > 0 /\ k - 1 <= n BY <3>1, <3>3
      <4>2. t.runId = r /\ t.lastSeq = n BY <1>3, <4>1 DEF Applied
      <4>3. Panel!Apply(t, b[k]) = t BY <3>1, <3>3, <4>2, ApplySkips
      <4>4. f[k] = t BY <3>1, <3>2, <4>1, <4>3
      <4>5. k >= n => k = n BY <3>1, <3>3
      <4> QED BY <1>3, <4>4, <4>5
    <3>4. CASE k > n
      <4>1. k - 1 >= n /\ ~(k <= n) BY <3>1, <3>4
      <4>2. k > 1 => b[k - 1].type \notin Terminal
        <5>1. k > 1 => k - 1 \in DOMAIN b /\ k - 1 # Len(b) BY <1>0
        <5> QED BY <5>1
      <4>3. Fits(f[k - 1], g, a) BY <1>2, <3>1
      <4>4. Applied(f[k - 1], b, k - 1, r) BY <3>1, <4>1
      <4>5. Applied(Panel!Apply(f[k - 1], b[k]), b, k, r) BY <3>1, <4>2, <4>3, <4>4, ApplyNext
      <4> QED BY <3>2, <4>1, <4>5
    <3> QED BY <3>1, <3>3, <3>4
  <2> HIDE DEF G
  <2>3. \A k \in 0 .. Len(b) : k \in G BY <1>0, <2>1, <2>2, CountUp
  <2>4. Len(b) \in G /\ Len(b) >= n BY <1>0, <2>3
  <2> QED BY <2>4 DEF G
<1>4. Len(b) \in 0 .. Len(b) BY <1>0
<1> QED BY <1>1, <1>2, <1>3, <1>4

-----------------------------------------------------------------------------
(* Texts are counted as sets are.                                          *)
LEMMA CountIs ==
    ASSUME NEW S
    PROVE  Panel!Cardinality(S) = Cardinality(S) /\ (Panel!IsFiniteSet(S) <=> IsFiniteSet(S))
<1>1. Panel!Cardinality(S) = Cardinality(S)
  BY DEF Panel!Cardinality, Cardinality, Panel!IsFiniteSet, IsFiniteSet
<1>2. Panel!IsFiniteSet(S) <=> IsFiniteSet(S) BY DEF Panel!IsFiniteSet, IsFiniteSet
<1> QED BY <1>1, <1>2

(* One element more.                                                       *)
LEMMA CountMore ==
    ASSUME NEW S, Panel!IsFiniteSet(S), NEW x
    PROVE  /\ Panel!Cardinality(S) \in Nat /\ Panel!IsFiniteSet(S \cup {x})
           /\ Panel!Cardinality(S \cup {x}) = IF x \in S THEN Panel!Cardinality(S) ELSE Panel!Cardinality(S) + 1
<1>1. IsFiniteSet(S) BY CountIs
<1>2. Cardinality(S) \in Nat BY <1>1, FS_CardinalityType
<1>3. /\ IsFiniteSet(S \cup {x})
      /\ Cardinality(S \cup {x}) = IF x \in S THEN Cardinality(S) ELSE Cardinality(S) + 1
  BY <1>1, FS_AddElement
<1> QED BY <1>2, <1>3, CountIs

(* None.                                                                   *)
LEMMA CountNone == Panel!IsFiniteSet({}) /\ Panel!Cardinality({}) = 0
  BY CountIs, FS_EmptySet

(* The log of a run, one event longer.                                     *)
LEMMA LoggedMore ==
    ASSUME NEW b, NEW r, Logged(b, r), NEW e \in RunEvents, SentAt(Append(b, e), Len(b) + 1, r)
    PROVE  Logged(Append(b, e), r)
<1>1. b \in Seq(RunEvents) /\ Len(b) \in Nat /\ DOMAIN b = 1 .. Len(b) BY LogFacts DEF Logged
<1>2. PICK c : c = Append(b, e) OBVIOUS
<1>3. c \in Seq(RunEvents) /\ DOMAIN c = 1 .. Len(b) + 1 /\ \A k \in DOMAIN b : c[k] = b[k]
  BY <1>1, <1>2, Longer
<1>4. ASSUME NEW k \in DOMAIN b PROVE SentAt(c, k, r)
  <2>1. k \in Nat \ {0} /\ \A j \in 1 .. k : c[j] = b[j] BY <1>1, <1>3
  <2>2. SentAt(b, k, r) BY LogFacts
  <2> QED BY <2>1, <2>2, SameSent
<1>5. \A k \in DOMAIN c : k \in DOMAIN b \/ k = Len(b) + 1 BY <1>1, <1>3
<1>6. \A k \in DOMAIN c : SentAt(c, k, r) BY <1>2, <1>4, <1>5
<1> QED BY <1>2, <1>3, <1>6 DEF Logged

(* A text more is counted; any other event changes no count.               *)
LEMMA CountedMore ==
    ASSUME NEW b, NEW r, Logged(b, r), Counted(b, r), NEW e \in RunEvents,
           e.type = "TEXT_MESSAGE_START" => e.id = Panel!Text(r, Panel!Cardinality(Begins(b)) + 1)
    PROVE  Counted(Append(b, e), r)
<1>1. b \in Seq(RunEvents) /\ Len(b) \in Nat /\ DOMAIN b = 1 .. Len(b) BY LogFacts DEF Logged
<1>2. PICK c : c = Append(b, e) OBVIOUS
<1>3. /\ DOMAIN c = 1 .. Len(b) + 1 /\ Len(c) = Len(b) + 1 /\ c[Len(b) + 1] = e /\ \A k \in DOMAIN b : c[k] = b[k]
  BY <1>1, <1>2, Longer
<1>4. /\ \A k \in DOMAIN c : k \in DOMAIN b \/ k = Len(b) + 1
      /\ \A k \in DOMAIN b : k \in DOMAIN c /\ \A j \in 1 .. k - 1 : j \in DOMAIN b
      /\ \A j \in 1 .. (Len(b) + 1) - 1 : j \in DOMAIN b
      /\ Len(b) + 1 \in DOMAIN c
  BY <1>1, <1>3
<1>5. PICK N : N = Panel!Cardinality(Begins(b)) OBVIOUS
<1>6. Panel!IsFiniteSet(Begins(b)) /\ N \in Nat BY <1>5, CountMore DEF Counted
<1>7. \A k \in DOMAIN b : b[k].type = "TEXT_MESSAGE_START" =>
         /\ b[k].id = Panel!Text(r, b[k].id[3]) /\ b[k].id[3] <= N
         /\ \A j \in 1 .. k - 1 : b[j].type = "TEXT_MESSAGE_START" => b[j].id[3] < b[k].id[3]
  BY <1>5 DEF Counted
<1>8. \A k \in DOMAIN b : b[k].type = "TEXT_MESSAGE_START" => b[k].id[3] \in Nat
  <2>1. \A k \in DOMAIN b : b[k].id \in Names
    <3>1. \A k \in DOMAIN b : b[k] \in RunEvents BY LogFacts
    <3> QED BY <3>1 DEF RunEvents
  <2> QED BY <2>1 DEF Names
<1>9. CASE e.type = "TEXT_MESSAGE_START"
  <2>1. e.id = Panel!Text(r, N + 1) /\ e.id[3] = N + 1 BY <1>5, <1>9 DEF Panel!Text
  <2>2. Begins(c) = Begins(b) \cup {e.id} BY <1>3, <1>4, <1>9 DEF Begins
  <2>3. e.id \notin Begins(b)
    <3>1. ASSUME NEW k \in DOMAIN b, b[k].type = "TEXT_MESSAGE_START", b[k].id = e.id PROVE FALSE
      <4>1. b[k].id[3] <= N /\ b[k].id[3] = N + 1 BY <1>7, <2>1, <3>1
      <4> QED BY <1>6, <4>1
    <3> QED BY <3>1 DEF Begins
  <2>4. Panel!IsFiniteSet(Begins(c)) /\ Panel!Cardinality(Begins(c)) = N + 1 BY <1>5, <1>6, <2>2, <2>3, CountMore
  <2>5. HasText(c, Len(c), Panel!Text(r, N + 1))
    <3>1. Len(b) + 1 \in 1 .. Len(c) BY <1>3, <1>4
    <3>2. StartOf(c[Len(b) + 1], Panel!Text(r, N + 1)) BY <1>3, <1>9, <2>1 DEF StartOf
    <3> QED BY <3>1, <3>2 DEF HasText
  <2>6. \A k \in DOMAIN c : c[k].type = "TEXT_MESSAGE_START" =>
           /\ c[k].id = Panel!Text(r, c[k].id[3]) /\ c[k].id[3] <= N + 1
           /\ \A j \in 1 .. k - 1 : c[j].type = "TEXT_MESSAGE_START" => c[j].id[3] < c[k].id[3]
    <3>1. ASSUME NEW k \in DOMAIN b, c[k].type = "TEXT_MESSAGE_START"
          PROVE  /\ c[k].id = Panel!Text(r, c[k].id[3]) /\ c[k].id[3] <= N + 1
                 /\ \A j \in 1 .. k - 1 : c[j].type = "TEXT_MESSAGE_START" => c[j].id[3] < c[k].id[3]
      BY <1>3, <1>4, <1>6, <1>7, <1>8, <3>1
    <3>2. ASSUME NEW j \in DOMAIN b, c[j].type = "TEXT_MESSAGE_START" PROVE c[j].id[3] < e.id[3]
      BY <1>3, <1>6, <1>7, <1>8, <2>1, <3>2
    <3>3. c[Len(b) + 1].id = Panel!Text(r, c[Len(b) + 1].id[3]) /\ c[Len(b) + 1].id[3] <= N + 1 BY <1>3, <1>6, <2>1
    <3> QED BY <1>3, <1>4, <3>1, <3>2, <3>3
  <2> QED BY <1>2, <2>4, <2>5, <2>6 DEF Counted
<1>10. CASE e.type # "TEXT_MESSAGE_START"
  <2>1. Begins(c) = Begins(b) BY <1>3, <1>4, <1>10 DEF Begins
  <2>2. Begins(c) # {} => HasText(c, Len(c), Panel!Text(r, N)) BY <1>3, <1>4, <1>5, <1>1, <2>1 DEF Counted, HasText, StartOf
  <2>3. \A k \in DOMAIN c : c[k].type = "TEXT_MESSAGE_START" =>
           /\ c[k].id = Panel!Text(r, c[k].id[3]) /\ c[k].id[3] <= N
           /\ \A j \in 1 .. k - 1 : c[j].type = "TEXT_MESSAGE_START" => c[j].id[3] < c[k].id[3]
    BY <1>3, <1>4, <1>7, <1>10
  <2> QED BY <1>2, <1>5, <1>6, <2>1, <2>2, <2>3 DEF Counted
<1> QED BY <1>9, <1>10

(* What an agent may send next is what SentAt says of it, where it starts  *)
(* its text before its calls and does not go back to a text.               *)
LEMMA StepSent ==
    ASSUME ThreadInv, active # 0, CallsFirst = FALSE, Resumes = FALSE, NEW e \in Panel!Steps
    PROVE  /\ e \in RunEvents /\ SentAt(Append(buffer, e), Len(buffer) + 1, active) /\ e.type \notin Terminal
           /\ e.type = "TEXT_MESSAGE_START" => e.id = Panel!Text(active, Panel!Cardinality(Begins(buffer)) + 1)
<1>1. PICK b, r, n, N : b = buffer /\ r = active /\ n = Len(buffer) /\ N = Panel!Cardinality(Begins(buffer)) OBVIOUS
<1>2. /\ Logged(b, r) /\ Counted(b, r) /\ r \in Nat /\ n = Len(b) /\ n \in Nat \ {0} /\ DOMAIN b = 1 .. n
      /\ b \in Seq(RunEvents)
  <2>1. active \in Nat BY DEF ThreadInv
  <2>2. Logged(b, r) /\ Counted(b, r) /\ Len(b) >= 1 BY <1>1 DEF ThreadInv
  <2>3. Len(b) \in Nat /\ DOMAIN b = 1 .. Len(b) /\ b \in Seq(RunEvents) BY <2>2, LogFacts DEF Logged
  <2> QED BY <1>1, <2>1, <2>2, <2>3
<1>3. N \in Nat BY <1>1, <1>2, CountMore DEF Counted
<1>4. Panel!Texts = Begins(b) BY <1>1 DEF Panel!Texts, Panel!Emitted, Begins
<1>5. /\ Panel!Texts # {} => Panel!LastText = Panel!Text(r, N) /\ HasText(b, n, Panel!LastText)
      /\ Panel!Texts = {} => Panel!LastText = Panel!None
  BY <1>1, <1>2, <1>4 DEF Panel!LastText, Counted
<1>6. \A id : HasText(b, n, id) => id \in Names /\ id # Panel!None /\ Panel!Texts # {}
  <2>1. \A id : HasText(b, n, id) => Begins(b) # {} BY <1>2 DEF HasText, StartOf, Begins
  <2>2. n \in 0 .. Len(b) BY <1>2
  <2> QED BY <1>2, <1>4, <2>1, <2>2, TextIds
<1>7. Panel!None \in Names /\ Panel!Call(r) \in Names /\ Panel!Result(r) \in Names /\ Panel!Text(r, N + 1) \in Names
  BY <1>2, <1>3 DEF Panel!None, Panel!Call, Panel!Result, Panel!Text, Names
<1>8. Panel!LastText \in Names BY <1>5, <1>6, <1>7
<1>9. ASSUME NEW type \in {"TEXT_MESSAGE_START", "TOOL_CALL_START", "TOOL_CALL_RESULT"} \cup Texted \cup Argued,
             NEW id \in Names, NEW p \in Names
      PROVE  LET x == Panel!Event(type, id, p) IN
             x \in RunEvents /\ x.type = type /\ x.run = r /\ x.seq = n + 1 /\ x.id = id /\ x.parent = p
  BY <1>1, <1>2 DEF Panel!Event, RunEvents
<1>10. PICK c : c = Append(b, e) OBVIOUS
<1>11. ASSUME e \in RunEvents
       PROVE  /\ c[n + 1] = e /\ \A k \in 1 .. n : c[k] = b[k]
              /\ \A id : HasText(c, n, id) <=> HasText(b, n, id)
              /\ \A id : Called(c, n, id) <=> Called(b, n, id)
  <2>1. c[n + 1] = e /\ \A k \in 1 .. n : c[k] = b[k] BY <1>2, <1>10, <1>11, Longer
  <2> QED BY <1>2, <2>1, SamePrefix
<1>12. (n + 1) - 1 = n /\ n + 1 # 1 BY <1>2
(* What is left to say of an event of each type.                           *)
<1>13. ASSUME e \in RunEvents, e.run = r, e.seq = n + 1, e.type \notin {"RUN_STARTED"} \cup Terminal,
              e.type = "TEXT_MESSAGE_START" => e.id = Panel!Text(r, N + 1),
              e.type = "TEXT_MESSAGE_CONTENT" => HasText(b, n, e.id),
              e.type = "TEXT_MESSAGE_CHUNK" =>
                \/ HasText(b, n, e.id)
                \/ /\ e.id = Panel!None
                   /\ \E j \in 1 .. n :
                         /\ StartOf(b[j], e.parent)
                         /\ \A i \in j + 1 .. n : b[i].type \notin {"TEXT_MESSAGE_START", "TOOL_CALL_RESULT"},
              e.type \in Starting \cup Argued => e.id = Panel!Call(r),
              e.parent = Panel!None \/ HasText(b, n, e.parent),
              e.type = "TOOL_CALL_START" => ~Called(b, n, e.id),
              e.type = "TOOL_CALL_ARGS" => Called(b, n, e.id),
              e.type = "TOOL_CALL_RESULT" => e.id = Panel!Result(r) /\ \A j \in 1 .. n : b[j].type # "TOOL_CALL_RESULT"
       PROVE  /\ e \in RunEvents /\ SentAt(c, n + 1, r) /\ e.type \notin Terminal
              /\ e.type = "TEXT_MESSAGE_START" => e.id = Panel!Text(r, N + 1)
  <2>1. /\ c[n + 1] = e /\ \A k \in 1 .. n : c[k] = b[k]
        /\ \A id : HasText(c, n, id) <=> HasText(b, n, id)
        /\ \A id : Called(c, n, id) <=> Called(b, n, id)
    BY <1>11, <1>13
  <2>2. e.type = "TEXT_MESSAGE_START" => e.id[1] = "text" /\ e.id[2] = r /\ ~HasText(b, n, e.id)
    <3>1. ASSUME e.type = "TEXT_MESSAGE_START", HasText(b, n, e.id) PROVE FALSE
      <4>1. PICK k \in 1 .. n : b[k].type = "TEXT_MESSAGE_START" /\ b[k].id = e.id BY <3>1 DEF HasText, StartOf
      <4>2. b[k].id[3] <= N BY <1>1, <1>2, <4>1 DEF Counted
      <4>3. b[k].id[3] = N + 1 BY <1>13, <3>1, <4>1 DEF Panel!Text
      <4> QED BY <1>3, <4>2, <4>3
    <3> QED BY <1>13, <3>1 DEF Panel!Text
  <2>3. e.type = "TEXT_MESSAGE_CHUNK" =>
          \/ HasText(c, n, e.id)
          \/ /\ e.id = Panel!None
             /\ \E j \in 1 .. n :
                   /\ StartOf(c[j], e.parent)
                   /\ \A i \in j + 1 .. n : c[i].type \notin {"TEXT_MESSAGE_START", "TOOL_CALL_RESULT"}
    <3>1. \A j \in 1 .. n : \A i \in j + 1 .. n : i \in 1 .. n OBVIOUS
    <3> QED BY <1>13, <2>1, <3>1
  <2>4. SentAt(c, n + 1, r) BY <1>12, <1>13, <2>1, <2>2, <2>3 DEF SentAt
  <2> QED BY <1>13, <2>4
<1>14. /\ Panel!Calls # {} => Called(b, n, Panel!Call(r))
       /\ Panel!Calls = {} => \A id : ~Called(b, n, id)
  <2>1. \A k \in DOMAIN b : b[k].type \in Starting => b[k].id = Panel!Call(r) BY <1>2, LogFacts DEF SentAt
  <2>2. Panel!Calls = {b[k].id : k \in {j \in DOMAIN b : b[j].type \in Starting}} BY <1>1 DEF Panel!Calls, Panel!Emitted, Starting
  <2> QED BY <1>2, <2>1, <2>2 DEF Called
<1>15. \A p \in Panel!Parents : p \in Names /\ (p = Panel!None \/ HasText(b, n, p))
  <2>1. Panel!Parents = {Panel!None, Panel!LastText} BY DEF Panel!Parents
  <2> QED BY <1>5, <1>7, <1>8, <2>1
<1>16. CASE e = Panel!TextStart
  <2>1. e = Panel!Event("TEXT_MESSAGE_START", Panel!Text(r, N + 1), Panel!None) BY <1>1, <1>4, <1>16 DEF Panel!TextStart
  <2>2. e \in RunEvents /\ e.type = "TEXT_MESSAGE_START" /\ e.run = r /\ e.seq = n + 1 /\ e.id = Panel!Text(r, N + 1) /\ e.parent = Panel!None
    BY <1>7, <1>9, <2>1
  <2> QED BY <1>1, <1>10, <1>13, <2>2 DEF Starting, Argued, Terminal
<1>17. CASE Panel!Texts # {} /\ e \in {Panel!TextContent, Panel!TextChunk(Panel!LastText)}
  <2>1. \E type \in Texted, p \in {Panel!None, Panel!LastText} : e = Panel!Event(type, Panel!LastText, p)
    BY <1>17 DEF Panel!TextContent, Panel!TextChunk, Texted
  <2>2. PICK type \in Texted, p \in {Panel!None, Panel!LastText} : e = Panel!Event(type, Panel!LastText, p) BY <2>1
  <2>3. e \in RunEvents /\ e.type = type /\ e.run = r /\ e.seq = n + 1 /\ e.id = Panel!LastText /\ e.parent = p
    <3>1. type \in {"TEXT_MESSAGE_START", "TOOL_CALL_START", "TOOL_CALL_RESULT"} \cup Texted \cup Argued OBVIOUS
    <3>2. Panel!LastText \in Names /\ p \in Names BY <1>7, <1>8
    <3> QED BY <1>9, <2>2, <3>1, <3>2
  <2>4. HasText(b, n, Panel!LastText) BY <1>5, <1>17
  <2> QED BY <1>1, <1>10, <1>13, <2>2, <2>3, <2>4 DEF Starting, Argued, Terminal, Texted
<1>18. CASE Panel!InText /\ e = Panel!TextChunk(Panel!None)
  <2>1. e = Panel!Event("TEXT_MESSAGE_CHUNK", Panel!None, Panel!LastText) BY <1>18 DEF Panel!TextChunk
  <2>2. /\ e \in RunEvents /\ e.type = "TEXT_MESSAGE_CHUNK" /\ e.run = r /\ e.seq = n + 1 /\ e.id = Panel!None
        /\ e.parent = Panel!LastText
    BY <1>7, <1>8, <1>9, <2>1 DEF Texted
  <2>3. /\ b[n].type \in {"TEXT_MESSAGE_START", "TEXT_MESSAGE_CONTENT", "TEXT_MESSAGE_CHUNK"}
        /\ \A j, k \in DOMAIN b :
             b[j].type = "TOOL_CALL_RESULT" /\ b[k].id = Panel!LastText /\ b[k].type = "TEXT_MESSAGE_START" => j < k
    BY <1>1, <1>18 DEF Panel!InText, Panel!Last
  <2>4. Panel!Texts # {}
    <3>1. n \in DOMAIN b /\ n - 1 \in Nat /\ n - 1 <= n /\ SentAt(b, n, r)
      <4>1. n \in DOMAIN b /\ n - 1 \in Nat /\ n - 1 <= n BY <1>2
      <4> QED BY <1>2, <4>1, LogFacts
    <3>2. \E id : HasText(b, n, id)
      <4>1. CASE b[n].type = "TEXT_MESSAGE_START"
        <5>1. n \in 1 .. n /\ StartOf(b[n], b[n].id) BY <1>2, <4>1 DEF StartOf
        <5> QED BY <5>1 DEF HasText
      <4>2. CASE b[n].type \in Texted
        <5>1. \E id : HasText(b, n - 1, id) BY <3>1, <4>2 DEF SentAt, Texted, HasText
        <5> QED BY <1>2, <3>1, <5>1, HasMore
      <4> QED BY <2>3, <4>1, <4>2 DEF Texted
    <3> QED BY <1>6, <3>2
  <2>5. Panel!LastText = Panel!Text(r, N) /\ HasText(b, n, Panel!LastText) BY <1>5, <2>4
  <2>6. PICK j \in 1 .. n : StartOf(b[j], Panel!LastText) BY <2>5 DEF HasText
  <2>7. ASSUME NEW i \in j + 1 .. n PROVE b[i].type \notin {"TEXT_MESSAGE_START", "TOOL_CALL_RESULT"}
    <3>1. i \in DOMAIN b /\ j \in DOMAIN b /\ j \in 1 .. i - 1 /\ ~(i < j) BY <1>2
    <3>2. b[j].type = "TEXT_MESSAGE_START" /\ b[j].id = Panel!LastText /\ b[j].id[3] = N BY <2>5, <2>6 DEF StartOf, Panel!Text
    <3>3. b[i].type # "TOOL_CALL_RESULT" BY <2>3, <3>1, <3>2
    <3>4. b[i].type # "TEXT_MESSAGE_START"
      <4>1. ASSUME b[i].type = "TEXT_MESSAGE_START" PROVE FALSE
        <5>1. b[i].id[3] <= N /\ b[j].id[3] < b[i].id[3] BY <1>1, <1>2, <3>1, <3>2, <4>1 DEF Counted
        <5>2. b[i].id[3] \in Nat
          <6>1. b[i] \in RunEvents BY <1>2, <3>1, LogFacts
          <6> QED BY <6>1 DEF RunEvents, Names
        <5> QED BY <1>3, <3>2, <5>1, <5>2
      <4> QED BY <4>1
    <3> QED BY <3>3, <3>4
  <2>8. \E k \in 1 .. n :
           /\ StartOf(b[k], e.parent)
           /\ \A i \in k + 1 .. n : b[i].type \notin {"TEXT_MESSAGE_START", "TOOL_CALL_RESULT"}
    BY <2>2, <2>6, <2>7
  <2> QED BY <1>1, <1>10, <1>13, <2>2, <2>5, <2>8 DEF Starting, Argued, Terminal
<1>19. CASE Panel!Calls = {} /\ \E p \in Panel!Parents : e \in {Panel!CallStart(p), Panel!CallChunk(p)}
  <2>1. PICK type \in Starting, p \in Panel!Parents : e = Panel!Event(type, Panel!Call(r), p)
    BY <1>1, <1>19 DEF Panel!CallStart, Panel!CallChunk, Starting
  <2>2. p \in Names /\ (p = Panel!None \/ HasText(b, n, p)) BY <1>15
  <2>3. e \in RunEvents /\ e.type = type /\ e.run = r /\ e.seq = n + 1 /\ e.id = Panel!Call(r) /\ e.parent = p
    <3>1. type \in {"TEXT_MESSAGE_START", "TOOL_CALL_START", "TOOL_CALL_RESULT"} \cup Texted \cup Argued BY DEF Starting, Argued
    <3> QED BY <1>7, <1>9, <2>1, <2>2, <3>1
  <2>4. ~Called(b, n, e.id) BY <1>14, <1>19
  <2> QED BY <1>1, <1>10, <1>13, <2>1, <2>2, <2>3, <2>4 DEF Starting, Terminal
<1>20. CASE Panel!Calls # {} /\ e \in {Panel!CallArgs, Panel!CallChunk(Panel!None)}
  <2>1. PICK type \in Argued : e = Panel!Event(type, Panel!Call(r), Panel!None)
    BY <1>1, <1>20 DEF Panel!CallArgs, Panel!CallChunk, Argued
  <2>2. e \in RunEvents /\ e.type = type /\ e.run = r /\ e.seq = n + 1 /\ e.id = Panel!Call(r) /\ e.parent = Panel!None
    <3>1. type \in {"TEXT_MESSAGE_START", "TOOL_CALL_START", "TOOL_CALL_RESULT"} \cup Texted \cup Argued OBVIOUS
    <3> QED BY <1>7, <1>9, <2>1, <3>1
  <2>3. Called(b, n, e.id) BY <1>14, <1>20, <2>2
  <2> QED BY <1>1, <1>10, <1>13, <2>1, <2>2, <2>3 DEF Argued, Terminal
<1>21. CASE Panel!Emitted({"TOOL_CALL_RESULT"}) = {} /\ e = Panel!CallResult
  <2>1. e = Panel!Event("TOOL_CALL_RESULT", Panel!Result(r), Panel!None) BY <1>1, <1>21 DEF Panel!CallResult
  <2>2. e \in RunEvents /\ e.type = "TOOL_CALL_RESULT" /\ e.run = r /\ e.seq = n + 1 /\ e.id = Panel!Result(r) /\ e.parent = Panel!None
    <3>1. "TOOL_CALL_RESULT" \in {"TEXT_MESSAGE_START", "TOOL_CALL_START", "TOOL_CALL_RESULT"} \cup Texted \cup Argued OBVIOUS
    <3> QED BY <1>7, <1>9, <2>1, <3>1
  <2>3. \A j \in 1 .. n : b[j].type # "TOOL_CALL_RESULT" BY <1>1, <1>2, <1>21 DEF Panel!Emitted
  <2> QED BY <1>1, <1>10, <1>13, <2>2, <2>3 DEF Starting, Argued, Terminal
<1> QED BY <1>16, <1>17, <1>18, <1>19, <1>20, <1>21 DEF Panel!Steps

-----------------------------------------------------------------------------
(* The thread: what its log holds, whatever it does.                       *)
LEMMA NewRun ==
    ASSUME NEW r \in Nat
    PROVE  LET b == <<Panel!Started(r)>> IN
           /\ Logged(b, r) /\ Counted(b, r) /\ Len(b) = 1 /\ DOMAIN b = 1 .. 1
           /\ b[1] \in RunEvents /\ b[1].type = "RUN_STARTED" /\ b[1].type \notin Terminal
<1>1. PICK b : b = <<Panel!Started(r)>> OBVIOUS
<1>2. Panel!None \in Names BY DEF Panel!None, Names
<1>3. /\ Panel!Started(r) \in RunEvents /\ Panel!Started(r).type = "RUN_STARTED" /\ Panel!Started(r).run = r /\ Panel!Started(r).seq = 1
      /\ Panel!Started(r).id = Panel!None /\ Panel!Started(r).parent = Panel!None
  BY <1>2 DEF Panel!Started, RunEvents
<1>4. b \in Seq(RunEvents) /\ Len(b) = 1 /\ DOMAIN b = 1 .. 1 /\ b[1] = Panel!Started(r) BY <1>1, <1>3
<1>5. SentAt(b, 1, r) BY <1>3, <1>4 DEF SentAt, Terminal, Starting, Argued
<1>6. Logged(b, r) BY <1>4, <1>5 DEF Logged
<1>7. Begins(b) = {} BY <1>3, <1>4 DEF Begins
<1>8. Counted(b, r) BY <1>3, <1>4, <1>7, CountNone DEF Counted
<1> QED BY <1>1, <1>3, <1>4, <1>6, <1>8 DEF Terminal

(* The event that ends a run.                                              *)
LEMMA EndSent ==
    ASSUME ThreadInv, active # 0, NEW type \in Terminal, NEW e, e = Panel!Event(type, Panel!None, Panel!None)
    PROVE  /\ e \in RunEvents /\ SentAt(Append(buffer, e), Len(buffer) + 1, active) /\ e.type = type
<1>1. /\ Logged(buffer, active) /\ Len(buffer) >= 1 /\ active \in Nat
      /\ buffer \in Seq(RunEvents) /\ Len(buffer) \in Nat
  <2>1. Logged(buffer, active) /\ Len(buffer) >= 1 /\ active \in Nat BY DEF ThreadInv
  <2> QED BY <2>1, LogFacts DEF Logged
<1>2. Panel!None \in Names BY DEF Panel!None, Names
<1>3. /\ e \in RunEvents /\ e.type = type /\ e.run = active /\ e.seq = Len(buffer) + 1 /\ e.id = Panel!None /\ e.parent = Panel!None
  BY <1>1, <1>2 DEF Panel!Event, RunEvents
<1>4. Append(buffer, e)[Len(buffer) + 1] = e BY <1>1, <1>3, Longer
<1>5. Len(buffer) + 1 # 1 BY <1>1
<1>6. SentAt(Append(buffer, e), Len(buffer) + 1, active)
  BY <1>3, <1>4, <1>5 DEF SentAt, Terminal, Starting, Argued
<1> QED BY <1>3, <1>6

(* The thread, one event on.                                               *)
LEMMA ThreadGrows ==
    ASSUME ThreadInv, active # 0, ~ended, NEW e \in RunEvents, SentAt(Append(buffer, e), Len(buffer) + 1, active),
           e.type = "TEXT_MESSAGE_START" => e.id = Panel!Text(active, Panel!Cardinality(Begins(buffer)) + 1),
           buffer' = Append(buffer, e), ended' <=> e.type \in Terminal,
           UNCHANGED <<active, begun, asks>>
    PROVE  ThreadInv'
<1>1. /\ Logged(buffer, active) /\ Counted(buffer, active) /\ Len(buffer) \in Nat /\ DOMAIN buffer = 1 .. Len(buffer)
      /\ buffer \in Seq(RunEvents)
  <2>1. Logged(buffer, active) /\ Counted(buffer, active) BY DEF ThreadInv
  <2> QED BY <2>1, LogFacts DEF Logged
<1>2. Logged(buffer', active) BY <1>1, LoggedMore
<1>3. Counted(buffer', active) BY <1>1, CountedMore
<1>4. /\ Len(buffer') = Len(buffer) + 1 /\ DOMAIN buffer' = 1 .. Len(buffer) + 1 /\ buffer'[Len(buffer) + 1] = e
      /\ \A k \in DOMAIN buffer : buffer'[k] = buffer[k]
  BY <1>1, Longer
<1>5. \A k \in DOMAIN buffer' : buffer'[k].type \in Terminal <=> ended' /\ k = Len(buffer')
  <2>1. \A k \in DOMAIN buffer : buffer'[k].type \notin Terminal BY <1>4 DEF ThreadInv
  <2>2. \A k \in DOMAIN buffer' : k \in DOMAIN buffer \/ k = Len(buffer) + 1 BY <1>1, <1>4
  <2>3. \A k \in DOMAIN buffer : k # Len(buffer') BY <1>1, <1>4
  <2> QED BY <1>4, <2>1, <2>2, <2>3
<1>6. Len(buffer') >= 1 BY <1>1, <1>4
<1>7. begun' \in Nat /\ asks' \in Nat /\ active' \in {0, begun'} /\ active' = active BY DEF ThreadInv
<1> QED BY <1>2, <1>3, <1>5, <1>6, <1>7 DEF ThreadInv

(* The thread, at the start of a run.                                      *)
LEMMA ThreadBegins ==
    ASSUME ThreadInv, active = 0, begun' = begun + 1, active' = begun + 1, buffer' = <<Panel!Started(begun + 1)>>,
           ended' = ended, asks' \in Nat
    PROVE  ThreadInv'
<1>1. begun + 1 \in Nat /\ begun + 1 # 0 /\ ~ended BY DEF ThreadInv
<1>2. PICK r, b : r = begun + 1 /\ b = <<Panel!Started(r)>> OBVIOUS
<1>3. Logged(b, r) /\ Counted(b, r) /\ Len(b) = 1 /\ DOMAIN b = 1 .. 1 /\ b[1].type \notin Terminal
  BY <1>1, <1>2, NewRun
<1>4. buffer' = b /\ active' = r /\ begun' = r /\ ~ended' BY <1>1, <1>2
<1> QED BY <1>1, <1>2, <1>3, <1>4 DEF ThreadInv

(* The thread, across every step of the server and of the tab.             *)
LEMMA ThreadStep ==
    ASSUME CallsFirst = FALSE, Resumes = FALSE, ThreadInv, Panel!Next
    PROVE  ThreadInv'
<1>1. CASE Panel!Begin
  <2>1. buffer = <<>> BY <1>1 DEF Panel!Begin, ThreadInv
  <2>2. buffer' = <<Panel!Started(begun + 1)>> BY <1>1, <2>1 DEF Panel!Begin, Panel!Broadcast
  <2> QED BY <1>1, <2>2, ThreadBegins DEF Panel!Begin, Panel!Broadcast, ThreadInv
<1>2. CASE Panel!Emit
  <2>1. PICK e \in Panel!Steps : Panel!Broadcast(e) BY <1>2 DEF Panel!Emit
  <2>2. active # 0 /\ ~ended /\ UNCHANGED <<active, begun, ended>> BY <1>2 DEF Panel!Emit
  <2>3. /\ e \in RunEvents /\ SentAt(Append(buffer, e), Len(buffer) + 1, active) /\ e.type \notin Terminal
        /\ e.type = "TEXT_MESSAGE_START" => e.id = Panel!Text(active, Panel!Cardinality(Begins(buffer)) + 1)
    BY <2>2, StepSent
  <2>4. buffer' = Append(buffer, e) /\ asks' = asks BY <2>1 DEF Panel!Broadcast
  <2>5. ended' <=> e.type \in Terminal BY <2>2, <2>3
  <2> QED BY <2>2, <2>3, <2>4, <2>5, ThreadGrows
<1>3. CASE Panel!End
  <2>1. PICK type \in Terminal : Panel!Broadcast(Panel!Event(type, Panel!None, Panel!None)) BY <1>3 DEF Panel!End, Terminal
  <2>2. active # 0 /\ ~ended /\ ended' = TRUE /\ UNCHANGED <<active, begun>> BY <1>3 DEF Panel!End
  <2>3. PICK e : e = Panel!Event(type, Panel!None, Panel!None) OBVIOUS
  <2>4. e \in RunEvents /\ SentAt(Append(buffer, e), Len(buffer) + 1, active) /\ e.type = type
    BY <2>2, <2>3, EndSent
  <2>5. buffer' = Append(buffer, e) /\ asks' = asks BY <2>1, <2>3 DEF Panel!Broadcast
  <2>6. ended' <=> e.type \in Terminal BY <2>2, <2>4
  <2>7. e.type # "TEXT_MESSAGE_START" BY <2>4 DEF Terminal
  <2> QED BY <2>2, <2>4, <2>5, <2>6, <2>7, ThreadGrows
<1>4. CASE Panel!Clear BY <1>4 DEF Panel!Clear, ThreadInv
<1>5. CASE Panel!Ask
  <2>1. asks' = asks + 1 /\ asks' \in Nat BY <1>5 DEF Panel!Ask, ThreadInv
  <2>2. CASE active # 0
    <3>1. UNCHANGED Panel!server BY <1>5, <2>2 DEF Panel!Ask
    <3> QED BY <2>1, <3>1 DEF Panel!server, ThreadInv
  <2>3. CASE active = 0
    <3>1. begun' = begun + 1 /\ active' = begun + 1 /\ buffer' = <<Panel!Started(begun + 1)>> /\ ended' = ended
      BY <1>5, <2>3 DEF Panel!Ask
    <3> QED BY <2>1, <2>3, <3>1, ThreadBegins
  <2> QED BY <2>2, <2>3
<1>6. CASE Panel!GoAway BY <1>6 DEF Panel!GoAway, Panel!server, ThreadInv
<1>7. CASE Panel!ComeBack BY <1>7 DEF Panel!ComeBack, Panel!server, ThreadInv
<1> QED BY <1>1, <1>2, <1>3, <1>4, <1>5, <1>6, <1>7 DEF Panel!Next

-----------------------------------------------------------------------------
(* The tab: of events, of what it asks and of what it is replayed.         *)
LEMMA FitsMore ==
    ASSUME NEW g \in Nat, NEW a \in Nat, NEW t, Fits(t, g, a), NEW h \in Nat, g <= h, NEW c \in Nat, a <= c
    PROVE  Fits(t, h, c)
<1>1. PICK ms : ms = t.messages OBVIOUS
<1>2. t \in Tabs /\ Sane(ms, g, a) /\ t.runId <= g /\ t.runId \in Nat /\ ms \in Seq(Bubbles)
  BY <1>1 DEF Fits, Tabs
<1>3. ASSUME NEW k \in DOMAIN ms PROVE ms[k].id[2] \in Nat /\ ms[k].id[3] \in Nat
  <2>1. ms[k] \in Bubbles BY <1>2
  <2> QED BY <2>1 DEF Bubbles, Names
<1>4. ASSUME NEW k \in DOMAIN ms, NEW d \in DOMAIN ms[k].calls PROVE ms[k].calls[d].id[2] \in Nat
  <2>1. ms[k] \in Bubbles BY <1>2
  <2>2. ms[k].calls \in Seq(ToolCalls) BY <2>1 DEF Bubbles
  <2>3. ms[k].calls[d] \in ToolCalls BY <2>2
  <2> QED BY <2>3 DEF ToolCalls, Names
<1>5. \A p, q, s \in Nat : p <= q /\ q <= s => p <= s OBVIOUS
<1>6. Sane(ms, h, c) BY <1>2, <1>3, <1>4, <1>5 DEF Sane
<1> QED BY <1>1, <1>2, <1>5, <1>6 DEF Fits

(* A tab that hears an event of the log.                                   *)
LEMMA HearsFits ==
    ASSUME NEW b, NEW r \in Nat, Logged(b, r), NEW x \in DOMAIN b, NEW g \in Nat, r <= g, NEW a \in Nat,
           NEW t, Fits(t, g, a)
    PROVE  Fits(Panel!Apply(t, b[x]), g, a)
<1>1. PICK e : e = b[x] OBVIOUS
<1>2. e \in RunEvents /\ e.run <= g BY <1>1, LogFacts DEF SentAt
<1>3. Fair(e.id, g, a) /\ Fair(e.parent, g, a) BY <1>1, EventIds
<1>4. Fits(Panel!Apply(t, e), g, a) BY <1>2, <1>3, ApplyFits
<1> QED BY <1>1, <1>4

(* Of a run that is new the tab has nothing.                               *)
LEMMA Untouched ==
    ASSUME NEW g \in Nat, NEW a, NEW t, Fits(t, g, a), NEW b, NEW r, r = g + 1
    PROVE  Applied(t, b, 0, r)
<1>1. PICK ms : ms = t.messages OBVIOUS
<1>2. Sane(ms, g, a) /\ t.runId <= g BY <1>1 DEF Fits
<1>3. ~(r <= g) /\ 1 .. 0 = {} /\ Panel!Call(r)[2] = r BY DEF Panel!Call
<1>4. OnlyTheirs(ms, b, 0, r) BY <1>2, <1>3 DEF Sane, OnlyTheirs
<1>5. TextsOf(ms, b, 0) /\ ~Called(b, 0, Panel!Call(r)) /\ EndsInText(ms, b, 0) BY <1>3 DEF TextsOf, Called, EndsInText
<1>6. t.runId # r BY <1>2, <1>3
<1> QED BY <1>1, <1>4, <1>5, <1>6 DEF Applied, MadeOf

(* The tab, when the group is sent an event.                               *)
LEMMA TabHears ==
    ASSUME ThreadInv, TabInv, ThreadInv', NEW e \in RunEvents, Panel!Broadcast(e), active' # 0, UNCHANGED mixed,
           \/ active # 0 /\ ~ended /\ UNCHANGED <<active, begun>>
           \/ active = 0 /\ active' = begun + 1 /\ begun' = begun + 1
    PROVE  TabInv'
<1>1. PICK b, c, r, g, a, t, u : /\ b = buffer /\ c = buffer' /\ r = active' /\ g = begun' /\ a = asks
                                 /\ t = thread /\ u = thread'
  OBVIOUS
<1>2. PICK x : x = Len(c) OBVIOUS
<1>3. /\ begun \in Nat /\ g \in Nat /\ a \in Nat /\ r = g /\ r \in Nat /\ r # 0 /\ begun <= g /\ Logged(c, r)
  BY <1>1 DEF ThreadInv
<1>4. b \in Seq(RunEvents) /\ c = Append(b, e)
  <2>1. active = 0 => b = <<>> BY <1>1 DEF ThreadInv
  <2>2. active # 0 => b \in Seq(RunEvents) BY <1>1 DEF ThreadInv, Logged
  <2>3. <<>> \in Seq(RunEvents) OBVIOUS
  <2> QED BY <1>1, <2>1, <2>2, <2>3 DEF Panel!Broadcast
<1>5. /\ x = Len(b) + 1 /\ Len(b) \in Nat /\ x \in DOMAIN c /\ c[x] = e /\ \A k \in 1 .. Len(b) : c[k] = b[k]
      /\ x - 1 = Len(b)
  BY <1>2, <1>4, Longer
<1>6. Fits(t, begun, a) /\ Fits(t, g, a) BY <1>1, <1>3, FitsMore DEF TabInv
<1>7. u = IF here THEN Panel!Apply(t, c[x]) ELSE t BY <1>1, <1>5 DEF Panel!Broadcast
<1>8. Fits(u, g, a)
  <2>1. Fits(Panel!Apply(t, c[x]), g, a) BY <1>3, <1>5, <1>6, HearsFits
  <2> QED BY <1>6, <1>7, <2>1
<1>9. asks' = asks /\ again' = again /\ (here' <=> here) BY DEF Panel!Broadcast
<1>10. ASSUME r \notin again \cup mixed
       PROVE  \E n \in 0 .. x - 1 : Applied(t, c, n, r) /\ (here => n = x - 1) /\ (n > 0 => c[n].type \notin Terminal)
  <2>1. CASE active # 0 /\ ~ended /\ UNCHANGED <<active, begun>>
    <3>1. PICK n \in 0 .. Len(b) : Applied(t, b, n, r) /\ (here => n = Len(b))
      BY <1>1, <1>10, <2>1 DEF TabInv
    <3>2. n \in Nat /\ \A k \in 1 .. n : c[k] = b[k] BY <1>5
    <3>3. Applied(t, c, n, r) BY <3>1, <3>2, SamePrefix
    <3>4. n > 0 => c[n].type \notin Terminal
      <4>1. \A k \in DOMAIN b : b[k].type \notin Terminal BY <1>1, <2>1 DEF ThreadInv
      <4>2. n > 0 => n \in DOMAIN b /\ n \in 1 .. n BY <1>4
      <4> QED BY <3>2, <4>1, <4>2
    <3> QED BY <1>5, <3>1, <3>3, <3>4
  <2>2. CASE active = 0 /\ active' = begun + 1 /\ begun' = begun + 1
    <3>1. Applied(t, c, 0, r) BY <1>1, <1>3, <1>6, <2>2, Untouched
    <3>2. b = <<>> BY <1>1, <2>2 DEF ThreadInv
    <3>3. x - 1 = 0 /\ 0 \in 0 .. 0 BY <1>5, <3>2
    <3> QED BY <3>1, <3>3
  <2> QED BY <2>1, <2>2
<1>11. ASSUME r \notin again \cup mixed PROVE \E n \in 0 .. x : Applied(u, c, n, r) /\ (here => n = x)
  <2>1. PICK n \in 0 .. x - 1 : Applied(t, c, n, r) /\ (here => n = x - 1) /\ (n > 0 => c[n].type \notin Terminal)
    BY <1>10, <1>11
  <2>2. CASE here
    <3>0. n = x - 1 BY <2>1, <2>2
    <3>1. n = x - 1 /\ x \in 0 .. x /\ (x > 1 => n > 0) BY <1>5, <3>0
    <3>2. Applied(t, c, x - 1, r) /\ (x > 1 => c[x - 1].type \notin Terminal) BY <2>1, <3>1
    <3>3. Applied(Panel!Apply(t, c[x]), c, x, r) BY <1>3, <1>5, <1>6, <3>2, ApplyNext
    <3> QED BY <1>7, <2>2, <3>1, <3>3
  <2>3. CASE ~here
    <3>1. n \in 0 .. x BY <1>5
    <3> QED BY <1>7, <2>1, <2>3, <3>1
  <2> QED BY <2>2, <2>3
<1> QED BY <1>1, <1>2, <1>8, <1>9, <1>11 DEF TabInv

(* The tab, when its user asks: refused, or heard as a new run.            *)
LEMMA TabAsks ==
    ASSUME ThreadInv, TabInv, ThreadInv', Panel!Ask
    PROVE  TabInv'
<1>1. PICK g, a : g = begun /\ a = asks OBVIOUS
<1>2. g \in Nat /\ a \in Nat /\ asks' = a + 1 /\ a + 1 \in Nat /\ a <= a + 1 /\ g <= g /\ ~(a + 1 <= a) /\ here' = here /\ here
  BY <1>1 DEF ThreadInv, Panel!Ask
<1>3. PICK m : m = [Panel!Message(Panel!Written(asks + 1), "user") EXCEPT !.content = <<asks + 1>>] OBVIOUS
<1>4. m \in Bubbles /\ m.id = Panel!Written(a + 1) /\ Fair(m.id, g, a + 1) /\ CallsUpTo(m, g)
  <2>1. PICK id, w : id = Panel!Written(a + 1) /\ w = Panel!Message(id, "user") OBVIOUS
  <2>2. id \in Names /\ id[2] = 0 /\ id[3] = a + 1 BY <1>2, <2>1 DEF Panel!Written, Names
  <2>3. w \in Bubbles /\ w.id = id /\ CallsUpTo(w, g) BY <2>1, <2>2, NewMessage
  <2>4. m = [w EXCEPT !.content = <<a + 1>>] /\ <<a + 1>> \in Seq(Nat) BY <1>1, <1>2, <1>3, <2>1
  <2>5. m \in Bubbles /\ m.id = id /\ m.calls = w.calls BY <2>3, <2>4 DEF Bubbles
  <2>6. Fair(id, g, a + 1) BY <1>2, <2>2 DEF Fair
  <2> QED BY <2>1, <2>3, <2>5, <2>6 DEF CallsUpTo
<1>5. PICK ms : ms = thread.messages OBVIOUS
<1>6. Fits(thread, g, a) /\ Fits(thread, g, a + 1) BY <1>1, <1>2, FitsMore DEF TabInv
<1>7. thread \in Tabs /\ Sane(ms, g, a) /\ Sane(ms, g, a + 1) /\ ms \in Seq(Bubbles) /\ thread.runId <= g
  BY <1>5, <1>6 DEF Fits, Tabs
<1>8. Sane(Append(ms, m), g, a + 1) /\ Append(ms, m) \in Seq(Bubbles)
  <2>1. \A k \in DOMAIN ms : ms[k].id # m.id
    <3>1. m.id[1] = "user" /\ m.id[3] = a + 1 BY <1>4 DEF Panel!Written
    <3>2. \A k \in DOMAIN ms : ms[k].id[1] = "user" => ms[k].id[3] <= a BY <1>7 DEF Sane
    <3> QED BY <1>2, <3>1, <3>2
  <2>2. Panel!Upsert(ms, m) = Append(ms, m) BY <1>7, <2>1, AtEnd
  <2>3. Sane(Panel!Upsert(ms, m), g, a + 1) BY <1>2, <1>4, <1>7, SaneUpsert
  <2> QED BY <2>2, <2>3 DEF Sane
<1>9. PICK t : t = [thread EXCEPT !.error = FALSE, !.messages = Append(@, m)] OBVIOUS
<1>10. Fits(t, g, a + 1)
  <2>1. t \in Tabs /\ t.messages = Append(ms, m) /\ t.runId = thread.runId BY <1>5, <1>7, <1>8, <1>9 DEF Tabs
  <2> QED BY <1>7, <1>8, <2>1 DEF Fits
<1>11. CASE active # 0
  <2>1. thread' = Panel!Refused(t) /\ active \in mixed' /\ UNCHANGED Panel!server BY <1>3, <1>9, <1>11 DEF Panel!Ask
  <2>2. Fits(Panel!Refused(t), g, a + 1)
    <3>1. t \in Tabs /\ Sane(t.messages, g, a + 1) /\ t.runId <= g BY <1>10 DEF Fits
    <3>2. PICK u : u = Panel!Refused(t) OBVIOUS
    <3>3. CASE u = [t EXCEPT !.error = TRUE]
      <4>1. u \in Tabs /\ u.messages = t.messages /\ u.runId = t.runId BY <3>1, <3>3 DEF Tabs
      <4> QED BY <3>1, <3>2, <4>1 DEF Fits
    <3>4. CASE u = [t EXCEPT !.runId = 0, !.running = FALSE, !.error = TRUE]
      <4>1. u \in Tabs /\ u.messages = t.messages /\ u.runId = 0 BY <3>1, <3>4 DEF Tabs
      <4> QED BY <1>2, <3>1, <3>2, <4>1 DEF Fits
    <3> QED BY <3>2, <3>3, <3>4 DEF Panel!Refused
  <2>3. begun' = g /\ active' = active BY <1>1, <2>1 DEF Panel!server
  <2> QED BY <1>2, <2>1, <2>2, <2>3 DEF TabInv
<1>12. CASE active = 0
  <2>1. PICK r, b : r = g + 1 /\ b = <<Panel!Started(r)>> OBVIOUS
  <2>2. /\ begun' = r /\ active' = r /\ buffer' = b /\ thread' = Panel!Apply(t, Panel!Started(r)) /\ mixed' = mixed /\ again' = again
    BY <1>1, <1>3, <1>9, <1>12, <2>1 DEF Panel!Ask
  <2>3. r \in Nat /\ r <= r /\ g <= r BY <1>2, <2>1
  <2>4. Logged(b, r) /\ Len(b) = 1 /\ 1 \in DOMAIN b /\ b[1] = Panel!Started(r) BY <2>1, <2>3, NewRun
  <2>5. Fits(t, r, a + 1) BY <1>2, <1>10, <2>3, FitsMore
  <2>6. Applied(t, b, 0, r) BY <1>2, <1>10, <2>1, Untouched
  <2>7. PICK u : u = Panel!Apply(t, b[1]) OBVIOUS
  <2>8. Fits(u, r, a + 1) /\ Applied(u, b, 1, r)
    <3>1. Fits(Panel!Apply(t, b[1]), r, a + 1) BY <1>2, <2>3, <2>4, <2>5, HearsFits
    <3>2. 1 - 1 = 0 /\ ~(1 > 1) OBVIOUS
    <3>3. Applied(t, b, 1 - 1, r) /\ (1 > 1 => b[1 - 1].type \notin Terminal) BY <2>6, <3>2
    <3>4. Applied(Panel!Apply(t, b[1]), b, 1, r) BY <1>2, <2>3, <2>4, <2>5, <3>3, ApplyNext
    <3> QED BY <2>7, <3>1, <3>4
  <2>9. 1 \in 0 .. 1 OBVIOUS
  <2> QED BY <1>2, <2>2, <2>4, <2>7, <2>8, <2>9 DEF TabInv
<1> QED BY <1>11, <1>12

(* The tab, when its socket is back: the snapshot is replayed.             *)
LEMMA TabComesBack ==
    ASSUME ThreadInv, TabInv, Panel!ComeBack
    PROVE  TabInv'
<1>1. PICK b, r, g, a, t : b = buffer /\ r = active /\ g = begun /\ a = asks /\ t = thread OBVIOUS
<1>2. /\ r \in Nat /\ g \in Nat /\ r <= g /\ a \in Nat /\ Logged(b, r)
      /\ \A k \in DOMAIN b : b[k].type \in Terminal => ended /\ k = Len(b)
  <2>1. Logged(<<>>, r) BY DEF Logged
  <2>2. DOMAIN <<>> = {} OBVIOUS
  <2> QED BY <1>1, <2>1, <2>2 DEF ThreadInv
<1>3. Fits(t, g, a) BY <1>1 DEF TabInv
<1>4. PICK u : u = Panel!FoldLeft(Panel!Apply, t, b) OBVIOUS
<1>5. /\ Fits(u, g, a)
      /\ \A n \in 0 .. Len(b) : Applied(t, b, n, r) /\ (n > 0 => b[n].type \notin Terminal) => Applied(u, b, Len(b), r)
  BY <1>2, <1>3, <1>4, Replayed
<1>6. /\ thread' = u /\ UNCHANGED <<Panel!server, asks, mixed>>
      /\ again' = IF ended /\ t.runId # r /\ t.lastSeq = Len(b) THEN again \cup {r} ELSE again
  BY <1>1, <1>4 DEF Panel!ComeBack
<1>7. active' = r /\ begun' = g /\ buffer' = b /\ asks' = a /\ mixed' = mixed BY <1>1, <1>6 DEF Panel!server
<1>8. ASSUME r # 0, r \notin again' \cup mixed
      PROVE  Applied(u, b, Len(b), r) /\ Len(b) \in 0 .. Len(b)
  <2>1. r \notin again \cup mixed BY <1>6, <1>8
  <2>2. PICK n \in 0 .. Len(b) : Applied(t, b, n, r) BY <1>1, <1>8, <2>1 DEF TabInv
  <2>3. n > 0 => b[n].type \notin Terminal
    <3>1. ASSUME n > 0, b[n].type \in Terminal PROVE FALSE
      <4>1. t.lastSeq = n /\ t.runId = 0 BY <2>2, <3>1 DEF Applied
      <4>2. n \in DOMAIN b BY <1>2, <3>1, LogFacts
      <4>3. ended /\ n = Len(b) BY <1>2, <3>1, <4>2
      <4>4. r \in again' BY <1>6, <1>8, <4>1, <4>3
      <4> QED BY <1>8, <4>4
    <3> QED BY <3>1
  <2>4. Applied(u, b, Len(b), r) BY <1>5, <2>2, <2>3
  <2>5. Len(b) \in Nat BY <1>2, LogFacts
  <2> QED BY <2>4, <2>5
<1> QED BY <1>5, <1>6, <1>7, <1>8 DEF TabInv

(* The tab, across every step.                                             *)
LEMMA TabStep ==
    ASSUME ThreadInv, TabInv, ThreadInv', Panel!Next
    PROVE  TabInv'
<1>1. CASE Panel!Begin
  <2>1. PICK e : e = Panel!Started(begun + 1) OBVIOUS
  <2>2. begun + 1 \in Nat /\ begun + 1 # 0 BY DEF ThreadInv
  <2>3. e \in RunEvents
    <3>1. <<Panel!Started(begun + 1)>>[1] \in RunEvents BY <2>2, NewRun
    <3> QED BY <2>1, <3>1
  <2>4. Panel!Broadcast(e) /\ active' # 0 /\ UNCHANGED mixed /\ active = 0 /\ active' = begun + 1 /\ begun' = begun + 1
    BY <1>1, <2>1, <2>2 DEF Panel!Begin
  <2> QED BY <2>3, <2>4, TabHears
<1>2. CASE Panel!Emit \/ Panel!End
  <2>1. PICK e : Panel!Broadcast(e) BY <1>2 DEF Panel!Emit, Panel!End
  <2>2. /\ active # 0 /\ ~ended /\ UNCHANGED <<active, begun>> /\ active' # 0 /\ UNCHANGED mixed
    BY <1>2 DEF Panel!Emit, Panel!End
  <2>3. e \in RunEvents
    <3>1. buffer' = Append(buffer, e) BY <2>1 DEF Panel!Broadcast
    <3>2. Len(buffer) \in Nat /\ buffer'[Len(buffer) + 1] = e /\ Len(buffer') = Len(buffer) + 1
      <4>1. buffer \in Seq(RunEvents) BY <2>2 DEF ThreadInv, Logged
      <4> QED BY <3>1, <4>1
    <3>3. buffer' \in Seq(RunEvents) BY <2>2 DEF ThreadInv, Logged
    <3> QED BY <3>2, <3>3
  <2> QED BY <2>1, <2>2, <2>3, TabHears
<1>3. CASE Panel!Clear BY <1>3 DEF Panel!Clear, TabInv
<1>4. CASE Panel!Ask BY <1>4, TabAsks
<1>5. CASE Panel!GoAway BY <1>5 DEF Panel!GoAway, Panel!server, TabInv
<1>6. CASE Panel!ComeBack BY <1>6, TabComesBack
<1> QED BY <1>1, <1>2, <1>3, <1>4, <1>5, <1>6 DEF Panel!Next

-----------------------------------------------------------------------------
(* What the tab shows is the pieces that are of it.                        *)
LEMMA ArePiecesShown ==
    ASSUME NEW r, Logged(buffer, r), NEW s, NEW types, NEW id, ArePieces(s, buffer, Len(buffer), types, id)
    PROVE  Panel!InOrder(s) /\ Panel!Pieces(types, id) = Panel!ToSet(s)
<1>1. DOMAIN buffer = 1 .. Len(buffer) /\ \A k \in DOMAIN buffer : buffer[k].seq = k BY LogFacts
<1>2. Panel!Pieces(types, id) = {k \in DOMAIN buffer : PieceOf(buffer, k, types, id)} BY <1>1 DEF Panel!Pieces, PieceOf
<1>3. Panel!ToSet(s) = {k \in DOMAIN buffer : PieceOf(buffer, k, types, id)} BY <1>1 DEF Panel!ToSet, ArePieces
<1> QED BY <1>2, <1>3 DEF ArePieces

(* What the invariant says of the panel.                                   *)
LEMMA PanelShows ==
    ASSUME PanelInv
    PROVE  Panel!ShowsTheRun
<1>1. SUFFICES ASSUME here, active # 0, active \notin again \cup mixed
      PROVE  /\ \A id \in Panel!Texts : \E k \in DOMAIN Panel!Shown :
                  /\ Panel!Shown[k].id = id /\ Panel!InOrder(Panel!Shown[k].content)
                  /\ Panel!Pieces({"TEXT_MESSAGE_CONTENT", "TEXT_MESSAGE_CHUNK"}, id) = Panel!ToSet(Panel!Shown[k].content)
             /\ \A id \in Panel!Calls :
                  \E k \in DOMAIN Panel!Shown : \E c \in DOMAIN Panel!Shown[k].calls :
                    /\ Panel!Shown[k].calls[c].id = id /\ Panel!InOrder(Panel!Shown[k].calls[c].args)
                    /\ Panel!ToSet(Panel!Shown[k].calls[c].args) = Panel!Pieces({"TOOL_CALL_ARGS", "TOOL_CALL_CHUNK"}, id)
                    /\ \A l \in DOMAIN Panel!Shown : \A d \in DOMAIN Panel!Shown[l].calls :
                          Panel!Shown[l].calls[d].id = id => l = k /\ d = c
  BY DEF Panel!ShowsTheRun
<1>2. PICK b, r, ms, n : b = buffer /\ r = active /\ ms = Panel!Shown /\ n = Len(buffer) OBVIOUS
<1>3. Logged(b, r) BY <1>1, <1>2 DEF PanelInv, ThreadInv
<1>4. n = Len(b) /\ DOMAIN b = 1 .. n BY <1>2, <1>3, LogFacts
<1>5. MadeOf(ms, b, n, r)
  <2>1. PICK m \in 0 .. Len(buffer) : Applied(thread, buffer, m, active) /\ (here => m = Len(buffer))
    BY <1>1 DEF PanelInv, TabInv
  <2>2. m = Len(buffer) BY <1>1, <2>1
  <2> QED BY <1>2, <2>1, <2>2 DEF Applied, Panel!Shown
<1>6. ASSUME NEW id \in Panel!Texts
      PROVE  \E k \in DOMAIN ms : /\ ms[k].id = id /\ Panel!InOrder(ms[k].content)
                                  /\ Panel!Pieces(Texted, id) = Panel!ToSet(ms[k].content)
  <2>1. PICK x \in 1 .. n : b[x].type = "TEXT_MESSAGE_START" /\ b[x].id = id
    BY <1>2, <1>4, <1>6 DEF Panel!Texts, Panel!Emitted
  <2>2. PICK k \in DOMAIN ms : ms[k].id = id /\ ArePieces(ms[k].content, b, n, Texted, id)
    BY <1>5, <2>1 DEF MadeOf, TextsOf
  <2>3. Panel!InOrder(ms[k].content) /\ Panel!Pieces(Texted, id) = Panel!ToSet(ms[k].content)
    BY <1>2, <1>3, <2>2, ArePiecesShown
  <2> QED BY <2>2, <2>3
<1>7. ASSUME NEW id \in Panel!Calls
      PROVE  \E k \in DOMAIN ms : \E c \in DOMAIN ms[k].calls :
               /\ ms[k].calls[c].id = id /\ Panel!InOrder(ms[k].calls[c].args)
               /\ Panel!ToSet(ms[k].calls[c].args) = Panel!Pieces(Argued, id)
               /\ \A l \in DOMAIN ms : \A d \in DOMAIN ms[l].calls : ms[l].calls[d].id = id => l = k /\ d = c
  <2>1. PICK x \in 1 .. n : b[x].type \in Starting /\ b[x].id = id
    BY <1>2, <1>4, <1>7 DEF Panel!Calls, Panel!Emitted, Starting
  <2>2. id = Panel!Call(r) BY <1>3, <1>4, <2>1, LogFacts DEF SentAt
  <2>3. CallIn(ms, b, n, id) BY <1>5, <2>1, <2>2 DEF MadeOf, Called
  <2>4. \A s : ArePieces(s, b, n, Argued, id) => Panel!InOrder(s) /\ Panel!ToSet(s) = Panel!Pieces(Argued, id)
    BY <1>2, <1>3, ArePiecesShown
  <2> QED BY <2>3, <2>4 DEF CallIn
<1> QED BY <1>2, <1>6, <1>7 DEF Texted, Argued

(* The invariant holds of an empty panel.                                  *)
LEMMA PanelInit == Panel!Init => PanelInv
<1> SUFFICES ASSUME Panel!Init PROVE PanelInv OBVIOUS
<1>1. ThreadInv BY DEF Panel!Init, ThreadInv
<1>2. thread \in Tabs /\ thread.messages = <<>> /\ thread.runId = 0 BY DEF Panel!Init, Tabs
<1>3. <<>> \in Seq(Bubbles) /\ DOMAIN <<>> = {} OBVIOUS
<1>4. Sane(<<>>, begun, asks) BY <1>3 DEF Sane
<1>5. Fits(thread, begun, asks) BY <1>2, <1>4 DEF Fits, Panel!Init
<1>6. TabInv BY <1>5 DEF TabInv, Panel!Init
<1> QED BY <1>1, <1>6 DEF PanelInv

(* The invariant is inductive.                                             *)
LEMMA PanelStep ==
    ASSUME CallsFirst = FALSE, Resumes = FALSE, PanelInv, [Panel!Next]_(Panel!vars)
    PROVE  PanelInv'
<1>1. CASE Panel!Next
  <2>1. ThreadInv /\ TabInv BY DEF PanelInv
  <2>2. ThreadInv' BY <1>1, <2>1, ThreadStep
  <2>3. TabInv' BY <1>1, <2>1, <2>2, TabStep
  <2> QED BY <2>2, <2>3 DEF PanelInv
<1>2. CASE UNCHANGED Panel!vars
  <2>1. PanelInv BY DEF PanelInv
  <2> QED BY <1>2, <2>1 DEF Panel!vars, Panel!server, PanelInv, ThreadInv, TabInv
<1> QED BY <1>1, <1>2

(* What the panel of the agent shows: "skip what was already applied". For *)
(* an agent that starts its text before its calls, and that after a result *)
(* names the text it goes on with, across lost sockets and replays the tab *)
(* shows the whole of the run in flight so far, every piece once.          *)
THEOREM RunIsShownWhole ==
    ASSUME CallsFirst = FALSE, Resumes = FALSE
    PROVE  Spec => []ShowsTheRun
<1>1. Init => PanelInv
  BY PanelInit DEF Init
<1>2. PanelInv /\ [Next]_vars => PanelInv'
  <2>1. UNCHANGED agent => UNCHANGED Panel!vars
    BY DEF agent, Panel!vars, Panel!server
  <2>2. [Next]_vars => [Panel!Next]_(Panel!vars)
    BY <2>1 DEF Next, vars, AssistantPanel, SpeechPanel, RecorderOfVoicePanel, CaptionsOfVoicePanel,
                ChatOfRoomPanel, NotificationPanel, RosterOfRoomPanel, AgentPanel
  <2> QED BY <2>2, PanelStep
<1>3. PanelInv => ShowsTheRun
  BY PanelShows DEF ShowsTheRun
<1> QED BY <1>1, <1>2, <1>3, PTL DEF Spec

-----------------------------------------------------------------------------
(* What a feed holds: copies, each with its topic.                         *)
Copies == [id : Ids, topic : Topics]

(* What is left of the items: some of them, in their order, and all whose  *)
(* id is not taken out.                                                    *)
Rests(is, S, w) ==
    /\ w \in Seq(Copies) /\ Len(w) <= Len(is)
    /\ \A j \in DOMAIN w : w[j].id \notin S /\ \E k \in 1 .. Len(is) : w[j] = is[k]
    /\ \A j, l \in DOMAIN w : j < l => \E k, m \in 1 .. Len(is) : k < m /\ w[j] = is[k] /\ w[l] = is[m]
    /\ \A k \in 1 .. Len(is) : is[k].id \notin S => \E j \in DOMAIN w : w[j] = is[k]

LEMMA WithoutIs ==
    ASSUME NEW is \in Seq(Copies), NEW S
    PROVE  Rests(is, S, Feed!Without(is, S))
<1> DEFINE T == {item \in Feed!ToSet(is) : item.id \notin S}
           w == Feed!Without(is, S)
<1>1. w = Room!Among(is, T) BY AmongIsOne DEF Feed!Without
<1>2. \A k \in 1 .. Len(is) : is[k].id \notin S => is[k] \in T BY DEF Feed!ToSet
<1>3. \A item \in T : item.id \notin S OBVIOUS
<1> HIDE DEF T
<1>4. Remains(Copies, is, T, w, Len(is)) BY <1>1, AmongIs
<1> HIDE DEF w
<1>5. Rests(is, S, w) BY <1>2, <1>3, <1>4 DEF Remains, Rests
<1> QED BY <1>5 DEF w

-----------------------------------------------------------------------------
(* The last copy of i that came, 0 when none did, and what came after it.  *)
LastIn(at)   == IF at = {} THEN 0 ELSE CHOOSE k \in at : \A j \in at : j <= k
LastOf(a, i) == LastIn({k \in DOMAIN a : a[k].id = i})
After(a, n) == {a[k].id : k \in n + 1 .. Len(a)}

LEMMA LastOfIs ==
    ASSUME NEW a \in Seq(Copies), NEW i
    PROVE  \/ LastOf(a, i) = 0 /\ \A k \in DOMAIN a : a[k].id # i
           \/ /\ LastOf(a, i) \in DOMAIN a /\ a[LastOf(a, i)].id = i
              /\ \A k \in DOMAIN a : a[k].id = i => k <= LastOf(a, i)
<1> DEFINE at == {k \in DOMAIN a : a[k].id = i}
<1>0. Len(a) \in Nat /\ DOMAIN a = 1 .. Len(a) OBVIOUS
<1>1. CASE at = {} BY <1>1 DEF LastOf, LastIn
<1>2. CASE at # {}
  <2> DEFINE T == {Len(a) - k : k \in at}
  <2>1. T \subseteq Nat /\ T # {} BY <1>0, <1>2
  <2>2. PICK n \in T : \A m \in T : n <= m
    <3> HIDE DEF T
    <3> QED BY <2>1, LeastNumber
  <2>3. PICK k \in at : n = Len(a) - k OBVIOUS
  <2>4. \A j \in at : j <= k
    <3> SUFFICES ASSUME NEW j \in at PROVE j <= k OBVIOUS
    <3>1. Len(a) - k <= Len(a) - j BY <2>2, <2>3
    <3> QED BY <3>1, <1>0
  <2>5. LastOf(a, i) = CHOOSE l \in at : \A j \in at : j <= l BY <1>2 DEF LastOf, LastIn
  <2>6. LastOf(a, i) \in at /\ \A j \in at : j <= LastOf(a, i)
    <3> HIDE DEF at
    <3> QED BY <2>4, <2>5
  <2> QED BY <2>6
<1> QED BY <1>1, <1>2

LEMMA LastOfMore ==
    ASSUME NEW a \in Seq(Copies), NEW x \in Copies
    PROVE  /\ LastOf(Append(a, x), x.id) = Len(a) + 1
           /\ \A i : i # x.id => LastOf(Append(a, x), i) = LastOf(a, i)
<1> DEFINE b == Append(a, x)
<1>0. Len(a) \in Nat /\ DOMAIN a = 1 .. Len(a) OBVIOUS
<1>1. /\ b \in Seq(Copies) /\ DOMAIN b = 1 .. Len(a) + 1 /\ b[Len(a) + 1] = x
      /\ \A k \in DOMAIN a : b[k] = a[k]
  OBVIOUS
<1> HIDE DEF b
<1>2. LastOf(b, x.id) = Len(a) + 1
  <2>1. Len(a) + 1 \in DOMAIN b /\ b[Len(a) + 1].id = x.id BY <1>0, <1>1
  <2>2. LastOf(b, x.id) \in DOMAIN b /\ Len(a) + 1 <= LastOf(b, x.id) BY <1>1, <2>1, LastOfIs
  <2> QED BY <2>2, <1>0, <1>1
<1>3. ASSUME NEW i, i # x.id PROVE LastOf(b, i) = LastOf(a, i)
  <2>1. {k \in DOMAIN b : b[k].id = i} = {k \in DOMAIN a : a[k].id = i} BY <1>0, <1>1, <1>3
  <2> QED BY <2>1 DEF LastOf
<1> QED BY <1>2, <1>3 DEF b

LEMMA AfterMore ==
    ASSUME NEW a \in Seq(Copies), NEW x \in Copies, NEW n \in 0 .. Len(a)
    PROVE  /\ After(Append(a, x), n) = After(a, n) \cup {x.id}
           /\ IsFiniteSet(After(a, n)) /\ Cardinality(After(a, n)) \in Nat
<1>0. Len(a) \in Nat OBVIOUS
<1>1. After(Append(a, x), n) = After(a, n) \cup {x.id}
  <2>1. Len(Append(a, x)) = Len(a) + 1 /\ Append(a, x)[Len(a) + 1] = x
        /\ \A k \in 1 .. Len(a) : Append(a, x)[k] = a[k]
    OBVIOUS
  <2>2. n + 1 .. Len(a) + 1 = (n + 1 .. Len(a)) \cup {Len(a) + 1} BY <1>0
  <2>3. n + 1 .. Len(a) \subseteq 1 .. Len(a) BY <1>0
  <2> QED BY <2>1, <2>2, <2>3 DEF After
<1>2. IsFiniteSet(n + 1 .. Len(a)) BY <1>0, FS_Interval
<1>3. IsFiniteSet(After(a, n))
  <2> DEFINE f == [k \in n + 1 .. Len(a) |-> a[k].id]
  <2>1. f \in Surjection(n + 1 .. Len(a), After(a, n)) BY DEF Surjection, After
  <2> HIDE DEF f
  <2> QED BY <2>1, <1>2, FS_Surjection
<1> QED BY <1>1, <1>3, FS_CardinalityType

(* No item is shown but the last copy of its id, the last copies in order. *)
NewestFirst(is, a) ==
    /\ is \in Seq(Copies)
    /\ \A j, k \in DOMAIN is : j < k => LastOf(a, is[j].id) > LastOf(a, is[k].id)
    /\ \A k \in DOMAIN is : LastOf(a, is[k].id) \in DOMAIN a /\ is[k] = a[LastOf(a, is[k].id)]
Held(is, i) == \E k \in DOMAIN is : is[k].id = i

(* An id is shown unless it is put away or enough came after its last copy;*)
(* one put away is not.                                                    *)
ShowsAll(is, a, put) ==
    /\ Len(is) <= FeedLimit
    /\ \A i \in Ids : /\ LastOf(a, i) > put[i] /\ Cardinality(After(a, LastOf(a, i))) < FeedLimit => Held(is, i)
                      /\ LastOf(a, i) <= put[i] => ~Held(is, i)
PutOff(a, put) == put \in [Ids -> Nat] /\ \A i \in Ids : put[i] <= Len(a)

LEMMA PutAwayIs ==
    ASSUME NEW a \in Seq(Copies), NEW is, NEW put, NEW S, NEW is2, NEW put2,
           NewestFirst(is, a), ShowsAll(is, a, put), PutOff(a, put),
           is2 = Feed!Without(is, S), put2 = [i \in Ids |-> IF i \in S THEN Len(a) ELSE put[i]]
    PROVE  NewestFirst(is2, a) /\ ShowsAll(is2, a, put2) /\ PutOff(a, put2)
<1>0. Len(a) \in Nat /\ DOMAIN a = 1 .. Len(a) OBVIOUS
<1>1. is \in Seq(Copies) /\ Len(is) \in Nat /\ DOMAIN is = 1 .. Len(is) BY DEF NewestFirst
<1>2. Rests(is, S, is2) BY <1>1, WithoutIs
<1>3. NewestFirst(is2, a)
  <2>1. is2 \in Seq(Copies) BY <1>2 DEF Rests
  <2>2. ASSUME NEW j \in DOMAIN is2, NEW k \in DOMAIN is2, j < k
        PROVE  LastOf(a, is2[j].id) > LastOf(a, is2[k].id)
    <3>1. PICK l \in 1 .. Len(is), m \in 1 .. Len(is) : l < m /\ is2[j] = is[l] /\ is2[k] = is[m]
      BY <1>2, <2>2 DEF Rests
    <3> QED BY <3>1, <1>1 DEF NewestFirst
  <2>3. ASSUME NEW k \in DOMAIN is2
        PROVE  LastOf(a, is2[k].id) \in DOMAIN a /\ is2[k] = a[LastOf(a, is2[k].id)]
    <3>1. PICK l \in 1 .. Len(is) : is2[k] = is[l] BY <1>2 DEF Rests
    <3> QED BY <3>1, <1>1 DEF NewestFirst
  <2> QED BY <2>1, <2>2, <2>3 DEF NewestFirst
<1>4. PutOff(a, put2) BY <1>0 DEF PutOff
<1>5. \A i : Held(is2, i) <=> Held(is, i) /\ i \notin S
  <2>1. ASSUME NEW i, Held(is2, i) PROVE Held(is, i) /\ i \notin S
    <3>1. PICK j \in DOMAIN is2 : is2[j].id = i BY <2>1 DEF Held
    <3>2. is2[j].id \notin S /\ \E k \in 1 .. Len(is) : is2[j] = is[k] BY <1>2 DEF Rests
    <3> QED BY <3>1, <3>2, <1>1 DEF Held
  <2>2. ASSUME NEW i, Held(is, i), i \notin S PROVE Held(is2, i)
    <3>1. PICK k \in 1 .. Len(is) : is[k].id = i BY <1>1, <2>2 DEF Held
    <3>2. \E j \in DOMAIN is2 : is2[j] = is[k] BY <1>2, <2>2, <3>1 DEF Rests
    <3> QED BY <3>1, <3>2 DEF Held
  <2> QED BY <2>1, <2>2
<1>6. Len(is2) <= FeedLimit BY <1>1, <1>2, FeedConstants DEF Rests, ShowsAll
<1>7. ASSUME NEW i \in Ids
      PROVE  /\ LastOf(a, i) > put2[i] /\ Cardinality(After(a, LastOf(a, i))) < FeedLimit => Held(is2, i)
             /\ LastOf(a, i) <= put2[i] => ~Held(is2, i)
  <2>1. LastOf(a, i) \in Nat /\ LastOf(a, i) <= Len(a) BY <1>0, LastOfIs
  <2>2. CASE i \in S
    <3>1. put2[i] = Len(a) BY <2>2
    <3>2. ~ (LastOf(a, i) > put2[i]) BY <2>1, <3>1, <1>0
    <3> QED BY <3>2, <1>5, <2>2
  <2>3. CASE i \notin S
    <3>1. put2[i] = put[i] BY <2>3
    <3> QED BY <3>1, <2>3, <1>5 DEF ShowsAll
  <2> QED BY <2>2, <2>3
<1> QED BY <1>3, <1>4, <1>6, <1>7 DEF ShowsAll

(* The copy shown, and what else was, without a former copy of it.         *)
LEMMA Shifted ==
    ASSUME NEW a \in Seq(Copies), NEW is, NEW x \in Copies, NewestFirst(is, a)
    PROVE  LET next == <<x>> \o Feed!Without(is, {x.id})
           IN  /\ next[1] = x /\ Len(next) >= 1
               /\ NewestFirst(next, Append(a, x))
               /\ \A i : Held(next, i) <=> i = x.id \/ Held(is, i)
<1> DEFINE w == Feed!Without(is, {x.id})
           next == <<x>> \o w
           b == Append(a, x)
<1>0. Len(a) \in Nat /\ DOMAIN a = 1 .. Len(a) OBVIOUS
<1>1. is \in Seq(Copies) /\ Len(is) \in Nat /\ DOMAIN is = 1 .. Len(is) BY DEF NewestFirst
<1>2. Rests(is, {x.id}, w) BY <1>1, WithoutIs
<1> HIDE DEF w
<1>3. w \in Seq(Copies) /\ Len(w) \in Nat /\ DOMAIN w = 1 .. Len(w) BY <1>2 DEF Rests
<1>4. /\ next \in Seq(Copies) /\ Len(next) = Len(w) + 1 /\ DOMAIN next = 1 .. Len(w) + 1 /\ next[1] = x
      /\ \A k \in 1 .. Len(w) : next[k + 1] = w[k]
  BY <1>3
<1>5. \A k \in 2 .. Len(w) + 1 : k - 1 \in DOMAIN w /\ next[k] = w[k - 1]
  <2> SUFFICES ASSUME NEW k \in 2 .. Len(w) + 1 PROVE k - 1 \in DOMAIN w /\ next[k] = w[k - 1] OBVIOUS
  <2>1. k - 1 \in 1 .. Len(w) /\ (k - 1) + 1 = k BY <1>3
  <2> HIDE DEF next
  <2>2. next[(k - 1) + 1] = w[k - 1] BY <1>4, <2>1
  <2> QED BY <2>1, <2>2, <1>3
<1>6. b \in Seq(Copies) /\ DOMAIN b = 1 .. Len(a) + 1 /\ b[Len(a) + 1] = x /\ \A k \in DOMAIN a : b[k] = a[k]
  OBVIOUS
<1>7. LastOf(b, x.id) = Len(a) + 1 /\ \A i : i # x.id => LastOf(b, i) = LastOf(a, i) BY LastOfMore
<1> HIDE DEF next, b
<1>8. ASSUME NEW k \in DOMAIN w
      PROVE  /\ w[k].id # x.id /\ LastOf(b, w[k].id) = LastOf(a, w[k].id)
             /\ LastOf(a, w[k].id) \in DOMAIN a /\ w[k] = a[LastOf(a, w[k].id)]
  <2>1. w[k].id # x.id /\ \E l \in 1 .. Len(is) : w[k] = is[l] BY <1>2 DEF Rests
  <2>2. LastOf(a, w[k].id) \in DOMAIN a /\ w[k] = a[LastOf(a, w[k].id)] BY <2>1, <1>1 DEF NewestFirst
  <2> QED BY <2>1, <2>2, <1>7
<1>9. NewestFirst(next, b)
  <2>1. ASSUME NEW j \in DOMAIN next, NEW k \in DOMAIN next, j < k
        PROVE  LastOf(b, next[j].id) > LastOf(b, next[k].id)
    <3>1. k \in 2 .. Len(w) + 1 BY <1>3, <1>4, <2>1
    <3>2. k - 1 \in DOMAIN w /\ next[k] = w[k - 1] BY <1>5, <3>1
    <3>3. CASE j = 1
      <4>1. LastOf(b, next[j].id) = Len(a) + 1 BY <3>3, <1>4, <1>7
      <4>2. LastOf(b, next[k].id) \in 1 .. Len(a) BY <3>2, <1>8, <1>0
      <4> QED BY <4>1, <4>2, <1>0
    <3>4. CASE j # 1
      <4>1. j \in 2 .. Len(w) + 1 BY <1>3, <1>4, <3>4
      <4>2. j - 1 \in DOMAIN w /\ next[j] = w[j - 1] BY <1>5, <4>1
      <4>3. j - 1 < k - 1 BY <2>1, <1>3, <1>4
      <4>4. PICK l \in 1 .. Len(is), m \in 1 .. Len(is) : l < m /\ w[j - 1] = is[l] /\ w[k - 1] = is[m]
        BY <1>2, <3>2, <4>2, <4>3 DEF Rests
      <4>5. LastOf(a, w[j - 1].id) > LastOf(a, w[k - 1].id) BY <4>4, <1>1 DEF NewestFirst
      <4> QED BY <4>5, <4>2, <3>2, <1>8
    <3> QED BY <3>3, <3>4
  <2>2. ASSUME NEW k \in DOMAIN next
        PROVE  LastOf(b, next[k].id) \in DOMAIN b /\ next[k] = b[LastOf(b, next[k].id)]
    <3>1. CASE k = 1 BY <3>1, <1>0, <1>4, <1>6, <1>7
    <3>2. CASE k # 1
      <4>1. k \in 2 .. Len(w) + 1 BY <1>3, <1>4, <3>2
      <4>2. k - 1 \in DOMAIN w /\ next[k] = w[k - 1] BY <1>5, <4>1
      <4>3. DOMAIN a \subseteq DOMAIN b BY <1>0, <1>6
      <4> QED BY <4>2, <4>3, <1>6, <1>8
    <3> QED BY <3>1, <3>2
  <2> QED BY <1>4, <2>1, <2>2 DEF NewestFirst
<1>10. ASSUME NEW i PROVE Held(next, i) <=> i = x.id \/ Held(is, i)
  <2>1. ASSUME Held(next, i) PROVE i = x.id \/ Held(is, i)
    <3>1. PICK k \in DOMAIN next : next[k].id = i BY <2>1 DEF Held
    <3>2. CASE k = 1 BY <3>1, <3>2, <1>4
    <3>3. CASE k # 1
      <4>1. k \in 2 .. Len(w) + 1 BY <1>3, <1>4, <3>3
      <4>2. k - 1 \in DOMAIN w /\ next[k] = w[k - 1] BY <1>5, <4>1
      <4>3. \E l \in 1 .. Len(is) : w[k - 1] = is[l] BY <1>2, <4>2 DEF Rests
      <4> QED BY <3>1, <4>2, <4>3, <1>1 DEF Held
    <3> QED BY <3>2, <3>3
  <2>2. ASSUME i = x.id PROVE Held(next, i)
    <3>1. 1 \in DOMAIN next BY <1>3, <1>4
    <3> QED BY <3>1, <2>2, <1>4 DEF Held
  <2>3. ASSUME Held(is, i), i # x.id PROVE Held(next, i)
    <3>1. PICK l \in 1 .. Len(is) : is[l].id = i BY <2>3, <1>1 DEF Held
    <3>2. PICK k \in DOMAIN w : w[k] = is[l] BY <1>2, <2>3, <3>1 DEF Rests
    <3>3. k + 1 \in DOMAIN next /\ next[k + 1] = w[k] BY <1>3, <1>4
    <3> QED BY <3>1, <3>2, <3>3 DEF Held
  <2> QED BY <2>1, <2>2, <2>3
<1>11. Len(next) >= 1 BY <1>3, <1>4
<1>12. next[1] = x BY <1>4
<1> QED BY <1>9, <1>10, <1>11, <1>12 DEF next, b, w

(* Of a feed cut at its limit, what is gone has enough after it.           *)
LEMMA CutOff ==
    ASSUME NEW a \in Seq(Copies), NEW next, NewestFirst(next, a), NEW i, Held(next, i),
           ~Held(SubSeq(next, 1, FeedLimit), i), FeedLimit <= Len(next)
    PROVE  Cardinality(After(a, LastOf(a, i))) >= FeedLimit
<1> DEFINE N == FeedLimit
           A == After(a, LastOf(a, i))
<1>0. /\ N \in Nat /\ Len(a) \in Nat /\ DOMAIN a = 1 .. Len(a)
      /\ next \in Seq(Copies) /\ Len(next) \in Nat /\ DOMAIN next = 1 .. Len(next)
  BY FeedConstants DEF NewestFirst
<1>1. PICK m \in DOMAIN next : next[m].id = i BY DEF Held
<1>2. Len(SubSeq(next, 1, N)) = N /\ DOMAIN SubSeq(next, 1, N) = 1 .. N
      /\ \A k \in 1 .. N : SubSeq(next, 1, N)[k] = next[k]
  BY <1>0
<1>3. m > N
  <2>1. ~ (m \in 1 .. N) BY <1>1, <1>2 DEF Held
  <2> QED BY <2>1, <1>0
<1>4. ASSUME NEW k \in 1 .. N PROVE next[k].id \in A
  <2>1. k \in DOMAIN next /\ k < m BY <1>0, <1>1, <1>3
  <2>2. LastOf(a, next[k].id) > LastOf(a, i) BY <2>1, <1>1 DEF NewestFirst
  <2>3. LastOf(a, next[k].id) \in 1 .. Len(a) /\ next[k] = a[LastOf(a, next[k].id)] BY <2>1, <1>0 DEF NewestFirst
  <2>4. LastOf(a, i) \in 1 .. Len(a) BY <1>0, <1>1 DEF NewestFirst
  <2>5. LastOf(a, next[k].id) \in LastOf(a, i) + 1 .. Len(a) BY <2>2, <2>3, <2>4, <1>0
  <2> QED BY <2>3, <2>5 DEF After
<1>5. IsFiniteSet(A) /\ Cardinality(A) \in Nat
  <2>1. LastOf(a, i) \in 0 .. Len(a) BY <1>0, <1>1 DEF NewestFirst
  <2>2. next[m] \in Copies BY <1>0, <1>1
  <2> QED BY <2>1, <2>2, AfterMore
<1>6. IsFiniteSet(1 .. N) /\ Cardinality(1 .. N) = N
  <2>1. 1 \in Int /\ N \in Int BY <1>0
  <2>2. IsFiniteSet(1 .. N) /\ Cardinality(1 .. N) = IF 1 > N THEN 0 ELSE N - 1 + 1 BY <2>1, FS_Interval
  <2> QED BY <2>2, <1>0
<1> HIDE DEF A, N
<1> SUFFICES ASSUME Cardinality(A) < N PROVE FALSE BY <1>0, <1>5 DEF A, N
<1> DEFINE f == [k \in 1 .. N |-> next[k].id]
<1>7. f \in [1 .. N -> A] BY <1>4
<1>8. Cardinality(A) < Cardinality(1 .. N) BY <1>6
<1>9. PICK k \in 1 .. N, l \in 1 .. N : k # l /\ f[k] = f[l]
  <2> HIDE DEF f
  <2> QED BY <1>5, <1>6, <1>7, <1>8, FS_PigeonHole
<1>10. k \in DOMAIN next /\ l \in DOMAIN next /\ next[k].id = next[l].id BY <1>9, <1>0 DEF N
<1>11. k < l \/ l < k BY <1>9, <1>0
<1>12. LastOf(a, next[k].id) \in Nat /\ LastOf(a, next[l].id) \in Nat
  <2>1. \A j \in DOMAIN next : LastOf(a, next[j].id) \in DOMAIN a BY <1>0 DEF NewestFirst
  <2>2. LastOf(a, next[k].id) \in DOMAIN a /\ LastOf(a, next[l].id) \in DOMAIN a BY <1>10, <2>1
  <2>3. DOMAIN a = 1 .. Len(a) /\ Len(a) \in Nat BY <1>0
  <2> QED BY <2>2, <2>3
<1>13. LastOf(a, next[k].id) > LastOf(a, next[l].id) \/ LastOf(a, next[l].id) > LastOf(a, next[k].id)
  BY <1>10, <1>11 DEF NewestFirst
<1> QED BY <1>10, <1>12, <1>13

LEMMA ShownIs ==
    ASSUME NEW a \in Seq(Copies), NEW is, NEW put, NEW x \in Copies, NEW is2, NEW b,
           NewestFirst(is, a), ShowsAll(is, a, put), PutOff(a, put),
           is2 = Feed!OnNotification(is, x), b = Append(a, x)
    PROVE  NewestFirst(is2, b) /\ ShowsAll(is2, b, put) /\ PutOff(b, put)
<1> DEFINE next == <<x>> \o Feed!Without(is, {x.id})
           n == IF Len(next) < FeedLimit THEN Len(next) ELSE FeedLimit
<1>0. Len(a) \in Nat /\ DOMAIN a = 1 .. Len(a) /\ Len(b) = Len(a) + 1 /\ b \in Seq(Copies) OBVIOUS
<1>1. /\ next[1] = x /\ Len(next) >= 1 /\ NewestFirst(next, b)
      /\ \A i : Held(next, i) <=> i = x.id \/ Held(is, i)
  BY Shifted
<1>2. is2 = SubSeq(next, 1, n) BY DEF Feed!OnNotification
<1> HIDE DEF next
<1>3. next \in Seq(Copies) /\ Len(next) \in Nat /\ DOMAIN next = 1 .. Len(next) BY <1>1 DEF NewestFirst
<1>4. n \in Nat /\ n <= Len(next) BY <1>3, FeedConstants
<1>n. n <= FeedLimit /\ (n = FeedLimit \/ n = Len(next)) BY <1>3, FeedConstants
<1> HIDE DEF n
<1>5. is2 \in Seq(Copies) /\ Len(is2) = n /\ DOMAIN is2 = 1 .. n /\ \A k \in 1 .. n : is2[k] = next[k]
  <2>1. \A k \in 1 .. n : k \in 1 .. Len(next) BY <1>3, <1>4
  <2>2. SubSeq(next, 1, n) \in Seq(Copies)
    <3>1. \A k \in 1 .. n : next[k] \in Copies BY <2>1, <1>3
    <3> QED BY <3>1, <1>3, <1>4, SubSeqProperties
  <2>3. Len(SubSeq(next, 1, n)) = n BY <1>3, <1>4
  <2>4. \A k \in 1 .. n : SubSeq(next, 1, n)[k] = next[k] BY <1>3, <1>4
  <2> QED BY <1>2, <2>2, <2>3, <2>4
<1>e. DOMAIN is2 \subseteq DOMAIN next
  <2>1. \A k \in 1 .. n : k \in 1 .. Len(next) BY <1>3, <1>4
  <2> QED BY <2>1, <1>3, <1>5
<1>6. NewestFirst(is2, b)
  <2> QED BY <1>e, <1>1, <1>5 DEF NewestFirst
<1>7. PutOff(b, put) BY <1>0 DEF PutOff
<1>8. \A i : Held(is2, i) => Held(next, i) BY <1>e, <1>5 DEF Held
<1>9. LastOf(b, x.id) = Len(a) + 1 /\ \A i : i # x.id => LastOf(b, i) = LastOf(a, i) BY LastOfMore
<1>10. ASSUME NEW i \in Ids, LastOf(b, i) <= put[i] PROVE ~Held(is2, i)
  <2>1. i # x.id BY <1>0, <1>9, <1>10 DEF PutOff
  <2>2. ~Held(is, i) BY <2>1, <1>9, <1>10 DEF ShowsAll
  <2> QED BY <2>1, <2>2, <1>1, <1>8
<1>11. ASSUME NEW i \in Ids, LastOf(b, i) > put[i], Cardinality(After(b, LastOf(b, i))) < FeedLimit
       PROVE  Held(is2, i)
  <2>1. Held(next, i)
    <3>1. CASE i = x.id BY <3>1, <1>1
    <3>2. CASE i # x.id
      <4> DEFINE l == LastOf(a, i)
      <4>1. LastOf(b, i) = l /\ l > put[i] BY <3>2, <1>9, <1>11
      <4>2. l \in 0 .. Len(a) BY <1>0, LastOfIs
      <4> HIDE DEF l
      <4>3. /\ After(b, l) = After(a, l) \cup {x.id} /\ IsFiniteSet(After(a, l)) /\ Cardinality(After(a, l)) \in Nat
        BY <4>2, AfterMore
      <4>4. /\ IsFiniteSet(After(b, l)) /\ Cardinality(After(b, l)) \in Nat
            /\ Cardinality(After(a, l)) <= Cardinality(After(b, l))
        <5>1. IsFiniteSet(After(a, l) \cup {x.id}) BY <4>3, FS_AddElement
        <5>2. IsFiniteSet(After(b, l)) /\ After(a, l) \subseteq After(b, l) BY <4>3, <5>1
        <5>3. Cardinality(After(a, l)) <= Cardinality(After(b, l)) BY <5>2, FS_Subset
        <5> QED BY <5>2, <5>3, FS_CardinalityType
      <4>5. Cardinality(After(a, l)) < FeedLimit BY <4>1, <4>3, <4>4, <1>11, FeedConstants
      <4>6. Held(is, i) BY <4>1, <4>5 DEF ShowsAll, l
      <4> QED BY <4>6, <1>1
    <3> QED BY <3>1, <3>2
  <2>2. CASE n = Len(next)
    <3>1. DOMAIN next = DOMAIN is2 BY <2>2, <1>3, <1>5
    <3> QED BY <3>1, <2>1, <1>3, <1>5, <2>2 DEF Held
  <2>3. CASE n = FeedLimit
    <3>1. FeedLimit <= Len(next) /\ is2 = SubSeq(next, 1, FeedLimit) BY <2>3, <1>2, <1>4
    <3> SUFFICES ASSUME ~Held(is2, i) PROVE FALSE OBVIOUS
    <3>2. Cardinality(After(b, LastOf(b, i))) >= FeedLimit BY <3>1, <2>1, <1>0, <1>1, CutOff
    <3>3. LastOf(b, i) \in 0 .. Len(b)
      <4>1. DOMAIN b = 1 .. Len(b) /\ Len(b) \in Nat BY <1>0
      <4>2. LastOf(b, i) = 0 \/ LastOf(b, i) \in DOMAIN b BY <1>0, LastOfIs
      <4> QED BY <4>1, <4>2
    <3>4. Cardinality(After(b, LastOf(b, i))) \in Nat BY <3>3, <1>0, AfterMore
    <3> QED BY <3>2, <3>4, <1>11, FeedConstants
  <2> QED BY <2>2, <2>3, <1>n
<1> QED BY <1>n, <1>5, <1>6, <1>7, <1>10, <1>11 DEF ShowsAll

-----------------------------------------------------------------------------
(* The inductive invariant: what the feed holds, and that whatever is told *)
(* the server, or on its way to it, came on that topic.                    *)
Came(a, i, t) == \E k \in DOMAIN a : a[k].id = i /\ a[k].topic = t
FeedHolds ==
    arrivals \in Seq(Copies) /\ NewestFirst(items, arrivals) /\ ShowsAll(items, arrivals, putAway) /\ PutOff(arrivals, putAway)
AcksHold ==
    /\ acks \in Seq([topic : Topics, ids : SUBSET Ids])
    /\ \A k \in DOMAIN acks : \A i \in acks[k].ids : Came(arrivals, i, acks[k].topic)
    /\ \A p \in acked : \E i \in Ids, t \in Topics : p = <<i, t>> /\ Came(arrivals, i, t)
FeedInv == FeedHolds /\ AcksHold

LEMMA FeedInit == Feed!Init => FeedInv
<1> SUFFICES ASSUME Feed!Init PROVE FeedInv OBVIOUS
<1>1. items = <<>> /\ arrivals = <<>> /\ acks = <<>> /\ acked = {} /\ putAway = [i \in Ids |-> 0] BY DEF Feed!Init
<1>2. DOMAIN <<>> = {} /\ Len(<<>>) = 0 /\ (\A D : <<>> \in Seq(D)) OBVIOUS
<1>3. \A i : LastOf(<<>>, i) = 0 BY <1>2 DEF LastOf, LastIn
<1>4. NewestFirst(<<>>, <<>>) BY <1>2 DEF NewestFirst
<1>5. ShowsAll(<<>>, <<>>, putAway) BY <1>1, <1>2, <1>3, FeedConstants DEF ShowsAll, Held
<1>6. PutOff(<<>>, putAway) BY <1>1, <1>2 DEF PutOff
<1> QED BY <1>1, <1>2, <1>4, <1>5, <1>6 DEF FeedInv, FeedHolds, AcksHold

LEMMA FeedShows == FeedInv => Feed!FeedIsTrue
<1> SUFFICES ASSUME FeedInv PROVE Feed!FeedIsTrue OBVIOUS
<1>1. arrivals \in Seq(Copies) /\ NewestFirst(items, arrivals) /\ ShowsAll(items, arrivals, putAway) /\ AcksHold
  BY DEF FeedInv, FeedHolds
<1>2. \A i : Feed!LastArrival(i) = LastOf(arrivals, i) BY DEF Feed!LastArrival, LastOf, LastIn
<1>3. \A i : Feed!Later(i) = After(arrivals, LastOf(arrivals, i)) BY <1>2 DEF Feed!Later, After
<1>4. \A i : i \in Feed!Shown <=> Held(items, i) BY DEF Feed!Shown, Held
<1>5. \A j, k \in DOMAIN items : j < k => Feed!LastArrival(items[j].id) > Feed!LastArrival(items[k].id)
  BY <1>1, <1>2 DEF NewestFirst
<1>6. \A k \in DOMAIN items : items[k] = arrivals[Feed!LastArrival(items[k].id)] BY <1>1, <1>2 DEF NewestFirst
<1>7. \A i \in Ids : IF Feed!LastArrival(i) > putAway[i] /\ Feed!Cardinality(Feed!Later(i)) < FeedLimit
                     THEN i \in Feed!Shown ELSE Feed!LastArrival(i) <= putAway[i] => i \notin Feed!Shown
  <2>1. \A S : Feed!Cardinality(S) = Cardinality(S) BY DEF Feed!Cardinality, Cardinality, Feed!IsFiniteSet, IsFiniteSet
  <2> QED BY <2>1, <1>1, <1>2, <1>3, <1>4 DEF ShowsAll
<1>8. \A p \in acked : \E k \in DOMAIN arrivals : p = <<arrivals[k].id, arrivals[k].topic>>
  BY <1>1 DEF AcksHold, Came
<1>9. Len(items) <= FeedLimit BY <1>1 DEF ShowsAll
<1> QED BY <1>5, <1>6, <1>7, <1>8, <1>9 DEF Feed!FeedIsTrue

(* What came, came.                                                        *)
LEMMA CameMore ==
    ASSUME NEW a \in Seq(Copies), NEW x \in Copies, NEW i, NEW t, Came(a, i, t)
    PROVE  Came(Append(a, x), i, t)
<1>1. PICK k \in DOMAIN a : a[k].id = i /\ a[k].topic = t BY DEF Came
<1>2. k \in DOMAIN Append(a, x) /\ Append(a, x)[k] = a[k] OBVIOUS
<1> QED BY <1>1, <1>2 DEF Came

LEMMA NotifyKeeps ==
    ASSUME FeedInv, NEW i \in Ids, NEW t \in Topics, Feed!Notify(i, t)
    PROVE  FeedInv'
<1> DEFINE x == [id |-> i, topic |-> t]
<1>1. FeedHolds /\ AcksHold /\ x \in Copies BY DEF FeedInv, Copies
<1>2. acks' = acks /\ acked' = acked /\ putAway' = putAway BY DEF Feed!Notify
<1>3. CASE linked
  <2>1. items' = Feed!OnNotification(items, x) /\ arrivals' = Append(arrivals, x) BY <1>3 DEF Feed!Notify
  <2> HIDE DEF x
  <2>2. arrivals \in Seq(Copies) /\ NewestFirst(items, arrivals) /\ ShowsAll(items, arrivals, putAway) /\ PutOff(arrivals, putAway)
    BY <1>1 DEF FeedHolds
  <2>3. NewestFirst(items', arrivals') /\ ShowsAll(items', arrivals', putAway) /\ PutOff(arrivals', putAway)
    BY <1>1, <2>1, <2>2, ShownIs
  <2>4. arrivals' \in Seq(Copies) BY <1>1, <2>1, <2>2
  <2>5. \A j, s : Came(arrivals, j, s) => Came(arrivals', j, s) BY <1>1, <2>1, <2>2, CameMore
  <2>6. FeedHolds' BY <1>2, <2>3, <2>4 DEF FeedHolds
  <2>7. AcksHold' BY <1>1, <1>2, <2>5 DEF AcksHold
  <2> QED BY <2>6, <2>7 DEF FeedInv
<1>4. CASE ~linked
  <2>1. items' = items /\ arrivals' = arrivals BY <1>4 DEF Feed!Notify
  <2> QED BY <1>1, <1>2, <2>1 DEF FeedInv, FeedHolds, AcksHold
<1> QED BY <1>3, <1>4

(* What is put away leaves what else is shown.                             *)
LEMMA PutAwayKeeps ==
    ASSUME FeedHolds, NEW S, Feed!PutAway(S), arrivals' = arrivals
    PROVE  FeedHolds'
<1>1. items' = Feed!Without(items, S) /\ putAway' = [i \in Ids |-> IF i \in S THEN Len(arrivals) ELSE putAway[i]]
  BY DEF Feed!PutAway
<1>2. arrivals \in Seq(Copies) /\ NewestFirst(items, arrivals) /\ ShowsAll(items, arrivals, putAway) /\ PutOff(arrivals, putAway)
  BY DEF FeedHolds
<1>3. NewestFirst(items', arrivals) /\ ShowsAll(items', arrivals, putAway') /\ PutOff(arrivals, putAway')
  BY <1>1, <1>2, PutAwayIs
<1> QED BY <1>2, <1>3 DEF FeedHolds

LEMMA AckAllKeeps == ASSUME FeedInv, Feed!AckAll PROVE FeedInv'
<1>1. FeedHolds /\ AcksHold BY DEF FeedInv
<1>2. arrivals' = arrivals /\ acked' = acked /\ Feed!PutAway(Feed!Shown) BY DEF Feed!AckAll
<1>3. FeedHolds' BY <1>1, <1>2, PutAwayKeeps
<1> DEFINE told == [k \in DOMAIN Feed!Newest |-> [topic |-> Feed!Newest[k].topic, ids |-> Feed!On(Feed!Newest[k].topic)]]
<1>4. items \in Seq(Copies) /\ arrivals \in Seq(Copies) BY <1>1 DEF FeedHolds, NewestFirst
<1>5. Feed!Newest \in Seq(Copies) BY <1>4, WithoutIs DEF Feed!Newest, Rests
<1>6. ASSUME NEW t \in Topics PROVE Feed!On(t) \in SUBSET Ids /\ \A i \in Feed!On(t) : Came(arrivals, i, t)
  <2>0. \A k \in DOMAIN items : items[k] \in Copies BY <1>4
  <2>1. Feed!On(t) \in SUBSET Ids BY <2>0 DEF Feed!On, Copies
  <2>2. ASSUME NEW i \in Feed!On(t) PROVE Came(arrivals, i, t)
    <3>1. PICK k \in DOMAIN items : items[k].topic = t /\ items[k].id = i BY DEF Feed!On
    <3>2. LastOf(arrivals, i) \in DOMAIN arrivals /\ items[k] = arrivals[LastOf(arrivals, i)]
      BY <1>1, <3>1 DEF FeedHolds, NewestFirst
    <3> QED BY <3>1, <3>2 DEF Came
  <2> QED BY <2>1, <2>2
<1>7. ASSUME NEW k \in DOMAIN Feed!Newest
      PROVE  told[k] \in [topic : Topics, ids : SUBSET Ids] /\ \A i \in told[k].ids : Came(arrivals, i, told[k].topic)
  <2>0. Feed!Newest[k] \in Copies BY <1>5
  <2>1. Feed!Newest[k].topic \in Topics BY <2>0 DEF Copies
  <2> QED BY <2>1, <1>6
<1>8. told \in Seq([topic : Topics, ids : SUBSET Ids]) /\ DOMAIN told = DOMAIN Feed!Newest
  <2> DEFINE R == [topic : Topics, ids : SUBSET Ids]
  <2>1. DOMAIN Feed!Newest = 1 .. Len(Feed!Newest) /\ Len(Feed!Newest) \in Nat BY <1>5
  <2>2. \A k \in DOMAIN Feed!Newest : told[k] \in R BY <1>7
  <2>3. told = [k \in DOMAIN Feed!Newest |-> told[k]] /\ DOMAIN told = DOMAIN Feed!Newest OBVIOUS
  <2> HIDE DEF told, R
  <2>4. told \in [1 .. Len(Feed!Newest) -> R] BY <2>1, <2>2, <2>3
  <2>5. told \in Seq(R) BY <2>1, <2>4, SeqDef
  <2> QED BY <2>3, <2>5 DEF R
<1>9. acks' = acks \o told BY DEF Feed!AckAll
<1> HIDE DEF told
<1>10. acks \in Seq([topic : Topics, ids : SUBSET Ids]) BY <1>1 DEF AcksHold
<1>11. acks' \in Seq([topic : Topics, ids : SUBSET Ids]) BY <1>8, <1>9, <1>10
<1>12. ASSUME NEW k \in DOMAIN acks' PROVE \A i \in acks'[k].ids : Came(arrivals, i, acks'[k].topic)
  <2>1. /\ Len(acks) \in Nat /\ Len(told) \in Nat /\ DOMAIN acks = 1 .. Len(acks)
        /\ DOMAIN told = 1 .. Len(told) /\ DOMAIN acks' = 1 .. Len(acks) + Len(told)
    BY <1>8, <1>9, <1>10
  <2>2. CASE k <= Len(acks)
    <3>1. k \in DOMAIN acks /\ acks'[k] = acks[k] BY <2>1, <2>2, <1>8, <1>9, <1>10
    <3> QED BY <3>1, <1>1 DEF AcksHold
  <2>3. CASE ~ (k <= Len(acks))
    <3>1. k - Len(acks) \in DOMAIN told BY <2>1, <2>3
    <3>2. acks'[k] = told[k - Len(acks)] BY <2>1, <2>3, <1>8, <1>9, <1>10
    <3> QED BY <3>1, <3>2, <1>7, <1>8
  <2> QED BY <2>2, <2>3
<1>13. AcksHold' BY <1>1, <1>2, <1>11, <1>12 DEF AcksHold
<1> QED BY <1>3, <1>13 DEF FeedInv

LEMMA HandleAckKeeps == ASSUME FeedInv, Feed!HandleAck PROVE FeedInv'
<1>1. FeedHolds /\ AcksHold BY DEF FeedInv
<1>2. /\ items' = items /\ arrivals' = arrivals /\ putAway' = putAway /\ acks # <<>> /\ acks' = Tail(acks)
      /\ acked' = acked \cup {<<i, Head(acks).topic>> : i \in Head(acks).ids}
  BY DEF Feed!HandleAck
<1>3. acks \in Seq([topic : Topics, ids : SUBSET Ids]) /\ Len(acks) \in Nat /\ DOMAIN acks = 1 .. Len(acks)
  BY <1>1 DEF AcksHold
<1>4. /\ acks' \in Seq([topic : Topics, ids : SUBSET Ids]) /\ DOMAIN acks' = 1 .. Len(acks) - 1
      /\ \A k \in DOMAIN acks' : k + 1 \in DOMAIN acks /\ acks'[k] = acks[k + 1]
  BY <1>2, <1>3
<1>5. 1 \in DOMAIN acks /\ Head(acks) = acks[1] /\ acks[1] \in [topic : Topics, ids : SUBSET Ids]
  <2>1. Len(acks) # 0 BY <1>2, <1>3
  <2>2. 1 \in DOMAIN acks BY <1>3, <2>1
  <2> DEFINE R == [topic : Topics, ids : SUBSET Ids]
  <2>a. acks \in Seq(R) BY <1>3
  <2> HIDE DEF R
  <2>b. acks[1] \in R BY <2>a, <2>2
  <2>3. acks[1] \in [topic : Topics, ids : SUBSET Ids] BY <2>b DEF R
  <2> QED BY <2>2, <2>3, <1>3
<1>6. \A p \in acked' : \E i \in Ids, t \in Topics : p = <<i, t>> /\ Came(arrivals, i, t)
  BY <1>1, <1>2, <1>5 DEF AcksHold
<1>7. \A k \in DOMAIN acks' : \A i \in acks'[k].ids : Came(arrivals, i, acks'[k].topic) BY <1>1, <1>4 DEF AcksHold
<1>8. AcksHold' BY <1>2, <1>4, <1>6, <1>7 DEF AcksHold
<1>9. FeedHolds' BY <1>1, <1>2 DEF FeedHolds
<1> QED BY <1>8, <1>9 DEF FeedInv

LEMMA FeedStep == FeedInv /\ [Feed!Next]_(Feed!vars) => FeedInv'
<1> SUFFICES ASSUME FeedInv, [Feed!Next]_(Feed!vars) PROVE FeedInv' OBVIOUS
<1>1. ASSUME NEW i \in Ids, NEW t \in Topics, Feed!Notify(i, t) PROVE FeedInv' BY <1>1, NotifyKeeps
<1>2. ASSUME NEW i \in Ids, Feed!Dismiss(i) PROVE FeedInv'
  <2>1. FeedHolds /\ AcksHold BY DEF FeedInv
  <2>2. arrivals' = arrivals /\ acks' = acks /\ acked' = acked /\ Feed!PutAway({i}) BY <1>2 DEF Feed!Dismiss
  <2>3. FeedHolds' BY <2>1, <2>2, PutAwayKeeps
  <2> QED BY <2>1, <2>2, <2>3 DEF FeedInv, AcksHold
<1>3. CASE Feed!AckAll BY <1>3, AckAllKeeps
<1>4. CASE Feed!HandleAck BY <1>4, HandleAckKeeps
<1>5. CASE Feed!Unlink
  <2>1. FeedHolds /\ AcksHold BY DEF FeedInv
  <2>2. /\ items' = items /\ arrivals' = arrivals /\ putAway' = putAway /\ acked' = acked /\ acks' = <<>>
    BY <1>5 DEF Feed!Unlink
  <2>3. acks' \in Seq([topic : Topics, ids : SUBSET Ids]) /\ DOMAIN acks' = {} BY <2>2
  <2> QED BY <2>1, <2>2, <2>3 DEF FeedInv, FeedHolds, AcksHold
<1>6. CASE Feed!Link BY <1>6 DEF Feed!Link, FeedInv, FeedHolds, AcksHold
<1>7. CASE UNCHANGED Feed!vars BY <1>7 DEF Feed!vars, FeedInv, FeedHolds, AcksHold
<1> QED BY <1>1, <1>2, <1>3, <1>4, <1>5, <1>6, <1>7 DEF Feed!Next

(* What the panel of the notifications shows: "A notification sent to two  *)
(* joined topics arrives twice with one id." The feed is every id that     *)
(* reached the tab and is not put away, once, by its last copy, newest     *)
(* first, but for those that enough others pushed out; and the server is   *)
(* told of an id only on a topic it came on.                               *)
THEOREM FeedStaysTrue == Spec => []FeedIsTrue
<1>1. Init => FeedInv
  BY FeedInit DEF Init
<1>2. FeedInv /\ [Next]_vars => FeedInv'
  <2>1. UNCHANGED feed => UNCHANGED Feed!vars
    BY DEF feed, Feed!vars
  <2>2. [Next]_vars => [Feed!Next]_(Feed!vars)
    BY <2>1 DEF Next, vars, AssistantPanel, SpeechPanel, RecorderOfVoicePanel, CaptionsOfVoicePanel,
                ChatOfRoomPanel, NotificationPanel, RosterOfRoomPanel, AgentPanel
  <2> QED BY <2>2, FeedStep
<1>3. FeedInv => FeedIsTrue
  BY FeedShows DEF FeedIsTrue
<1> QED BY <1>1, <1>2, <1>3, PTL DEF Spec

-----------------------------------------------------------------------------
(* The latest entries of a store: those with fewer than the limit after    *)
(* them. One that more come after stays among the latest of what was there.*)
LatestOf(S) == {e \in S : Cardinality({f \in S : f > e}) < BacklogLimit}

LEMMA LatestShrinks ==
    ASSUME NEW T, IsFiniteSet(T), NEW S \in SUBSET T, NEW e \in S, e \in LatestOf(T)
    PROVE  e \in LatestOf(S)
<1> DEFINE A == {f \in S : f > e}
           B == {f \in T : f > e}
<1>1. IsFiniteSet(B) /\ Cardinality(B) < BacklogLimit BY FS_Subset DEF LatestOf
<1>2. A \subseteq B OBVIOUS
<1>3. IsFiniteSet(A) /\ Cardinality(A) <= Cardinality(B) /\ Cardinality(A) \in Nat /\ Cardinality(B) \in Nat
  <2> HIDE DEF A, B
  <2> QED BY <1>1, <1>2, FS_Subset, FS_CardinalityType
<1> HIDE DEF B
<1>4. Cardinality(A) < BacklogLimit BY <1>1, <1>3, RoomConstants
<1> QED BY <1>4 DEF LatestOf

(* The kit's Cardinality is the one of the theorems.                       *)
LEMMA SizesAgree == \A S : Room!Cardinality(S) = Cardinality(S)
  BY Zenon DEF Room!Cardinality, Cardinality, Room!IsFiniteSet, IsFiniteSet

(* How many are no later, in a set of numbers: the place of each.          *)
Within(S, e) == Cardinality({f \in S : f <= e})

LEMMA Places ==
    ASSUME NEW L, L \subseteq Nat, IsFiniteSet(L)
    PROVE  /\ Cardinality(L) \in Nat
           /\ \A e \in L : Within(L, e) \in 1 .. Cardinality(L)
           /\ \A e, g \in L : Within(L, e) = Within(L, g) => e = g
           /\ \A k \in 1 .. Cardinality(L) : \E e \in L : Within(L, e) = k
<1> DEFINE n == Cardinality(L)
           In(e) == {f \in L : f <= e}
<1>1. n \in Nat BY FS_CardinalityType
<1>2. \A e \in L : IsFiniteSet(In(e)) /\ Cardinality(In(e)) \in Nat /\ Cardinality(In(e)) <= n
  <2> SUFFICES ASSUME NEW e \in L
               PROVE  IsFiniteSet(In(e)) /\ Cardinality(In(e)) \in Nat /\ Cardinality(In(e)) <= n
    OBVIOUS
  <2>1. In(e) \in SUBSET L OBVIOUS
  <2> HIDE DEF In
  <2> QED BY <2>1, FS_Subset, FS_CardinalityType
<1>3. ASSUME NEW e \in L PROVE Within(L, e) \in 1 .. n
  <2>1. e \in In(e) OBVIOUS
  <2>2. Cardinality(In(e)) # 0
    <3>1. IsFiniteSet(In(e)) BY <1>2
    <3> HIDE DEF In
    <3> QED BY <2>1, <3>1, FS_EmptySet
  <2>3. Within(L, e) = Cardinality(In(e)) BY DEF Within
  <2> HIDE DEF In, n
  <2> QED BY <1>1, <1>2, <2>2, <2>3
<1>4. ASSUME NEW e \in L, NEW g \in L, e < g PROVE Within(L, e) < Within(L, g)
  <2>0. e \in Nat /\ g \in Nat /\ \A f \in L : f \in Nat OBVIOUS
  <2>a. g \notin In(e) BY <1>4, <2>0
  <2>b. \A f \in In(e) : f \in In(g) BY <1>4, <2>0
  <2>c. g \in In(g) BY <2>0
  <2>1. g \notin In(e) /\ In(e) \cup {g} \subseteq In(g)
    <3> HIDE DEF In
    <3> QED BY <2>a, <2>b, <2>c
  <2>2. Within(L, e) = Cardinality(In(e)) /\ Within(L, g) = Cardinality(In(g)) BY DEF Within
  <2> HIDE DEF In
  <2>3. IsFiniteSet(In(e) \cup {g}) /\ Cardinality(In(e) \cup {g}) = Cardinality(In(e)) + 1 BY <1>2, <2>1, FS_AddElement
  <2>4. Cardinality(In(e) \cup {g}) <= Cardinality(In(g)) BY <1>2, <2>1, FS_Subset
  <2> QED BY <1>2, <2>2, <2>3, <2>4
<1>5. ASSUME NEW e \in L, NEW g \in L, Within(L, e) = Within(L, g) PROVE e = g
  <2>1. ~ (e < g) /\ ~ (g < e)
    <3>1. Within(L, e) \in Nat /\ Within(L, g) \in Nat BY <1>1, <1>3
    <3> QED BY <1>4, <1>5, <3>1
  <2> QED BY <2>1
<1> DEFINE r == [e \in L |-> Within(L, e)]
<1>6. r \in Injection(L, 1 .. n)
  <2>1. r \in [L -> 1 .. n] BY <1>3
  <2>2. \A e, g \in L : r[e] = r[g] => e = g BY <1>5
  <2> HIDE DEF r
  <2> QED BY <2>1, <2>2 DEF Injection, IsInjective
<1>7. IsFiniteSet(1 .. n) /\ Cardinality(1 .. n) = n
  <2>1. 1 \in Int /\ n \in Int BY <1>1
  <2>2. IsFiniteSet(1 .. n) /\ Cardinality(1 .. n) = IF 1 > n THEN 0 ELSE n - 1 + 1 BY <2>1, FS_Interval
  <2> HIDE DEF n
  <2> QED BY <2>2, <1>1
<1>8. r \in Surjection(L, 1 .. n)
  <2> HIDE DEF r
  <2> QED BY <1>6, <1>7, FS_Injection
<1>9. \A k \in 1 .. n : \E e \in L : Within(L, e) = k
  <2>1. \A k \in 1 .. n : \E e \in L : r[e] = k
    <3> HIDE DEF r
    <3> QED BY <1>8 DEF Surjection
  <2> QED BY <2>1
<1> QED BY <1>1, <1>3, <1>5, <1>9

(* A backlog is the latest entries, each once.                             *)
Holds(s, e) == \E k \in DOMAIN s : s[k] = e

LEMMA RecentIs ==
    ASSUME IsFiniteSet(store), store \subseteq Nat
    PROVE  Room!Recent \in Seq(Nat) /\ IsInjective(Room!Recent) /\ \A e : Holds(Room!Recent, e) <=> e \in LatestOf(store)
<1> DEFINE L == Room!Latest
           n == Cardinality(L)
<1>1. L = LatestOf(store) /\ L \subseteq store BY SizesAgree DEF Room!Latest, LatestOf
<1>2. IsFiniteSet(L) /\ L \subseteq Nat BY <1>1, FS_Subset
<1> HIDE DEF L
<1>3. /\ n \in Nat /\ \A e \in L : Room!Upto(L, e) \in 1 .. n
      /\ \A e, g \in L : Room!Upto(L, e) = Room!Upto(L, g) => e = g
      /\ \A k \in 1 .. n : \E e \in L : Room!Upto(L, e) = k
  <2>1. \A e : Room!Upto(L, e) = Within(L, e) BY SizesAgree DEF Room!Upto, Within
  <2>2. /\ Cardinality(L) \in Nat /\ \A e \in L : Within(L, e) \in 1 .. Cardinality(L)
        /\ \A e, g \in L : Within(L, e) = Within(L, g) => e = g
        /\ \A k \in 1 .. Cardinality(L) : \E e \in L : Within(L, e) = k
    BY <1>2, Places
  <2> QED BY <2>1, <2>2
<1>4. Room!Recent = [k \in 1 .. n |-> CHOOSE e \in L : Room!Upto(L, e) = k] BY SizesAgree DEF Room!Recent, L
<1> HIDE DEF n
<1>5. \A k \in 1 .. n : Room!Recent[k] \in L /\ Room!Upto(L, Room!Recent[k]) = k
  <2> SUFFICES ASSUME NEW k \in 1 .. n PROVE Room!Recent[k] \in L /\ Room!Upto(L, Room!Recent[k]) = k OBVIOUS
  <2>1. \E e \in L : Room!Upto(L, e) = k BY <1>3
  <2>2. Room!Recent[k] = CHOOSE e \in L : Room!Upto(L, e) = k BY <1>4
  <2> QED BY <2>1, <2>2
<1>6. DOMAIN Room!Recent = 1 .. n /\ Room!Recent = [k \in 1 .. n |-> Room!Recent[k]] BY <1>4
<1>7. Room!Recent \in Seq(Nat)
  <2>1. Room!Recent \in [1 .. n -> Nat] BY <1>2, <1>5, <1>6
  <2> QED BY <2>1, <1>3, SeqDef
<1>8. IsInjective(Room!Recent) BY <1>5, <1>6 DEF IsInjective
<1>9. ASSUME NEW e PROVE Holds(Room!Recent, e) <=> e \in L
  <2>1. ASSUME e \in L PROVE Holds(Room!Recent, e)
    <3>1. Room!Upto(L, e) \in 1 .. n BY <1>3, <2>1
    <3>2. Room!Recent[Room!Upto(L, e)] = e BY <1>3, <1>5, <2>1, <3>1
    <3> QED BY <1>6, <3>1, <3>2 DEF Holds
  <2>2. ASSUME Holds(Room!Recent, e) PROVE e \in L BY <1>5, <1>6, <2>2 DEF Holds
  <2> QED BY <2>1, <2>2
<1> QED BY <1>1, <1>7, <1>8, <1>9

-----------------------------------------------------------------------------
(* What the log's handlers make of it.                                     *)
LEMMA OnMessageIs ==
    ASSUME NEW log \in Seq(Nat \ {0}), IsInjective(log), NEW e \in Nat \ {0}
    PROVE  LET new == Room!OnMessage(log, e)
           IN  new \in Seq(Nat \ {0}) /\ IsInjective(new) /\ \A f : Holds(new, f) <=> Holds(log, f) \/ f = e
<1> DEFINE new == Room!OnMessage(log, e)
<1>1. e \in Room!ToSet(log) <=> Holds(log, e) BY DEF Room!ToSet, Holds
<1>2. CASE Holds(log, e) BY <1>1, <1>2 DEF Room!OnMessage
<1>3. CASE ~Holds(log, e)
  <2>1. new = Append(log, e) BY <1>1, <1>3 DEF Room!OnMessage
  <2> HIDE DEF new
  <2>2. Len(log) \in Nat /\ DOMAIN log = 1 .. Len(log) OBVIOUS
  <2>3. /\ new \in Seq(Nat \ {0}) /\ DOMAIN new = 1 .. Len(log) + 1 /\ new[Len(log) + 1] = e
        /\ \A k \in DOMAIN log : k \in DOMAIN new /\ new[k] = log[k]
    BY <2>1, <2>2
  <2>4. \A k \in DOMAIN new : k = Len(log) + 1 \/ k \in DOMAIN log BY <2>2, <2>3
  <2>5. Len(log) + 1 \in DOMAIN new BY <2>2, <2>3
  <2>6. \A f : Holds(new, f) <=> Holds(log, f) \/ f = e BY <2>3, <2>4, <2>5 DEF Holds
  <2>7. IsInjective(new) BY <1>3, <2>3, <2>4 DEF IsInjective, Holds
  <2> QED BY <2>3, <2>6, <2>7 DEF new
<1> QED BY <1>2, <1>3

(* A backlog keeps of the log what is later than all of it.                *)
LEMMA OnBacklogIs ==
    ASSUME NEW log \in Seq(Nat \ {0}), IsInjective(log), NEW es \in Seq(Nat \ {0}), IsInjective(es)
    PROVE  LET new == Room!OnBacklog(log, es)
           IN  /\ new \in Seq(Nat \ {0}) /\ IsInjective(new)
               /\ \A e : Holds(es, e) => Holds(new, e)
               /\ \A e : Holds(new, e) => Holds(es, e) \/ Holds(log, e)
               /\ \A e : Holds(log, e) /\ (\A k \in DOMAIN es : es[k] < e) => Holds(new, e)
<1> DEFINE D == Nat \ {0}
           newest == IF es = <<>> THEN 0 ELSE Room!Last(es)
           S == {e \in Room!ToSet(log) : e \notin Room!ToSet(es) /\ e > newest}
           w == Room!Among(log, S)
           new == Room!OnBacklog(log, es)
<1>0. /\ Len(log) \in Nat /\ DOMAIN log = 1 .. Len(log) /\ Len(es) \in Nat /\ DOMAIN es = 1 .. Len(es)
      /\ log \in Seq(D) /\ es \in Seq(D)
  OBVIOUS
<1>1. new = es \o w BY DEF Room!OnBacklog
<1>2. \A e : e \in S <=> Holds(log, e) /\ ~Holds(es, e) /\ e > newest BY DEF Room!ToSet, Holds
<1>3. newest = 0 \/ \E k \in DOMAIN es : newest = es[k]
  <2>1. CASE es = <<>> BY <2>1
  <2>2. CASE es # <<>>
    <3>1. Len(es) \in DOMAIN es BY <1>0, <2>2
    <3> QED BY <2>2, <3>1 DEF Room!Last
  <2> QED BY <2>1, <2>2
<1> HIDE DEF newest, S, new, D
<1>4. Remains(D, log, S, w, Len(log)) BY <1>0, AmongIs
<1> HIDE DEF w
<1>5. w \in Seq(D) /\ Len(w) \in Nat /\ DOMAIN w = 1 .. Len(w) BY <1>4 DEF Remains
<1>6. \A e : Holds(w, e) <=> e \in S
  <2>1. ASSUME NEW e, Holds(w, e) PROVE e \in S BY <1>4, <2>1 DEF Remains, Holds
  <2>2. ASSUME NEW e, e \in S PROVE Holds(w, e)
    <3>1. PICK k \in 1 .. Len(log) : log[k] = e BY <1>0, <1>2, <2>2 DEF Holds
    <3>2. \E j \in DOMAIN w : w[j] = log[k] BY <1>4, <2>2, <3>1 DEF Remains
    <3> QED BY <3>1, <3>2 DEF Holds
  <2> QED BY <2>1, <2>2
<1>7. \A j, l \in DOMAIN w : w[j] = w[l] => j = l
  <2> SUFFICES ASSUME NEW j \in DOMAIN w, NEW l \in DOMAIN w, j < l PROVE w[j] # w[l] BY <1>5
  <2>1. PICK k \in 1 .. Len(log), m \in 1 .. Len(log) : k < m /\ w[j] = log[k] /\ w[l] = log[m]
    BY <1>4 DEF Remains
  <2>2. k # m /\ k \in DOMAIN log /\ m \in DOMAIN log BY <1>0, <2>1
  <2>3. log[k] # log[m] BY <2>2 DEF IsInjective
  <2> QED BY <2>1, <2>3
<1>8. /\ new \in Seq(D) /\ DOMAIN new = 1 .. Len(es) + Len(w)
      /\ \A k \in DOMAIN es : k \in DOMAIN new /\ new[k] = es[k]
      /\ \A k \in DOMAIN w : Len(es) + k \in DOMAIN new /\ new[Len(es) + k] = w[k]
  <2>1. new \in Seq(D) /\ Len(new) = Len(es) + Len(w) BY <1>0, <1>1, <1>5, ConcatProperties
  <2>2. \A k \in 1 .. Len(es) + Len(w) : new[k] = IF k <= Len(es) THEN es[k] ELSE w[k - Len(es)]
    BY <1>0, <1>1, <1>5, ConcatProperties
  <2>3. DOMAIN new = 1 .. Len(es) + Len(w) BY <2>1
  <2>4. \A k \in DOMAIN es : k \in 1 .. Len(es) + Len(w) /\ k <= Len(es) BY <1>0, <1>5
  <2>5. \A k \in DOMAIN w : Len(es) + k \in 1 .. Len(es) + Len(w) /\ ~ (Len(es) + k <= Len(es)) /\ (Len(es) + k) - Len(es) = k
    BY <1>0, <1>5
  <2> QED BY <2>1, <2>2, <2>3, <2>4, <2>5
<1>9. \A k \in DOMAIN new : k \in DOMAIN es \/ \E j \in DOMAIN w : k = Len(es) + j
  <2> SUFFICES ASSUME NEW k \in DOMAIN new, k \notin DOMAIN es PROVE \E j \in DOMAIN w : k = Len(es) + j OBVIOUS
  <2>1. k - Len(es) \in DOMAIN w /\ k = Len(es) + (k - Len(es)) BY <1>0, <1>5, <1>8
  <2> QED BY <2>1
<1>10. \A e : Holds(new, e) <=> Holds(es, e) \/ Holds(w, e) BY <1>8, <1>9 DEF Holds
<1>11. IsInjective(new)
  <2> SUFFICES ASSUME NEW j \in DOMAIN new, NEW k \in DOMAIN new, new[j] = new[k] PROVE j = k BY DEF IsInjective
  <2>1. \A a \in DOMAIN es, b \in DOMAIN w : es[a] # w[b] BY <1>2, <1>6 DEF Holds
  <2>2. CASE j \in DOMAIN es /\ k \in DOMAIN es BY <1>8, <2>2 DEF IsInjective
  <2>3. CASE j \in DOMAIN es /\ k \notin DOMAIN es BY <1>8, <1>9, <2>1, <2>3
  <2>4. CASE j \notin DOMAIN es /\ k \in DOMAIN es BY <1>8, <1>9, <2>1, <2>4
  <2>5. CASE j \notin DOMAIN es /\ k \notin DOMAIN es BY <1>7, <1>8, <1>9, <2>5
  <2> QED BY <2>2, <2>3, <2>4, <2>5
<1>12. ASSUME NEW e, Holds(log, e), \A k \in DOMAIN es : es[k] < e PROVE Holds(new, e)
  <2>1. e \in Nat /\ e # 0 BY <1>0, <1>12 DEF Holds, D
  <2>2. \A k \in DOMAIN es : es[k] \in Nat BY <1>0 DEF D
  <2>3. ~Holds(es, e) BY <1>12, <2>1, <2>2 DEF Holds
  <2>4. e > newest BY <1>3, <1>12, <2>1, <2>2
  <2> QED BY <1>2, <1>6, <1>10, <1>12, <2>3, <2>4
<1> QED BY <1>2, <1>6, <1>8, <1>10, <1>11, <1>12 DEF new, D

-----------------------------------------------------------------------------
(* What goes to the tab, and what is said of it: an honest backlog is of   *)
(* entries of the store, each once, and none of the latest is missing that *)
(* comes before one of its own, but those overtaken in the store.          *)
Posted == Nat \ {0}
Sayings == [action : {"chat_backlog"}, entries : Seq(Posted)] \cup [action : {"chat_message"}, entry : Posted]

Owed(S, over)      == LatestOf(S) \ over
Honest(s, S, over) == /\ s \in Seq(Posted) /\ IsInjective(s) /\ \A e : Holds(s, e) => e \in S
                      /\ \A e \in Owed(S, over) : Holds(s, e) \/ \A k \in DOMAIN s : s[k] < e
Carries(m, e)      == IF m.action = "chat_backlog" THEN Holds(m.entries, e) ELSE m.entry = e
True(m, S, over)   == IF m.action = "chat_backlog" THEN Honest(m.entries, S, over) ELSE m.entry \in S

RoomTyped ==
    /\ made \in Nat /\ saving \subseteq 1 .. made /\ store \subseteq 1 .. made /\ saved \subseteq store
    /\ entries \in Seq(Posted) /\ IsInjective(entries) /\ \A e : Holds(entries, e) => e \in store
Answers ==
    /\ asked = <<>> \/ \E s : asked = <<s>> /\ Honest(s, store, overtaken)
    /\ wire \in Seq(Sayings) /\ \A k \in DOMAIN wire : True(wire[k], store, overtaken)
(* A tab that is in the room shows each of the latest entries, or it is on *)
(* its way: not broadcast yet, sent, or in a backlog read for it.          *)
Coming ==
    member => \A e \in Owed(store, overtaken) :
        \/ e \in saved \/ Holds(entries, e)
        \/ \E k \in DOMAIN wire : Carries(wire[k], e)
        \/ \E k \in DOMAIN asked : Holds(asked[k], e)
RoomInv == RoomTyped /\ Answers /\ Coming

LEMMA RoomInit == Room!Init => RoomInv
<1> SUFFICES ASSUME Room!Init PROVE RoomInv OBVIOUS
<1>1. /\ made = 0 /\ saving = {} /\ store = {} /\ saved = {} /\ overtaken = {}
      /\ member = FALSE /\ asked = <<>> /\ wire = <<>> /\ entries = <<>>
  BY DEF Room!Init
<1>2. RoomTyped BY <1>1 DEF RoomTyped, Holds, IsInjective
<1>3. Answers
  <2>1. wire \in Seq(Sayings) /\ DOMAIN wire = {} BY <1>1
  <2> QED BY <1>1, <2>1 DEF Answers
<1>4. Coming BY <1>1 DEF Coming
<1> QED BY <1>2, <1>3, <1>4 DEF RoomInv

LEMMA StoreIsFinite == ASSUME RoomTyped PROVE IsFiniteSet(store) /\ store \subseteq Posted
<1>1. made \in Nat /\ store \subseteq 1 .. made BY DEF RoomTyped
<1>2. IsFiniteSet(1 .. made) BY <1>1, FS_Interval
<1>3. IsFiniteSet(store) BY <1>1, <1>2, FS_Subset
<1> QED BY <1>1, <1>3 DEF Posted

LEMMA RoomShows == RoomInv => Room!LogIsTrue
<1> SUFFICES ASSUME RoomInv PROVE Room!LogIsTrue OBVIOUS
<1>1. RoomTyped /\ Answers /\ Coming BY DEF RoomInv
<1>2. Room!IsInjective(entries) /\ Room!ToSet(entries) \subseteq store
  BY <1>1 DEF RoomTyped, Room!ToSet, Holds, Room!IsInjective, IsInjective
<1>3. ASSUME Room!Quiet PROVE Room!ToSet(Room!Recent) \subseteq Room!ToSet(entries) \cup overtaken
  <2>1. member /\ asked = <<>> /\ wire = <<>> /\ saved = {} BY <1>3 DEF Room!Quiet
  <2>2. DOMAIN asked = {} /\ DOMAIN wire = {} BY <2>1
  <2>3. store \subseteq Nat /\ IsFiniteSet(store) BY <1>1, StoreIsFinite DEF Posted
  <2>4. \A e : Holds(Room!Recent, e) <=> e \in LatestOf(store) BY <2>3, RecentIs
  <2> SUFFICES ASSUME NEW e \in Room!ToSet(Room!Recent), e \notin overtaken PROVE e \in Room!ToSet(entries) OBVIOUS
  <2>5. e \in Owed(store, overtaken) BY <2>4 DEF Room!ToSet, Holds, Owed
  <2>6. Holds(entries, e) BY <1>1, <2>1, <2>2, <2>5 DEF Coming
  <2> QED BY <2>6 DEF Room!ToSet, Holds
<1> QED BY <1>2, <1>3 DEF Room!LogIsTrue

LEMMA SaveKeeps == ASSUME RoomInv, NEW e \in 1 .. made, Room!Save(e) PROVE RoomInv'
<1>1. RoomTyped /\ Answers /\ Coming BY DEF RoomInv
<1>2. /\ e \in saving /\ saving' = saving \ {e} /\ store' = store \cup {e} /\ saved' = saved \cup {e}
      /\ overtaken' = IF \E f \in store : f > e THEN overtaken \cup {e} ELSE overtaken
      /\ made' = made /\ member' = member /\ asked' = asked /\ wire' = wire /\ entries' = entries
  BY DEF Room!Save, Room!page
<1>3. RoomTyped'
  <2>1. store' \subseteq 1 .. made BY <1>1, <1>2 DEF RoomTyped
  <2> QED BY <1>1, <1>2, <2>1 DEF RoomTyped
<1>4. ASSUME NEW g \in Owed(store', overtaken') PROVE g \in Owed(store, overtaken) \/ (g = e /\ \A f \in store : ~ (f > e))
  <2>1. g \in LatestOf(store') /\ g \notin overtaken' /\ g \in store' BY DEF Owed, LatestOf
  <2>2. CASE g \in store
    <3>1. IsFiniteSet(store')
      <4>1. RoomTyped' => IsFiniteSet(store')
        <5>1. ASSUME RoomTyped' PROVE IsFiniteSet(store')
          <6>1. made' \in Nat /\ store' \subseteq 1 .. made' BY <5>1 DEF RoomTyped
          <6>2. IsFiniteSet(1 .. made') BY <6>1, FS_Interval
          <6> QED BY <6>1, <6>2, FS_Subset
        <5> QED BY <5>1
      <4> QED BY <4>1, <1>3
    <3>2. store \in SUBSET store' BY <1>2
    <3>3. g \in LatestOf(store) BY <2>1, <2>2, <3>1, <3>2, LatestShrinks
    <3>4. g \notin overtaken BY <1>2, <2>1
    <3> QED BY <3>3, <3>4 DEF Owed
  <2>3. CASE g \notin store
    <3>1. g = e BY <1>2, <2>1, <2>3
    <3> QED BY <3>1, <1>2, <2>1
  <2> QED BY <2>2, <2>3
<1>5. ASSUME NEW s, Honest(s, store, overtaken) PROVE Honest(s, store', overtaken')
  <2>1. s \in Seq(Posted) /\ IsInjective(s) /\ \A f : Holds(s, f) => f \in store BY <1>5 DEF Honest
  <2>2. \A f : Holds(s, f) => f \in store' BY <1>2, <2>1
  <2>3. ASSUME NEW g \in Owed(store', overtaken'), ~Holds(s, g) PROVE \A k \in DOMAIN s : s[k] < g
    <3>1. CASE g \in Owed(store, overtaken) BY <1>5, <2>3, <3>1 DEF Honest
    <3>2. CASE g = e /\ \A f \in store : ~ (f > e)
      <4> SUFFICES ASSUME NEW k \in DOMAIN s PROVE s[k] < g OBVIOUS
      <4>1. s[k] \in store /\ s[k] # g BY <2>1, <2>3 DEF Holds
      <4>2. s[k] \in Nat /\ g \in Nat BY <1>1, <1>2, <3>2, <4>1, StoreIsFinite DEF Posted
      <4> QED BY <3>2, <4>1, <4>2
    <3> QED BY <1>4, <3>1, <3>2
  <2> QED BY <2>1, <2>2, <2>3 DEF Honest
<1>6. Answers'
  <2>1. \A k \in DOMAIN wire : True(wire[k], store', overtaken') BY <1>1, <1>2, <1>5 DEF Answers, True
  <2> QED BY <1>1, <1>2, <1>5, <2>1 DEF Answers
<1>7. Coming' BY <1>1, <1>2, <1>4 DEF Coming
<1> QED BY <1>3, <1>6, <1>7 DEF RoomInv

LEMMA PublishKeeps == ASSUME RoomInv, NEW e \in 1 .. made, Room!Publish(e) PROVE RoomInv'
<1>1. RoomTyped /\ Answers /\ Coming BY DEF RoomInv
<1>2. /\ e \in saved /\ saved' = saved \ {e} /\ wire' = IF member THEN Append(wire, Room!Message(e)) ELSE wire
      /\ made' = made /\ saving' = saving /\ store' = store /\ overtaken' = overtaken
      /\ member' = member /\ asked' = asked /\ entries' = entries
  BY DEF Room!Publish
<1>4. RoomTyped' BY <1>1, <1>2 DEF RoomTyped
<1>5. e \in store /\ e \in Posted BY <1>1, <1>2 DEF RoomTyped, Posted
<1>6. CASE member
  <2>1. Room!Message(e) \in Sayings /\ True(Room!Message(e), store, overtaken) /\ Carries(Room!Message(e), e)
    BY <1>5 DEF Room!Message, Sayings, True, Carries
  <2>2. wire \in Seq(Sayings) BY <1>1 DEF Answers
  <2> HIDE DEF Sayings, Room!Message
  <2>3. /\ wire' \in Seq(Sayings) /\ DOMAIN wire' = DOMAIN wire \cup {Len(wire) + 1}
        /\ wire'[Len(wire) + 1] = Room!Message(e) /\ \A k \in DOMAIN wire : wire'[k] = wire[k]
    BY <1>2, <1>6, <2>1, <2>2
  <2>4. \A k \in DOMAIN wire' : True(wire'[k], store, overtaken) BY <1>1, <2>1, <2>3 DEF Answers
  <2>5. \A k \in DOMAIN wire' : True(wire'[k], store', overtaken') BY <2>4, <1>2
  <2>6. Answers' BY <1>1, <1>2, <2>3, <2>5 DEF Answers
  <2>7. Coming' BY <1>1, <1>2, <2>1, <2>3 DEF Coming
  <2> QED BY <1>4, <2>6, <2>7 DEF RoomInv
<1>7. CASE ~member
  <2>1. wire' = wire BY <1>2, <1>7
  <2>2. Answers' BY <1>1, <1>2, <2>1 DEF Answers
  <2>3. Coming' BY <1>2, <1>7 DEF Coming
  <2> QED BY <1>4, <2>2, <2>3 DEF RoomInv
<1> QED BY <1>6, <1>7

(* A backlog is honest when it is read.                                    *)
LEMMA ReadKeeps ==
    ASSUME RoomInv, Room!Read, UNCHANGED <<Room!room, wire, entries>>
    PROVE  RoomInv'
<1>1. RoomTyped /\ Answers BY DEF RoomInv
<1>2. /\ asked' = <<Room!Recent>> /\ made' = made /\ saving' = saving /\ store' = store /\ saved' = saved
      /\ overtaken' = overtaken /\ wire' = wire /\ entries' = entries
  BY DEF Room!Read, Room!room
<1>4. RoomTyped' BY <1>1, <1>2 DEF RoomTyped
<1>5. store \subseteq Posted /\ IsFiniteSet(store) BY <1>1, StoreIsFinite
<1>6. Room!Recent \in Seq(Nat) /\ IsInjective(Room!Recent) /\ \A e : Holds(Room!Recent, e) <=> e \in LatestOf(store)
  BY <1>5, RecentIs DEF Posted
<1>7. Room!Recent \in Seq(Posted)
  <2>1. \A k \in DOMAIN Room!Recent : Room!Recent[k] \in Posted BY <1>5, <1>6 DEF Holds, LatestOf
  <2>2. Room!Recent \in Seq(Nat) BY <1>6
  <2>3. Len(Room!Recent) \in Nat /\ DOMAIN Room!Recent = 1 .. Len(Room!Recent) /\ Room!Recent = [k \in 1 .. Len(Room!Recent) |-> Room!Recent[k]] BY <2>2
  <2>4. Room!Recent \in [1 .. Len(Room!Recent) -> Posted] BY <2>1, <2>3
  <2> QED BY <2>3, <2>4, SeqDef
<1>8. Honest(Room!Recent, store, overtaken) BY <1>6, <1>7 DEF Honest, Owed, LatestOf
<1>9. Answers' BY <1>1, <1>2, <1>8 DEF Answers
<1>10. Coming'
  <2>1. 1 \in DOMAIN asked' /\ asked'[1] = Room!Recent BY <1>2
  <2>2. \A e \in Owed(store', overtaken') : Holds(Room!Recent, e) BY <1>2, <1>6 DEF Owed
  <2> QED BY <2>1, <2>2 DEF Coming
<1> QED BY <1>4, <1>9, <1>10 DEF RoomInv

LEMMA AnswerKeeps == ASSUME RoomInv, Room!Answer PROVE RoomInv'
<1>1. RoomTyped /\ Answers /\ Coming BY DEF RoomInv
<1>2. /\ asked # <<>> /\ asked' = <<>> /\ wire' = Append(wire, Room!Backlog(Head(asked)))
      /\ made' = made /\ saving' = saving /\ store' = store /\ saved' = saved
      /\ overtaken' = overtaken /\ member' = member /\ entries' = entries
  BY DEF Room!Answer, Room!room
<1>4. RoomTyped' BY <1>1, <1>2 DEF RoomTyped
<1>5. PICK s : asked = <<s>> /\ Honest(s, store, overtaken) BY <1>1, <1>2 DEF Answers
<1> DEFINE m == Room!Backlog(s)
<1>6. m \in Sayings /\ True(m, store, overtaken) /\ \A e : Holds(s, e) => Carries(m, e)
  BY <1>5 DEF Room!Backlog, Sayings, True, Carries, Honest
<1>7. wire' = Append(wire, m) BY <1>2, <1>5
<1>8. wire \in Seq(Sayings) BY <1>1 DEF Answers
<1> HIDE DEF m
<1>9. /\ wire' \in Seq(Sayings) /\ DOMAIN wire' = DOMAIN wire \cup {Len(wire) + 1}
      /\ wire'[Len(wire) + 1] = m /\ \A k \in DOMAIN wire : wire'[k] = wire[k]
  <2> HIDE DEF Sayings
  <2> QED BY <1>6, <1>7, <1>8
<1>10. \A k \in DOMAIN wire' : True(wire'[k], store, overtaken) BY <1>1, <1>6, <1>9 DEF Answers
<1>11. \A k \in DOMAIN wire' : True(wire'[k], store', overtaken') BY <1>10, <1>2
<1>12. Answers' BY <1>2, <1>9, <1>11 DEF Answers
<1>13. Coming'
  <2>1. \A k \in DOMAIN asked : asked[k] = s BY <1>5
  <2> QED BY <1>1, <1>2, <1>6, <1>9, <2>1 DEF Coming
<1> QED BY <1>4, <1>12, <1>13 DEF RoomInv

LEMMA ReceiveKeeps == ASSUME RoomInv, Room!Receive PROVE RoomInv'
<1>1. RoomTyped /\ Answers /\ Coming BY DEF RoomInv
<1> DEFINE m == Head(wire)
<1>2. /\ wire # <<>> /\ wire' = Tail(wire)
      /\ entries' = IF m.action = "chat_backlog" THEN Room!OnBacklog(entries, m.entries) ELSE Room!OnMessage(entries, m.entry)
      /\ made' = made /\ saving' = saving /\ store' = store /\ saved' = saved
      /\ overtaken' = overtaken /\ member' = member /\ asked' = asked
  BY DEF Room!Receive, Room!room
<1>4. wire \in Seq(Sayings) /\ \A k \in DOMAIN wire : True(wire[k], store, overtaken) BY <1>1 DEF Answers
<1>5. /\ wire' \in Seq(Sayings) /\ m = wire[1] /\ m \in Sayings /\ 1 \in DOMAIN wire
      /\ \A k \in DOMAIN wire' : k + 1 \in DOMAIN wire /\ wire'[k] = wire[k + 1]
      /\ \A k \in DOMAIN wire : k # 1 => k - 1 \in DOMAIN wire' /\ wire'[k - 1] = wire[k]
  <2> HIDE DEF Sayings
  <2> QED BY <1>2, <1>4
<1> HIDE DEF m
<1>6. True(m, store, overtaken) BY <1>4, <1>5
<1>7. /\ entries' \in Seq(Posted) /\ IsInjective(entries')
      /\ \A e : Holds(entries', e) => e \in store
      /\ \A e \in Owed(store, overtaken) : Holds(entries, e) \/ Carries(m, e) => Holds(entries', e)
  <2>0. entries \in Seq(Posted) /\ IsInjective(entries) /\ \A e : Holds(entries, e) => e \in store
    BY <1>1 DEF RoomTyped
  <2>1. CASE m.action = "chat_backlog"
    <3> DEFINE s == m.entries
    <3>1. Honest(s, store, overtaken) /\ entries' = Room!OnBacklog(entries, s) BY <1>2, <1>6, <2>1 DEF True
    <3> HIDE DEF s
    <3>2. s \in Seq(Posted) /\ IsInjective(s) BY <3>1 DEF Honest
    <3>3. /\ entries' \in Seq(Posted) /\ IsInjective(entries')
          /\ \A e : Holds(s, e) => Holds(entries', e)
          /\ \A e : Holds(entries', e) => Holds(s, e) \/ Holds(entries, e)
          /\ \A e : Holds(entries, e) /\ (\A k \in DOMAIN s : s[k] < e) => Holds(entries', e)
      BY <2>0, <3>1, <3>2, OnBacklogIs DEF Posted
    <3>4. \A e : Carries(m, e) => Holds(s, e) BY <2>1 DEF Carries, s
    <3>5. \A e : Holds(entries', e) => e \in store BY <2>0, <3>1, <3>3 DEF Honest
    <3>6. \A e \in Owed(store, overtaken) : Holds(entries, e) \/ Carries(m, e) => Holds(entries', e) BY <3>1, <3>3, <3>4 DEF Honest
    <3> QED BY <3>3, <3>5, <3>6
  <2>2. CASE m.action # "chat_backlog"
    <3> DEFINE n == m.entry
    <3>1. n \in store /\ entries' = Room!OnMessage(entries, n) BY <1>2, <1>6, <2>2 DEF True
    <3>2. n \in Posted BY <1>1, <3>1, StoreIsFinite
    <3>3. \A e : Carries(m, e) => e = n BY <2>2 DEF Carries
    <3> HIDE DEF n
    <3>4. /\ entries' \in Seq(Posted) /\ IsInjective(entries')
          /\ \A e : Holds(entries', e) <=> Holds(entries, e) \/ e = n
      BY <2>0, <3>1, <3>2, OnMessageIs DEF Posted
    <3>5. \A e : Holds(entries', e) => e \in store BY <2>0, <3>1, <3>4
    <3>6. \A e \in Owed(store, overtaken) : Holds(entries, e) \/ Carries(m, e) => Holds(entries', e) BY <3>3, <3>4
    <3> QED BY <3>4, <3>5, <3>6
  <2> QED BY <2>1, <2>2
<1>8. RoomTyped' BY <1>1, <1>2, <1>7 DEF RoomTyped
<1>9. \A k \in DOMAIN wire' : True(wire'[k], store, overtaken) BY <1>4, <1>5
<1>10. \A k \in DOMAIN wire' : True(wire'[k], store', overtaken') BY <1>9, <1>2
<1>11. Answers' BY <1>1, <1>2, <1>5, <1>10 DEF Answers
<1>12. Coming'
  <2> SUFFICES ASSUME member, NEW e \in Owed(store, overtaken)
               PROVE  \/ e \in saved \/ Holds(entries', e)
                      \/ \E k \in DOMAIN wire' : Carries(wire'[k], e)
                      \/ \E k \in DOMAIN asked : Holds(asked[k], e)
    BY <1>2 DEF Coming
  <2>1. \/ e \in saved \/ Holds(entries, e)
        \/ \E k \in DOMAIN wire : Carries(wire[k], e)
        \/ \E k \in DOMAIN asked : Holds(asked[k], e)
    BY <1>1 DEF Coming
  <2>2. ASSUME NEW k \in DOMAIN wire, Carries(wire[k], e)
        PROVE  Holds(entries', e) \/ \E j \in DOMAIN wire' : Carries(wire'[j], e)
    <3>1. CASE k = 1 BY <1>5, <1>7, <2>2, <3>1
    <3>2. CASE k # 1 BY <1>5, <2>2, <3>2
    <3> QED BY <3>1, <3>2
  <2> QED BY <1>7, <2>1, <2>2
<1> QED BY <1>8, <1>11, <1>12 DEF RoomInv

LEMMA RoomStep == RoomInv /\ [Room!Next]_(Room!vars) => RoomInv'
<1> SUFFICES ASSUME RoomInv, [Room!Next]_(Room!vars) PROVE RoomInv' OBVIOUS
<1>1. CASE Room!Make
  <2>1. /\ made' = made + 1 /\ saving' = saving \cup {made + 1} /\ store' = store /\ saved' = saved
        /\ overtaken' = overtaken /\ member' = member /\ asked' = asked /\ wire' = wire /\ entries' = entries
    BY <1>1 DEF Room!Make, Room!page
  <2>3. RoomTyped /\ Answers /\ Coming BY DEF RoomInv
  <2>4. RoomTyped'
    <3>1. made \in Nat /\ store \subseteq 1 .. made /\ saving \subseteq 1 .. made BY <2>3 DEF RoomTyped
    <3>2. made + 1 \in Nat /\ store \subseteq 1 .. made + 1 /\ saving \cup {made + 1} \subseteq 1 .. made + 1 BY <3>1
    <3> QED BY <2>1, <2>3, <3>2 DEF RoomTyped
  <2> QED BY <2>1, <2>3, <2>4 DEF RoomInv, Answers, Coming
<1>2. CASE Room!Join BY <1>2, ReadKeeps DEF Room!Join
<1>3. CASE Room!HandleBacklogRequest BY <1>3, ReadKeeps DEF Room!HandleBacklogRequest
<1>4. CASE Room!Answer BY <1>4, AnswerKeeps
<1>5. CASE Room!Drop
  <2>1. /\ made' = made /\ saving' = saving /\ store' = store /\ saved' = saved /\ overtaken' = overtaken
        /\ member' = FALSE /\ asked' = <<>> /\ wire' = <<>> /\ entries' = entries
    BY <1>5 DEF Room!Drop, Room!room
  <2>2. RoomTyped BY DEF RoomInv
  <2>3. wire' \in Seq(Sayings) /\ DOMAIN wire' = {} BY <2>1
  <2> QED BY <2>1, <2>2, <2>3 DEF RoomInv, RoomTyped, Answers, Coming
<1>6. CASE Room!Receive BY <1>6, ReceiveKeeps
<1>7. ASSUME NEW e \in 1 .. made, Room!Save(e) PROVE RoomInv' BY <1>7, SaveKeeps
<1>8. ASSUME NEW e \in 1 .. made, Room!Publish(e) PROVE RoomInv' BY <1>8, PublishKeeps
<1>9. CASE UNCHANGED Room!vars
  <2>1. /\ made' = made /\ saving' = saving /\ store' = store /\ saved' = saved /\ overtaken' = overtaken
        /\ member' = member /\ asked' = asked /\ wire' = wire /\ entries' = entries
    BY <1>9 DEF Room!vars, Room!room, Room!page
  <2> QED BY <2>1 DEF RoomInv, RoomTyped, Answers, Coming
<1> QED BY <1>1, <1>2, <1>3, <1>4, <1>5, <1>6, <1>7, <1>8, <1>9 DEF Room!Next

(* A room's log: no entry twice nor before it is kept by the store, and    *)
(* when all is quiet every one a new tab would be shown, but those that    *)
(* were overtaken in the store, whichever way backlogs and messages cross. *)
THEOREM LogStaysTrue == Spec => []LogIsTrue
<1>1. Init => RoomInv
  BY RoomInit DEF Init
<1>2. RoomInv /\ [Next]_vars => RoomInv'
  <2>1. UNCHANGED chat => UNCHANGED Room!vars
    BY DEF chat, Room!vars, Room!room, Room!page
  <2>2. [Next]_vars => [Room!Next]_(Room!vars)
    BY <2>1 DEF Next, vars, AssistantPanel, SpeechPanel, RecorderOfVoicePanel, CaptionsOfVoicePanel,
                ChatOfRoomPanel, NotificationPanel, RosterOfRoomPanel, AgentPanel
  <2> QED BY <2>2, RoomStep
<1>3. RoomInv => LogIsTrue
  BY RoomShows DEF LogIsTrue
<1> QED BY <1>1, <1>2, <1>3, PTL DEF Spec

-----------------------------------------------------------------------------
DictationProofs == INSTANCE RecorderProofs WITH online <- linkUp, drops <- cuts, current <- recording
SpeechProofs    == INSTANCE PlayerProofs WITH Chunks <- MaxUnits, wire <- audio, stops <- clears,
                                              page <- player, heard <- units

(* The recorder: for the recording shown and for no other a device         *)
(* captures, whatever is said, lost or left meanwhile.                     *)
THEOREM MicrophoneIsFreed == Spec => []MicrophoneIsShown
<1>1. Init => DictationProofs!Init
  BY DEF Init, Dictation!Init, DictationProofs!Init, Dictation!None, DictationProofs!None,
         Dictation!R, DictationProofs!R, Dictation!NoDevice, DictationProofs!NoDevice,
         Dictation!NoSession, DictationProofs!NoSession
<1>2. Dictation!Next => DictationProofs!Next
  <2>1. Dictation!Start => DictationProofs!Start
    BY DEF Dictation!Start, DictationProofs!Start, Dictation!Enabled, DictationProofs!Enabled,
           Dictation!R, DictationProofs!R, Dictation!Started, DictationProofs!Started,
           Dictation!socket, DictationProofs!socket, Dictation!topic, DictationProofs!topic
  <2>2. Dictation!Stop => DictationProofs!Stop
    BY DEF Dictation!Stop, DictationProofs!Stop, Dictation!Enabled, DictationProofs!Enabled,
           Dictation!Halt, DictationProofs!Halt, Dictation!topic, DictationProofs!topic,
           Dictation!Idle, DictationProofs!Idle, Dictation!Released, DictationProofs!Released,
           Dictation!Send, DictationProofs!Send, Dictation!LastWords, DictationProofs!LastWords,
           Dictation!AudioEnd, DictationProofs!AudioEnd, Dictation!None, DictationProofs!None,
           Dictation!Off, DictationProofs!Off, Dictation!Chunks, DictationProofs!Chunks,
           Dictation!Flush, DictationProofs!Flush, Dictation!Chunked, DictationProofs!Chunked,
           Dictation!Numbered, DictationProofs!Numbered, Dictation!AudioChunk,
           DictationProofs!AudioChunk
  <2>3. Dictation!Unmount => DictationProofs!Unmount
    BY DEF Dictation!Unmount, DictationProofs!Unmount, Dictation!Halt, DictationProofs!Halt,
           Dictation!Leave, DictationProofs!Leave, Dictation!Send, DictationProofs!Send,
           Dictation!topic, DictationProofs!topic, Dictation!Idle, DictationProofs!Idle,
           Dictation!Released, DictationProofs!Released, Dictation!LastWords,
           DictationProofs!LastWords, Dictation!AudioEnd, DictationProofs!AudioEnd, Dictation!None,
           DictationProofs!None, Dictation!Off, DictationProofs!Off, Dictation!Chunks,
           DictationProofs!Chunks, Dictation!Flush, DictationProofs!Flush, Dictation!Chunked,
           DictationProofs!Chunked, Dictation!Numbered, DictationProofs!Numbered,
           Dictation!AudioChunk, DictationProofs!AudioChunk
  <2>4. Dictation!TranscriberError => DictationProofs!TranscriberError
    BY DEF Dictation!TranscriberError, DictationProofs!TranscriberError, Dictation!Idle,
           DictationProofs!Idle, Dictation!Released, DictationProofs!Released, Dictation!Send,
           DictationProofs!Send, Dictation!LastWords, DictationProofs!LastWords, Dictation!None,
           DictationProofs!None, Dictation!topic, DictationProofs!topic, Dictation!Off,
           DictationProofs!Off, Dictation!Chunks, DictationProofs!Chunks, Dictation!Flush,
           DictationProofs!Flush, Dictation!Chunked, DictationProofs!Chunked, Dictation!Numbered,
           DictationProofs!Numbered, Dictation!AudioChunk, DictationProofs!AudioChunk
  <2>5. \A r : Dictation!Granted(r) => DictationProofs!Granted(r)
    BY DEF Dictation!Granted, DictationProofs!Granted, Dictation!socket, DictationProofs!socket,
           Dictation!topic, DictationProofs!topic
  <2>6. \A r : Dictation!OpenFails(r) => DictationProofs!OpenFails(r)
    BY DEF Dictation!OpenFails, DictationProofs!OpenFails, Dictation!socket, DictationProofs!socket,
           Dictation!topic, DictationProofs!topic
  <2>7. \A r : Dictation!OpenReturns(r) => DictationProofs!OpenReturns(r)
    BY DEF Dictation!OpenReturns, DictationProofs!OpenReturns, Dictation!Off, DictationProofs!Off,
           Dictation!Chunked, DictationProofs!Chunked, Dictation!Send, DictationProofs!Send,
           Dictation!AudioStart, DictationProofs!AudioStart, Dictation!Chunks,
           DictationProofs!Chunks, Dictation!topic, DictationProofs!topic, Dictation!Flush,
           DictationProofs!Flush, Dictation!Numbered, DictationProofs!Numbered,
           Dictation!AudioChunk, DictationProofs!AudioChunk
  <2>8. \A r : Dictation!Captured(r) => DictationProofs!Captured(r)
    BY DEF Dictation!Captured, DictationProofs!Captured, Dictation!Fills, DictationProofs!Fills,
           Dictation!Outputs, DictationProofs!Outputs, Dictation!Chunked, DictationProofs!Chunked,
           Dictation!Whole, DictationProofs!Whole, Dictation!Position, DictationProofs!Position,
           Dictation!Rest, DictationProofs!Rest, Dictation!Send, DictationProofs!Send,
           Dictation!Chunks, DictationProofs!Chunks, Dictation!topic, DictationProofs!topic,
           Dictation!CeilDiv, DictationProofs!CeilDiv, Dictation!Numbered, DictationProofs!Numbered,
           Dictation!AudioChunk, DictationProofs!AudioChunk
  <2>9. Dictation!Handle => DictationProofs!Handle
    BY DEF Dictation!Handle, DictationProofs!Handle, Dictation!HandleStart,
           DictationProofs!HandleStart, Dictation!HandleChunk, DictationProofs!HandleChunk,
           Dictation!HandleEnd, DictationProofs!HandleEnd, Dictation!CloseSession,
           DictationProofs!CloseSession, Dictation!page, DictationProofs!page, Dictation!R,
           DictationProofs!R, Dictation!NoSession, DictationProofs!NoSession, Dictation!Accepts,
           DictationProofs!Accepts, Dictation!Took, DictationProofs!Took, Dictation!Tell,
           DictationProofs!Tell, Dictation!AudioEnd, DictationProofs!AudioEnd, Dictation!None,
           DictationProofs!None, Dictation!Fed, DictationProofs!Fed
  <2>10. \A r : Dictation!Abandon(r) => DictationProofs!Abandon(r)
    BY DEF Dictation!Abandon, DictationProofs!Abandon, Dictation!None, DictationProofs!None,
           Dictation!Tell, DictationProofs!Tell, Dictation!page, DictationProofs!page
  <2>11. \A r : Dictation!Opened(r) => DictationProofs!Opened(r)
    BY DEF Dictation!Opened, DictationProofs!Opened, Dictation!Live, DictationProofs!Live,
           Dictation!page, DictationProofs!page, Dictation!socket, DictationProofs!socket,
           Dictation!End, DictationProofs!End, Dictation!AudioEnd, DictationProofs!AudioEnd
  <2>12. \A r : Dictation!Over(r) => DictationProofs!Over(r)
    BY DEF Dictation!Over, DictationProofs!Over, Dictation!None, DictationProofs!None,
           Dictation!Tell, DictationProofs!Tell, Dictation!page, DictationProofs!page
  <2>13. Dictation!Drop => DictationProofs!Drop
    BY DEF Dictation!Drop, DictationProofs!Drop, Dictation!CloseSession,
           DictationProofs!CloseSession, Dictation!page, DictationProofs!page, Dictation!None,
           DictationProofs!None
  <2>14. Dictation!Rejoin => DictationProofs!Rejoin
    BY DEF Dictation!Rejoin, DictationProofs!Rejoin, Dictation!page, DictationProofs!page,
           Dictation!topic, DictationProofs!topic
  <2> QED BY <2>1, <2>2, <2>3, <2>4, <2>5, <2>6, <2>7, <2>8, <2>9, <2>10, <2>11, <2>12, <2>13, <2>14
          DEF Dictation!Next, DictationProofs!Next, Dictation!R, DictationProofs!R
<1>3. UNCHANGED dictation => UNCHANGED DictationProofs!vars
  BY DEF dictation, DictationProofs!vars, DictationProofs!page, DictationProofs!socket,
         DictationProofs!topic
<1>4. [Next]_vars => [DictationProofs!Next]_(DictationProofs!vars)
  BY <1>2, <1>3 DEF Next, vars, RecorderOfVoicePanel, SpeechPanel, CaptionsOfVoicePanel,
                    ChatOfRoomPanel, NotificationPanel, RosterOfRoomPanel, AgentPanel,
                           AssistantPanel
<1>5. DictationProofs!MicrophoneIsShown => MicrophoneIsShown
  BY DEF MicrophoneIsShown, Dictation!MicrophoneIsShown, DictationProofs!MicrophoneIsShown,
         Dictation!R, DictationProofs!R, Dictation!None, DictationProofs!None
<1>6. DictationProofs!Spec => []DictationProofs!MicrophoneIsShown
  BY DictationConstants, DictationProofs!NoDeviceIsLeftOn
<1> QED BY <1>1, <1>4, <1>5, <1>6, PTL DEF Spec, DictationProofs!Spec

-----------------------------------------------------------------------------
(* The player: nothing sounds of what was silenced, cleared or left.       *)
THEOREM NothingStoppedSounds == Spec => []StoppedIsSilent
<1>1. Init => SpeechProofs!Init
  BY DEF Init, Speech!Init, SpeechProofs!Init, Speech!Emptied, SpeechProofs!Emptied,
         Speech!Utterances,
         SpeechProofs!Utterances
<1>2. Speech!Next => SpeechProofs!Next
  <2>1. Speech!Begin => SpeechProofs!Begin
    BY DEF Speech!Begin, SpeechProofs!Begin, Speech!Tell, SpeechProofs!Tell, Speech!Start,
           SpeechProofs!Start, Speech!tabVars, SpeechProofs!tabVars, Speech!worklet,
           SpeechProofs!worklet, Speech!history, SpeechProofs!history
  <2>2. Speech!Produce => SpeechProofs!Produce
    BY DEF Speech!Produce, SpeechProofs!Produce, Speech!Tell, SpeechProofs!Tell, Speech!Chunk,
           SpeechProofs!Chunk, Speech!tabVars, SpeechProofs!tabVars, Speech!worklet,
           SpeechProofs!worklet, Speech!history, SpeechProofs!history
  <2>3. Speech!Finish => SpeechProofs!Finish
    BY DEF Speech!Finish, SpeechProofs!Finish, Speech!Tell, SpeechProofs!Tell, Speech!End,
           SpeechProofs!End, Speech!tabVars, SpeechProofs!tabVars, Speech!worklet,
           SpeechProofs!worklet, Speech!history, SpeechProofs!history
  <2>4. Speech!Forget => SpeechProofs!Forget
    BY DEF Speech!Forget, SpeechProofs!Forget, Speech!tabVars, SpeechProofs!tabVars, Speech!worklet,
           SpeechProofs!worklet, Speech!history, SpeechProofs!history
  <2>5. Speech!CutShort => SpeechProofs!CutShort
    BY DEF Speech!CutShort, SpeechProofs!CutShort, Speech!worklet, SpeechProofs!worklet,
           Speech!history, SpeechProofs!history
  <2>6. Speech!TellClear => SpeechProofs!TellClear
    BY DEF Speech!TellClear, SpeechProofs!TellClear, Speech!Tell, SpeechProofs!Tell, Speech!Clear,
           SpeechProofs!Clear, Speech!tabVars, SpeechProofs!tabVars, Speech!worklet,
           SpeechProofs!worklet, Speech!history, SpeechProofs!history
  <2>7. Speech!Drop => SpeechProofs!Drop
    BY DEF Speech!Drop, SpeechProofs!Drop, Speech!server, SpeechProofs!server, Speech!worklet,
           SpeechProofs!worklet, Speech!history, SpeechProofs!history
  <2>8. Speech!Rejoin => SpeechProofs!Rejoin
    BY DEF Speech!Rejoin, SpeechProofs!Rejoin, Speech!Buffer, SpeechProofs!Buffer, Speech!server,
           SpeechProofs!server, Speech!worklet, SpeechProofs!worklet, Speech!Start,
           SpeechProofs!Start, Speech!Chunk, SpeechProofs!Chunk, Speech!End, SpeechProofs!End
  <2>9. Speech!Stop => SpeechProofs!Stop
    BY DEF Speech!Stop, SpeechProofs!Stop, Speech!Shown, SpeechProofs!Shown, Speech!CutShort,
           SpeechProofs!CutShort, Speech!worklet, SpeechProofs!worklet, Speech!history,
           SpeechProofs!history
  <2>10. Speech!Receive => SpeechProofs!Receive
    BY DEF Speech!Receive, SpeechProofs!Receive, Speech!Handle, SpeechProofs!Handle, Speech!Clear,
           SpeechProofs!Clear, Speech!Stopped, SpeechProofs!Stopped, Speech!Unreported,
           SpeechProofs!Unreported, Speech!Over, SpeechProofs!Over, Speech!server,
           SpeechProofs!server, Speech!worklet, SpeechProofs!worklet, Speech!OnStart,
           SpeechProofs!OnStart, Speech!OnChunk, SpeechProofs!OnChunk, Speech!OnEnd,
           SpeechProofs!OnEnd, Speech!Silenced, SpeechProofs!Silenced, Speech!Dropping,
           SpeechProofs!Dropping, Speech!Larger, SpeechProofs!Larger, Speech!Longer,
           SpeechProofs!Longer, Speech!Written, SpeechProofs!Written, Speech!Drained,
           SpeechProofs!Drained, Speech!Mark, SpeechProofs!Mark, Speech!Without,
           SpeechProofs!Without, Speech!DropAll, SpeechProofs!DropAll, Speech!Utterances,
           SpeechProofs!Utterances, Speech!PlayedOf, SpeechProofs!PlayedOf, Speech!Emptied,
           SpeechProofs!Emptied, Speech!Smaller, SpeechProofs!Smaller
  <2>11. Speech!SpeakerOpens => SpeechProofs!SpeakerOpens
    <3>1. Speech!FoldLeft(Speech!Handle, player, pending) =
           SpeechProofs!FoldLeft(SpeechProofs!Handle, player, pending)
      BY Zenon DEF Speech!FoldLeft, SpeechProofs!FoldLeft, Speech!Max, SpeechProofs!Max,
             Speech!MapThenFoldSet, SpeechProofs!MapThenFoldSet, Speech!Handle, SpeechProofs!Handle,
             Speech!OnStart, SpeechProofs!OnStart, Speech!OnChunk, SpeechProofs!OnChunk,
             Speech!OnEnd, SpeechProofs!OnEnd, Speech!Silenced, SpeechProofs!Silenced,
             Speech!Longer, SpeechProofs!Longer, Speech!Written, SpeechProofs!Written,
             Speech!Drained, SpeechProofs!Drained, Speech!Mark, SpeechProofs!Mark, Speech!Without,
             SpeechProofs!Without, Speech!DropAll, SpeechProofs!DropAll, Speech!Utterances,
             SpeechProofs!Utterances, Speech!Larger, SpeechProofs!Larger, Speech!PlayedOf,
             SpeechProofs!PlayedOf, Speech!Emptied, SpeechProofs!Emptied, Speech!Smaller,
             SpeechProofs!Smaller
    <3> QED
      BY <3>1 DEF Speech!SpeakerOpens, SpeechProofs!SpeakerOpens, Speech!OpenSpeaker,
             SpeechProofs!OpenSpeaker, Speech!Clear, SpeechProofs!Clear, Speech!server,
             SpeechProofs!server, Speech!worklet, SpeechProofs!worklet
  <2>12. Speech!SpeakerFails => SpeechProofs!SpeakerFails
    BY DEF Speech!SpeakerFails, SpeechProofs!SpeakerFails, Speech!OpenSpeaker,
           SpeechProofs!OpenSpeaker, Speech!server, SpeechProofs!server, Speech!worklet,
           SpeechProofs!worklet, Speech!history, SpeechProofs!history
  <2>13. Speech!Unlock => SpeechProofs!Unlock
    BY DEF Speech!Unlock, SpeechProofs!Unlock, Speech!Shown, SpeechProofs!Shown, Speech!server,
           SpeechProofs!server, Speech!worklet, SpeechProofs!worklet, Speech!history,
           SpeechProofs!history
  <2>14. Speech!Silence => SpeechProofs!Silence
    BY DEF Speech!Silence, SpeechProofs!Silence, Speech!Silenced, SpeechProofs!Silenced,
           Speech!Stopped, SpeechProofs!Stopped, Speech!Unreported, SpeechProofs!Unreported,
           Speech!server, SpeechProofs!server, Speech!worklet, SpeechProofs!worklet, Speech!DropAll,
           SpeechProofs!DropAll, Speech!Dropping, SpeechProofs!Dropping, Speech!Larger,
           SpeechProofs!Larger, Speech!Mark, SpeechProofs!Mark, Speech!Emptied,
           SpeechProofs!Emptied, Speech!Utterances, SpeechProofs!Utterances, Speech!PlayedOf,
           SpeechProofs!PlayedOf, Speech!Smaller, SpeechProofs!Smaller
  <2>15. Speech!Unmount => SpeechProofs!Unmount
    BY DEF Speech!Unmount, SpeechProofs!Unmount, Speech!DropAll, SpeechProofs!DropAll,
           Speech!Stopped, SpeechProofs!Stopped, Speech!Unreported, SpeechProofs!Unreported,
           Speech!server, SpeechProofs!server, Speech!Mark, SpeechProofs!Mark, Speech!Emptied,
           SpeechProofs!Emptied, Speech!Dropping, SpeechProofs!Dropping, Speech!Larger,
           SpeechProofs!Larger, Speech!Utterances, SpeechProofs!Utterances, Speech!PlayedOf,
           SpeechProofs!PlayedOf, Speech!Smaller, SpeechProofs!Smaller
  <2>16. Speech!OnPlayed => SpeechProofs!OnPlayed
    BY DEF Speech!OnPlayed, SpeechProofs!OnPlayed, Speech!Without, SpeechProofs!Without,
           Speech!Done, SpeechProofs!Done, Speech!Mark, SpeechProofs!Mark, Speech!Over,
           SpeechProofs!Over, Speech!server, SpeechProofs!server, Speech!Utterances,
           SpeechProofs!Utterances, Speech!Larger, SpeechProofs!Larger, Speech!PlayedOf,
           SpeechProofs!PlayedOf, Speech!Dropping, SpeechProofs!Dropping, Speech!Smaller,
           SpeechProofs!Smaller
  <2>17. Speech!Process => SpeechProofs!Process
    BY DEF Speech!Process, SpeechProofs!Process, Speech!Ready, SpeechProofs!Ready, Speech!Larger,
           SpeechProofs!Larger, Speech!server, SpeechProofs!server
  <2>18. Speech!Report => SpeechProofs!Report
    BY DEF Speech!Report, SpeechProofs!Report, Speech!server, SpeechProofs!server, Speech!history,
           SpeechProofs!history
  <2> QED BY <2>1, <2>2, <2>3, <2>4, <2>5, <2>6, <2>7, <2>8, <2>9, <2>10, <2>11, <2>12, <2>13,
         <2>14, <2>15, <2>16, <2>17, <2>18 DEF Speech!Next, SpeechProofs!Next, Speech!Server,
         SpeechProofs!Server, Speech!Socket, SpeechProofs!Socket, Speech!Page, SpeechProofs!Page,
         Speech!Device, SpeechProofs!Device
<1>3. UNCHANGED speech => UNCHANGED SpeechProofs!vars
  BY DEF speech, SpeechProofs!vars, SpeechProofs!server, SpeechProofs!worklet, SpeechProofs!history
<1>4. [Next]_vars => [SpeechProofs!Next]_(SpeechProofs!vars)
  BY <1>2, <1>3 DEF Next, vars, SpeechPanel, RecorderOfVoicePanel, CaptionsOfVoicePanel,
         ChatOfRoomPanel, NotificationPanel, RosterOfRoomPanel, AgentPanel, AssistantPanel
<1>5. SpeechProofs!StoppedIsSilent => StoppedIsSilent
  BY DEF StoppedIsSilent, Speech!StoppedIsSilent, SpeechProofs!StoppedIsSilent
<1>6. SpeechProofs!Spec => []SpeechProofs!StoppedIsSilent
  BY SpeechConstants, DictationConstants, SpeechProofs!NothingStopped
<1> QED BY <1>1, <1>4, <1>5, <1>6, PTL DEF Spec, SpeechProofs!Spec
=============================================================================
