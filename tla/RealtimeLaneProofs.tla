-------------------------- MODULE RealtimeLaneProofs --------------------------
(***************************************************************************)
(* Proofs about EndpointDetector and RealtimeLane: for every setting that     *)
(* DetectorAssumption allows, streams of every length and any number of     *)
(* generations, the utterances of a detector are sound and none is left out  *)
(* that should be there, and so are those that the lanes commit.             *)
(***************************************************************************)
EXTENDS RealtimeLane, FiniteSetTheorems, WellFoundedInduction, TLAPS

-----------------------------------------------------------------------------
(* The recursion over a stream.                                            *)

AfterIs(input, g, m) ==
  g = [i \in 0..m |-> IF i = 0 THEN Unheard ELSE Hear(input, g[i - 1], i)]

\* A set of numbers that holds the first and with each number the next holds all.
LEMMA Counting ==
  ASSUME NEW n \in Nat, NEW S \in SUBSET (0..n), 0 \in S,
         \A m \in 0..n : m \in S /\ m + 1 <= n => m + 1 \in S
  PROVE  S = 0..n
<1> DEFINE T == (0..n) \ S
<1> SUFFICES ASSUME T # {} PROVE FALSE
  OBVIOUS
<1>1. T \in SUBSET Nat
  OBVIOUS
<1>2. PICK m \in T : \A k \in T : <<k, m>> \notin OpToRel(<, Nat)
  <2> HIDE DEF T
  <2> QED
    BY <1>1, NatLessThanWellFounded, WFMin, Zenon
<1>3. m \in 1..n
  OBVIOUS
<1>4. m - 1 \notin T
  <2>1. m - 1 \in Nat /\ m \in Nat /\ m - 1 < m
    BY <1>3
  <2>2. <<m - 1, m>> \in OpToRel(<, Nat)
    BY <2>1 DEF OpToRel
  <2> QED
    BY <1>2, <2>2
<1> QED
  BY <1>3, <1>4

LEMMA AfterExists ==
  ASSUME NEW input, NEW n \in Nat
  PROVE  \E g : AfterIs(input, g, n)
<1> DEFINE S == {m \in 0..n : \E g : AfterIs(input, g, m)}
<1>1. 0 \in S
  <2> DEFINE g == [i \in 0..0 |-> Unheard]
  <2>1. AfterIs(input, g, 0)
    BY DEF AfterIs
  <2> QED
    BY <2>1
<1>2. ASSUME NEW m \in 0..n, m \in S, m + 1 <= n
      PROVE  m + 1 \in S
  <2>1. PICK g : AfterIs(input, g, m)
    BY <1>2
  <2> DEFINE h == [i \in 0..(m + 1) |-> IF i = m + 1 THEN Hear(input, g[m], m + 1) ELSE g[i]]
  <2>2. \A i \in 0..m : h[i] = g[i]
    OBVIOUS
  <2>3. \A i \in 0..(m + 1) :
          h[i] = IF i = 0 THEN Unheard ELSE Hear(input, h[i - 1], i)
    <3> TAKE i \in 0..(m + 1)
    <3>1. CASE i = m + 1
      <4>1. h[i] = Hear(input, g[m], i) /\ h[i - 1] = g[m] /\ i # 0
        BY <2>2, <3>1
      <4> QED
        BY <4>1
    <3>2. CASE i \in 0..m
      <4>1. g[i] = IF i = 0 THEN Unheard ELSE Hear(input, g[i - 1], i)
        BY <2>1, <3>2 DEF AfterIs
      <4>2. h[i] = g[i] /\ (i # 0 => h[i - 1] = g[i - 1])
        BY <2>2, <3>2
      <4> QED
        BY <4>1, <4>2
    <3> QED
      BY <3>1, <3>2
  <2>4. AfterIs(input, h, m + 1)
    BY <2>3 DEF AfterIs
  <2> QED
    BY <1>2, <2>4
<1>3. S = 0..n
  <2> HIDE DEF S
  <2> S \in SUBSET (0..n)
    BY DEF S
  <2> QED
    BY <1>1, <1>2, Counting
<1> QED
  BY <1>3

\* After each frame the handler holds what that frame makes of what it held.
LEMMA AfterSteps ==
  ASSUME NEW n \in Nat, NEW input \in [1..n -> Frames]
  PROVE  /\ After(input)[0] = Unheard
         /\ \A i \in 1..n : After(input)[i] = Hear(input, After(input)[i - 1], i)
<1>1. Len(input) = n
  OBVIOUS
<1>2. After(input) = CHOOSE g : AfterIs(input, g, n)
  BY <1>1 DEF After, AfterIs
<1>3. AfterIs(input, After(input), n)
  BY <1>2, AfterExists
<1> QED
  BY <1>3 DEF AfterIs
-----------------------------------------------------------------------------
(* Unbroken frames f..l, as a detector keeps them.                         *)

Run(f, l) == [i \in 1..(l - f + 1) |-> f + i - 1]

\* Sequences of one length with the same elements are one.
LEMMA SameElements ==
  ASSUME NEW s \in Seq(Nat), NEW t \in Seq(Nat), Len(s) = Len(t),
         \A i \in 1..Len(s) : s[i] = t[i]
  PROVE  s = t
OBVIOUS

LEMMA RunIs ==
  ASSUME NEW f \in Nat, NEW l \in Nat, f <= l + 1
  PROVE  /\ Run(f, l) \in Seq(Nat) /\ Len(Run(f, l)) = l - f + 1
         /\ Append(Run(f, l), l + 1) = Run(f, l + 1)
         /\ f <= l => /\ Run(f, l) # <<>>
                      /\ Head(Run(f, l)) = f /\ Last(Run(f, l)) = l
                      /\ Tail(Run(f, l)) = Run(f + 1, l)
         /\ f = l + 1 => Run(f, l) = <<>>
<1> DEFINE r == Run(f, l)
<1>1. l - f + 1 \in Nat /\ r \in [1..(l - f + 1) -> Nat]
  BY DEF Run
<1>2. r \in Seq(Nat) /\ Len(r) = l - f + 1
  BY <1>1
<1>3. \A i \in 1..Len(r) : r[i] = f + i - 1
  BY <1>1, <1>2 DEF Run
<1>4. \A i \in 1..(l + 1 - f + 1) : Run(f, l + 1)[i] = f + i - 1
  BY DEF Run
<1>5. Run(f, l + 1) \in Seq(Nat) /\ Len(Run(f, l + 1)) = l + 1 - f + 1
  <2>1. l + 1 - f + 1 \in Nat /\ Run(f, l + 1) \in [1..(l + 1 - f + 1) -> Nat]
    BY DEF Run
  <2> QED
    BY <2>1
<1> HIDE DEF r
<1>6. Append(r, l + 1) = Run(f, l + 1)
  <2>1. Append(r, l + 1) \in Seq(Nat) /\ Len(Append(r, l + 1)) = l + 1 - f + 1
    BY <1>1, <1>2
  <2>2. \A i \in 1..(l + 1 - f + 1) : Append(r, l + 1)[i] = f + i - 1
    BY <1>1, <1>2, <1>3
  <2>3. \A i \in 1..Len(Append(r, l + 1)) : Append(r, l + 1)[i] = Run(f, l + 1)[i]
    BY <1>4, <2>1, <2>2
  <2> QED
    BY ONLY <1>5, <2>1, <2>3, SameElements
<1>7. ASSUME f <= l
      PROVE  /\ r # <<>> /\ Head(r) = f /\ Last(r) = l
             /\ Tail(r) = Run(f + 1, l)
  <2>1. Len(r) \in Nat \ {0}
    BY <1>2, <1>7
  <2>2. r # <<>> /\ Head(r) = r[1] /\ Last(r) = r[Len(r)]
    BY <1>2, <2>1 DEF Last
  <2>3. Tail(r) \in Seq(Nat) /\ Len(Tail(r)) = l - f
    BY <1>2, <2>1
  <2>4. \A i \in 1..(l - f) : Tail(r)[i] = f + i
    BY <1>2, <1>3, <2>1
  <2>5. Run(f + 1, l) \in Seq(Nat) /\ Len(Run(f + 1, l)) = l - f
    <3>1. l - (f + 1) + 1 = l - f /\ l - f \in Nat
      BY <1>7
    <3>2. Run(f + 1, l) \in [1..(l - f) -> Nat]
      BY <3>1 DEF Run
    <3> QED
      BY <3>1, <3>2
  <2>6. \A i \in 1..(l - f) : Run(f + 1, l)[i] = f + i
    BY DEF Run
  <2>7. Tail(r) = Run(f + 1, l)
    BY ONLY <2>3, <2>4, <2>5, <2>6, SameElements
  <2>8. r[1] = f /\ r[Len(r)] = l
    BY <1>2, <1>3, <1>7, <2>1
  <2> QED
    BY <2>1, <2>2, <2>7, <2>8
<1>8. f = l + 1 => r = <<>>
  BY <1>2
<1> QED
  BY <1>2, <1>6, <1>7, <1>8 DEF r

LEMMA RunLength ==
  ASSUME NEW f \in Nat, NEW l \in Nat, f <= l + 1
  PROVE  Run(f, l) \in Seq(Nat) /\ Len(Run(f, l)) = l - f + 1
BY RunIs

LEMMA RunNext ==
  ASSUME NEW f \in Nat, NEW l \in Nat, f <= l + 1
  PROVE  Append(Run(f, l), l + 1) = Run(f, l + 1)
BY RunIs

LEMMA RunEnds ==
  ASSUME NEW f \in Nat, NEW l \in Nat, f <= l
  PROVE  Run(f, l) # <<>> /\ Head(Run(f, l)) = f /\ Last(Run(f, l)) = l
<1>1. f <= l + 1
  OBVIOUS
<1> QED
  BY <1>1, RunIs

LEMMA RunTail ==
  ASSUME NEW f \in Nat, NEW l \in Nat, f <= l
  PROVE  Tail(Run(f, l)) = Run(f + 1, l)
<1>1. f <= l + 1
  OBVIOUS
<1> QED
  BY <1>1, RunIs

-----------------------------------------------------------------------------
(* How much of a piece of audio is speech.                                 *)

LEMMA SpokenIs ==
  ASSUME NEW input, NEW f \in Nat, NEW l \in Nat
  PROVE  /\ IsFiniteSet(Spoken(input, f..l)) /\ Cardinality(Spoken(input, f..l)) \in Nat
         /\ f <= l + 1 =>
              Spoken(input, f..(l + 1)) = IF input[l + 1] = "speech"
                                          THEN Spoken(input, f..l) \cup {l + 1}
                                          ELSE Spoken(input, f..l)
         /\ f <= l + 1 =>
              Cardinality(Spoken(input, f..(l + 1))) =
                IF input[l + 1] = "speech" THEN Cardinality(Spoken(input, f..l)) + 1
                                           ELSE Cardinality(Spoken(input, f..l))
<1>1. IsFiniteSet(f..l)
  BY FS_Interval
<1>2. IsFiniteSet(Spoken(input, f..l))
  BY <1>1, FS_Subset DEF Spoken
<1>3. Cardinality(Spoken(input, f..l)) \in Nat
  BY <1>2, FS_CardinalityType
<1>4. ASSUME f <= l + 1
      PROVE  Spoken(input, f..(l + 1)) = IF input[l + 1] = "speech"
                                         THEN Spoken(input, f..l) \cup {l + 1}
                                         ELSE Spoken(input, f..l)
  <2>1. f..(l + 1) = (f..l) \cup {l + 1}
    BY <1>4
  <2> QED
    BY <2>1 DEF Spoken
<1>5. l + 1 \notin Spoken(input, f..l)
  BY DEF Spoken
<1>6. Cardinality(Spoken(input, f..l) \cup {l + 1}) = Cardinality(Spoken(input, f..l)) + 1
  BY <1>2, <1>5, FS_AddElement
<1> QED
  BY <1>2, <1>3, <1>4, <1>6

LEMMA SpokenGrows ==
  ASSUME NEW input, NEW f \in Nat, NEW l \in Nat, NEW a \in Nat, NEW b \in Nat,
         f <= a, b <= l
  PROVE  Cardinality(Spoken(input, a..b)) <= Cardinality(Spoken(input, f..l))
<1>1. Spoken(input, a..b) \subseteq Spoken(input, f..l)
  BY DEF Spoken
<1> QED
  BY <1>1, SpokenIs, FS_Subset

LEMMA SpokenCount ==
  ASSUME NEW input, NEW f \in Nat, NEW l \in Nat
  PROVE  IsFiniteSet(Spoken(input, f..l)) /\ Cardinality(Spoken(input, f..l)) \in Nat
BY SpokenIs

LEMMA SpokenNext ==
  ASSUME NEW input, NEW f \in Nat, NEW l \in Nat, f <= l + 1
  PROVE  Cardinality(Spoken(input, f..(l + 1))) =
           IF input[l + 1] = "speech" THEN Cardinality(Spoken(input, f..l)) + 1
                                      ELSE Cardinality(Spoken(input, f..l))
BY SpokenIs

LEMMA SpokenAt ==
  ASSUME NEW input, NEW f \in Nat, NEW l \in Nat, NEW i \in f..l, input[i] = "speech"
  PROVE  Cardinality(Spoken(input, f..l)) \in Nat \ {0}
<1>1. Spoken(input, f..l) # {}
  BY DEF Spoken
<1>2. Cardinality(Spoken(input, f..l)) # 0
  BY <1>1, SpokenCount, FS_EmptySet
<1> QED
  BY <1>2, SpokenCount

LEMMA Settings ==
  /\ PreRoll \in Nat
  /\ MinVoiced \in Nat \ {0} /\ Silence \in Nat \ {0} /\ HardMax \in Nat \ {0}
  /\ PreRoll + 1 < HardMax
BY DetectorAssumption

-----------------------------------------------------------------------------
(* What a detector holds after frame l: unbroken frames from f on.          *)

Parts(p, a, v, t) == [pre |-> p, active |-> a, voiced |-> v, trailing |-> t]

Waiting(f, l) == Parts(Run(f, l), <<>>, 0, 0)

Talking(input, f, l, t) == Parts(<<>>, Run(f, l), Cardinality(Spoken(input, f..l)), t)

\* What the detector writes when an utterance begins, and when it goes on.
Begun(d, a, v) == [d EXCEPT !.active = a, !.voiced = v]
Goes(d, a, v, t) == [d EXCEPT !.active = a, !.voiced = v, !.trailing = t]

LEMMA TwoParts ==
  ASSUME NEW p, NEW a, NEW v, NEW t, NEW x, NEW y
  PROVE  Begun(Parts(p, a, v, t), x, y) = Parts(p, x, y, t)
<1> SUFFICES ASSUME NEW r, r = [Parts(p, a, v, t) EXCEPT !.active = x, !.voiced = y]
             PROVE  r = Parts(p, x, y, t)
  BY DEF Begun
<1>1. r = Parts(r.pre, r.active, r.voiced, r.trailing)
  BY DEF Parts
<1>2. r.pre = p /\ r.active = x /\ r.voiced = y /\ r.trailing = t
  BY DEF Parts
<1> QED
  BY ONLY <1>1, <1>2

LEMMA ThreeParts ==
  ASSUME NEW p, NEW a, NEW v, NEW t, NEW x, NEW y, NEW z
  PROVE  Goes(Parts(p, a, v, t), x, y, z) = Parts(p, x, y, z)
<1> SUFFICES ASSUME NEW r, r = [Parts(p, a, v, t) EXCEPT !.active = x, !.voiced = y,
                                                         !.trailing = z]
             PROVE  r = Parts(p, x, y, z)
  BY DEF Goes
<1>1. r = Parts(r.pre, r.active, r.voiced, r.trailing)
  BY DEF Parts
<1>2. r.pre = p /\ r.active = x /\ r.voiced = y /\ r.trailing = z
  BY DEF Parts
<1> QED
  BY ONLY <1>1, <1>2

\* A pre-roll.
Quietly(input, f, l) ==
  /\ f \in Nat \ {0} /\ l \in Nat
  /\ f <= l + 1 /\ l - f + 1 <= PreRoll
  /\ Whole(input, f..l)
  /\ Spoken(input, f..l) = {}

\* An utterance with t frames of silence at its end: each frame of speech is followed
\* by less than Silence frames without.
Speaking(input, f, l, t) ==
  /\ f \in Nat \ {0} /\ l \in Nat /\ t \in Nat
  /\ f <= l - t /\ l - f + 1 <= HardMax /\ t <= Silence
  /\ Whole(input, f..l)
  /\ input[l - t] = "speech"
  /\ Spoken(input, (l - t + 1)..l) = {}
  /\ l - f + 1 <= PreRoll + (Cardinality(Spoken(input, f..l)) - 1) * Silence + 1 + t

Ongoing(input, f, l, t) ==
  Speaking(input, f, l, t) /\ l - f + 1 < HardMax /\ t < Silence

Holds(input, d, f, l) ==
  \/ Quietly(input, f, l) /\ d = Waiting(f, l)
  \/ \E t \in Nat : Ongoing(input, f, l, t) /\ d = Talking(input, f, l, t)

LEMMA SpokenOfSpeaking ==
  ASSUME NEW input, NEW f, NEW l, NEW t, Speaking(input, f, l, t)
  PROVE  Cardinality(Spoken(input, f..l)) \in Nat \ {0}
<1>1. f \in Nat /\ l \in Nat /\ l - t \in f..l /\ input[l - t] = "speech"
  BY DEF Speaking
<1> QED
  BY <1>1, SpokenAt

\* Speech after a pre-roll begins an utterance.
LEMMA BeginIs ==
  ASSUME NEW input, NEW f, NEW l, Quietly(input, f, l), input[l + 1] = "speech"
  PROVE  /\ Ongoing(input, f, l + 1, 0)
         /\ Begin(Waiting(f, l), l + 1) = Talking(input, f, l + 1, 0)
<1>1. /\ f \in Nat \ {0} /\ l \in Nat /\ f <= l + 1 /\ l - f + 1 <= PreRoll
      /\ Whole(input, f..l) /\ Spoken(input, f..l) = {}
  BY DEF Quietly
<1>a. f \in Nat /\ l \in Nat /\ f <= l + 1
  BY <1>1
<1>2. Cardinality(Spoken(input, f..(l + 1))) = 1
  <2>1. Cardinality(Spoken(input, f..l)) = 0
    BY <1>1, FS_EmptySet
  <2>2. 0 + 1 = 1
    OBVIOUS
  <2> QED
    BY <1>a, <2>1, <2>2, SpokenNext
<1>3. Append(Run(f, l), l + 1) = Run(f, l + 1)
  BY <1>a, RunNext
<1>8. Begin(Waiting(f, l), l + 1) = Talking(input, f, l + 1, 0)
  <2>1. Empty = Parts(<<>>, <<>>, 0, 0) /\ Waiting(f, l).pre = Run(f, l)
    BY DEF Empty, Parts, Waiting
  <2>2. Begin(Waiting(f, l), l + 1) =
          Begun(Parts(<<>>, <<>>, 0, 0), Run(f, l + 1), 1)
    BY <1>3, <2>1 DEF Begin, Begun
  <2> QED
    BY <1>2, <2>2, TwoParts DEF Talking
<1>4. Whole(input, f..(l + 1))
  BY <1>1 DEF Whole
<1>5. Spoken(input, (l + 1 - 0 + 1)..(l + 1)) = {}
  BY <1>1 DEF Spoken
<1>6. l + 1 - f + 1 <= PreRoll + (1 - 1) * Silence + 1 + 0
  BY <1>1, Settings
<1>7. Speaking(input, f, l + 1, 0)
  BY <1>1, <1>2, <1>4, <1>5, <1>6, Settings DEF Speaking
<1> QED
  BY <1>1, <1>7, <1>8, Settings DEF Ongoing

\* Silence after a pre-roll is the end of a pre-roll.
LEMMA QuietIs ==
  ASSUME NEW input, NEW f, NEW l, Quietly(input, f, l), input[l + 1] = "silence"
  PROVE  \E g \in Nat : /\ f <= g /\ Quietly(input, g, l + 1)
                        /\ Quiet(Waiting(f, l), l + 1) = Waiting(g, l + 1)
<1>1. /\ f \in Nat \ {0} /\ l \in Nat /\ f <= l + 1 /\ l - f + 1 <= PreRoll
      /\ Whole(input, f..l) /\ Spoken(input, f..l) = {}
  BY DEF Quietly
<1>2. Whole(input, f..(l + 1)) /\ Spoken(input, f..(l + 1)) = {}
  <2>1. Whole(input, f..(l + 1))
    BY <1>1 DEF Whole
  <2>2. Spoken(input, f..(l + 1)) = {}
    BY <1>1 DEF Spoken
  <2> QED
    BY <2>1, <2>2
<1>3. Append(Run(f, l), l + 1) = Run(f, l + 1) /\ Len(Run(f, l + 1)) = l + 1 - f + 1
  <2>1. f \in Nat /\ l \in Nat /\ f <= l + 1
    BY <1>1
  <2>2. l + 1 \in Nat /\ f <= l + 1 + 1
    BY <1>1
  <2>3. Len(Run(f, l + 1)) = l + 1 - f + 1
    BY <2>1, <2>2, RunLength
  <2> QED
    BY <2>1, <2>3, RunNext
<1>4. CASE l + 1 - f + 1 <= PreRoll
  <2>1. Quietly(input, f, l + 1)
    BY <1>1, <1>2, <1>4 DEF Quietly
  <2>2. Quiet(Waiting(f, l), l + 1) = Waiting(f, l + 1)
    <3>1. ~ Len(Run(f, l + 1)) > PreRoll
      BY <1>1, <1>3, <1>4, Settings
    <3> QED
      BY <1>3, <3>1 DEF Quiet, Waiting, Parts
  <2> QED
    BY <1>1, <2>1, <2>2
<1>5. CASE l + 1 - f + 1 > PreRoll
  <2>1. Whole(input, (f + 1)..(l + 1)) /\ Spoken(input, (f + 1)..(l + 1)) = {}
    BY <1>1, <1>2 DEF Whole, Spoken
  <2>2. Quietly(input, f + 1, l + 1)
    BY <1>1, <2>1, Settings DEF Quietly
  <2>3. Tail(Run(f, l + 1)) = Run(f + 1, l + 1)
    <3>1. l + 1 \in Nat /\ f \in Nat /\ f <= l + 1
      BY <1>1
    <3> QED
      BY <3>1, RunTail
  <2>4. Quiet(Waiting(f, l), l + 1) = Waiting(f + 1, l + 1)
    <3>1. Len(Run(f, l + 1)) > PreRoll
      BY <1>3, <1>5
    <3>2. Quiet(Waiting(f, l), l + 1) = [Waiting(f, l) EXCEPT !.pre = Run(f + 1, l + 1)]
      BY <1>3, <2>3, <3>1 DEF Quiet, Waiting, Parts
    <3> QED
      BY <3>2 DEF Waiting, Parts
  <2> QED
    BY <1>1, <2>2, <2>4
<1> QED
  BY <1>1, <1>4, <1>5, Settings

\* The frame after an utterance under way extends it.
LEMMA ExtendedIs ==
  ASSUME NEW input, NEW f, NEW l, NEW t, Ongoing(input, f, l, t),
         input[l + 1] \in {"speech", "silence"}, NEW u,
         u = IF input[l + 1] = "speech" THEN 0 ELSE t + 1
  PROVE  /\ Speaking(input, f, l + 1, u)
         /\ Extended(Talking(input, f, l, t), l + 1, input[l + 1] = "speech") =
              Talking(input, f, l + 1, u)
<1> DEFINE v == Cardinality(Spoken(input, f..l))
           w == Cardinality(Spoken(input, f..(l + 1)))
<1>1. /\ f \in Nat \ {0} /\ l \in Nat /\ t \in Nat /\ f <= l - t
      /\ l - f + 1 < HardMax /\ t < Silence
      /\ Whole(input, f..l) /\ input[l - t] = "speech"
      /\ Spoken(input, (l - t + 1)..l) = {}
      /\ l - f + 1 <= PreRoll + (v - 1) * Silence + 1 + t
  BY DEF Ongoing, Speaking
<1>2. v \in Nat \ {0} /\ w = IF input[l + 1] = "speech" THEN v + 1 ELSE v
  <2>1. v \in Nat \ {0}
    BY SpokenOfSpeaking DEF Ongoing
  <2>2. f <= l + 1 /\ f \in Nat
    BY <1>1
  <2> QED
    BY <1>1, <2>1, <2>2, SpokenNext
<1>3. Extended(Talking(input, f, l, t), l + 1, input[l + 1] = "speech") =
        Talking(input, f, l + 1, u)
  <2>a. f \in Nat /\ l \in Nat /\ f <= l + 1
    BY <1>1
  <2>1. Append(Run(f, l), l + 1) = Run(f, l + 1)
    BY <2>a, RunNext
  <2>b. \A x, y, z : Goes(Talking(input, f, l, t), x, y, z) = Parts(<<>>, x, y, z)
    <3> DEFINE c == Cardinality(Spoken(input, f..l))
               r == Run(f, l)
    <3>1. Talking(input, f, l, t) = Parts(<<>>, r, c, t)
      BY DEF Talking
    <3> HIDE DEF c, r
    <3>2. \A x, y, z : Goes(Parts(<<>>, r, c, t), x, y, z) = Parts(<<>>, x, y, z)
      BY ThreeParts
    <3> QED
      BY <3>1, <3>2
  <2>2. CASE input[l + 1] = "speech"
    <3>1. Extended(Talking(input, f, l, t), l + 1, TRUE) =
            Goes(Talking(input, f, l, t), Run(f, l + 1), v + 1, 0)
      BY <2>1 DEF Extended, Talking, Parts, Goes
    <3>2. Extended(Talking(input, f, l, t), l + 1, TRUE) = Parts(<<>>, Run(f, l + 1), v + 1, 0)
      BY <2>b, <3>1
    <3> QED
      BY <1>2, <2>2, <3>2 DEF Talking, w
  <2>3. CASE input[l + 1] # "speech"
    <3>1. Extended(Talking(input, f, l, t), l + 1, FALSE) =
            Goes(Talking(input, f, l, t), Run(f, l + 1), v, t + 1)
      BY <2>1 DEF Extended, Talking, Parts, Goes
    <3>2. Extended(Talking(input, f, l, t), l + 1, FALSE) = Parts(<<>>, Run(f, l + 1), v, t + 1)
      BY <2>b, <3>1
    <3> QED
      BY <1>2, <2>3, <3>2 DEF Talking, w
  <2> QED
    BY <2>2, <2>3
<1>4. Whole(input, f..(l + 1))
  BY <1>1 DEF Whole
<1>5. u \in Nat /\ u <= Silence /\ f <= l + 1 - u /\ input[l + 1 - u] = "speech"
  <2>1. CASE input[l + 1] = "speech"
    BY <1>1, <2>1, Settings
  <2>2. CASE input[l + 1] # "speech"
    <3>1. u = t + 1 /\ l + 1 - u = l - t
      BY <1>1, <2>2
    <3> QED
      BY <1>1, <3>1, Settings
  <2> QED
    BY <2>1, <2>2
<1>6. Spoken(input, (l + 1 - u + 1)..(l + 1)) = {}
  BY <1>1 DEF Spoken
<1>7. l + 1 - f + 1 <= PreRoll + (w - 1) * Silence + 1 + u
  <2> HIDE DEF v, w
  <2>1. CASE input[l + 1] = "speech"
    <3>1. (v + 1 - 1) * Silence = (v - 1) * Silence + Silence
      BY <1>2, Settings
    <3>2. (v - 1) * Silence \in Nat
      BY <1>2, Settings
    <3> QED
      BY <1>1, <1>2, <2>1, <3>1, <3>2, Settings
  <2>2. CASE input[l + 1] # "speech"
    <3>1. (v - 1) * Silence \in Nat
      BY <1>2, Settings
    <3> QED
      BY <1>1, <1>2, <2>2, <3>1, Settings
  <2> QED
    BY <2>1, <2>2
<1>8. l + 1 - f + 1 <= HardMax /\ l + 1 \in Nat
  BY <1>1, Settings
<1> QED
  BY <1>1, <1>3, <1>4, <1>5, <1>6, <1>7, <1>8 DEF Speaking

LEMMA EndsIs ==
  ASSUME NEW input, NEW f, NEW l, NEW t, Speaking(input, f, l, t)
  PROVE  /\ Talking(input, f, l, t).active # <<>>
         /\ Ends(Talking(input, f, l, t)) <=> ~ Ongoing(input, f, l, t)
<1>1. f \in Nat \ {0} /\ l \in Nat /\ t \in Nat /\ f <= l
  BY DEF Speaking
<1>2. Run(f, l) # <<>> /\ Head(Run(f, l)) = f /\ Last(Run(f, l)) = l
  BY <1>1, RunEnds
<1>3. Ends(Talking(input, f, l, t)) <=> l + 1 - f >= HardMax \/ t >= Silence
  BY <1>2 DEF Ends, Talking, Parts
<1> QED
  BY <1>1, <1>2, <1>3, Settings DEF Ongoing, Talking, Parts

\* What is cut for its length is never too short to count.
LEMMA LongEnough ==
  ASSUME NEW input, NEW f, NEW l, NEW t, Speaking(input, f, l, t),
         ~ Ongoing(input, f, l, t), t # Silence
  PROVE  Cardinality(Spoken(input, f..l)) >= MinVoiced
<1> DEFINE v == Cardinality(Spoken(input, f..l))
<1>1. /\ f \in Nat /\ l \in Nat /\ t \in Nat /\ t < Silence /\ l - f + 1 = HardMax
      /\ l - f + 1 <= PreRoll + (v - 1) * Silence + 1 + t
  BY Settings DEF Ongoing, Speaking
<1>2. v \in Nat \ {0}
  BY SpokenOfSpeaking
<1> HIDE DEF v
<1> SUFFICES ASSUME v < MinVoiced
             PROVE  FALSE
  BY <1>2, Settings DEF v
<1>3. (v - 1) * Silence + Silence <= (MinVoiced - 1) * Silence
  <2>1. v <= MinVoiced - 1 /\ MinVoiced - 1 - v \in Nat
    BY <1>2, Settings
  <2>2. (MinVoiced - 1) * Silence = (v - 1) * Silence + Silence + (MinVoiced - 1 - v) * Silence
    BY <1>2, Settings
  <2>3. (MinVoiced - 1 - v) * Silence \in Nat
    BY <2>1, Settings
  <2>4. (v - 1) * Silence \in Nat
    BY <1>2, Settings
  <2> QED
    BY <2>2, <2>3, <2>4, Settings
<1>4. (v - 1) * Silence \in Nat /\ (MinVoiced - 1) * Silence \in Nat
  BY <1>2, Settings
<1> QED
  BY <1>1, <1>3, <1>4, DetectorAssumption

\* What an utterance that ends is worth.
LEMMA CandidatesIs ==
  ASSUME NEW input, NEW f, NEW l, NEW t, Speaking(input, f, l, t)
  PROVE  Candidates(Talking(input, f, l, t)) =
           IF Cardinality(Spoken(input, f..l)) >= MinVoiced
           THEN <<[from |-> f, to |-> l, frames |-> Run(f, l)]>> ELSE <<>>
<1>1. f \in Nat \ {0} /\ l \in Nat /\ f <= l
  BY DEF Speaking
<1>2. Run(f, l) # <<>> /\ Head(Run(f, l)) = f /\ Last(Run(f, l)) = l
  BY <1>1, RunEnds
<1> QED
  BY <1>2 DEF Candidates, Talking, Parts

-----------------------------------------------------------------------------
(* One packet.                                                             *)

Handler(d, e, o) == [d |-> d, expected |-> e, out |-> o]

\* What the handler writes when an utterance ends.
Ended(h, d, o) == [h EXCEPT !.d = d, !.out = o]

LEMMA HandlerParts ==
  ASSUME NEW d, NEW e, NEW o, NEW x, NEW y
  PROVE  Ended(Handler(d, e, o), x, y) = Handler(x, e, y)
<1> SUFFICES ASSUME NEW r, r = [Handler(d, e, o) EXCEPT !.d = x, !.out = y]
             PROVE  r = Handler(x, e, y)
  BY DEF Ended
<1>1. r = Handler(r.d, r.expected, r.out)
  BY DEF Handler
<1>2. r.d = x /\ r.expected = e /\ r.out = y
  BY DEF Handler
<1> QED
  BY ONLY <1>1, <1>2

LEMMA HandlerFields ==
  ASSUME NEW d, NEW e, NEW o, NEW x
  PROVE  /\ Handler(d, e, o).d = d /\ Handler(d, e, o).expected = e
         /\ Handler(d, e, o).out = o
         /\ [Handler(d, e, o) EXCEPT !.d = x] = Handler(x, e, o)
         /\ [Handler(d, e, o) EXCEPT !.expected = x] = Handler(d, x, o)
BY DEF Handler

\* Speech after a pre-roll.
LEMMA HeardBegin ==
  ASSUME NEW input, NEW h, NEW e, NEW o, NEW f, NEW l,
         Joined(h, l + 1) = Handler(Waiting(f, l), e, o),
         Quietly(input, f, l), input[l + 1] = "speech"
  PROVE  /\ Ongoing(input, f, l + 1, 0)
         /\ Heard(h, l + 1, input[l + 1] = "speech") =
              Handler(Talking(input, f, l + 1, 0), l + 1 + 1, o)
<1>1. /\ Ongoing(input, f, l + 1, 0)
      /\ Begin(Waiting(f, l), l + 1) = Talking(input, f, l + 1, 0)
  BY BeginIs
<1> DEFINE d == Waiting(f, l)
           c == Begin(Waiting(f, l), l + 1)
<1>2. d.active = <<>>
  BY DEF Waiting, Parts
<1> HIDE DEF d
<1>3. Fed(Handler(d, e, o), l + 1, TRUE) = Handler(Begin(d, l + 1), e, o)
  BY <1>2 DEF Fed, Handler
<1> DEFINE y == Begin(d, l + 1)
<1>4. Heard(h, l + 1, TRUE) = [Handler(y, e, o) EXCEPT !.expected = l + 1 + 1]
  BY <1>3 DEF Heard, d
<1> HIDE DEF y
<1>5. Heard(h, l + 1, TRUE) = Handler(y, l + 1 + 1, o)
  BY <1>4 DEF Handler
<1> QED
  BY <1>1, <1>5 DEF y, d

\* Silence after a pre-roll.
LEMMA HeardQuiet ==
  ASSUME NEW input, NEW h, NEW e, NEW o, NEW f, NEW l,
         Joined(h, l + 1) = Handler(Waiting(f, l), e, o),
         Quietly(input, f, l), input[l + 1] = "silence"
  PROVE  \E g \in Nat :
           /\ f <= g /\ Quietly(input, g, l + 1)
           /\ Heard(h, l + 1, input[l + 1] = "speech") =
                Handler(Waiting(g, l + 1), l + 1 + 1, o)
<1>1. PICK g \in Nat : /\ f <= g /\ Quietly(input, g, l + 1)
                       /\ Quiet(Waiting(f, l), l + 1) = Waiting(g, l + 1)
  BY QuietIs
<1> DEFINE d == Waiting(f, l)
<1>2. d.active = <<>>
  BY DEF Waiting, Parts
<1> HIDE DEF d
<1>3. Fed(Handler(d, e, o), l + 1, FALSE) = Handler(Quiet(d, l + 1), e, o)
  BY <1>2 DEF Fed, Handler
<1> DEFINE y == Quiet(d, l + 1)
<1>4. Heard(h, l + 1, FALSE) = [Handler(y, e, o) EXCEPT !.expected = l + 1 + 1]
  BY <1>3 DEF Heard, d
<1> HIDE DEF y
<1>5. Heard(h, l + 1, FALSE) = Handler(y, l + 1 + 1, o)
  BY <1>4 DEF Handler
<1> QED
  BY <1>1, <1>5 DEF y, d

\* A frame of an utterance under way.
LEMMA HeardOngoing ==
  ASSUME NEW input, NEW h, NEW e, NEW o, NEW f, NEW l, NEW t,
         Joined(h, l + 1) = Handler(Talking(input, f, l, t), e, o),
         Ongoing(input, f, l, t), input[l + 1] \in {"speech", "silence"}
  PROVE  \E u \in Nat :
           /\ Speaking(input, f, l + 1, u)
           /\ Heard(h, l + 1, input[l + 1] = "speech") =
                IF Ongoing(input, f, l + 1, u)
                THEN Handler(Talking(input, f, l + 1, u), l + 1 + 1, o)
                ELSE Handler(Empty, l + 1 + 1, o \o Candidates(Talking(input, f, l + 1, u)))
<1> DEFINE u == IF input[l + 1] = "speech" THEN 0 ELSE t + 1
           d == Talking(input, f, l, t)
           y == Talking(input, f, l + 1, u)
           s == input[l + 1] = "speech"
<1>1. Speaking(input, f, l + 1, u) /\ Extended(d, l + 1, s) = y
  BY ExtendedIs
<1>2. u \in Nat
  BY <1>1 DEF Speaking
<1>3. d.active # <<>>
  BY EndsIs DEF Ongoing
<1>4. Ends(y) <=> ~ Ongoing(input, f, l + 1, u)
  BY <1>1, EndsIs
<1> HIDE DEF d, y, s, u
<1>5. CASE Ongoing(input, f, l + 1, u)
  <2>1. Fed(Handler(d, e, o), l + 1, s) = [Handler(d, e, o) EXCEPT !.d = y]
    BY <1>1, <1>3, <1>4, <1>5, HandlerFields DEF Fed
  <2>2. Fed(Handler(d, e, o), l + 1, s) = Handler(y, e, o)
    BY <2>1, HandlerFields
  <2>3. Heard(h, l + 1, s) = [Handler(y, e, o) EXCEPT !.expected = l + 1 + 1]
    BY <2>2 DEF Heard, d
  <2>4. Heard(h, l + 1, s) = Handler(y, l + 1 + 1, o)
    BY <2>3, HandlerFields
  <2> QED
    BY <1>1, <1>2, <1>5, <2>4 DEF y, s
<1>6. CASE ~ Ongoing(input, f, l + 1, u)
  <2> DEFINE p == o \o Candidates(y)
  <2>1. Fed(Handler(d, e, o), l + 1, s) = Ended(Handler(d, e, o), Empty, p)
    <3> DEFINE q == Handler(d, e, o)
    <3>1. q.d = d /\ q.out = o
      BY HandlerFields
    <3> HIDE DEF q
    <3>2. Fed(q, l + 1, s) = [q EXCEPT !.d = Empty, !.out = q.out \o Candidates(y)]
      BY <1>1, <1>3, <1>4, <1>6, <3>1 DEF Fed, Reset
    <3> QED
      BY <3>1, <3>2 DEF Ended, q
  <2> HIDE DEF p
  <2>2. Fed(Handler(d, e, o), l + 1, s) = Handler(Empty, e, p)
    BY <2>1, HandlerParts
  <2>3. Heard(h, l + 1, s) = [Handler(Empty, e, p) EXCEPT !.expected = l + 1 + 1]
    BY <2>2 DEF Heard, d
  <2>4. Heard(h, l + 1, s) = Handler(Empty, l + 1 + 1, p)
    BY <2>3, HandlerFields
  <2> QED
    BY <1>1, <1>2, <1>6, <2>4 DEF y, s, p
<1> QED
  BY <1>5, <1>6

-----------------------------------------------------------------------------
(* The utterances so far.                                                  *)

Pieces == [from : Nat, to : Nat, frames : Seq(Nat)]

\* They are sound, and all of them end before frame f.
Before(input, o, f) ==
  /\ o \in Seq(Pieces)
  /\ Sound(input, o)
  /\ \A k \in DOMAIN o : o[k].to < f

\* None is taken back.
Kept(o, p) == \A k \in DOMAIN o : k \in DOMAIN p /\ p[k] = o[k]

LEMMA PieceEnds ==
  ASSUME NEW o \in Seq(Pieces), NEW k \in DOMAIN o
  PROVE  o[k].to \in Nat
<1>1. o[k] \in Pieces
  OBVIOUS
<1> QED
  BY <1>1 DEF Pieces

LEMMA BeforeLater ==
  ASSUME NEW input, NEW o, NEW f \in Nat, NEW g \in Nat, f <= g, Before(input, o, f)
  PROVE  Before(input, o, g)
<1>1. o \in Seq(Pieces) /\ Sound(input, o) /\ \A k \in DOMAIN o : o[k].to < f
  BY DEF Before
<1>2. \A k \in DOMAIN o : o[k].to < g
  <2> TAKE k \in DOMAIN o
  <2>1. o[k].to \in Nat /\ o[k].to < f
    BY <1>1, PieceEnds
  <2> QED
    BY <2>1
<1> QED
  BY <1>1, <1>2 DEF Before

LEMMA PieceIsSound ==
  ASSUME NEW input, NEW f, NEW l, NEW t, Speaking(input, f, l, t),
         Cardinality(Spoken(input, f..l)) >= MinVoiced
  PROVE  /\ [from |-> f, to |-> l, frames |-> Run(f, l)] \in Pieces
         /\ Run(f, l) = [i \in 1..Cardinality(f..l) |-> f + i - 1]
         /\ Whole(input, f..l) /\ Cardinality(f..l) <= HardMax
<1>1. /\ f \in Nat /\ l \in Nat /\ t \in Nat /\ f <= l /\ l - f + 1 <= HardMax
      /\ Whole(input, f..l)
  BY DEF Speaking
<1>2. Cardinality(f..l) = l - f + 1
  BY <1>1, FS_Interval
<1>3. Run(f, l) \in Seq(Nat)
  <2>1. f <= l + 1
    BY <1>1
  <2> QED
    BY <1>1, <2>1, RunLength
<1> QED
  BY <1>1, <1>2, <1>3 DEF Pieces, Run

\* An utterance that ends leaves the ones before it, and comes after them if it counts.
LEMMA EndKeeps ==
  ASSUME NEW input, NEW o, NEW f, NEW l, NEW t, Before(input, o, f),
         Speaking(input, f, l, t), NEW p, p = o \o Candidates(Talking(input, f, l, t))
  PROVE  /\ Before(input, p, l + 1)
         /\ Kept(o, p)
         /\ Cardinality(Spoken(input, f..l)) >= MinVoiced =>
              \E k \in DOMAIN p : p[k].from = f /\ p[k].to = l
<1>1. o \in Seq(Pieces) /\ Sound(input, o) /\ \A k \in DOMAIN o : o[k].to < f
  BY DEF Before
<1>2. f \in Nat /\ l \in Nat /\ f < l + 1
  BY DEF Speaking
<1>3. \A k \in DOMAIN o : o[k].to \in Nat
  BY <1>1, PieceEnds
<1>4. CASE Cardinality(Spoken(input, f..l)) >= MinVoiced
  <2> DEFINE c == [from |-> f, to |-> l, frames |-> Run(f, l)]
             n == Len(o)
  <2>1. /\ c \in Pieces /\ c.from = f /\ c.to = l
        /\ c.frames = [i \in 1..Cardinality(f..l) |-> f + i - 1]
        /\ Whole(input, f..l) /\ Cardinality(f..l) <= HardMax
    BY <1>4, PieceIsSound
  <2>2. p = o \o <<c>>
    BY <1>4, CandidatesIs
  <2> HIDE DEF c
  <2>3. p \in Seq(Pieces) /\ Len(p) = n + 1 /\ n \in Nat
    BY <1>1, <2>1, <2>2
  <2>4. p[n + 1] = c /\ \A k \in 1..n : p[k] = o[k]
    BY <1>1, <2>1, <2>2
  <2>5. DOMAIN o = 1..n /\ DOMAIN p = 1..(n + 1)
    BY <1>1, <2>3
  <2> HIDE DEF n
  <2>6. Kept(o, p)
    BY <2>3, <2>4, <2>5 DEF Kept
  <2>7. Sound(input, p)
    <3> SUFFICES ASSUME NEW k \in DOMAIN p
                 PROVE  /\ p[k].frames = [i \in 1..Cardinality(p[k].from..p[k].to) |->
                                            p[k].from + i - 1]
                        /\ Whole(input, p[k].from..p[k].to)
                        /\ Cardinality(Spoken(input, p[k].from..p[k].to)) >= MinVoiced
                        /\ Cardinality(p[k].from..p[k].to) <= HardMax
                        /\ k > 1 => p[k - 1].to < p[k].from
      BY DEF Sound
    <3>1. CASE k = n + 1
      <4>1. k > 1 => k - 1 \in DOMAIN o /\ p[k - 1] = o[k - 1]
        BY <2>3, <2>4, <2>5, <3>1
      <4>2. k > 1 => p[k - 1].to < f
        BY <1>1, <4>1
      <4>3. p[k] = c
        BY <2>4, <3>1
      <4> QED
        BY <1>4, <2>1, <4>2, <4>3
    <3>2. CASE k # n + 1
      <4>1. k \in 1..n /\ p[k] = o[k] /\ k \in DOMAIN o
        BY <2>3, <2>4, <2>5, <3>2
      <4>2. k > 1 => p[k - 1] = o[k - 1]
        BY <2>3, <2>4, <4>1
      <4> QED
        BY <1>1, <4>1, <4>2 DEF Sound
    <3> QED
      BY <3>1, <3>2
  <2>8. \A k \in DOMAIN p : p[k].to < l + 1
    <3> TAKE k \in DOMAIN p
    <3>1. CASE k = n + 1
      BY <1>2, <2>1, <2>4, <3>1
    <3>2. CASE k # n + 1
      <4>1. p[k] = o[k] /\ k \in DOMAIN o
        BY <2>3, <2>4, <2>5, <3>2
      <4> QED
        BY <1>1, <1>2, <1>3, <4>1
    <3> QED
      BY <3>1, <3>2
  <2>9. \E k \in DOMAIN p : p[k].from = f /\ p[k].to = l
    BY <2>1, <2>3, <2>4, <2>5
  <2> QED
    BY <2>3, <2>6, <2>7, <2>8, <2>9 DEF Before
<1>5. CASE ~ Cardinality(Spoken(input, f..l)) >= MinVoiced
  <2>1. p = o
    <3>1. p = o \o <<>>
      BY <1>5, CandidatesIs
    <3> QED
      BY <1>1, <3>1
  <2>2. \A k \in DOMAIN o : o[k].to < l + 1
    BY <1>1, <1>2, <1>3
  <2> QED
    BY <1>1, <1>5, <2>1, <2>2 DEF Before, Kept
<1> QED
  BY <1>4, <1>5

-----------------------------------------------------------------------------
(* The handler after frame m: what the detector holds is unbroken and comes   *)
(* after the utterances so far.                                            *)

Attentive(input, h, m) ==
  \/ h = Handler(Empty, 0, <<>>)
  \/ \E d, o : \E f, l \in Nat :
       /\ l <= m /\ h = Handler(d, l + 1, o)
       /\ Holds(input, d, f, l)
       /\ Before(input, o, f)

LEMMA HoldsFrom ==
  ASSUME NEW input, NEW d, NEW f, NEW l, Holds(input, d, f, l)
  PROVE  f \in Nat \ {0} /\ l \in Nat /\ f <= l + 1
BY DEF Holds, Ongoing, Speaking, Quietly

\* Nothing is as good as a pre-roll of nothing.
LEMMA NothingHeld ==
  ASSUME NEW input, NEW m \in Nat
  PROVE  /\ Quietly(input, m + 1, m) /\ Empty = Waiting(m + 1, m)
         /\ Holds(input, Empty, m + 1, m)
<1>1. m + 1 \in Nat \ {0} /\ m + 1 <= m + 1 /\ m - (m + 1) + 1 = 0
  OBVIOUS
<1>2. (m + 1)..m = {}
  OBVIOUS
<1>3. Quietly(input, m + 1, m)
  BY <1>1, <1>2, Settings DEF Quietly, Whole, Spoken
<1>4. Run(m + 1, m) = <<>>
  BY <1>1, RunIs
<1>5. Empty = Waiting(m + 1, m)
  BY <1>4 DEF Empty, Waiting, Parts
<1> QED
  BY <1>3, <1>5 DEF Holds

LEMMA JoinedIs ==
  ASSUME NEW input, NEW h, NEW m \in Nat, Attentive(input, h, m)
  PROVE  \E d, e, o : \E f \in Nat :
           /\ Joined(h, m + 1) = Handler(d, e, o) /\ h.out = o
           /\ Holds(input, d, f, m) /\ Before(input, o, f)
<1>1. CASE h = Handler(Empty, 0, <<>>)
  <2>1. Joined(h, m + 1) = Handler(Empty, 0, <<>>) /\ h.out = <<>>
    BY <1>1, HandlerFields DEF Joined
  <2>2. Before(input, <<>>, m + 1)
    BY DEF Before, Sound
  <2>3. m + 1 \in Nat /\ Holds(input, Empty, m + 1, m)
    BY NothingHeld
  <2>4. \E f \in Nat :
          /\ Joined(h, m + 1) = Handler(Empty, 0, <<>>) /\ h.out = <<>>
          /\ Holds(input, Empty, f, m) /\ Before(input, <<>>, f)
    BY <2>1, <2>2, <2>3
  <2> QED
    BY <2>4
<1>2. ASSUME NEW d, NEW o, NEW f \in Nat, NEW l \in Nat,
             l <= m, h = Handler(d, l + 1, o), Holds(input, d, f, l), Before(input, o, f)
      PROVE  \E dd, e, oo : \E ff \in Nat :
               /\ Joined(h, m + 1) = Handler(dd, e, oo) /\ h.out = oo
               /\ Holds(input, dd, ff, m) /\ Before(input, oo, ff)
  <2>1. h.expected = l + 1 /\ h.out = o
    BY <1>2, HandlerFields
  <2>2. CASE l = m
    <3>1. Joined(h, m + 1) = Handler(d, m + 1, o)
      BY <1>2, <2>1, <2>2 DEF Joined
    <3> QED
      BY <1>2, <2>1, <2>2, <3>1
  <2>3. CASE l # m
    <3>1. l + 1 \notin {0, m + 1}
      BY <2>3
    <3>2. Joined(h, m + 1) = [h EXCEPT !.d = Empty]
      BY <2>1, <3>1 DEF Joined, Reset
    <3>3. Joined(h, m + 1) = Handler(Empty, l + 1, o)
      BY <1>2, <3>2, HandlerFields
    <3>4. Before(input, o, m + 1)
      <4>1. f <= m + 1 /\ m + 1 \in Nat
        BY <1>2, HoldsFrom
      <4> QED
        BY <1>2, <4>1, BeforeLater
    <3> QED
      BY <2>1, <3>3, <3>4, NothingHeld
  <2> QED
    BY <2>2, <2>3
<1> QED
  BY <1>1, <1>2 DEF Attentive

LEMMA HearKeeps ==
  ASSUME NEW input, NEW h, NEW m \in Nat, Attentive(input, h, m), input[m + 1] \in Frames
  PROVE  Attentive(input, Hear(input, h, m + 1), m + 1) /\ Kept(h.out, Hear(input, h, m + 1).out)
<1> DEFINE r == Hear(input, h, m + 1)
<1>1. CASE input[m + 1] = "lost"
  <2>1. r = h
    BY <1>1 DEF Hear
  <2>2. \A l \in Nat : l <= m => l <= m + 1
    OBVIOUS
  <2>3. Attentive(input, h, m + 1)
    BY <2>2 DEF Attentive
  <2> QED
    BY <2>1, <2>3 DEF Kept
<1>2. CASE input[m + 1] \in {"speech", "silence"}
  <2>1. r = Heard(h, m + 1, input[m + 1] = "speech")
    BY <1>2 DEF Hear
  <2> HIDE DEF r
  <2>2. PICK d, e, o : \E f \in Nat :
          /\ Joined(h, m + 1) = Handler(d, e, o) /\ h.out = o
          /\ Holds(input, d, f, m) /\ Before(input, o, f)
    BY JoinedIs
  <2>3. PICK f \in Nat : /\ Joined(h, m + 1) = Handler(d, e, o) /\ h.out = o
                         /\ Holds(input, d, f, m) /\ Before(input, o, f)
    BY <2>2
  <2>4. Kept(o, o) /\ m + 1 \in Nat
    BY DEF Kept
  <2>5. CASE Quietly(input, f, m) /\ d = Waiting(f, m)
    <3>0. Joined(h, m + 1) = Handler(Waiting(f, m), e, o) /\ Quietly(input, f, m)
      BY <2>3, <2>5
    <3>1. CASE input[m + 1] = "speech"
      <4>1. /\ Ongoing(input, f, m + 1, 0)
            /\ r = Handler(Talking(input, f, m + 1, 0), m + 1 + 1, o)
        BY <2>1, <3>0, <3>1, HeardBegin
      <4>2. Holds(input, Talking(input, f, m + 1, 0), f, m + 1)
        BY <4>1 DEF Holds
      <4>3. r.out = o
        BY <4>1, HandlerFields
      <4>4. Attentive(input, r, m + 1)
        BY <2>3, <2>4, <4>1, <4>2 DEF Attentive
      <4> QED
        BY <2>3, <2>4, <4>3, <4>4 DEF r
    <3>2. CASE input[m + 1] = "silence"
      <4>1. PICK g \in Nat : /\ f <= g /\ Quietly(input, g, m + 1)
                             /\ r = Handler(Waiting(g, m + 1), m + 1 + 1, o)
        BY <2>1, <3>0, <3>2, HeardQuiet
      <4>2. Holds(input, Waiting(g, m + 1), g, m + 1)
        BY <4>1 DEF Holds
      <4>3. r.out = o
        BY <4>1, HandlerFields
      <4>4. Before(input, o, g)
        BY <2>3, <4>1, BeforeLater
      <4>5. Attentive(input, r, m + 1)
        BY <2>4, <4>1, <4>2, <4>4 DEF Attentive
      <4> QED
        BY <2>3, <2>4, <4>3, <4>5 DEF r
    <3> QED
      BY <1>2, <3>1, <3>2
  <2>6. ASSUME NEW t \in Nat, Ongoing(input, f, m, t), d = Talking(input, f, m, t)
        PROVE  Attentive(input, r, m + 1) /\ Kept(h.out, r.out)
    <3>1. PICK u \in Nat :
            /\ Speaking(input, f, m + 1, u)
            /\ r = IF Ongoing(input, f, m + 1, u)
                   THEN Handler(Talking(input, f, m + 1, u), m + 1 + 1, o)
                   ELSE Handler(Empty, m + 1 + 1, o \o Candidates(Talking(input, f, m + 1, u)))
      BY <1>2, <2>1, <2>3, <2>6, HeardOngoing
    <3>2. CASE Ongoing(input, f, m + 1, u)
      <4>1. r = Handler(Talking(input, f, m + 1, u), m + 1 + 1, o)
        BY <3>1, <3>2
      <4>2. Holds(input, Talking(input, f, m + 1, u), f, m + 1)
        BY <3>2 DEF Holds
      <4>3. r.out = o
        BY <4>1, HandlerFields
      <4>4. Attentive(input, r, m + 1)
        BY <2>3, <2>4, <4>1, <4>2 DEF Attentive
      <4> QED
        BY <2>3, <2>4, <4>3, <4>4
    <3>3. CASE ~ Ongoing(input, f, m + 1, u)
      <4> DEFINE p == o \o Candidates(Talking(input, f, m + 1, u))
      <4>1. r = Handler(Empty, m + 1 + 1, p)
        BY <3>1, <3>3
      <4>2. Before(input, p, m + 1 + 1) /\ Kept(o, p)
        BY <2>3, <3>1, EndKeeps
      <4> HIDE DEF p
      <4>3. Holds(input, Empty, m + 1 + 1, m + 1)
        BY <2>4, NothingHeld
      <4>4. r.out = p
        BY <4>1, HandlerFields
      <4>5. m + 1 + 1 \in Nat /\ m + 1 <= m + 1
        OBVIOUS
      <4>6. Attentive(input, r, m + 1)
        BY <2>4, <4>1, <4>2, <4>3, <4>5 DEF Attentive
      <4> QED
        BY <2>3, <4>2, <4>4, <4>6
    <3> QED
      BY <3>2, <3>3
  <2> QED
    BY <2>3, <2>5, <2>6 DEF Holds, r
<1> QED
  BY <1>1, <1>2 DEF Frames

-----------------------------------------------------------------------------
(* A whole stream.                                                         *)

LEMMA AlwaysAttentive ==
  ASSUME NEW n \in Nat, NEW input \in [1..n -> Frames], NEW m \in 0..n
  PROVE  Attentive(input, After(input)[m], m)
<1> DEFINE h(k) == After(input)[k]
           S == {k \in 0..n : Attentive(input, h(k), k)}
<1>1. h(0) = Unheard /\ \A k \in 1..n : h(k) = Hear(input, h(k - 1), k)
  BY AfterSteps
<1> HIDE DEF h
<1>2. 0 \in S
  BY <1>1 DEF Attentive, Handler, Unheard
<1>3. ASSUME NEW k \in 0..n, k \in S, k + 1 <= n
      PROVE  k + 1 \in S
  <2>1. k \in Nat /\ k + 1 \in 1..n /\ (k + 1) - 1 = k
    BY <1>3
  <2>2. h(k + 1) = Hear(input, h(k), k + 1)
    BY <1>1, <2>1
  <2>3. input[k + 1] \in Frames
    BY <2>1
  <2>4. Attentive(input, h(k + 1), k + 1)
    BY <1>3, <2>1, <2>2, <2>3, HearKeeps
  <2> QED
    BY <2>1, <2>4
<1>4. S = 0..n
  <2> HIDE DEF S
  <2> S \in SUBSET (0..n)
    BY DEF S
  <2> QED
    BY <1>2, <1>3, Counting
<1> QED
  BY <1>4 DEF h

\* What is committed is not taken back later.
LEMMA AlwaysKept ==
  ASSUME NEW n \in Nat, NEW input \in [1..n -> Frames], NEW i \in 0..n
  PROVE  Kept(After(input)[i].out, After(input)[n].out)
<1> DEFINE h(k) == After(input)[k]
           S == {k \in 0..n : i <= k => Kept(h(i).out, h(k).out)}
<1>1. \A k \in 1..n : h(k) = Hear(input, h(k - 1), k)
  BY AfterSteps
<1>2. \A k \in 0..n : Attentive(input, h(k), k)
  BY AlwaysAttentive
<1> HIDE DEF h
<1>3. Kept(h(i).out, h(i).out)
  BY DEF Kept
<1>4. 0 \in S
  BY <1>3
<1>5. ASSUME NEW k \in 0..n, k \in S, k + 1 <= n
      PROVE  k + 1 \in S
  <2>1. k \in Nat /\ k + 1 \in 1..n /\ (k + 1) - 1 = k
    BY <1>5
  <2>2. h(k + 1) = Hear(input, h(k), k + 1) /\ input[k + 1] \in Frames
    BY <1>1, <2>1
  <2>3. Kept(h(k).out, h(k + 1).out)
    BY <1>2, <2>1, <2>2, HearKeeps
  <2>4. CASE i <= k
    <3>1. Kept(h(i).out, h(k).out)
      BY <1>5, <2>4
    <3>2. Kept(h(i).out, h(k + 1).out)
      BY <2>3, <3>1 DEF Kept
    <3> QED
      BY <2>1, <3>2
  <2>5. CASE ~ i <= k
    <3>1. i <= k + 1 => i = k + 1
      BY <2>1, <2>5
    <3> QED
      BY <1>3, <2>1, <3>1
  <2> QED
    BY <2>4, <2>5
<1>6. S = 0..n
  <2> HIDE DEF S
  <2> S \in SUBSET (0..n)
    BY DEF S
  <2> QED
    BY <1>4, <1>5, Counting
<1> QED
  BY <1>6 DEF h

\* The end of the stream is one more end of an utterance, if one is under way.
LEMMA CutsAre ==
  ASSUME NEW n \in Nat, NEW input \in [1..n -> Frames]
  PROVE  /\ Sound(input, Cuts(input, TRUE))
         /\ Kept(After(input)[n].out, Cuts(input, TRUE))
<1> DEFINE h == After(input)[n]
<1>1. Len(input) = n
  OBVIOUS
<1>2. Cuts(input, TRUE) = h.out \o Candidates(h.d)
  BY <1>1, Zenon DEF Cuts
<1>3. Attentive(input, h, n)
  BY AlwaysAttentive
<1> HIDE DEF h
<1>4. CASE h = Handler(Empty, 0, <<>>)
  <2>1. h.out = <<>> /\ h.d = Empty
    BY <1>4, HandlerFields
  <2>2. Candidates(Empty) = <<>>
    <3>1. Empty.active = <<>>
      BY DEF Empty
    <3> QED
      BY <3>1, Zenon DEF Candidates
  <2>3. Cuts(input, TRUE) = <<>>
    <3>1. <<>> \o <<>> = <<>>
      OBVIOUS
    <3> QED
      BY <1>2, <2>1, <2>2, <3>1, Zenon
  <2>4. Sound(input, <<>>) /\ Kept(<<>>, <<>>)
    BY DEF Sound, Kept
  <2> QED
    BY <2>1, <2>3, <2>4, Zenon DEF h
<1>5. ASSUME NEW d, NEW o, NEW f \in Nat, NEW l \in Nat,
             h = Handler(d, l + 1, o), Holds(input, d, f, l), Before(input, o, f)
      PROVE  Sound(input, Cuts(input, TRUE)) /\ Kept(h.out, Cuts(input, TRUE))
  <2>1. h.out = o /\ h.d = d
    BY <1>5, HandlerFields
  <2>2. CASE d = Waiting(f, l)
    <3>1. Candidates(d) = <<>>
      BY <2>2 DEF Candidates, Waiting, Parts
    <3>2. Cuts(input, TRUE) = o
      <4>1. o \in Seq(Pieces)
        BY <1>5 DEF Before
      <4>2. o \o <<>> = o
        BY <4>1
      <4> QED
        BY <1>2, <2>1, <3>1, <4>2
    <3> QED
      BY <1>5, <2>1, <3>2 DEF Before, Kept
  <2>3. ASSUME NEW t \in Nat, Ongoing(input, f, l, t), d = Talking(input, f, l, t)
        PROVE  Sound(input, Cuts(input, TRUE)) /\ Kept(h.out, Cuts(input, TRUE))
    <3>1. Cuts(input, TRUE) = o \o Candidates(Talking(input, f, l, t))
      BY <1>2, <2>1, <2>3
    <3>2. Speaking(input, f, l, t)
      BY <2>3 DEF Ongoing
    <3>3. Before(input, o, f)
      BY <1>5
    <3>4. Before(input, Cuts(input, TRUE), l + 1) /\ Kept(o, Cuts(input, TRUE))
      <4> DEFINE p == o \o Candidates(Talking(input, f, l, t))
      <4>1. Before(input, p, l + 1) /\ Kept(o, p)
        BY <3>2, <3>3, EndKeeps
      <4> QED
        BY <3>1, <4>1
    <3> QED
      BY <2>1, <3>4 DEF Before
  <2> QED
    BY <1>5, <2>2, <2>3 DEF Holds
<1> QED
  BY <1>3, <1>4, <1>5 DEF Attentive, h

\* A stream that is flushed has at most one utterance more.
LEMMA OutIsPieces ==
  ASSUME NEW n \in Nat, NEW input \in [1..n -> Frames]
  PROVE  /\ Cuts(input, FALSE) = After(input)[n].out
         /\ Cuts(input, FALSE) \in Seq(Pieces)
         /\ Cuts(input, TRUE) \in Seq(Pieces)
<1> DEFINE h == After(input)[n]
<1>1. Len(input) = n
  OBVIOUS
<1>2. Cuts(input, FALSE) = h.out /\ Cuts(input, TRUE) = h.out \o Candidates(h.d)
  BY <1>1, Zenon DEF Cuts
<1>3. Attentive(input, h, n)
  BY AlwaysAttentive
<1> HIDE DEF h
<1>4. CASE h = Handler(Empty, 0, <<>>)
  <2>1. h.out = <<>> /\ h.d = Empty
    BY <1>4, HandlerFields
  <2>2. Candidates(Empty) = <<>>
    <3>1. Empty.active = <<>>
      BY DEF Empty
    <3> QED
      BY <3>1, Zenon DEF Candidates
  <2>3. <<>> \o <<>> = <<>> /\ <<>> \in Seq(Pieces)
    OBVIOUS
  <2> QED
    BY <1>2, <2>1, <2>2, <2>3, Zenon DEF h
<1>5. ASSUME NEW d, NEW o, NEW f \in Nat, NEW l \in Nat,
             h = Handler(d, l + 1, o), Holds(input, d, f, l), Before(input, o, f)
      PROVE  h.out \in Seq(Pieces) /\ h.out \o Candidates(h.d) \in Seq(Pieces)
  <2>1. h.out = o /\ h.d = d /\ o \in Seq(Pieces)
    BY <1>5, HandlerFields DEF Before
  <2>2. CASE d = Waiting(f, l)
    <3>1. Candidates(d) = <<>>
      BY <2>2 DEF Candidates, Waiting, Parts
    <3>2. o \o <<>> \in Seq(Pieces)
      BY <2>1
    <3> QED
      BY <2>1, <3>1, <3>2
  <2>3. ASSUME NEW t \in Nat, Ongoing(input, f, l, t), d = Talking(input, f, l, t)
        PROVE  o \o Candidates(d) \in Seq(Pieces)
    <3>1. Speaking(input, f, l, t)
      BY <2>3 DEF Ongoing
    <3> DEFINE p == o \o Candidates(Talking(input, f, l, t))
    <3>2. Before(input, p, l + 1)
      BY <1>5, <3>1, EndKeeps
    <3> QED
      BY <2>3, <3>2 DEF Before
  <2> QED
    BY <1>5, <2>1, <2>2, <2>3 DEF Holds
<1>6. CASE h # Handler(Empty, 0, <<>>)
  <2>1. \E d, o : \E f, l \in Nat :
          h = Handler(d, l + 1, o) /\ Holds(input, d, f, l) /\ Before(input, o, f)
    BY <1>3, <1>6 DEF Attentive
  <2>2. PICK d, o : \E f, l \in Nat :
          h = Handler(d, l + 1, o) /\ Holds(input, d, f, l) /\ Before(input, o, f)
    BY <2>1
  <2> QED
    BY <1>2, <1>5, <2>2 DEF h
<1> QED
  BY <1>4, <1>6

\* Of utterances that are sound, the first ones are.
LEMMA SoundFirst ==
  ASSUME NEW input, NEW p, Sound(input, p), NEW o \in Seq(Pieces), Kept(o, p)
  PROVE  Sound(input, o)
<1> SUFFICES ASSUME NEW k \in DOMAIN o
             PROVE  /\ o[k].frames = [i \in 1..Cardinality(o[k].from..o[k].to) |->
                                        o[k].from + i - 1]
                    /\ Whole(input, o[k].from..o[k].to)
                    /\ Cardinality(Spoken(input, o[k].from..o[k].to)) >= MinVoiced
                    /\ Cardinality(o[k].from..o[k].to) <= HardMax
                    /\ k > 1 => o[k - 1].to < o[k].from
  BY DEF Sound
<1>1. k \in DOMAIN p /\ p[k] = o[k]
  BY DEF Kept
<1>2. k > 1 => k - 1 \in DOMAIN o
  <2>1. DOMAIN o = 1..Len(o) /\ Len(o) \in Nat
    OBVIOUS
  <2> QED
    BY <2>1
<1>3. k > 1 => p[k - 1] = o[k - 1]
  BY <1>2 DEF Kept
<1> QED
  BY <1>1, <1>3 DEF Sound

-----------------------------------------------------------------------------
(* No phrase is left out.                                                  *)

Reaches(o, S) == \E k \in DOMAIN o : S \cap (o[k].from..o[k].to) # {}

\* A phrase a..b is in an utterance, or in the one under way after frame j.
Followed(input, h, a, b, j) ==
  \/ Reaches(h.out, a..b)
  \/ \E o : \E f, t \in Nat :
       /\ f <= a
       /\ Ongoing(input, f, j, t)
       /\ h = Handler(Talking(input, f, j, t), j + 1, o)

LEMMA KeptReaches ==
  ASSUME NEW o, NEW p, NEW S, Kept(o, p), Reaches(o, S)
  PROVE  Reaches(p, S)
BY DEF Kept, Reaches

LEMMA EndReaches ==
  ASSUME NEW input, NEW o, NEW f, NEW l, NEW t, Before(input, o, f),
         Speaking(input, f, l, t), Cardinality(Spoken(input, f..l)) >= MinVoiced,
         NEW a \in f..l, NEW b \in Nat, a <= b
  PROVE  Reaches(o \o Candidates(Talking(input, f, l, t)), a..b)
<1> DEFINE p == o \o Candidates(Talking(input, f, l, t))
<1>0. p = o \o Candidates(Talking(input, f, l, t))
  OBVIOUS
<1> HIDE DEF p
<1>1. PICK k \in DOMAIN p : p[k].from = f /\ p[k].to = l
  BY <1>0, EndKeeps
<1>2. f \in Nat /\ l \in Nat
  BY DEF Speaking
<1>3. a \in (a..b) \cap (p[k].from..p[k].to)
  BY <1>1, <1>2
<1>4. Reaches(p, a..b)
  BY <1>3 DEF Reaches
<1> QED
  BY <1>0, <1>4

\* Where an utterance that reaches back to a ends, it counts, if a..b does.
LEMMA EndCounts ==
  ASSUME NEW input, NEW f, NEW l, NEW t, NEW a \in Nat, NEW b \in Nat,
         Speaking(input, f, l, t), ~ Ongoing(input, f, l, t),
         f <= a, a <= l, a <= b, input[a] = "speech", OnePhrase(input, a..b),
         Cardinality(Spoken(input, a..b)) >= MinVoiced
  PROVE  Cardinality(Spoken(input, f..l)) >= MinVoiced
<1>1. CASE t # Silence
  BY <1>1, LongEnough
<1>2. CASE t = Silence
  <2>1. /\ f \in Nat /\ l \in Nat /\ l - t \in Nat
        /\ Spoken(input, (l - Silence + 1)..l) = {}
    BY <1>2, Settings DEF Speaking
  <2>2. a < l - Silence + 1
    <3>1. a \notin (l - Silence + 1)..l
      BY <2>1 DEF Spoken
    <3> QED
      BY <2>1, <3>1, Settings
  <2>3. CASE l <= b
    <3> DEFINE i == l - Silence + 1
    <3>1. i \in a..b /\ i + Silence - 1 = l /\ l \in a..b
      BY <2>1, <2>2, <2>3, Settings
    <3>2. Spoken(input, i..(i + Silence - 1)) = {}
      BY <2>1, <3>1
    <3> HIDE DEF i
    <3> QED
      BY <3>1, <3>2 DEF OnePhrase
  <2>4. CASE b < l
    <3>1. b <= l
      BY <2>1, <2>4
    <3>2. Cardinality(Spoken(input, a..b)) <= Cardinality(Spoken(input, f..l))
      BY <2>1, <3>1, SpokenGrows
    <3>3. /\ Cardinality(Spoken(input, a..b)) \in Nat
          /\ Cardinality(Spoken(input, f..l)) \in Nat
      BY <2>1, SpokenCount
    <3> QED
      BY <3>2, <3>3, Settings
  <2> QED
    BY <2>1, <2>3, <2>4
<1> QED
  BY <1>1, <1>2

\* An utterance under way is the one the detector holds, after the utterances so far.
LEMMA AttentiveTalks ==
  ASSUME NEW input, NEW h, NEW j \in Nat, Attentive(input, h, j),
         NEW o, NEW f \in Nat, NEW t \in Nat, Ongoing(input, f, j, t),
         h = Handler(Talking(input, f, j, t), j + 1, o)
  PROVE  Before(input, o, f)
<1>1. h.out = o /\ h.expected = j + 1
  BY HandlerFields
<1>2. h # Handler(Empty, 0, <<>>)
  BY <1>1, HandlerFields
<1>3. PICK d, p : \E g, l \in Nat :
        /\ h = Handler(d, l + 1, p) /\ Holds(input, d, g, l) /\ Before(input, p, g)
  BY <1>2 DEF Attentive
<1>4. PICK g \in Nat, l \in Nat :
        h = Handler(d, l + 1, p) /\ Holds(input, d, g, l) /\ Before(input, p, g)
  BY <1>3
<1>5. p = o /\ d = Talking(input, f, j, t)
  BY <1>4, HandlerFields
<1>6. g = f
  <2>1. d.active = Run(f, j) /\ Run(f, j) # <<>> /\ Head(Run(f, j)) = f
    BY <1>5, RunEnds DEF Talking, Parts, Ongoing, Speaking
  <2>2. d # Waiting(g, l)
    BY <2>1 DEF Waiting, Parts
  <2>3. PICK u \in Nat : Ongoing(input, g, l, u) /\ d = Talking(input, g, l, u)
    BY <1>4, <2>2 DEF Holds
  <2>4. d.active = Run(g, l) /\ Head(Run(g, l)) = g
    BY <2>3, RunEnds DEF Talking, Parts, Ongoing, Speaking
  <2> QED
    BY <2>1, <2>4
<1> QED
  BY <1>4, <1>5, <1>6

LEMMA FollowsNext ==
  ASSUME NEW input, NEW h, NEW a \in Nat, NEW b \in Nat, NEW j \in Nat, a <= b, a <= j,
         input[a] = "speech", OnePhrase(input, a..b),
         Cardinality(Spoken(input, a..b)) >= MinVoiced,
         Attentive(input, h, j), Followed(input, h, a, b, j),
         input[j + 1] \in {"speech", "silence"}
  PROVE  Followed(input, Hear(input, h, j + 1), a, b, j + 1)
<1> DEFINE r == Hear(input, h, j + 1)
<1>1. CASE Reaches(h.out, a..b)
  <2>1. Kept(h.out, r.out)
    BY HearKeeps DEF Frames
  <2> QED
    BY <1>1, <2>1, KeptReaches DEF Followed
<1>2. ASSUME NEW o, NEW f \in Nat, NEW t \in Nat, f <= a, Ongoing(input, f, j, t),
             h = Handler(Talking(input, f, j, t), j + 1, o)
      PROVE  Followed(input, r, a, b, j + 1)
  <2>1. h.out = o /\ h.expected = j + 1
    BY <1>2, HandlerFields
  <2>2. Joined(h, j + 1) = Handler(Talking(input, f, j, t), j + 1, o)
    BY <1>2, <2>1 DEF Joined
  <2>3. Before(input, o, f)
    BY <1>2, AttentiveTalks
  <2>4. PICK u \in Nat :
          /\ Speaking(input, f, j + 1, u)
          /\ Heard(h, j + 1, input[j + 1] = "speech") =
               IF Ongoing(input, f, j + 1, u)
               THEN Handler(Talking(input, f, j + 1, u), j + 1 + 1, o)
               ELSE Handler(Empty, j + 1 + 1, o \o Candidates(Talking(input, f, j + 1, u)))
    BY <1>2, <2>2, HeardOngoing
  <2>5. r = Heard(h, j + 1, input[j + 1] = "speech")
    BY DEF Hear
  <2> HIDE DEF r
  <2>6. CASE Ongoing(input, f, j + 1, u)
    <3>1. r = Handler(Talking(input, f, j + 1, u), j + 1 + 1, o)
      BY <2>4, <2>5, <2>6
    <3> QED
      BY <1>2, <2>6, <3>1 DEF Followed
  <2>7. CASE ~ Ongoing(input, f, j + 1, u)
    <3> DEFINE p == o \o Candidates(Talking(input, f, j + 1, u))
    <3>1. r = Handler(Empty, j + 1 + 1, p)
      BY <2>4, <2>5, <2>7
    <3>2. a <= j + 1 /\ a \in f..(j + 1) /\ j + 1 \in Nat
      BY <1>2
    <3>3. Cardinality(Spoken(input, f..(j + 1))) >= MinVoiced
      BY <1>2, <2>4, <2>7, <3>2, EndCounts
    <3>4. Reaches(p, a..b)
      BY <2>3, <2>4, <3>2, <3>3, EndReaches
    <3> HIDE DEF p
    <3>5. r.out = p
      BY <3>1, HandlerFields
    <3> QED
      BY <3>4, <3>5 DEF Followed
  <2> QED
    BY <2>6, <2>7
<1> QED
  BY <1>1, <1>2 DEF Followed

LEMMA FollowsFirst ==
  ASSUME NEW input, NEW h, NEW j \in Nat, NEW b \in Nat, j + 1 <= b,
         input[j + 1] = "speech", OnePhrase(input, (j + 1)..b),
         Cardinality(Spoken(input, (j + 1)..b)) >= MinVoiced,
         Attentive(input, h, j)
  PROVE  Followed(input, Hear(input, h, j + 1), j + 1, b, j + 1)
<1> DEFINE r == Hear(input, h, j + 1)
           a == j + 1
<1>1. PICK d, e, o : \E f \in Nat :
        /\ Joined(h, j + 1) = Handler(d, e, o) /\ h.out = o
        /\ Holds(input, d, f, j) /\ Before(input, o, f)
  BY JoinedIs
<1>2. PICK f \in Nat : /\ Joined(h, j + 1) = Handler(d, e, o)
                       /\ Holds(input, d, f, j) /\ Before(input, o, f)
  BY <1>1
<1>3. r = Heard(h, j + 1, input[j + 1] = "speech")
  BY DEF Hear
<1>4. f <= a /\ a \in Nat
  BY <1>2, HoldsFrom
<1> HIDE DEF r
<1>5. CASE Quietly(input, f, j) /\ d = Waiting(f, j)
  <2>1. Joined(h, j + 1) = Handler(Waiting(f, j), e, o) /\ Quietly(input, f, j)
    BY <1>2, <1>5
  <2>2. /\ Ongoing(input, f, j + 1, 0)
        /\ r = Handler(Talking(input, f, j + 1, 0), j + 1 + 1, o)
    BY <1>3, <2>1, HeardBegin
  <2> QED
    BY <1>4, <2>2 DEF Followed, r
<1>6. ASSUME NEW t \in Nat, Ongoing(input, f, j, t), d = Talking(input, f, j, t)
      PROVE  Followed(input, r, a, b, a)
  <2>1. PICK u \in Nat :
          /\ Speaking(input, f, j + 1, u)
          /\ r = IF Ongoing(input, f, j + 1, u)
                 THEN Handler(Talking(input, f, j + 1, u), j + 1 + 1, o)
                 ELSE Handler(Empty, j + 1 + 1, o \o Candidates(Talking(input, f, j + 1, u)))
    BY <1>2, <1>3, <1>6, HeardOngoing
  <2>2. CASE Ongoing(input, f, j + 1, u)
    BY <1>4, <2>1, <2>2 DEF Followed
  <2>3. CASE ~ Ongoing(input, f, j + 1, u)
    <3> DEFINE p == o \o Candidates(Talking(input, f, j + 1, u))
    <3>1. r = Handler(Empty, j + 1 + 1, p)
      BY <2>1, <2>3
    <3>2. j + 1 \in f..(j + 1) /\ j + 1 <= j + 1 /\ j + 1 \in Nat
      BY <1>4
    <3>3. Cardinality(Spoken(input, f..(j + 1))) >= MinVoiced
      BY <1>4, <2>1, <2>3, <3>2, EndCounts
    <3>4. Reaches(p, (j + 1)..b)
      BY <1>2, <2>1, <3>2, <3>3, EndReaches
    <3> HIDE DEF p
    <3>5. r.out = p
      BY <3>1, HandlerFields
    <3> QED
      BY <3>4, <3>5 DEF Followed
  <2> QED
    BY <2>2, <2>3
<1> QED
  BY <1>2, <1>5, <1>6 DEF Holds, r

LEMMA AlwaysFollowed ==
  ASSUME NEW n \in Nat, NEW input \in [1..n -> Frames],
         NEW a \in 1..n, NEW b \in 1..n, NEW e \in 1..n, a <= b, b <= e,
         input[a] = "speech", OnePhrase(input, a..b), Whole(input, a..e),
         Cardinality(Spoken(input, a..b)) >= MinVoiced
  PROVE  Followed(input, After(input)[e], a, b, e)
<1> DEFINE h(k) == After(input)[k]
           S == {k \in 0..(e - a) : Followed(input, h(a + k), a, b, a + k)}
<1>1. \A k \in 1..n : h(k) = Hear(input, h(k - 1), k)
  BY AfterSteps
<1>2. \A k \in 0..n : Attentive(input, h(k), k)
  BY AlwaysAttentive
<1> HIDE DEF h
<1>3. 0 \in S
  <2>1. a - 1 \in Nat /\ a - 1 \in 0..n /\ (a - 1) + 1 = a /\ b \in Nat
    BY <1>1
  <2>2. h(a) = Hear(input, h(a - 1), a) /\ Attentive(input, h(a - 1), a - 1)
    BY <1>1, <1>2, <2>1
  <2>3. Followed(input, h(a), a, b, a)
    <3> DEFINE j == a - 1
    <3>1. j \in Nat /\ j + 1 = a
      BY <2>1
    <3> HIDE DEF j
    <3>2. Attentive(input, h(j), j)
      BY <2>2 DEF j
    <3>3. Followed(input, Hear(input, h(j), j + 1), j + 1, b, j + 1)
      BY <2>1, <3>1, <3>2, FollowsFirst
    <3> QED
      BY <2>2, <3>1, <3>3 DEF j
  <2> QED
    BY <2>3
<1>4. ASSUME NEW k \in 0..(e - a), k \in S, k + 1 <= e - a
      PROVE  k + 1 \in S
  <2> DEFINE j == a + k
  <2>1. /\ j \in Nat /\ j \in 0..n /\ j + 1 \in 1..n /\ j + 1 \in a..e /\ a <= j
        /\ j + 1 = a + (k + 1) /\ (j + 1) - 1 = j
    BY <1>4
  <2>2. Followed(input, h(j), a, b, j)
    BY <1>4
  <2> HIDE DEF j
  <2>3. h(j + 1) = Hear(input, h(j), j + 1) /\ Attentive(input, h(j), j)
    BY <1>1, <1>2, <2>1
  <2>4. input[j + 1] \in {"speech", "silence"}
    BY <2>1 DEF Whole, Frames
  <2>5. Followed(input, Hear(input, h(j), j + 1), a, b, j + 1)
    BY <2>1, <2>2, <2>3, <2>4, FollowsNext
  <2> QED
    BY <1>4, <2>1, <2>3, <2>5
<1>5. S = 0..(e - a)
  <2>1. e - a \in Nat
    OBVIOUS
  <2> HIDE DEF S
  <2>2. S \in SUBSET (0..(e - a))
    BY DEF S
  <2> QED
    BY <1>3, <1>4, <2>1, <2>2, Counting
<1>6. e - a \in S /\ a + (e - a) = e
  <2>1. e - a \in 0..(e - a)
    OBVIOUS
  <2> HIDE DEF S
  <2> QED
    BY <1>5, <2>1
<1>7. Followed(input, h(e), a, b, e)
  BY <1>6
<1> QED
  BY <1>7 DEF h

\* An utterance under way at e has ended there if that is due.
LEMMA DueEnds ==
  ASSUME NEW n \in Nat, NEW input \in [1..n -> Frames],
         NEW a \in 1..n, NEW e \in 1..n, NEW f, NEW t,
         Ongoing(input, f, e, t), f <= a, NEW flushed, Due(input, a, e, flushed)
  PROVE  flushed /\ e = n
<1>1. /\ f \in Nat /\ t \in Nat /\ t < Silence /\ e - f + 1 < HardMax
      /\ f <= e - t /\ input[e - t] = "speech"
  BY DEF Ongoing, Speaking
<1>2. ~ (e - a + 1 >= HardMax)
  BY <1>1, Settings
<1>3. Spoken(input, (e - Silence + 1)..e) # {}
  <2>1. e - t \in (e - Silence + 1)..e
    BY <1>1, Settings
  <2> QED
    BY <1>1, <2>1 DEF Spoken
<1>4. Len(input) = n
  OBVIOUS
<1> QED
  BY <1>2, <1>3, <1>4 DEF Due

LEMMA NoneLeftOut ==
  ASSUME NEW n \in Nat, NEW input \in [1..n -> Frames],
         NEW a \in 1..n, NEW b \in 1..n, NEW e \in 1..n, a <= b, b <= e,
         input[a] = "speech", OnePhrase(input, a..b), Whole(input, a..e),
         NEW flushed \in BOOLEAN, Due(input, a, e, flushed),
         Cardinality(Spoken(input, a..b)) >= MinVoiced
  PROVE  Reaches(Cuts(input, flushed), a..b)
<1> DEFINE h == After(input)[e]
<1>1. Followed(input, h, a, b, e)
  BY AlwaysFollowed
<1>2. Kept(h.out, After(input)[n].out) /\ Kept(After(input)[n].out, Cuts(input, TRUE))
  <2>1. e \in 0..n
    OBVIOUS
  <2> QED
    BY <2>1, AlwaysKept, CutsAre, Zenon
<1>4. Len(input) = n
  OBVIOUS
<1>3. Kept(h.out, Cuts(input, flushed))
  <2>1. Cuts(input, FALSE) = After(input)[n].out
    BY OutIsPieces
  <2>2. CASE flushed = FALSE
    BY <1>2, <2>1, <2>2
  <2>3. CASE flushed = TRUE
    <3>1. Kept(h.out, Cuts(input, TRUE))
      BY <1>2 DEF Kept
    <3> QED
      BY <2>3, <3>1
  <2> QED
    BY <2>2, <2>3
<1>5. e = n /\ flushed => Cuts(input, flushed) = h.out \o Candidates(h.d)
  BY <1>4, Zenon DEF Cuts
<1>6. Attentive(input, h, e)
  BY AlwaysAttentive
<1> HIDE DEF h
<1>7. CASE Reaches(h.out, a..b)
  BY <1>3, <1>7, KeptReaches
<1>8. ASSUME NEW o, NEW f \in Nat, NEW t \in Nat, f <= a, Ongoing(input, f, e, t),
             h = Handler(Talking(input, f, e, t), e + 1, o)
      PROVE  Reaches(Cuts(input, flushed), a..b)
  <2>1. h.out = o /\ h.d = Talking(input, f, e, t)
    BY <1>8, HandlerFields
  <2>2. flushed /\ e = n
    BY <1>8, DueEnds
  <2>3. Speaking(input, f, e, t)
    BY <1>8 DEF Ongoing
  <2>4. Before(input, o, f)
    BY <1>6, <1>8, AttentiveTalks
  <2>5. Cardinality(Spoken(input, f..e)) >= MinVoiced
    <3>1. Cardinality(Spoken(input, a..b)) <= Cardinality(Spoken(input, f..e))
      BY <1>8, SpokenGrows
    <3>2. /\ Cardinality(Spoken(input, a..b)) \in Nat
          /\ Cardinality(Spoken(input, f..e)) \in Nat
      BY SpokenCount
    <3> QED
      BY <3>1, <3>2, Settings
  <2>6. a \in f..e /\ b \in Nat
    BY <1>8
  <2>7. Reaches(o \o Candidates(Talking(input, f, e, t)), a..b)
    BY <2>3, <2>4, <2>5, <2>6, EndReaches
  <2> QED
    BY <1>5, <2>1, <2>2, <2>7
<1> QED
  BY <1>1, <1>7, <1>8 DEF Followed

-----------------------------------------------------------------------------
\* Whatever a stream holds, and however long it is: each utterance that the detector
\* (EnergyEndpointDetector) cuts from it is unbroken audio with enough speech and of a
\* bounded length, after the ones before it, and no phrase that counts and is heard
\* until its utterance is due to end is left out; whether the stream is flushed or not.
THEOREM CutsAreSoundAndComplete ==
  ASSUME NEW n \in Nat, NEW input \in [1..n -> Frames], NEW flushed \in BOOLEAN
  PROVE  /\ Sound(input, Cuts(input, flushed))
         /\ Complete(input, Cuts(input, flushed), flushed)
<1>1. Sound(input, Cuts(input, flushed))
  <2>1. CASE flushed = TRUE
    <3>1. Sound(input, Cuts(input, TRUE))
      BY CutsAre
    <3> QED
      BY <2>1, <3>1
  <2>2. CASE flushed = FALSE
    <3>1. /\ Cuts(input, FALSE) = After(input)[n].out
          /\ Cuts(input, FALSE) \in Seq(Pieces)
      BY OutIsPieces
    <3>2. Sound(input, Cuts(input, TRUE)) /\ Kept(Cuts(input, FALSE), Cuts(input, TRUE))
      BY <3>1, CutsAre
    <3> QED
      BY <2>2, <3>1, <3>2, SoundFirst
  <2> QED
    BY <2>1, <2>2
<1>2. Complete(input, Cuts(input, flushed), flushed)
  <2> DEFINE out == Cuts(input, flushed)
  <2> SUFFICES ASSUME NEW a \in DOMAIN input, NEW b \in DOMAIN input, NEW e \in DOMAIN input,
                      a <= b, b <= e, input[a] = "speech", OnePhrase(input, a..b),
                      Whole(input, a..e), Due(input, a, e, flushed),
                      \A k \in DOMAIN out : (a..b) \cap (out[k].from..out[k].to) = {},
                      ~ (Cardinality(Spoken(input, a..b)) < MinVoiced)
               PROVE  FALSE
    BY DEF Complete
  <2>1. a \in 1..n /\ b \in 1..n /\ e \in 1..n
    OBVIOUS
  <2>2. Cardinality(Spoken(input, a..b)) >= MinVoiced
    <3>1. Cardinality(Spoken(input, a..b)) \in Nat
      BY <2>1, SpokenCount
    <3> QED
      BY <3>1, Settings
  <2>3. Reaches(Cuts(input, flushed), a..b)
    BY <2>1, <2>2, NoneLeftOut
  <2> QED
    BY <2>3 DEF Reaches
<1> QED
  BY <1>1, <1>2

-----------------------------------------------------------------------------
(* A stream that grows.                                                    *)

LEMMA SeqIsFunction ==
  ASSUME NEW T, NEW s \in Seq(T), NEW n \in Nat, Len(s) = n
  PROVE  s \in [1..n -> T]
OBVIOUS

\* What comes later changes nothing in what the handler made of the frames before.
LEMMA AfterNext ==
  ASSUME NEW n \in Nat, NEW input \in [1..n -> Frames],
         NEW longer \in [1..(n + 1) -> Frames], \A i \in 1..n : longer[i] = input[i]
  PROVE  \A i \in 0..n : After(longer)[i] = After(input)[i]
<1> DEFINE S == {i \in 0..n : After(longer)[i] = After(input)[i]}
<1>1. After(longer)[0] = Unheard /\ After(input)[0] = Unheard
  BY AfterSteps
<1>2. /\ \A i \in 1..n : After(input)[i] = Hear(input, After(input)[i - 1], i)
      /\ \A i \in 1..(n + 1) : After(longer)[i] = Hear(longer, After(longer)[i - 1], i)
  BY AfterSteps
<1>3. 0 \in S
  BY <1>1
<1>4. ASSUME NEW m \in 0..n, m \in S, m + 1 <= n
      PROVE  m + 1 \in S
  <2>1. m + 1 \in 1..n /\ m + 1 \in 1..(n + 1) /\ (m + 1) - 1 = m
    BY <1>4
  <2>2. After(longer)[m] = After(input)[m] /\ longer[m + 1] = input[m + 1]
    BY <1>4, <2>1
  <2>3. After(input)[m + 1] = Hear(input, After(input)[m], m + 1)
    BY <1>2, <2>1
  <2>4. After(longer)[m + 1] = Hear(longer, After(longer)[m], m + 1)
    BY <1>2, <2>1
  <2>5. After(longer)[m + 1] = After(input)[m + 1]
    BY <2>2, <2>3, <2>4, Zenon DEF Hear
  <2> QED
    BY <2>1, <2>5
<1>5. S = 0..n
  <2> HIDE DEF S
  <2> S \in SUBSET (0..n)
    BY DEF S
  <2> QED
    BY <1>3, <1>4, Counting
<1> QED
  BY <1>5

LEMMA KeptTransitive ==
  ASSUME NEW o, NEW p, NEW q, Kept(o, p), Kept(p, q)
  PROVE  Kept(o, q)
BY DEF Kept

\* An utterance that was found is found again after one more frame, and after a flush.
LEMMA CutsGrow ==
  ASSUME NEW input \in Seq(Frames), NEW frame \in Frames
  PROVE  LET longer == Append(input, frame)
         IN /\ Kept(Cuts(input, FALSE), Cuts(input, TRUE))
            /\ Kept(Cuts(input, FALSE), Cuts(longer, FALSE))
            /\ Kept(Cuts(input, FALSE), Cuts(longer, TRUE))
<1> DEFINE n == Len(input)
           longer == Append(input, frame)
<1>1. /\ n \in Nat /\ n + 1 \in Nat /\ n \in 0..(n + 1) /\ n \in 0..n
      /\ input \in [1..n -> Frames] /\ longer \in [1..(n + 1) -> Frames]
      /\ \A i \in 1..n : longer[i] = input[i]
  <2>1. n \in Nat /\ input \in [1..n -> Frames]
    OBVIOUS
  <2>2. longer \in Seq(Frames) /\ Len(longer) = n + 1
    OBVIOUS
  <2>3. \A i \in 1..Len(input) : Append(input, frame)[i] = input[i]
    OBVIOUS
  <2>4. longer \in [1..(n + 1) -> Frames]
    <3>1. n + 1 \in Nat
      BY <2>1
    <3> HIDE DEF longer, n
    <3> QED
      BY <2>2, <3>1, SeqIsFunction
  <2>5. \A i \in 1..n : longer[i] = input[i]
    BY <2>3
  <2> HIDE DEF n, longer
  <2> QED
    BY <2>1, <2>4, <2>5
<1> HIDE DEF n, longer
<1>2. Cuts(input, FALSE) = After(input)[n].out
  BY <1>1, OutIsPieces
<1>3. Cuts(longer, FALSE) = After(longer)[n + 1].out
  BY <1>1, OutIsPieces
<1>4. After(longer)[n] = After(input)[n]
  BY <1>1, AfterNext
<1>5. Kept(After(longer)[n].out, After(longer)[n + 1].out)
  BY <1>1, AlwaysKept
<1>6. Kept(After(input)[n].out, Cuts(input, TRUE))
  BY <1>1, CutsAre
<1>7. Kept(After(longer)[n + 1].out, Cuts(longer, TRUE))
  BY <1>1, CutsAre
<1>8. Kept(Cuts(input, FALSE), Cuts(longer, FALSE))
  BY <1>2, <1>3, <1>4, <1>5
<1>9. Kept(Cuts(input, FALSE), Cuts(longer, TRUE))
  BY <1>3, <1>7, <1>8, KeptTransitive
<1> QED
  BY <1>2, <1>6, <1>8, <1>9 DEF longer

LEMMA CutsTyped ==
  ASSUME NEW input \in Seq(Frames), NEW flushed \in BOOLEAN
  PROVE  Cuts(input, flushed) \in Seq(Pieces)
<1>1. Len(input) \in Nat /\ input \in [1..Len(input) -> Frames]
  OBVIOUS
<1>2. Cuts(input, FALSE) \in Seq(Pieces) /\ Cuts(input, TRUE) \in Seq(Pieces)
  BY <1>1, OutIsPieces
<1> QED
  BY <1>2

-----------------------------------------------------------------------------
(* The inductive invariant of the lanes.                                   *)

\* A lane has committed the first of its candidates; after one was refused, of those
\* that a flush would have given out.
LaneOK(e) ==
  /\ Kept(committed[e], Cuts(lane[e].heard, TRUE))
  /\ lane[e].step # "refused" => Kept(committed[e], Found(e))

\* A lane commits only in the latest generation.
NoneAhead == \A i \in DOMAIN utterances : utterances[i] <= capture.epoch

Inv == TypeOK /\ GenerationsInOrder /\ NoneAhead /\ \A e \in Epochs : LaneOK(e)

LEMMA InitInv == Init => Inv
<1> SUFFICES ASSUME Init
             PROVE  Inv
  OBVIOUS
<1> USE DEF Init
<1>1. 1 \in Epochs
  BY LaneAssumption DEF Epochs
<1>2. <<>> \in Seq(Frames) /\ <<>> \in Seq(Epochs)
      /\ <<>> \in Seq([from : Nat, to : Nat, frames : Seq(Nat)])
  OBVIOUS
<1>3. TypeOK
  BY <1>1, <1>2 DEF TypeOK, NoLane, LaneSteps
<1>4. GenerationsInOrder /\ NoneAhead
  BY DEF GenerationsInOrder, NoneAhead
<1>5. \A e \in Epochs : LaneOK(e)
  BY DEF LaneOK, Kept
<1> QED
  BY <1>3, <1>4, <1>5 DEF Inv

\* What a lane has found depends on nothing else.
LEMMA LaneKept ==
  ASSUME NEW e \in Epochs, LaneOK(e), lane'[e].heard = lane[e].heard,
         committed'[e] = committed[e], Flushed(e)' = Flushed(e),
         lane[e].step = "refused" => lane'[e].step = "refused"
  PROVE  LaneOK(e)'
<1>1. Found(e)' = Found(e)
  BY DEF Found
<1> QED
  BY <1>1 DEF LaneOK

\* A step of the recording or of one lane leaves the other lanes alone.
LEMMA LanesKept ==
  ASSUME Inv, UNCHANGED <<lane, committed>>
  PROVE  \A e \in Epochs : LaneOK(e)'
BY LaneKept DEF Inv, Flushed

LEMMA CaptureStep ==
  ASSUME Inv, Claim \/ DeclareEnd
  PROVE  Inv'
<1>1. TypeOK /\ GenerationsInOrder /\ NoneAhead
  BY DEF Inv
<1>2. capture.epoch \in Nat /\ capture \in [epoch : Epochs, open : BOOLEAN]
  BY <1>1, LaneAssumption DEF TypeOK, Epochs
<1>3. /\ capture' \in [epoch : Epochs, open : BOOLEAN]
      /\ capture'.epoch >= capture.epoch /\ capture'.epoch \in Nat
  <2>1. CASE Claim
    <3>1. capture.epoch < MaxEpoch /\ capture' = [capture EXCEPT !.epoch = capture.epoch + 1]
      BY <2>1 DEF Claim
    <3>2. capture.epoch + 1 \in Epochs
      BY <1>2, <3>1, LaneAssumption DEF Epochs
    <3> QED
      BY <1>2, <3>1, <3>2
  <2>2. CASE DeclareEnd
    <3>1. capture' = [capture EXCEPT !.open = FALSE]
      BY <2>2 DEF DeclareEnd
    <3>2. capture' \in [epoch : Epochs, open : BOOLEAN] /\ capture'.epoch = capture.epoch
      BY <1>2, <3>1
    <3> QED
      BY <1>2, <3>2
  <2> QED
    BY <2>1, <2>2
<1>4. UNCHANGED <<lane, committed, utterances>>
  BY DEF Claim, DeclareEnd
<1>5. TypeOK'
  BY <1>1, <1>3, <1>4 DEF TypeOK
<1>6. NoneAhead'
  <2>1. \A i \in DOMAIN utterances : utterances[i] \in Epochs
    BY <1>1 DEF TypeOK
  <2>2. \A i \in DOMAIN utterances : utterances[i] \in Nat
    BY <2>1, LaneAssumption DEF Epochs
  <2> QED
    BY <1>1, <1>2, <1>3, <1>4, <2>2 DEF NoneAhead
<1>7. GenerationsInOrder'
  BY <1>1, <1>4 DEF GenerationsInOrder
<1> QED
  BY <1>4, <1>5, <1>6, <1>7, LanesKept DEF Inv

\* The steps of a lane that commit nothing.
LEMMA QuietStep ==
  ASSUME Inv, UNCHANGED <<capture, committed, utterances>>, NEW e \in Epochs,
         NEW l \in [step : LaneSteps, heard : Seq(Frames)],
         lane' = [lane EXCEPT ![e] = l], LaneOK(e)'
  PROVE  Inv'
<1>1. TypeOK /\ GenerationsInOrder /\ NoneAhead /\ \A f \in Epochs : LaneOK(f)
  BY DEF Inv
<1>2. TypeOK' /\ GenerationsInOrder' /\ NoneAhead'
  BY <1>1 DEF TypeOK, GenerationsInOrder, NoneAhead
<1>3. \A f \in Epochs \ {e} : LaneOK(f)'
  <2> TAKE f \in Epochs \ {e}
  <2>1. lane'[f] = lane[f] /\ committed'[f] = committed[f]
    BY <1>1 DEF TypeOK
  <2> QED
    BY <1>1, <2>1, LaneKept DEF Flushed
<1> QED
  BY <1>2, <1>3 DEF Inv

LEMMA LaneTyped ==
  ASSUME TypeOK, NEW e \in Epochs
  PROVE  /\ lane[e] \in [step : LaneSteps, heard : Seq(Frames)]
         /\ committed[e] \in Seq(Pieces)
         /\ Found(e) \in Seq(Pieces)
         /\ Flushed(e) \in BOOLEAN
<1>1. lane[e] \in [step : LaneSteps, heard : Seq(Frames)] /\ committed[e] \in Seq(Pieces)
  BY DEF TypeOK, Pieces
<1>2. Flushed(e) \in BOOLEAN
  BY DEF Flushed
<1> QED
  BY <1>1, <1>2, CutsTyped DEF Found

LEMMA HandshakeStep ==
  ASSUME Inv, NEW e \in Epochs, StartLane(e) \/ UtteranceRefused(e)
  PROVE  Inv'
<1>1. /\ UNCHANGED <<capture, committed, utterances>>
      /\ \E step \in {"open", "refused"} : lane' = [lane EXCEPT ![e].step = step]
  BY DEF StartLane, UtteranceRefused
<1>2. PICK step \in {"open", "refused"} : lane' = [lane EXCEPT ![e].step = step]
  BY <1>1
<1>3. TypeOK /\ LaneOK(e) /\ lane[e] \in [step : LaneSteps, heard : Seq(Frames)]
  BY LaneTyped DEF Inv
<1> DEFINE l == [lane[e] EXCEPT !.step = step]
<1>4. l \in [step : LaneSteps, heard : Seq(Frames)] /\ lane' = [lane EXCEPT ![e] = l]
  BY <1>2, <1>3 DEF TypeOK, LaneSteps
<1>5. lane'[e].heard = lane[e].heard /\ lane'[e].step = step
  BY <1>3, <1>4 DEF TypeOK
<1>6. step = "open" => lane[e].step = "none"
  <2>1. CASE StartLane(e)
    BY <2>1 DEF StartLane
  <2>2. CASE UtteranceRefused(e)
    <3>1. lane' = [lane EXCEPT ![e].step = "refused"]
      BY <2>2 DEF UtteranceRefused
    <3>2. lane'[e].step = "refused"
      BY <1>3, <3>1 DEF TypeOK
    <3> QED
      BY <1>5, <3>2
  <2> QED
    BY <2>1, <2>2
<1>7. LaneOK(e)'
  <2>1. CASE step = "refused"
    BY <1>1, <1>3, <1>5, <2>1 DEF LaneOK
  <2>2. CASE step = "open"
    <3>1. Flushed(e)' = Flushed(e)
      BY <1>5, <1>6, <2>2 DEF Flushed
    <3> QED
      BY <1>1, <1>3, <1>5, <1>6, <2>2, <3>1, LaneKept
  <2> QED
    BY <2>1, <2>2
<1> QED
  BY <1>1, <1>4, <1>7, QuietStep

LEMMA HearingStep ==
  ASSUME Inv, NEW e \in Epochs,
         (\E frame \in Frames : Listen(e, frame)) \/ Flush(e) \/ Break(e)
  PROVE  Inv'
<1>1. /\ TypeOK /\ LaneOK(e) /\ lane[e] \in [step : LaneSteps, heard : Seq(Frames)]
  BY LaneTyped DEF Inv
<1> DEFINE input == lane[e].heard
<1>2. input \in Seq(Frames) /\ lane[e].step = "open"
      /\ UNCHANGED <<capture, committed, utterances>>
  BY <1>1 DEF Listen, Flush, Break, LaneOnly
<1>3. Kept(committed[e], Cuts(input, FALSE))
  <2>1. Flushed(e) = FALSE
    BY <1>2 DEF Flushed
  <2> QED
    BY <1>1, <1>2, <2>1 DEF LaneOK, Found
<1> HIDE DEF input
<1>4. ASSUME NEW frame \in Frames, Listen(e, frame)
      PROVE  Inv'
  <2> DEFINE longer == Append(input, frame)
             l == [step |-> "open", heard |-> longer]
  <2>1. longer \in Seq(Frames) /\ l \in [step : LaneSteps, heard : Seq(Frames)]
    BY <1>2 DEF LaneSteps
  <2>2. lane' = [lane EXCEPT ![e] = l]
    BY <1>4 DEF Listen, LaneOnly, input
  <2>3. lane'[e] = l
    BY <1>1, <2>2 DEF TypeOK
  <2>4. Kept(Cuts(input, FALSE), Cuts(longer, FALSE)) /\ Kept(Cuts(input, FALSE), Cuts(longer, TRUE))
    BY <1>2, CutsGrow
  <2> HIDE DEF longer
  <2>5. Kept(committed[e], Cuts(longer, FALSE)) /\ Kept(committed[e], Cuts(longer, TRUE))
    BY <1>3, <2>4, KeptTransitive
  <2>6. lane'[e].heard = longer /\ Flushed(e)' = FALSE
    BY <2>3 DEF Flushed
  <2>7. Found(e)' = Cuts(longer, FALSE)
    BY <2>6 DEF Found
  <2>8. LaneOK(e)'
    BY <1>2, <2>5, <2>6, <2>7 DEF LaneOK
  <2> QED
    BY <1>2, <2>1, <2>2, <2>8, QuietStep
<1>5. ASSUME NEW step \in {"flushed", "broken"}, LaneOnly(e, lane[e].heard, step)
      PROVE  Inv'
  <2> DEFINE l == [step |-> step, heard |-> input]
  <2>1. l \in [step : LaneSteps, heard : Seq(Frames)]
    BY <1>2 DEF LaneSteps
  <2>2. lane' = [lane EXCEPT ![e] = l]
    BY <1>5 DEF LaneOnly, input
  <2>3. lane'[e] = l
    BY <1>1, <2>2 DEF TypeOK
  <2>4. Kept(Cuts(input, FALSE), Cuts(input, TRUE))
    BY <1>2, CutsGrow DEF Frames
  <2>5. Kept(committed[e], Cuts(input, TRUE))
    BY <1>3, <2>4, KeptTransitive
  <2>6. lane'[e].heard = input /\ lane'[e].step = step
    BY <2>3
  <2>7. Kept(committed[e], Found(e)')
    <3>1. CASE step = "flushed"
      <4>1. Found(e)' = Cuts(input, TRUE)
        BY <2>6, <3>1 DEF Found, Flushed
      <4> QED
        BY <2>5, <4>1
    <3>2. CASE step = "broken"
      <4>1. Flushed(e)' = FALSE
        BY <2>6, <3>2 DEF Flushed
      <4>2. Found(e)' = Cuts(input, FALSE)
        BY <2>6, <4>1 DEF Found
      <4> QED
        BY <1>3, <4>2
    <3> QED
      BY <3>1, <3>2
  <2>8. LaneOK(e)'
    BY <1>2, <2>5, <2>6, <2>7 DEF LaneOK
  <2> QED
    BY <1>2, <2>1, <2>2, <2>8, QuietStep
<1> QED
  BY <1>4, <1>5 DEF Flush, Break

\* A sequence and one more of the one it begins.
LEMMA KeptNext ==
  ASSUME NEW o \in Seq(Pieces), NEW p \in Seq(Pieces), Kept(o, p), Len(o) < Len(p)
  PROVE  /\ Kept(Append(o, p[Len(o) + 1]), p)
         /\ Append(o, p[Len(o) + 1]) \in Seq(Pieces)
<1> DEFINE n == Len(o)
           q == Append(o, p[n + 1])
<1>1. /\ n \in Nat /\ Len(p) \in Nat /\ DOMAIN p = 1..Len(p) /\ DOMAIN o = 1..n
      /\ n + 1 \in DOMAIN p
  OBVIOUS
<1>2. q \in Seq(Pieces) /\ DOMAIN q = 1..(n + 1) /\ q[n + 1] = p[n + 1]
      /\ \A k \in 1..n : q[k] = o[k]
  BY <1>1
<1> HIDE DEF q, n
<1>3. ASSUME NEW k \in DOMAIN q
      PROVE  k \in DOMAIN p /\ p[k] = q[k]
  <2>1. CASE k = n + 1
    BY <1>1, <1>2, <2>1
  <2>2. CASE k \in 1..n
    BY <1>1, <1>2, <2>2 DEF Kept
  <2> QED
    BY <1>1, <1>2, <2>1, <2>2
<1> QED
  BY <1>2, <1>3 DEF Kept, q, n

\* Sequences that begin each other.
LEMMA KeptWhole ==
  ASSUME NEW o \in Seq(Pieces), NEW p \in Seq(Pieces), Kept(o, p), ~ (Len(o) < Len(p))
  PROVE  o = p
<1> DEFINE m == Len(o)
           n == Len(p)
<1>1. m \in Nat /\ n \in Nat /\ DOMAIN p = 1..n /\ DOMAIN o = 1..m /\ ~ (m < n)
  OBVIOUS
<1> HIDE DEF m, n
<1>2. \A k \in 1..m : k \in 1..n /\ o[k] = p[k]
  BY <1>1, Zenon DEF Kept
<1>3. m <= n
  BY ONLY <1>1, <1>2
<1>4. m = n
  BY ONLY <1>1, <1>3
<1> QED
  BY <1>2, <1>4 DEF m, n

LEMMA CommitStep ==
  ASSUME Inv, NEW e \in Epochs, CommitUtterance(e)
  PROVE  Inv'
<1>1. TypeOK /\ GenerationsInOrder /\ NoneAhead /\ \A f \in Epochs : LaneOK(f)
  BY DEF Inv
<1> DEFINE c == Append(committed[e], Found(e)[Len(committed[e]) + 1])
<1>2. /\ Len(committed[e]) < Len(Found(e)) /\ lane[e].step # "refused"
      /\ capture = [epoch |-> e, open |-> TRUE]
      /\ committed' = [committed EXCEPT ![e] = c]
      /\ utterances' = Append(utterances, e)
      /\ UNCHANGED <<capture, lane>>
  BY DEF CommitUtterance, Pending, Fenced, OwnerIsCurrent
<1>3. committed[e] \in Seq(Pieces) /\ Found(e) \in Seq(Pieces) /\ Flushed(e) \in BOOLEAN
      /\ lane[e].heard \in Seq(Frames)
  BY <1>1, LaneTyped
<1>4. Kept(committed[e], Found(e))
  BY <1>1, <1>2 DEF LaneOK
<1>5. Kept(c, Found(e)) /\ c \in Seq(Pieces)
  BY <1>2, <1>3, <1>4, KeptNext
<1> HIDE DEF c
<1>6. committed'[e] = c /\ \A f \in Epochs \ {e} : committed'[f] = committed[f]
  BY <1>1, <1>2 DEF TypeOK
<1>7. LaneOK(e)'
  <2>1. Kept(Found(e), Cuts(lane[e].heard, TRUE))
    <3>1. CASE Flushed(e)
      BY <3>1 DEF Found, Kept
    <3>2. CASE ~ Flushed(e)
      <4>1. Kept(Cuts(lane[e].heard, FALSE), Cuts(lane[e].heard, TRUE))
        BY <1>3, CutsGrow DEF Frames
      <4>2. Flushed(e) = FALSE
        BY <1>3, <3>2
      <4> QED
        BY <4>1, <4>2 DEF Found
    <3> QED
      BY <3>1, <3>2
  <2>2. Kept(c, Cuts(lane[e].heard, TRUE))
    BY <1>5, <2>1, KeptTransitive
  <2>3. Found(e)' = Found(e)
    BY <1>2 DEF Found, Flushed
  <2> QED
    BY <1>2, <1>5, <1>6, <2>2, <2>3 DEF LaneOK
<1>8. \A f \in Epochs \ {e} : LaneOK(f)'
  BY <1>1, <1>2, <1>6, LaneKept DEF Flushed
<1>9. /\ utterances \in Seq(Epochs) /\ utterances' \in Seq(Epochs)
      /\ Len(utterances) \in Nat /\ Len(utterances') = Len(utterances) + 1
      /\ DOMAIN utterances = 1..Len(utterances) /\ DOMAIN utterances' = 1..Len(utterances')
      /\ utterances'[Len(utterances')] = e
      /\ \A i \in DOMAIN utterances : utterances'[i] = utterances[i]
  BY <1>1, <1>2 DEF TypeOK
<1>10. TypeOK'
  BY <1>1, <1>2, <1>5, <1>9 DEF TypeOK, Pieces
<1>11. \A i \in DOMAIN utterances' : utterances'[i] <= e
  <2>1. e \in Nat /\ capture.epoch = e
    BY <1>2, LaneAssumption DEF Epochs
  <2> TAKE i \in DOMAIN utterances'
  <2>2. CASE i \in DOMAIN utterances
    BY <1>1, <1>9, <2>1, <2>2 DEF NoneAhead
  <2>3. CASE i = Len(utterances')
    BY <1>9, <2>1, <2>3
  <2> QED
    BY <1>9, <2>2, <2>3
<1>12. NoneAhead'
  BY <1>2, <1>11 DEF NoneAhead
<1>13. GenerationsInOrder'
  <2> SUFFICES ASSUME NEW i \in DOMAIN utterances', NEW j \in DOMAIN utterances', i < j
               PROVE  utterances'[i] <= utterances'[j]
    BY DEF GenerationsInOrder
  <2>1. CASE j = Len(utterances')
    BY <1>9, <1>11, <2>1
  <2>2. CASE j \in DOMAIN utterances
    <3>1. i \in DOMAIN utterances
      BY <1>9, <2>2
    <3> QED
      BY <1>1, <1>9, <2>2, <3>1 DEF GenerationsInOrder
  <2> QED
    BY <1>9, <2>1, <2>2
<1> QED
  BY <1>7, <1>8, <1>10, <1>12, <1>13 DEF Inv

LEMMA InvAlways == Spec => []Inv
<1>1. ASSUME Inv, [Next]_vars
      PROVE  Inv'
  <2>1. CASE Claim \/ DeclareEnd
    BY <1>1, <2>1, CaptureStep
  <2>2. ASSUME NEW e \in Epochs, LaneStep(e)
        PROVE  Inv'
    BY <1>1, <2>2, HandshakeStep, HearingStep, CommitStep DEF LaneStep
  <2>3. CASE UNCHANGED vars
    <3>1. UNCHANGED <<capture, lane, committed, utterances>>
      BY <2>3 DEF vars
    <3>2. TypeOK' /\ GenerationsInOrder' /\ NoneAhead'
      BY <1>1, <3>1 DEF Inv, TypeOK, GenerationsInOrder, NoneAhead
    <3> QED
      BY <1>1, <3>1, <3>2, LanesKept DEF Inv
  <2> QED
    BY <1>1, <2>1, <2>2, <2>3 DEF Next
<1> QED
  BY <1>1, InitInv, PTL DEF Spec

-----------------------------------------------------------------------------
\* Every variable keeps its shape; in particular whatever frames a lane hears, its
\* candidates are pieces of the stream.
THEOREM LanesTypeCorrect == Spec => []TypeOK
<1>1. Inv => TypeOK
  BY DEF Inv
<1> QED
  BY <1>1, InvAlways, PTL

\* However many generations a recording has, and however long the sockets of older
\* ones stay open (session_realtime_audio), the utterances of a later generation are
\* behind those of all earlier ones.
THEOREM GenerationsStayInOrder == Spec => []GenerationsInOrder
<1>1. Inv => GenerationsInOrder
  BY DEF Inv
<1> QED
  BY <1>1, InvAlways, PTL

\* For every number of lanes, streams of every length and every setting: what a lane
\* has committed (_commit_candidate) is sound at every moment, and unless a candidate
\* was refused, nothing whose end it heard is left out; also when its socket breaks,
\* when it is flushed, and when its generation is superseded between two candidates.
THEOREM LanesAreFaithful == Spec => []LaneFaithful
<1>1. ASSUME Inv
      PROVE  LaneFaithful
  <2> SUFFICES ASSUME NEW e \in Epochs
               PROVE  /\ Sound(lane[e].heard, committed[e])
                      /\ ~ Pending(e) /\ lane[e].step # "refused" =>
                           Complete(lane[e].heard, committed[e], Flushed(e))
    BY DEF LaneFaithful
  <2> DEFINE input == lane[e].heard
  <2>1. /\ TypeOK /\ LaneOK(e) /\ input \in Seq(Frames) /\ committed[e] \in Seq(Pieces)
        /\ Found(e) \in Seq(Pieces) /\ Flushed(e) \in BOOLEAN
    BY <1>1, LaneTyped DEF Inv
  <2>2. Len(input) \in Nat /\ input \in [1..Len(input) -> Frames]
    BY <2>1
  <2>3. Sound(input, committed[e])
    <3>1. Sound(input, Cuts(input, TRUE))
      BY <2>2, CutsAreSoundAndComplete
    <3> QED
      BY <2>1, <3>1, SoundFirst DEF LaneOK
  <2>4. ASSUME ~ Pending(e), lane[e].step # "refused"
        PROVE  Complete(input, committed[e], Flushed(e))
    <3>1. committed[e] = Found(e)
      BY <2>1, <2>4, KeptWhole DEF LaneOK, Pending
    <3>2. Complete(input, Cuts(input, Flushed(e)), Flushed(e))
      BY <2>1, <2>2, CutsAreSoundAndComplete
    <3> QED
      BY <3>1, <3>2 DEF Found
  <2> QED
    BY <2>3, <2>4
<1> QED
  BY <1>1, InvAlways, PTL
=============================================================================
