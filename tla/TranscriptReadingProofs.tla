----------------------- MODULE TranscriptReadingProofs -----------------------
(***************************************************************************)
(* Proofs about TranscriptReading for every set of utterances, page size,    *)
(* queue and number of replays and reloads.                                 *)
(***************************************************************************)
EXTENDS TranscriptReading, FiniteSetTheorems, WellFoundedInduction, TLAPS

-----------------------------------------------------------------------------
(* Highest elements and pages.                                             *)

LEMMA HighestIs ==
  ASSUME NEW S \in SUBSET Nat, NEW n \in S, \A m \in S : m <= n
  PROVE  Highest(S) = n
<1>1. S # {}
  OBVIOUS
<1>2. PICK h : h = CHOOSE k \in S : \A m \in S : m <= k
  OBVIOUS
<1>3. h \in S /\ \A m \in S : m <= h
  BY <1>2
<1>4. h = n
  <2>1. h <= n /\ n <= h
    BY <1>3
  <2> QED
    BY <1>3, <2>1
<1> QED
  BY <1>1, <1>2, <1>4 DEF Highest

LEMMA HighestOfInterval ==
  ASSUME NEW n \in Nat
  PROVE  Highest(1..n) = n
<1>1. CASE n = 0
  BY <1>1 DEF Highest
<1>2. CASE n # 0
  <2>1. n \in 1..n /\ 1..n \in SUBSET Nat /\ \A m \in 1..n : m <= n
    BY <1>2
  <2> QED
    BY <2>1, HighestIs
<1> QED
  BY <1>1, <1>2

\* A finite set of numbers has a highest one: otherwise a smallest counterexample has
\* an element without which it would still be one.
LEMMA FiniteHasHighest ==
  ASSUME NEW S \in SUBSET Nat, IsFiniteSet(S), S # {}
  PROVE  Highest(S) \in S /\ \A m \in S : m <= Highest(S)
<1> DEFINE Has(T) == \E n \in T : \A m \in T : m <= n
           Without == {T \in FiniteSubsetsOf(S) : T # {} /\ ~ Has(T)}
<1>1. Has(S)
  <2> SUFFICES ASSUME ~ Has(S)
               PROVE  FALSE
    OBVIOUS
  <2>1. S \in Without
    BY DEF FiniteSubsetsOf
  <2>2. PICK T \in Without : \A U \in Without : ~ (<<U, T>> \in StrictSubsetOrdering(S))
    <3>1. Without \subseteq FiniteSubsetsOf(S) /\ Without # {}
      BY <2>1
    <3> HIDE DEF Without
    <3> QED
      BY <3>1, FS_StrictSubsetOrderingWellFounded, WFMin, Zenon
  <2>3. T \in SUBSET S /\ IsFiniteSet(T) /\ T # {} /\ ~ Has(T)
    BY DEF FiniteSubsetsOf
  <2>4. PICK x \in T : TRUE
    BY <2>3
  <2> DEFINE R == T \ {x}
  <2>5. IsFiniteSet(R) /\ R \in SUBSET S /\ R # T /\ R \subseteq T
    BY <2>3, <2>4, FS_RemoveElement
  <2>6. <<R, T>> \in StrictSubsetOrdering(S)
    BY <2>3, <2>5 DEF StrictSubsetOrdering
  <2>7. R \notin Without
    BY <2>2, <2>6
  <2>8. R = {} \/ Has(R)
    <3> HIDE DEF R, Has
    <3> QED
      BY <2>5, <2>7 DEF FiniteSubsetsOf
  <2>9. CASE R = {}
    <3>1. \A m \in T : m = x
      BY <2>9
    <3>2. x \in Nat
      BY <2>3, <2>4
    <3> QED
      BY <2>3, <2>4, <3>1, <3>2
  <2>10. CASE Has(R)
    <3>1. PICK n \in R : \A m \in R : m <= n
      BY <2>10
    <3>2. n \in T /\ n \in Nat /\ x \in Nat
      BY <2>3, <2>4, <3>1
    <3>3. \A m \in T : m \in Nat /\ (m = x \/ m <= n)
      BY <2>3, <3>1
    <3>4. CASE x <= n
      BY <2>3, <3>2, <3>3, <3>4
    <3>5. CASE n <= x
      BY <2>3, <2>4, <3>2, <3>3, <3>5
    <3> QED
      BY <3>2, <3>4, <3>5
  <2> QED
    BY <2>8, <2>9, <2>10
<1>2. PICK n \in S : \A m \in S : m <= n
  BY <1>1
<1>3. Highest(S) = n
  BY <1>2, HighestIs
<1> QED
  BY <1>2, <1>3

LEMMA HasLowest ==
  ASSUME NEW S \in SUBSET Nat, S # {}
  PROVE  \E n \in S : \A m \in S : n <= m
<1>1. PICK n \in S : \A m \in S : <<m, n>> \notin OpToRel(<, Nat)
  BY NatLessThanWellFounded, WFMin, Zenon
<1>2. \A m \in S : ~ (m < n)
  BY <1>1, Zenon DEF OpToRel
<1> QED
  BY <1>2

\* Those of S up to n, which decide whether n is on the page.
UpTo(S, n) == {m \in S : m <= n}

LEMMA PageIs ==
  ASSUME NEW S
  PROVE  /\ PageOf(S) \subseteq S
         /\ \A n \in S : n \in PageOf(S) <=> Cardinality(UpTo(S, n)) <= PageSize
BY DEF PageOf, UpTo

\* A page is the beginning of what a query finds.
LEMMA PageIsFirst ==
  ASSUME NEW S \in SUBSET Nat, NEW m \in S, NEW n \in PageOf(S), m <= n, IsFiniteSet(S)
  PROVE  m \in PageOf(S)
<1>1. n \in S /\ m \in Nat /\ n \in Nat
  BY PageIs
<1>2. UpTo(S, m) \in SUBSET UpTo(S, n)
  <2>1. \A k \in S : k \in Nat /\ (k <= m => k <= n)
    BY <1>1
  <2> QED
    BY <2>1 DEF UpTo
<1>3. UpTo(S, n) \in SUBSET S /\ IsFiniteSet(UpTo(S, n))
  BY FS_Subset DEF UpTo
<1>4. Cardinality(UpTo(S, m)) <= Cardinality(UpTo(S, n))
  BY <1>2, <1>3, FS_Subset
<1>5. IsFiniteSet(UpTo(S, m)) /\ Cardinality(UpTo(S, m)) \in Nat /\ Cardinality(UpTo(S, n)) \in Nat
  BY <1>2, <1>3, FS_Subset, FS_CardinalityType
<1>6. Cardinality(UpTo(S, n)) <= PageSize
  BY <1>1, PageIs
<1>7. Cardinality(UpTo(S, m)) <= PageSize
  BY <1>4, <1>5, <1>6, ReadingAssumption
<1> QED
  BY <1>7, PageIs

\* There is a row on the page if there is one at all.
LEMMA PageNotEmpty ==
  ASSUME NEW S \in SUBSET Nat, S # {}
  PROVE  PageOf(S) # {}
<1>1. PICK n \in S : \A m \in S : n <= m
  BY HasLowest
<1>2. UpTo(S, n) = {n}
  <2>1. \A m \in S : m <= n <=> m = n
    BY <1>1
  <2> QED
    BY <2>1 DEF UpTo
<1>3. Cardinality(UpTo(S, n)) = 1
  BY <1>2, FS_Singleton
<1>4. 1 <= PageSize
  BY ReadingAssumption
<1>5. n \in PageOf(S)
  BY <1>1, <1>3, <1>4, PageIs
<1> QED
  BY <1>5

\* The page behind a cursor of a transcript without a hole.
LEMMA PageOfInterval ==
  ASSUME NEW after \in Nat, NEW n \in Nat
  PROVE  \E k \in Nat : after <= k /\ PageOf((after + 1)..n) = (after + 1)..k
<1> DEFINE S == (after + 1)..n
           k == IF n < after THEN after
                ELSE IF n < after + PageSize THEN n ELSE after + PageSize
<1>1. PageSize \in Nat \ {0}
  BY ReadingAssumption
<1>2. k \in Nat /\ after <= k
  BY <1>1
<1>3. ASSUME NEW m \in S
      PROVE  m \in PageOf(S) <=> m <= k
  <2>1. m \in Int /\ after + 1 <= m /\ m <= n
    OBVIOUS
  <2>2. UpTo(S, m) = (after + 1)..m
    BY <2>1 DEF UpTo
  <2>3. Cardinality(UpTo(S, m)) = m - after
    <3>1. Cardinality((after + 1)..m) = m - (after + 1) + 1
      BY <2>1, FS_Interval
    <3> QED
      BY <2>1, <2>2, <3>1
  <2>4. m \in PageOf(S) <=> m - after <= PageSize
    BY <2>3, PageIs
  <2>5. m - after <= PageSize <=> m <= after + PageSize
    BY <1>1, <2>1
  <2>6. m <= k <=> m <= after + PageSize
    BY <1>1, <2>1
  <2> QED
    BY <2>4, <2>5, <2>6
<1>4. PageOf(S) \subseteq S
  BY PageIs
<1>5. k <= n \/ k = after
  BY <1>1
<1>6. \A m : m \in PageOf(S) <=> m \in (after + 1)..k
  <2> TAKE m
  <2>1. ASSUME m \in PageOf(S) PROVE m \in (after + 1)..k
    BY <1>2, <1>3, <1>4, <2>1
  <2>2. ASSUME m \in (after + 1)..k PROVE m \in PageOf(S)
    <3>1. m \in Int /\ after + 1 <= m /\ m <= k
      BY <1>2, <2>2
    <3>2. m \in S
      BY <1>2, <1>5, <3>1
    <3> QED
      BY <1>3, <3>1, <3>2
  <2> QED
    BY <2>1, <2>2
<1> HIDE DEF k, S
<1>7. PageOf(S) = (after + 1)..k
  BY <1>6, Zenon
<1> QED
  BY <1>2, <1>7 DEF S

-----------------------------------------------------------------------------
(* The inductive invariant.                                                *)

\* The transcript: its sequences are an interval from 1 and belong to one utterance
\* each, and the one transaction that may be under way has drawn the next.
Numbered ==
  /\ \E n \in Nat : Committed = 1..n
  /\ \A u, v \in Utterances : sequence[u] = sequence[v] /\ sequence[u] # 0 => u = v
  /\ \A u \in Utterances : sequence[u] # 0 <=> stt[u] = "text"
  /\ \A t \in writing :
       /\ stt[t.on] = "open"
       /\ t.number = Highest(Committed) + 1
       /\ writing = {t}

\* A page in the answer to a fetch begins behind the cursor the panel asked with, and
\* has no hole either.
PageOK ==
  /\ panel.request \in {"asked", "answered"} => panel.after <= panel.cursor
  /\ panel.request = "answered" =>
       /\ panel.page \subseteq Committed
       /\ \E k \in Nat : panel.after <= k /\ panel.page = (panel.after + 1)..k

\* In the order of the recording an export has reached the segment a.
Reached(a) ==
  /\ sequence[a] = export.after
  /\ \A i \in DOMAIN export.out : \A u \in export.out[i] : u <= a
  /\ \A u \in export.seen : u <= a => \E i \in DOMAIN export.out : u \in export.out[i]

ExportOK ==
  /\ export.seen \subseteq Segments
  /\ export.at \in {"preparing", "ready"} => export.out = <<>> /\ export.after = 0
  /\ export.at = "exporting" /\ export.after = 0 => export.out = <<>>
  /\ export.at = "exporting" /\ export.after # 0 => \E a \in Utterances : Reached(a)
  /\ ExportFaithful

Inv == TypeOK /\ Numbered /\ PanelHasNoHole /\ PageOK /\ ExportOK

LEMMA InitInv == Init => Inv
<1> SUFFICES ASSUME Init
             PROVE  Inv
  OBVIOUS
<1> USE DEF Init
<1>1. TypeOK
  BY ReadingAssumption DEF TypeOK, Mounted, NoExport
<1>2. Committed = {}
  BY DEF Committed
<1>3. Committed = 1..0
  BY <1>2
<1>4. Numbered
  BY <1>3 DEF Numbered
<1>5. PanelHasNoHole /\ PageOK
  BY <1>2 DEF PanelHasNoHole, PageOK, Mounted
<1>6. ExportOK
  BY DEF ExportOK, ExportFaithful, NoExport
<1> QED
  BY <1>1, <1>4, <1>5, <1>6 DEF Inv

-----------------------------------------------------------------------------
(* What a step leaves alone.                                               *)

\* A segment keeps its sequence.
Keeps == \A u \in Utterances : sequence[u] # 0 => sequence'[u] = sequence[u]

LEMMA CommittedGrows ==
  ASSUME Keeps
  PROVE  Committed \subseteq Committed' /\ Segments \subseteq Segments'
BY DEF Keeps, Committed, Segments

LEMMA PanelKept ==
  ASSUME PanelHasNoHole, PageOK, Keeps,
         panel' = panel \/ (\E b \in BOOLEAN : panel' = [panel EXCEPT !.hint = b]),
         TypeOK
  PROVE  PanelHasNoHole' /\ PageOK'
<1>1. /\ panel'.shown = panel.shown /\ panel'.cursor = panel.cursor
      /\ panel'.after = panel.after /\ panel'.page = panel.page
      /\ panel'.request = panel.request
  BY DEF TypeOK
<1> QED
  BY <1>1, CommittedGrows DEF PanelHasNoHole, PageOK

LEMMA ExportKept ==
  ASSUME ExportOK, Keeps, UNCHANGED export, TypeOK
  PROVE  ExportOK'
<1>1. ExportFaithful'
  BY DEF ExportOK, ExportFaithful
<1>2. ASSUME export.after # 0, NEW a \in Utterances, Reached(a)
      PROVE  Reached(a)'
  BY <1>2 DEF Reached, Keeps
<1> QED
  BY <1>1, <1>2, CommittedGrows DEF ExportOK

LEMMA NumberedKept ==
  ASSUME Numbered, UNCHANGED <<stt, sequence, writing>>
  PROVE  Numbered'
<1>1. Committed' = Committed
  BY DEF Committed
<1> QED
  BY <1>1 DEF Numbered

\* The highest sequence is a number, and the next one is not taken.
LEMMA NextNumber ==
  ASSUME Numbered
  PROVE  /\ Highest(Committed) \in Nat
         /\ Committed = 1..Highest(Committed)
BY HighestOfInterval DEF Numbered

-----------------------------------------------------------------------------
(* The steps of the transcript.                                            *)

LEMMA NumberedWithoutSegment ==
  ASSUME Numbered, UNCHANGED sequence, writing' \subseteq writing,
         \A u \in Utterances : stt'[u] = "text" <=> stt[u] = "text",
         \A t \in writing' : stt'[t.on] = "open"
  PROVE  Numbered'
<1>1. Committed' = Committed
  BY DEF Committed
<1>2. ASSUME NEW t \in writing'
      PROVE  t.number = Highest(Committed) + 1 /\ writing' = {t}
  <2>1. t \in writing /\ writing = {t}
    BY <1>2 DEF Numbered
  <2> QED
    BY <1>2, <2>1 DEF Numbered
<1> QED
  BY <1>1, <1>2 DEF Numbered

\* What the utterances and their jobs do without a segment.
LEMMA JobStep ==
  ASSUME Inv, UNCHANGED <<sequence, panel, export>>, TypeOK', Numbered'
  PROVE  /\ Numbered' /\ PanelHasNoHole' /\ PageOK' /\ ExportOK'
<1>1. TypeOK /\ PanelHasNoHole /\ PageOK /\ ExportOK /\ Keeps
  BY DEF Inv, Keeps
<1> QED
  BY <1>1, PanelKept, ExportKept

LEMMA ArriveStep ==
  ASSUME Inv, NEW u \in Utterances, Arrive(u)
  PROVE  TypeOK' /\ Numbered' /\ PanelHasNoHole' /\ PageOK' /\ ExportOK'
<1> USE DEF Arrive
<1>1. TypeOK /\ Numbered
  BY DEF Inv
<1>2. TypeOK'
  BY <1>1 DEF TypeOK
<1>3. stt[u] = "absent" /\ stt'[u] = "open" /\ \A v \in Utterances \ {u} : stt'[v] = stt[v]
  <2>1. u >= u
    BY ReadingAssumption
  <2> QED
    BY <1>1, <2>1 DEF TypeOK
<1>4. \A t \in writing : t.on \in Utterances /\ stt[t.on] = "open"
  BY <1>1 DEF TypeOK, Numbered
<1>5. Numbered'
  BY <1>1, <1>3, <1>4, NumberedWithoutSegment
<1> QED
  BY <1>2, <1>5, JobStep

LEMMA FindSilenceStep ==
  ASSUME Inv, NEW u \in Utterances, FindSilence(u)
  PROVE  /\ TypeOK' /\ Numbered' /\ PanelHasNoHole' /\ PageOK' /\ ExportOK'
<1> USE DEF FindSilence
<1>1. TypeOK /\ Numbered
  BY DEF Inv
<1>2. TypeOK'
  BY <1>1 DEF TypeOK
<1>3. stt[u] = "open" /\ stt'[u] = "silent" /\ \A v \in Utterances \ {u} : stt'[v] = stt[v]
  BY <1>1 DEF TypeOK
<1>4. \A t \in writing : t.on \in Utterances /\ stt[t.on] = "open"
  BY <1>1 DEF TypeOK, Numbered
<1>5. Numbered'
  <2>1. \A t \in writing' : t \in writing /\ t.on # u
    OBVIOUS
  <2> QED
    BY <1>1, <1>3, <1>4, <2>1, NumberedWithoutSegment
<1> QED
  BY <1>2, <1>3, <1>5, JobStep

LEMMA ReplayStep ==
  ASSUME Inv, NEW u \in Utterances, Replay(u)
  PROVE  /\ TypeOK' /\ Numbered' /\ PanelHasNoHole' /\ PageOK' /\ ExportOK'
<1> USE DEF Replay
<1>1. TypeOK /\ Numbered
  BY DEF Inv
<1>2. TypeOK'
  BY <1>1, ReadingAssumption DEF TypeOK
<1>3. stt[u] = "silent" /\ stt'[u] = "open" /\ \A v \in Utterances \ {u} : stt'[v] = stt[v]
  BY <1>1 DEF TypeOK
<1>4. \A t \in writing : t.on \in Utterances /\ stt[t.on] = "open"
  BY <1>1 DEF TypeOK, Numbered
<1>5. Numbered'
  BY <1>1, <1>3, <1>4, NumberedWithoutSegment
<1> QED
  BY <1>2, <1>3, <1>5, JobStep

LEMMA WriteOneStep ==
  ASSUME Inv, NEW u \in Utterances, Write(u)
  PROVE  TypeOK' /\ Numbered' /\ PanelHasNoHole' /\ PageOK' /\ ExportOK'
<1>1. TypeOK /\ Numbered
  BY DEF Inv
<1>2. PICK number \in 1..(Cardinality(Utterances) + 1) :
        AllocatesNumber(number) /\ writing' = writing \cup {[on |-> u, number |-> number]}
  BY DEF Write
<1> DEFINE t == [on |-> u, number |-> number]
<1>3. number \in Nat
  BY <1>2, ReadingAssumption, FS_CardinalityType
<1>4. writing' = {t} /\ number = Highest(Committed) + 1
  BY <1>2 DEF AllocatesNumber
<1>5. stt[u] = "open" /\ UNCHANGED <<kind, stt, sequence, queue, panel, export, replays, reloads>>
  BY DEF Write
<1>6. TypeOK'
  BY <1>1, <1>3, <1>4, <1>5 DEF TypeOK
<1>7. Numbered'
  <2>1. Committed' = Committed
    BY <1>5 DEF Committed
  <2>2. t.on = u /\ t.number = number
    OBVIOUS
  <2> HIDE DEF t
  <2> QED
    BY <1>1, <1>4, <1>5, <2>1, <2>2 DEF Numbered
<1> QED
  BY <1>5, <1>6, <1>7, JobStep

LEMMA RollbackStep ==
  ASSUME Inv, Rollback
  PROVE  TypeOK' /\ Numbered' /\ PanelHasNoHole' /\ PageOK' /\ ExportOK'
<1> USE DEF Rollback
<1>1. TypeOK /\ Numbered
  BY DEF Inv
<1>2. TypeOK'
  BY <1>1 DEF TypeOK
<1>3. Numbered'
  <2>1. writing' \subseteq writing /\ stt' = stt /\ sequence' = sequence
    OBVIOUS
  <2>2. \A t \in writing : stt[t.on] = "open"
    BY <1>1 DEF Numbered
  <2> QED
    BY <1>1, <2>1, <2>2, NumberedWithoutSegment
<1> QED
  BY <1>2, <1>3, JobStep

\* A commit appends the number behind the highest one, to an utterance without any.
LEMMA CommitStep ==
  ASSUME Inv, Commit
  PROVE  /\ TypeOK' /\ Numbered' /\ PanelHasNoHole' /\ PageOK' /\ ExportOK'
<1>1. TypeOK /\ Numbered /\ PanelHasNoHole /\ PageOK /\ ExportOK
  BY DEF Inv
<1>2. PICK t \in writing :
        /\ writing' = writing \ {t}
        /\ sequence' = [sequence EXCEPT ![t.on] = t.number]
        /\ stt' = [stt EXCEPT ![t.on] = "text"]
        /\ queue' \in {queue, Queued}
        /\ UNCHANGED <<kind, panel, export, replays, reloads>>
  BY DEF Commit
<1> DEFINE u == t.on
           n == Highest(Committed)
<1>3. u \in Utterances /\ t.number \in Nat
  BY <1>1 DEF TypeOK
<1>4. /\ n \in Nat /\ Committed = 1..n /\ t.number = n + 1 /\ writing = {t}
      /\ stt[u] = "open" /\ sequence[u] = 0
  <2>1. stt[u] = "open" /\ t.number = n + 1 /\ writing = {t}
    BY <1>1 DEF Numbered
  <2>2. sequence[u] = 0
    BY <1>1, <1>3, <2>1 DEF Numbered
  <2> QED
    BY <1>1, <2>1, <2>2, NextNumber
<1> HIDE DEF n, u
<1>5. /\ sequence'[u] = n + 1 /\ stt'[u] = "text" /\ writing' = {}
      /\ \A v \in Utterances \ {u} : sequence'[v] = sequence[v] /\ stt'[v] = stt[v]
  BY <1>1, <1>2, <1>3, <1>4 DEF TypeOK, u
<1>6. TypeOK'
  <2>1. queue' \in 0..Capacity
    BY <1>1, <1>2, ReadingAssumption DEF TypeOK, Queued
  <2>2. sequence' \in [Utterances -> Nat]
        /\ stt' \in [Utterances -> {"absent", "open", "silent", "text"}]
    BY <1>1, <1>2, <1>3 DEF TypeOK
  <2> QED
    BY <1>1, <1>2, <1>5, <2>1, <2>2 DEF TypeOK
<1>7. Keeps
  BY <1>4, <1>5 DEF Keeps
<1>8. Committed' = Committed \cup {n + 1}
  <2>1. \A k : k \in Committed <=> \E v \in Utterances : sequence[v] = k /\ k # 0
    BY DEF Committed
  <2>2. \A k : k \in Committed' <=> \E v \in Utterances : sequence'[v] = k /\ k # 0
    BY DEF Committed
  <2>3. u \in Utterances /\ n + 1 # 0
    BY <1>3, <1>4 DEF u
  <2>4. \A k : k \in Committed' <=> k \in Committed \/ k = n + 1
    BY <1>4, <1>5, <2>1, <2>2, <2>3
  <2> QED
    BY <2>4
<1>9. Numbered'
  <2>1. Committed' = 1..(n + 1)
    BY <1>4, <1>8
  <2>2. \A v \in Utterances : sequence[v] # n + 1
    <3>1. n + 1 \notin Committed /\ n + 1 # 0
      BY <1>4
    <3> QED
      BY <3>1 DEF Committed
  <2>3. \A v, w \in Utterances : sequence'[v] = sequence'[w] /\ sequence'[v] # 0 => v = w
    BY <1>1, <1>5, <2>2 DEF Numbered
  <2>4. \A v \in Utterances : sequence'[v] # 0 <=> stt'[v] = "text"
    <3>1. sequence'[u] # 0
      BY <1>4, <1>5
    <3> QED
      BY <1>1, <1>5, <3>1 DEF Numbered
  <2>5. n + 1 \in Nat
    BY <1>4
  <2> QED
    BY <1>5, <2>1, <2>3, <2>4, <2>5 DEF Numbered
<1>10. PanelHasNoHole' /\ PageOK' /\ ExportOK'
  BY <1>1, <1>2, <1>7, PanelKept, ExportKept
<1>11. \A v \in Utterances : stt'[v] = "absent" <=> stt[v] = "absent"
  BY <1>4, <1>5
<1> QED
  BY <1>6, <1>9, <1>10, <1>11

\* Notices.
LEMMA NoticeStep ==
  ASSUME Inv, Publish \/ QueueLost
  PROVE  TypeOK' /\ Numbered' /\ PanelHasNoHole' /\ PageOK' /\ ExportOK'
<1>1. TypeOK /\ Numbered /\ PanelHasNoHole /\ PageOK /\ ExportOK
  BY DEF Inv
<1>2. UNCHANGED <<kind, stt, sequence, writing, export, replays, reloads>>
  BY DEF Publish, QueueLost
<1>3. panel' = panel \/ \E b \in BOOLEAN : panel' = [panel EXCEPT !.hint = b]
  <2>1. panel.hint \in BOOLEAN
    BY <1>1 DEF TypeOK
  <2>2. CASE Publish
    <3>1. panel' = panel \/ panel' = [panel EXCEPT !.hint = panel.hint \/ panel.socket = "open"]
      BY <2>2 DEF Publish
    <3>2. (panel.hint \/ panel.socket = "open") \in BOOLEAN
      OBVIOUS
    <3> QED
      BY <3>1, <3>2, Zenon
  <2> QED
    BY <2>2 DEF QueueLost
<1>4. queue' \in 0..Capacity
  BY <1>1, ReadingAssumption DEF TypeOK, Publish, QueueLost
<1>5. TypeOK'
  BY <1>1, <1>2, <1>3, <1>4 DEF TypeOK
<1>6. Numbered'
  BY <1>1, <1>2, NumberedKept
<1>7. Keeps
  BY <1>2 DEF Keeps
<1> QED
  BY <1>1, <1>2, <1>3, <1>5, <1>6, <1>7, PanelKept, ExportKept

-----------------------------------------------------------------------------
(* The steps of the panel.                                                 *)

LEMMA PanelAlone ==
  ASSUME Inv, PanelOnly
  PROVE  /\ TypeOK /\ PanelHasNoHole /\ PageOK
         /\ Numbered' /\ ExportOK' /\ UNCHANGED <<stt, kind, Committed>>
<1>1. UNCHANGED <<kind, stt, sequence, writing, queue, export, replays>>
  BY DEF PanelOnly
<1>2. TypeOK /\ Numbered /\ ExportOK /\ PanelHasNoHole /\ PageOK /\ Keeps
  BY <1>1 DEF Inv, Keeps
<1>3. UNCHANGED Committed
  BY <1>1 DEF Committed
<1> QED
  BY <1>1, <1>2, <1>3, NumberedKept, ExportKept

\* A fetch begins with the cursor of the panel, or is noted for later.
LEMMA SyncedOK ==
  ASSUME TypeOK, PanelHasNoHole, PageOK, UNCHANGED Committed,
         NEW b \in BOOLEAN, panel' = Synced([panel EXCEPT !.hint = b])
  PROVE  /\ PanelHasNoHole' /\ PageOK'
         /\ panel' \in [socket : {"down", "open"}, hint : BOOLEAN, cursor : Nat,
                        shown : SUBSET Nat, again : BOOLEAN,
                        request : {"none", "asked", "answered"}, after : Nat,
                        page : SUBSET Nat, more : BOOLEAN]
<1>1. CASE Syncing
  <2>1. panel' = [panel EXCEPT !.hint = b, !.again = TRUE]
    BY <1>1 DEF Synced
  <2>2. /\ panel'.shown = panel.shown /\ panel'.cursor = panel.cursor
        /\ panel'.after = panel.after /\ panel'.page = panel.page
        /\ panel'.request = panel.request
    BY <2>1 DEF TypeOK
  <2>3. panel' \in [socket : {"down", "open"}, hint : BOOLEAN, cursor : Nat,
                   shown : SUBSET Nat, again : BOOLEAN,
                   request : {"none", "asked", "answered"}, after : Nat,
                   page : SUBSET Nat, more : BOOLEAN]
    BY <2>1 DEF TypeOK
  <2>4. PanelHasNoHole' /\ PageOK'
    BY <2>2 DEF PanelHasNoHole, PageOK
  <2> QED
    BY <2>3, <2>4
<1>2. CASE ~ Syncing
  <2>1. panel' = [panel EXCEPT !.hint = b, !.again = FALSE, !.request = "asked",
                               !.after = panel.cursor]
    BY <1>2 DEF Synced, TypeOK
  <2>2. /\ panel'.shown = panel.shown /\ panel'.cursor = panel.cursor
        /\ panel'.after = panel.cursor /\ panel'.request = "asked"
    BY <2>1 DEF TypeOK
  <2>3. panel'.after <= panel'.cursor
    BY <2>2 DEF TypeOK
  <2> QED
    BY <2>1, <2>2, <2>3 DEF TypeOK, PanelHasNoHole, PageOK
<1> QED
  BY <1>1, <1>2

LEMMA HintStep ==
  ASSUME Inv, Poll \/ ReceiveHint
  PROVE  TypeOK' /\ Numbered' /\ PanelHasNoHole' /\ PageOK' /\ ExportOK'
<1>1. PanelOnly /\ UNCHANGED reloads
  BY DEF Poll, ReceiveHint
<1>2. /\ TypeOK /\ PanelHasNoHole /\ PageOK
      /\ Numbered' /\ ExportOK' /\ UNCHANGED Committed
  BY <1>1, PanelAlone
<1>3. \E b \in BOOLEAN : panel' = Synced([panel EXCEPT !.hint = b])
  <2>1. panel = [panel EXCEPT !.hint = panel.hint] /\ panel.hint \in BOOLEAN
    BY <1>2 DEF TypeOK
  <2>2. CASE Poll
    BY <2>1, <2>2 DEF Poll
  <2>3. CASE ReceiveHint
    BY <2>3 DEF ReceiveHint
  <2> QED
    BY <2>2, <2>3
<1>4. TypeOK' /\ PanelHasNoHole' /\ PageOK'
  BY <1>1, <1>2, <1>3, SyncedOK DEF TypeOK, PanelOnly
<1> QED
  BY <1>2, <1>4

LEMMA SocketStep ==
  ASSUME Inv, Connect \/ Disconnect
  PROVE  TypeOK' /\ Numbered' /\ PanelHasNoHole' /\ PageOK' /\ ExportOK'
<1>1. PanelOnly /\ UNCHANGED reloads
  BY DEF Connect, Disconnect
<1>2. /\ TypeOK /\ PanelHasNoHole /\ PageOK
      /\ Numbered' /\ ExportOK' /\ UNCHANGED Committed
  BY <1>1, PanelAlone
<1>3. \E a \in {"down", "open"}, b \in BOOLEAN :
        panel' = [panel EXCEPT !.socket = a, !.hint = b]
  BY DEF Connect, Disconnect
<1>4. /\ panel'.shown = panel.shown /\ panel'.cursor = panel.cursor
      /\ panel'.after = panel.after /\ panel'.page = panel.page
      /\ panel'.request = panel.request
  BY <1>2, <1>3 DEF TypeOK
<1>5. TypeOK'
  BY <1>1, <1>2, <1>3 DEF TypeOK, PanelOnly
<1>6. PanelHasNoHole' /\ PageOK'
  BY <1>2, <1>4 DEF PanelHasNoHole, PageOK
<1> QED
  BY <1>2, <1>5, <1>6

\* An answer begins right behind the cursor it was asked for.
LEMMA AnswerStep ==
  ASSUME Inv, AnswerFetch
  PROVE  TypeOK' /\ Numbered' /\ PanelHasNoHole' /\ PageOK' /\ ExportOK'
<1> DEFINE later == {n \in Committed : n > panel.after}
           n == Highest(Committed)
<1>1. /\ PanelOnly /\ panel.request = "asked" /\ UNCHANGED reloads
      /\ panel' = [panel EXCEPT !.request = "answered", !.page = PageOf(later),
                                !.more = HasMore(later)]
  BY DEF AnswerFetch
<1>2. /\ TypeOK /\ PanelHasNoHole /\ PageOK
      /\ Numbered' /\ ExportOK' /\ UNCHANGED Committed
  BY <1>1, PanelAlone
<1>3. n \in Nat /\ Committed = 1..n /\ panel.after \in Nat
  BY <1>2, NextNumber DEF TypeOK, Inv
<1>4. later = (panel.after + 1)..n
  BY <1>3
<1> HIDE DEF later, n
<1>5. PICK k \in Nat : panel.after <= k /\ PageOf(later) = (panel.after + 1)..k
  BY <1>3, <1>4, PageOfInterval
<1>6. PageOf(later) \subseteq Committed /\ Committed \subseteq Nat
  BY <1>3, PageIs DEF later
<1>7. HasMore(later) \in BOOLEAN
  BY DEF HasMore
<1>8. TypeOK'
  BY <1>1, <1>2, <1>6, <1>7 DEF TypeOK, PanelOnly
<1>9. /\ panel'.shown = panel.shown /\ panel'.cursor = panel.cursor
      /\ panel'.after = panel.after /\ panel'.page = PageOf(later)
  BY <1>1, <1>2 DEF TypeOK
<1>10. PanelHasNoHole'
  BY <1>2, <1>9 DEF PanelHasNoHole
<1>11. PageOK'
  BY <1>1, <1>2, <1>5, <1>6, <1>9 DEF PageOK
<1> QED
  BY <1>2, <1>8, <1>10, <1>11

\* What is shown goes as far as the cursor and the page together.
LEMMA ReceiveStep ==
  ASSUME Inv, ReceivePage
  PROVE  TypeOK' /\ Numbered' /\ PanelHasNoHole' /\ PageOK' /\ ExportOK'
<1> DEFINE next == NextAfter(panel)
           cursor == Highest({panel.cursor, next})
<1>1. PanelOnly /\ panel.request = "answered" /\ UNCHANGED reloads
  BY DEF ReceivePage
<1>2. /\ TypeOK /\ PanelHasNoHole /\ PageOK
      /\ Numbered' /\ ExportOK' /\ UNCHANGED Committed
  BY <1>1, PanelAlone
<1>3. /\ panel.after \in Nat /\ panel.cursor \in Nat /\ panel.after <= panel.cursor
      /\ panel.shown = 1..panel.cursor /\ panel.shown \subseteq Committed
      /\ panel.page \subseteq Committed
  BY <1>1, <1>2 DEF TypeOK, PageOK, PanelHasNoHole
<1>4. PICK k \in Nat : panel.after <= k /\ panel.page = (panel.after + 1)..k
  BY <1>1, <1>2 DEF PageOK
<1>5. next = k
  <2>1. {panel.after} \cup panel.page = panel.after..k
    BY <1>3, <1>4
  <2>2. k \in panel.after..k /\ panel.after..k \in SUBSET Nat /\ \A m \in panel.after..k : m <= k
    BY <1>3, <1>4
  <2> QED
    BY <2>1, <2>2, HighestIs DEF NextAfter
<1>6. /\ cursor \in Nat /\ panel.cursor <= cursor /\ k <= cursor
      /\ cursor \in {panel.cursor, k}
  <2>1. CASE panel.cursor <= k
    BY <1>3, <1>5, <2>1, HighestIs
  <2>2. CASE k <= panel.cursor
    BY <1>3, <1>5, <2>2, HighestIs
  <2> QED
    BY <1>3, <2>1, <2>2
<1>7. panel.shown \cup panel.page = 1..cursor
  BY <1>3, <1>4, <1>6
<1>8. /\ panel'.shown = panel.shown \cup panel.page /\ panel'.cursor = cursor
      /\ panel'.request \in {"asked", "none"}
      /\ panel'.request = "asked" => panel'.after \in {next, cursor}
      /\ panel' \in [socket : {"down", "open"}, hint : BOOLEAN, cursor : Nat,
                     shown : SUBSET Nat, again : BOOLEAN,
                     request : {"none", "asked", "answered"}, after : Nat,
                     page : SUBSET Nat, more : BOOLEAN]
  <2> DEFINE pages == panel.more /\ next > panel.after
             got == [panel EXCEPT !.shown = @ \cup panel.page, !.cursor = cursor,
                                  !.page = {}, !.more = FALSE]
  <2>1. panel' = IF pages THEN [got EXCEPT !.request = "asked", !.after = next]
                 ELSE IF panel.again
                 THEN [got EXCEPT !.request = "asked", !.after = cursor, !.again = FALSE]
                 ELSE [got EXCEPT !.request = "none", !.after = 0]
    BY DEF ReceivePage
  <2>2. next \in Nat /\ cursor \in Nat
    BY <1>4, <1>5, <1>6
  <2> HIDE DEF next, cursor
  <2>3. /\ got.shown = panel.shown \cup panel.page /\ got.cursor = cursor
        /\ got \in [socket : {"down", "open"}, hint : BOOLEAN, cursor : Nat,
                    shown : SUBSET Nat, again : BOOLEAN,
                    request : {"none", "asked", "answered"}, after : Nat,
                    page : SUBSET Nat, more : BOOLEAN]
    BY <1>2, <2>2 DEF TypeOK
  <2> HIDE DEF got, pages
  <2>4. CASE pages
    BY <2>1, <2>2, <2>3, <2>4
  <2>5. CASE ~ pages /\ panel.again
    BY <2>1, <2>2, <2>3, <2>5
  <2>6. CASE ~ pages /\ ~ panel.again
    BY <2>1, <2>2, <2>3, <2>6
  <2> QED
    BY <2>4, <2>5, <2>6
<1> HIDE DEF next, cursor
<1>9. TypeOK'
  BY <1>1, <1>2, <1>8 DEF TypeOK, PanelOnly
<1>10. PanelHasNoHole'
  BY <1>2, <1>3, <1>7, <1>8 DEF PanelHasNoHole
<1>11. PageOK'
  <2>1. panel'.request = "asked" => panel'.after <= panel'.cursor
    BY <1>5, <1>6, <1>8
  <2> QED
    BY <1>8, <2>1 DEF PageOK
<1> QED
  BY <1>2, <1>9, <1>10, <1>11

LEMMA FailStep ==
  ASSUME Inv, FetchFails \/ Reload
  PROVE  TypeOK' /\ Numbered' /\ PanelHasNoHole' /\ PageOK' /\ ExportOK'
<1>1. PanelOnly
  BY DEF FetchFails, Reload
<1>2. /\ TypeOK /\ PanelHasNoHole /\ PageOK
      /\ Numbered' /\ ExportOK' /\ UNCHANGED Committed
  BY <1>1, PanelAlone
<1>3. reloads' \in 0..MaxReloads
  BY <1>2, ReadingAssumption DEF TypeOK, FetchFails, Reload
<1>4. CASE FetchFails
  <2>1. panel' = GivesUp
    BY <1>4 DEF FetchFails
  <2>2. /\ panel'.shown = panel.shown /\ panel'.cursor = panel.cursor
        /\ panel'.request = "none"
    BY <1>2, <2>1 DEF GivesUp, TypeOK
  <2>3. TypeOK'
    BY <1>1, <1>2, <1>3, <2>1 DEF TypeOK, GivesUp, PanelOnly
  <2> QED
    BY <1>2, <2>2, <2>3 DEF PanelHasNoHole, PageOK
<1>5. CASE Reload
  <2>1. panel' = Mounted
    BY <1>5 DEF Reload
  <2>2. TypeOK'
    BY <1>1, <1>2, <1>3, <2>1 DEF TypeOK, Mounted, PanelOnly
  <2>3. PanelHasNoHole' /\ PageOK'
    BY <2>1 DEF PanelHasNoHole, PageOK, Mounted
  <2> QED
    BY <1>2, <2>2, <2>3
<1> QED
  BY <1>4, <1>5

-----------------------------------------------------------------------------
(* The steps of an export.                                                 *)

LEMMA ExportAlone ==
  ASSUME Inv, ExportOnly
  PROVE  /\ TypeOK /\ Numbered /\ ExportOK
         /\ Numbered' /\ PanelHasNoHole' /\ PageOK'
         /\ UNCHANGED <<kind, stt, sequence, writing, queue, panel, replays, reloads, Segments>>
<1>1. UNCHANGED <<kind, stt, sequence, writing, queue, panel, replays, reloads>>
  BY DEF ExportOnly
<1>2. TypeOK /\ Numbered /\ ExportOK /\ PanelHasNoHole /\ PageOK /\ Keeps
  BY <1>1 DEF Inv, Keeps
<1>3. UNCHANGED Segments
  BY <1>1 DEF Segments
<1> QED
  BY <1>1, <1>2, <1>3, NumberedKept, PanelKept

LEMMA ExportBounds ==
  ASSUME Inv, BecomeReady \/ BeginExport \/ EndExport
  PROVE  TypeOK' /\ Numbered' /\ PanelHasNoHole' /\ PageOK' /\ ExportOK'
<1>1. ExportOnly
  BY DEF BecomeReady, BeginExport, EndExport
<1>2. /\ TypeOK /\ Numbered /\ ExportOK
      /\ Numbered' /\ PanelHasNoHole' /\ PageOK'
      /\ UNCHANGED <<kind, stt, sequence, writing, queue, panel, replays, reloads, Segments>>
  BY <1>1, ExportAlone
<1>3. Segments \in SUBSET Utterances
  BY DEF Segments
<1>4. /\ export'.out = <<>> /\ export'.after = 0
      /\ export'.at \in {"ready", "exporting"}
      /\ export'.seen \in SUBSET Utterances /\ export'.seen \subseteq Segments
      /\ export' \in [at : {"preparing", "ready", "exporting", "exported"}, after : Nat,
                      out : Seq(SUBSET Utterances), seen : SUBSET Utterances]
  <2>1. CASE BecomeReady
    BY <1>2, <2>1 DEF BecomeReady, ExportOK, TypeOK
  <2>2. CASE BeginExport
    BY <1>2, <1>3, <2>2 DEF BeginExport, ExportOK, TypeOK
  <2>3. CASE EndExport
    <3>1. export' = [at |-> "ready", after |-> 0, out |-> <<>>, seen |-> {}]
      BY <2>3 DEF EndExport, NoExport
    <3>2. <<>> \in Seq(SUBSET Utterances)
      OBVIOUS
    <3> QED
      BY <3>1, <3>2
  <2> QED
    BY <2>1, <2>2, <2>3
<1>5. TypeOK'
  BY <1>2, <1>4 DEF TypeOK
<1>6. ExportOK'
  BY <1>2, <1>4 DEF ExportOK, ExportFaithful
<1> QED
  BY <1>2, <1>5, <1>6

\* A page begins behind everything that has been exported, and leaves out nothing
\* before its end.
LEMMA ReadPageStep ==
  ASSUME Inv, ReadPage
  PROVE  TypeOK' /\ Numbered' /\ PanelHasNoHole' /\ PageOK' /\ ExportOK'
<1> DEFINE later == Behind(export.after)
           page == PageOf(later)
           h == Highest(page)
<1>1. /\ ExportOnly /\ export.at = "exporting"
      /\ export' = [export EXCEPT
           !.at = IF HasMore(later) THEN "exporting" ELSE "exported",
           !.after = IF HasMore(later) THEN sequence[h] ELSE 0,
           !.out = Append(@, page)]
  BY DEF ReadPage
<1>2. /\ TypeOK /\ Numbered /\ ExportOK
      /\ Numbered' /\ PanelHasNoHole' /\ PageOK'
      /\ UNCHANGED <<kind, stt, sequence, writing, queue, panel, replays, reloads, Segments>>
  BY <1>1, ExportAlone
<1>3. /\ later \in SUBSET Utterances
      /\ \A v \in later : sequence[v] > 0
      /\ \A i \in DOMAIN export.out : \A u \in export.out[i], v \in later : u < v
      /\ \A u \in export.seen :
           u \in later \/ \E i \in DOMAIN export.out : u \in export.out[i]
  <2>1. Segments \in SUBSET Utterances /\ export.seen \subseteq Segments
    BY <1>2 DEF Segments, ExportOK
  <2>2. CASE export.after = 0
    <3>1. later = Segments /\ export.out = <<>>
      BY <1>1, <1>2, <2>2 DEF Behind, ExportOK
    <3> QED
      BY <2>1, <3>1 DEF Segments
  <2>3. CASE export.after # 0
    <3>1. PICK a \in Utterances : Reached(a)
      BY <1>1, <1>2, <2>3 DEF ExportOK
    <3>2. a \in Segments /\ sequence[a] = export.after
      BY <1>2, <2>3, <3>1 DEF Reached, Segments, TypeOK
    <3>3. \A u \in Segments : sequence[u] = export.after => u = a
      BY <1>2, <2>1, <2>3, <3>2 DEF Numbered
    <3>4. (CHOOSE u \in Segments : sequence[u] = export.after) = a
      BY <3>2, <3>3
    <3>5. later = {u \in Segments : u > a}
      BY <2>3, <3>4 DEF Behind
    <3>6. \A i \in DOMAIN export.out : export.out[i] \in SUBSET Utterances
      BY <1>2 DEF TypeOK
    <3>7. \A i \in DOMAIN export.out : \A u \in export.out[i], v \in later : u < v
      <4> TAKE i \in DOMAIN export.out
      <4> TAKE u \in export.out[i], v \in later
      <4>1. u <= a /\ u \in Nat /\ a \in Nat
        BY <3>1, <3>6, ReadingAssumption DEF Reached
      <4>2. v > a /\ v \in Nat
        BY <2>1, <3>5, ReadingAssumption
      <4> QED
        BY <4>1, <4>2
    <3>8. ASSUME NEW u \in export.seen
          PROVE  u \in later \/ \E i \in DOMAIN export.out : u \in export.out[i]
      <4>1. u \in Segments /\ u \in Nat /\ a \in Nat
        BY <2>1, ReadingAssumption
      <4>2. u <= a \/ u > a
        BY <4>1
      <4> QED
        BY <3>1, <3>5, <4>1, <4>2 DEF Reached
    <3>9. later \in SUBSET Utterances /\ \A v \in later : sequence[v] > 0
      BY <2>1, <3>5 DEF Segments
    <3> QED
      BY <3>7, <3>8, <3>9
  <2> QED
    BY <2>2, <2>3
<1>4. /\ later \in SUBSET Nat /\ page \subseteq later /\ page \in SUBSET Utterances
      /\ IsFiniteSet(later) /\ IsFiniteSet(page)
  <2>1. page \subseteq later
    BY PageIs
  <2> HIDE DEF later, page
  <2> QED
    BY <1>3, <2>1, ReadingAssumption, FS_Subset
<1> HIDE DEF later, page
<1>5. ASSUME HasMore(later)
      PROVE  /\ h \in page /\ \A u \in page : u <= h
             /\ \A u \in later : u <= h => u \in page
  <2>1. later # {}
    BY <1>4, <1>5 DEF HasMore, page
  <2>2. page # {}
    BY <1>4, <2>1, PageNotEmpty DEF page
  <2>3. h \in page /\ \A u \in page : u <= h
    BY <1>4, <2>2, FiniteHasHighest
  <2>4. \A u \in later : u <= h => u \in page
    BY <1>4, <2>3, PageIsFirst DEF page
  <2> QED
    BY <2>3, <2>4
<1> HIDE DEF h
<1>6. DEFINE out == export.out
             n == Len(out)
<1>7. /\ out \in Seq(SUBSET Utterances) /\ n \in Nat
      /\ Append(out, page) \in Seq(SUBSET Utterances)
      /\ DOMAIN Append(out, page) = 1..(n + 1) /\ DOMAIN out = 1..n
      /\ Append(out, page)[n + 1] = page
      /\ \A i \in 1..n : Append(out, page)[i] = out[i]
  BY <1>2, <1>4 DEF TypeOK
<1>8. /\ export'.out = Append(out, page) /\ export'.seen = export.seen
      /\ HasMore(later) => export'.at = "exporting" /\ export'.after = sequence[h]
      /\ ~ HasMore(later) => export'.at = "exported" /\ export'.after = 0
  BY <1>1, <1>2 DEF TypeOK
<1>9. TypeOK'
  <2>1. HasMore(later) => sequence[h] \in Nat
    BY <1>2, <1>4, <1>5 DEF TypeOK
  <2> QED
    BY <1>1, <1>2, <1>7, <2>1 DEF TypeOK
<1> HIDE DEF out, n
<1>10. /\ \A i, j \in 1..(n + 1) :
            i < j => \A u \in Append(out, page)[i], v \in Append(out, page)[j] : u < v
       /\ \A i \in 1..n : \A u \in out[i], v \in page : u < v
  <2>1. \A i \in 1..n : \A u \in out[i], v \in page : u < v
    BY <1>3, <1>4, <1>7 DEF out
  <2>2. \A i, j \in 1..n : i < j => \A u \in out[i], v \in out[j] : u < v
    BY <1>2, <1>7 DEF out, ExportOK, ExportFaithful
  <2>3. ASSUME NEW i \in 1..(n + 1), NEW j \in 1..(n + 1), i < j
        PROVE  \A u \in Append(out, page)[i], v \in Append(out, page)[j] : u < v
    <3>1. i \in 1..n /\ (j \in 1..n \/ j = n + 1)
      BY <1>7, <2>3
    <3> QED
      BY <1>7, <2>1, <2>2, <2>3, <3>1
  <2> QED
    BY <2>1, <2>3
<1>11. \A u \in export.seen :
         u \in later \/ \E i \in 1..(n + 1) : u \in Append(out, page)[i]
  <2>1. 1..n \subseteq 1..(n + 1)
    BY <1>7
  <2> QED
    BY <1>3, <1>7, <2>1 DEF out
<1>12. n + 1 \in 1..(n + 1)
  BY <1>7
<1>13. CASE HasMore(later)
  <2>1. h \in Utterances /\ sequence[h] > 0 /\ h \in Nat
    BY <1>3, <1>4, <1>5, <1>13
  <2>2. \A i \in 1..(n + 1) : \A u \in Append(out, page)[i] : u <= h
    <3> TAKE i \in 1..(n + 1)
    <3>1. CASE i \in 1..n
      <4>1. \A u \in out[i] : u < h
        BY <1>5, <1>10, <1>13, <3>1
      <4>2. \A u \in out[i] : u \in Nat
        <5>1. out[i] \in SUBSET Utterances
          BY <1>7, <3>1
        <5> QED
          BY <5>1, ReadingAssumption
      <4> QED
        BY <1>7, <2>1, <3>1, <4>1, <4>2
    <3>2. CASE i = n + 1
      BY <1>5, <1>7, <1>13, <3>2
    <3> QED
      BY <1>7, <3>1, <3>2
  <2>3. \A u \in export.seen : u <= h => \E i \in 1..(n + 1) : u \in Append(out, page)[i]
    BY <1>5, <1>7, <1>11, <1>12, <1>13
  <2>4. PICK a \in Utterances : a = h
    BY <2>1
  <2>5. Reached(a)'
    BY <1>2, <1>7, <1>8, <1>13, <2>2, <2>3, <2>4 DEF Reached
  <2>6. ExportFaithful'
    BY <1>7, <1>8, <1>10, <1>13 DEF ExportFaithful
  <2>7. export'.after # 0 /\ export'.at = "exporting"
    BY <1>2, <1>8, <1>13, <2>1 DEF TypeOK
  <2>8. export'.seen \subseteq Segments'
    BY <1>2, <1>8 DEF ExportOK
  <2> QED
    BY <1>2, <1>9, <2>6, <2>7, <2>8, <2>5 DEF ExportOK
<1>14. CASE ~ HasMore(later)
  <2>1. page = later
    BY <1>14 DEF HasMore, page
  <2>2. \A u \in export.seen : \E i \in 1..(n + 1) : u \in Append(out, page)[i]
    BY <1>7, <1>11, <1>12, <2>1
  <2>3. ExportFaithful'
    BY <1>7, <1>8, <1>10, <1>14, <2>2 DEF ExportFaithful
  <2>4. export'.seen \subseteq Segments' /\ export'.at = "exported"
    BY <1>2, <1>8, <1>14 DEF ExportOK
  <2> QED
    BY <1>2, <1>9, <2>3, <2>4 DEF ExportOK
<1> QED
  BY <1>13, <1>14

-----------------------------------------------------------------------------
(* All steps.                                                              *)

LEMMA NextKeepsInv ==
  ASSUME Inv, Next
  PROVE  Inv'
<1>1. CASE \E u \in Utterances : Arrive(u) \/ FindSilence(u) \/ Replay(u)
  BY <1>1, ArriveStep, FindSilenceStep, ReplayStep DEF Inv
<1>2. CASE \E u \in Utterances : Write(u)
  BY <1>2, WriteOneStep DEF Inv
<1>3. CASE Commit \/ Rollback
  BY <1>3, CommitStep, RollbackStep DEF Inv
<1>4. CASE Publish \/ QueueLost
  BY <1>4, NoticeStep DEF Inv
<1>5. CASE PanelStep
  BY <1>5, HintStep, SocketStep, AnswerStep, ReceiveStep, FailStep DEF PanelStep, Inv
<1>6. CASE ExportStep
  BY <1>6, ExportBounds, ReadPageStep DEF ExportStep, Inv
<1> QED
  BY <1>1, <1>2, <1>3, <1>4, <1>5, <1>6 DEF Next, WriteStep

LEMMA StutterKeepsInv ==
  ASSUME Inv, UNCHANGED vars
  PROVE  Inv'
<1>1. UNCHANGED <<kind, stt, sequence, writing, queue, panel, export, replays, reloads>>
  BY DEF vars
<1>2. TypeOK' /\ Keeps
  BY <1>1 DEF Inv, TypeOK, Keeps
<1> QED
  BY <1>1, <1>2, NumberedKept, PanelKept, ExportKept DEF Inv

LEMMA InvAlways == Spec => []Inv
<1>1. ASSUME Inv, [Next]_vars
      PROVE  Inv'
  BY <1>1, NextKeepsInv, StutterKeepsInv
<1> QED
  BY <1>1, InitInv, PTL DEF Spec

-----------------------------------------------------------------------------
\* Every variable keeps its shape, which includes that the cursors, pages and
\* sequences are numbers although each is taken from the others.
THEOREM TypeCorrect == Spec => []TypeOK
<1>1. Inv => TypeOK
  BY DEF Inv
<1> QED
  BY <1>1, InvAlways, PTL

\* However many workers commit, roll back and repeat the segments of a session
\* (commit_transcript_segment), with the number of each drawn long before it is
\* committed: the numbers are 1..n and each is given once.
THEOREM SequencesHaveNoGap == Spec => []SequencesGapless
<1>1. ASSUME Inv
      PROVE  SequencesGapless
  <2>1. Numbered /\ TypeOK
    BY <1>1 DEF Inv
  <2>2. PICK n \in Nat : Committed = 1..n
    BY <2>1 DEF Numbered
  <2>3. ASSUME NEW u \in Utterances, NEW m \in 1..sequence[u]
        PROVE  m \in Committed
    <3>1. sequence[u] \in Nat
      BY <2>1 DEF TypeOK
    <3>2. sequence[u] \in Committed
      BY <3>1 DEF Committed
    <3> QED
      BY <2>2, <3>1, <3>2
  <2> QED
    BY <2>1, <2>3 DEF Numbered, SequencesGapless
<1> QED
  BY <1>1, InvAlways, PTL

\* Whatever is committed, fetched, lost and repeated in whatever order: the live panel
\* (SessionTranscript.tsx) never shows a transcript with a hole, because sequences
\* are committed in their order and each answer is the beginning of the rest.
THEOREM PanelNeverSkips == Spec => []PanelHasNoHole
<1>1. Inv => PanelHasNoHole
  BY DEF Inv
<1> QED
  BY <1>1, InvAlways, PTL

\* An export (iter_upload_export) has each segment once and in the order of the
\* recording, and all that existed when it began, for every page size and although
\* segments are inserted on both sides of its cursor.
THEOREM ExportIsFaithful == Spec => []ExportFaithful
<1>1. Inv => ExportFaithful
  BY DEF Inv, ExportOK
<1> QED
  BY <1>1, InvAlways, PTL
=============================================================================
