------------------------- MODULE SttSchedulerProofs -------------------------
(***************************************************************************)
(* Proofs about SttScheduler for every set of utterances, sessions and      *)
(* workers, every attempt budget and every limit.                           *)
(***************************************************************************)
EXTENDS SttScheduler, FiniteSetTheorems, TLAPS

LEMMA MaxOfTwo ==
  ASSUME NEW a \in Nat, NEW b \in Nat
  PROVE  Max({a, b}) \in Nat /\ a <= Max({a, b}) /\ b <= Max({a, b})
<1>1. \E x \in {a, b} : \A y \in {a, b} : x >= y
  OBVIOUS
<1> QED
  BY <1>1 DEF Max

LEMMA MaxOfInterval ==
  ASSUME NEW n \in Nat
  PROVE  Max(0..n) = n
<1>1. n \in 0..n /\ \A y \in 0..n : n >= y
  OBVIOUS
<1>2. Max(0..n) \in 0..n /\ \A y \in 0..n : Max(0..n) >= y
  BY <1>1 DEF Max
<1> QED
  BY <1>1, <1>2

LEMMA FiniteSubsets ==
  ASSUME NEW S \in SUBSET Utterances
  PROVE  Cardinality(S) \in Nat
BY SchedulerAssumption, FS_Subset, FS_CardinalityType

LEMMA ClassOfUtterance ==
  ASSUME NEW u \in Utterances
  PROVE  Class(u) \in Classes
BY SchedulerAssumption DEF Class

-----------------------------------------------------------------------------
(* The transcript.                                                         *)

\* The sequences of each session are an interval and are used once: what
\* NextSequence needs to be one more than all of them, and the next.
Numbered ==
  /\ \A u \in Utterances : \E n \in Nat : Numbers(SessionOf[u]) = 0..n
  /\ \A u, v \in Utterances :
       Canonical(u) /\ SessionOf[u] = SessionOf[v] /\ segment[u] = segment[v] => u = v

LEMMA NumberedInitially == Init => Numbered
<1> SUFFICES ASSUME Init PROVE Numbered
  OBVIOUS
<1>1. ASSUME NEW u \in Utterances PROVE Numbers(SessionOf[u]) = 0..0
  BY DEF Init, Numbers
<1> QED
  BY <1>1 DEF Init, Numbered, Canonical

\* The transcript only grows, by one segment at a time, written by a run that
\* holds the claim on a job without one; it gets the next sequence.
Appends(w, u) ==
  /\ u \in Utterances
  /\ w \in Workers
  /\ u = Current(w)
  /\ RunsAt(w, "committing")
  /\ HoldsClaim(w, u)
  /\ ~Canonical(u)
  /\ segment' = [segment EXCEPT ![u] = NextSequence(SessionOf[u])]
  /\ job' = job

LEMMA OnlyCommitsAppend ==
  ASSUME TypeOK, [Next]_vars
  PROVE  segment' = segment \/ \E w \in Workers, u \in Utterances : Appends(w, u)
<1>1. ASSUME NEW w \in Workers, CommitSegment(w)
      PROVE  segment' = segment \/ \E u \in Utterances : Appends(w, u)
  <2>1. Current(w) \in Utterances
    BY <1>1 DEF TypeOK, CommitSegment, RunsAt, Current, WorkerRow
  <2> QED
    BY <1>1, <2>1 DEF CommitSegment, Appends
<1> QED
  BY <1>1 DEF Next, Runs, vars, CommitUtterance, Replay, DueComes, CooldownPasses,
     EnsureMissingJobs, ConvergeCanonical, SelectCandidates, StampReservations,
     AbortPass, PublishWakes, PublishSomeWakes, LoseWake, RepeatWake, TakeWake,
     ClaimNext, NothingReserved, ReadWork, ProviderAnswers, CompleteSuccess,
     CompleteNoSpeech, RecordFailure, CommitFails, WorkerCrash

LEMMA SegmentsStep ==
  ASSUME TypeOK, Numbered, [Next]_vars
  PROVE  segment' \in [Utterances -> Nat] /\ Numbered'
<1>1. CASE segment' = segment
  BY <1>1 DEF TypeOK, Numbered, Numbers, Canonical
<1>2. ASSUME NEW w \in Workers, NEW u \in Utterances, Appends(w, u)
      PROVE  segment' \in [Utterances -> Nat] /\ Numbered'
  <2>1. PICK n \in Nat : Numbers(SessionOf[u]) = 0..n
    BY DEF Numbered
  <2>2. segment' = [segment EXCEPT ![u] = n + 1]
    <3>1. Max(Numbers(SessionOf[u])) = n
      BY <2>1, MaxOfInterval
    <3>2. NextSequence(SessionOf[u]) = n + 1
      BY <3>1 DEF NextSequence
    <3> QED
      BY <1>2, <3>2 DEF Appends
  <2>3. segment' \in [Utterances -> Nat]
    BY <2>2 DEF TypeOK
  <2>4. \A v \in Utterances : SessionOf[v] = SessionOf[u] => segment[v] <= n
    BY <2>1 DEF Numbers, TypeOK
  <2>5. segment[u] = 0
    BY <1>2 DEF Appends, Canonical
  <2>6. ASSUME NEW v \in Utterances
        PROVE  \E m \in Nat : Numbers(SessionOf[v])' = 0..m
    <3>1. CASE SessionOf[v] = SessionOf[u]
      <4>1. Numbers(SessionOf[u])' = Numbers(SessionOf[u]) \cup {n + 1}
        <5> DEFINE mine == {x \in Utterances : SessionOf[x] = SessionOf[u]}
        <5>1. u \in mine /\ segment'[u] = n + 1
          BY <2>2 DEF TypeOK
        <5>2. \A x \in mine \ {u} : segment'[x] = segment[x]
          BY <2>2 DEF TypeOK
        <5>3. /\ Numbers(SessionOf[u]) = {0} \cup {segment[x] : x \in mine}
              /\ Numbers(SessionOf[u])' = {0} \cup {segment'[x] : x \in mine}
          BY DEF Numbers
        <5> HIDE DEF mine
        <5> QED
          BY <2>5, <5>1, <5>2, <5>3
      <4>2. (0..n) \cup {n + 1} = 0..(n + 1)
        OBVIOUS
      <4> QED
        BY <2>1, <3>1, <4>1, <4>2
    <3>2. CASE SessionOf[v] # SessionOf[u]
      <4>1. Numbers(SessionOf[v])' = Numbers(SessionOf[v])
        BY <2>2, <3>2 DEF Numbers, TypeOK
      <4> QED
        BY <4>1 DEF Numbered
    <3> QED
      BY <3>1, <3>2
  <2>7. \A x, y \in Utterances :
          Canonical(x)' /\ SessionOf[x] = SessionOf[y] /\ segment'[x] = segment'[y] => x = y
    BY <2>2, <2>4 DEF Numbered, Canonical, TypeOK
  <2> QED
    BY <2>3, <2>6, <2>7 DEF Numbered
<1> QED
  BY <1>1, <1>2, OnlyCommitsAppend

LEMMA WorkerMoves ==
  ASSUME TypeOK, NEW w \in Workers, worker[w].on # 0,
         NEW at \in WorkerSteps \ {"waking"}, Moves(w, at)
  PROVE  /\ worker' \in [Workers -> WorkerRow]
         /\ \A v \in Workers : worker'[v].on = 0 <=> worker'[v].at \in {"idle", "waking"}
BY DEF TypeOK, WorkerRow, WorkerSteps, Moves

LEMMA WorkerFinishes ==
  ASSUME TypeOK, NEW w \in Workers, Finishes(w)
  PROVE  /\ worker' \in [Workers -> WorkerRow]
         /\ \A v \in Workers : worker'[v].on = 0 <=> worker'[v].at \in {"idle", "waking"}
BY DEF TypeOK, WorkerRow, WorkerSteps, Finishes, Idle

-----------------------------------------------------------------------------
(* Type correctness.                                                       *)

\* The part of TypeOK about the job rows, the one conjunct many steps disturb.
JobsOK ==
  /\ job \in [Utterances -> JobRow]
  /\ \A u \in Utterances : job[u].claim # NoWorker <=> job[u].state = "claimed"

\* A step that replaces rows by well-formed rows keeps JobsOK.
RowOK(row) == row \in JobRow /\ (row.claim # NoWorker <=> row.state = "claimed")

LEMMA RowsOfJobs == JobsOK <=> /\ job \in [Utterances -> JobRow]
                               /\ \A u \in Utterances : RowOK(job[u])
BY DEF JobsOK, RowOK

LEMMA FreshOK ==
  ASSUME NEW s \in JobStates \ {"claimed"}
  PROVE  RowOK(Fresh(s))
BY SchedulerAssumption DEF RowOK, Fresh, JobRow

LEMMA SettledOK ==
  ASSUME NEW row \in JobRow, NEW s \in JobStates \ {"claimed"}
  PROVE  RowOK(Settled(row, s))
BY SchedulerAssumption DEF RowOK, Settled, JobRow

LEMMA FailedOK ==
  ASSUME NEW row \in JobRow, NEW canonical \in BOOLEAN, NEW retryable \in BOOLEAN
  PROVE  RowOK(Failed(row, canonical, retryable))
<1> DEFINE waiting == [row EXCEPT !.state = "retry_wait", !.claim = NoWorker,
                                  !.due = FALSE, !.delivery = "none"]
<1>1. RowOK(waiting)
  BY SchedulerAssumption DEF RowOK, JobRow, JobStates
<1>2. RowOK(Settled(row, "succeeded")) /\ RowOK(Settled(row, "failed"))
  BY SettledOK DEF JobStates
<1> QED
  BY <1>1, <1>2 DEF Failed

LEMMA DueOK ==
  ASSUME NEW row, RowOK(row)
  PROVE  RowOK([row EXCEPT !.due = TRUE])
BY DEF RowOK, JobRow

LEMMA OneRowChanges ==
  ASSUME JobsOK, NEW u \in Utterances, NEW row, RowOK(row),
         job' = [job EXCEPT ![u] = row]
  PROVE  JobsOK'
BY DEF JobsOK, RowOK

\* The row and its field types, the shape of a worker's row and of the claim.
LEMMA TypesAndNumbers == Spec => [](TypeOK /\ Numbered)
<1> USE SchedulerAssumption
<1>1. Init => TypeOK /\ Numbered
  <2> SUFFICES ASSUME Init PROVE TypeOK /\ Numbered
    OBVIOUS
  <2>1. PICK old \in SUBSET Utterances :
          job = [u \in Utterances |-> Fresh(IF u \in old THEN "missing" ELSE "absent")]
    BY DEF Init
  <2>2. /\ job \in [Utterances -> JobRow]
        /\ \A u \in Utterances : RowOK(job[u])
    BY <2>1, FreshOK DEF RowOK, JobStates
  <2>3. Numbered
    BY NumberedInitially
  <2> QED
    BY <2>2, <2>3 DEF Init, TypeOK, RowOK, WorkerRow, Idle, PassStart, ReconcilerSteps
<1>2. TypeOK /\ Numbered /\ [Next]_vars => TypeOK' /\ Numbered'
  <2> SUFFICES ASSUME TypeOK, Numbered, [Next]_vars PROVE TypeOK' /\ Numbered'
    OBVIOUS
  <2> DEFINE WorkersOK ==
         /\ worker \in [Workers -> WorkerRow]
         /\ \A v \in Workers : worker[v].on = 0 <=> worker[v].at \in {"idle", "waking"}
             RestOK ==
         /\ segment \in [Utterances -> Nat]
         /\ wakes \in [Classes -> Nat]
         /\ reconciler \in [at : ReconcilerSteps, class : Classes,
                            picked : SUBSET Utterances, target : Nat]
         /\ replays \in [Utterances -> 0..MaxReplays]
  <2>b. JobsOK /\ WorkersOK /\ RestOK
    BY DEF TypeOK, JobsOK
  <2>c. SUFFICES JobsOK' /\ WorkersOK' /\ RestOK'
    BY SegmentsStep DEF TypeOK, JobsOK
  <2>d. \A w \in Workers : worker[w].at \notin {"idle", "waking"} => Current(w) \in Utterances
    BY <2>b DEF Current, WorkerRow
  <2>e. \A u \in Utterances : job[u] \in JobRow
    BY <2>b DEF JobsOK
  <2>1. ASSUME NEW u \in Utterances, CommitUtterance(u)
        PROVE  JobsOK' /\ WorkersOK' /\ RestOK'
    BY <2>1, <2>b, FreshOK, OneRowChanges DEF CommitUtterance, JobStates
  <2>2. ASSUME NEW u \in Utterances, Replay(u)
        PROVE  JobsOK' /\ WorkersOK' /\ RestOK'
    <3> DEFINE row == IF Canonical(u) THEN Settled(job[u], "succeeded") ELSE Fresh("pending")
    <3>1. RowOK(row)
      BY <2>e, FreshOK, SettledOK DEF JobStates
    <3>2. job' = [job EXCEPT ![u] = row]
      BY <2>2 DEF Replay
    <3>3. JobsOK'
      BY <2>b, <3>1, <3>2, OneRowChanges
    <3>4. replays' \in [Utterances -> 0..MaxReplays]
      <4>1. replays[u] < MaxReplays /\ replays' = [replays EXCEPT ![u] = replays[u] + 1]
        BY <2>2 DEF Replay
      <4> QED
        BY <2>b, <4>1
    <3>5. WorkersOK'
      BY <2>2, <2>b DEF Replay
    <3>6. UNCHANGED <<segment, wakes, reconciler>>
      BY <2>2 DEF Replay
    <3> HIDE DEF row
    <3> QED
      BY <2>b, <3>3, <3>4, <3>5, <3>6
  <2>3. ASSUME NEW u \in Utterances, DueComes(u)
        PROVE  JobsOK' /\ WorkersOK' /\ RestOK'
    <3> DEFINE row == [job[u] EXCEPT !.due = TRUE]
    <3>a. RowOK(row)
      BY <2>b, DueOK DEF JobsOK, RowOK
    <3>1. JobsOK'
      BY <2>3, <2>b, <3>a, OneRowChanges DEF DueComes
    <3> QED
      BY <2>3, <2>b, <3>1 DEF DueComes
  <2>4. ASSUME NEW u \in Utterances, CooldownPasses(u)
        PROVE  JobsOK' /\ WorkersOK' /\ RestOK'
    <3>1. JobsOK'
      BY <2>4, <2>b DEF CooldownPasses, JobsOK, JobRow
    <3> QED
      BY <2>4, <2>b, <3>1 DEF CooldownPasses
  <2>5. ASSUME EnsureMissingJobs
        PROVE  JobsOK' /\ WorkersOK' /\ RestOK'
    <3>1. JobsOK'
      BY <2>5, <2>b, FreshOK DEF EnsureMissingJobs, JobsOK, RowOK, JobStates
    <3> QED
      BY <2>5, <2>b, <3>1 DEF EnsureMissingJobs, ReconcilerSteps
  <2>6. ASSUME ConvergeCanonical
        PROVE  JobsOK' /\ WorkersOK' /\ RestOK'
    <3>1. ASSUME NEW u \in Utterances PROVE RowOK(Converged(u))
      BY <2>b, <2>e, FreshOK, SettledOK DEF Converged, JobsOK, RowOK, JobStates
    <3>2. JobsOK'
      BY <2>6, <2>b, <3>1 DEF ConvergeCanonical, JobsOK, RowOK
    <3> QED
      BY <2>6, <2>b, <3>2 DEF ConvergeCanonical, ReconcilerSteps
  <2>7. ASSUME SelectCandidates
        PROVE  JobsOK' /\ WorkersOK' /\ RestOK'
    <3>1. Candidates(reconciler.class) \subseteq Utterances
      BY DEF Candidates, OfClass
    <3> QED
      BY <2>7, <2>b, <3>1 DEF SelectCandidates, ReconcilerSteps, JobsOK
  <2>8. ASSUME StampReservations
        PROVE  JobsOK' /\ WorkersOK' /\ RestOK'
    <3>1. JobsOK'
      BY <2>8, <2>b DEF StampReservations, JobsOK, JobRow
    <3>2. Cardinality({u \in OfClass(reconciler.class) : Reserved(job'[u])}) \in Nat
      BY FiniteSubsets DEF OfClass
    <3> QED
      BY <2>8, <2>b, <3>1, <3>2 DEF StampReservations, ReconcilerSteps
  <2>9. ASSUME NEW c \in Classes, PublishWakes(c) \/ PublishSomeWakes(c)
        PROVE  JobsOK' /\ WorkersOK' /\ RestOK'
    <3>1. wakes[c] \in Nat /\ reconciler.target \in Nat
      BY <2>b
    <3>2. Max({wakes[c], reconciler.target}) \in Nat
      BY <3>1, MaxOfTwo
    <3>3. TopUp(c) \in [Classes -> Nat] /\ TopUp(c)[c] \in Nat
      BY <2>b, <3>2 DEF TopUp
    <3>4. wakes' \in [Classes -> Nat]
      BY <2>9, <2>b, <3>1, <3>3 DEF PublishWakes, PublishSomeWakes
    <3>5. NextPass(c) \in [at : ReconcilerSteps, class : Classes,
                           picked : SUBSET Utterances, target : Nat]
      BY DEF NextPass, PassStart, ReconcilerSteps
    <3> QED
      BY <2>9, <2>b, <3>4, <3>5 DEF PublishWakes, PublishSomeWakes, JobsOK
  <2>10. ASSUME AbortPass
         PROVE  JobsOK' /\ WorkersOK' /\ RestOK'
    BY <2>10, <2>b DEF AbortPass, PassStart, ReconcilerSteps, JobsOK
  <2>11. ASSUME NEW c \in Classes, LoseWake(c) \/ RepeatWake(c)
         PROVE  JobsOK' /\ WorkersOK' /\ RestOK'
    BY <2>11, <2>b DEF LoseWake, RepeatWake, JobsOK
  <2>12. ASSUME NEW w \in Workers, TakeWake(w)
         PROVE  JobsOK' /\ WorkersOK' /\ RestOK'
    BY <2>12, <2>b DEF TakeWake, JobsOK, WorkerRow, WorkerSteps, Idle
  <2>13. ASSUME NEW w \in Workers, ClaimNext(w)
         PROVE  JobsOK' /\ WorkersOK' /\ RestOK'
    <3>1. PICK u \in Found(w) :
            IF Canonical(u) \/ job[u].attempts >= MaxAttempts
            THEN /\ job' = [job EXCEPT ![u] =
                              Settled(@, IF Canonical(u) THEN "succeeded" ELSE "failed")]
                 /\ UNCHANGED worker
            ELSE /\ job' = [job EXCEPT ![u] =
                              [state |-> "claimed", attempts |-> @.attempts + 1,
                               claim |-> w, due |-> FALSE, delivery |-> "none"]]
                 /\ worker' = [worker EXCEPT ![w] = [at |-> "reading", on |-> u]]
      BY <2>13 DEF ClaimNext
    <3>2. u \in Utterances /\ job[u] \in JobRow
      BY <2>e DEF Found, OfClass
    <3>3. CASE Canonical(u) \/ job[u].attempts >= MaxAttempts
      <4> DEFINE row == Settled(job[u], IF Canonical(u) THEN "succeeded" ELSE "failed")
      <4>1. RowOK(row)
        BY <3>2, SettledOK DEF JobStates
      <4>2. JobsOK'
        BY <2>b, <3>1, <3>2, <3>3, <4>1, OneRowChanges
      <4> QED
        BY <2>13, <2>b, <3>1, <3>3, <4>2 DEF ClaimNext
    <3>4. CASE ~(Canonical(u) \/ job[u].attempts >= MaxAttempts)
      <4> DEFINE row == [state |-> "claimed", attempts |-> job[u].attempts + 1,
                         claim |-> w, due |-> FALSE, delivery |-> "none"]
      <4>1. RowOK(row)
        BY <3>2, <3>4 DEF RowOK, JobRow, JobStates
      <4>2. JobsOK'
        BY <2>b, <3>1, <3>2, <3>4, <4>1, OneRowChanges
      <4>3. WorkersOK'
        BY <2>b, <3>1, <3>2, <3>4 DEF WorkerRow, WorkerSteps
      <4> QED
        BY <2>13, <2>b, <4>2, <4>3 DEF ClaimNext
    <3> QED
      BY <3>3, <3>4
  <2>14. ASSUME NEW w \in Workers, NothingReserved(w) \/ WorkerCrash(w)
         PROVE  JobsOK' /\ WorkersOK' /\ RestOK'
    BY <2>14, <2>b, WorkerFinishes DEF NothingReserved, WorkerCrash, JobsOK
  <2>15. ASSUME NEW w \in Workers, ReadWork(w) \/ ProviderAnswers(w) \/ CommitFails(w)
         PROVE  JobsOK' /\ WorkersOK' /\ RestOK'
    <3>1. worker[w].on # 0 /\ \E at \in WorkerSteps \ {"waking"} : Moves(w, at)
      BY <2>15, <2>b DEF ReadWork, ProviderAnswers, CommitFails, RunsAt, WorkerSteps
    <3>2. WorkersOK'
      BY <3>1, WorkerMoves
    <3> QED
      BY <2>15, <2>b, <3>2 DEF ReadWork, ProviderAnswers, CommitFails, JobsOK
  <2>16. ASSUME NEW w \in Workers, CommitSegment(w)
         PROVE  JobsOK' /\ WorkersOK' /\ RestOK'
    <3>1. worker[w].on # 0 /\ Current(w) \in Utterances
      BY <2>16, <2>b, <2>d DEF CommitSegment, RunsAt
    <3>2. WorkersOK'
      BY <2>16, <3>1, WorkerMoves, WorkerFinishes DEF CommitSegment, WorkerSteps
    <3>3. segment' \in [Utterances -> Nat]
      BY SegmentsStep
    <3> QED
      BY <2>16, <2>b, <3>2, <3>3 DEF CommitSegment, JobsOK
  <2>17. ASSUME NEW w \in Workers,
                CompleteSuccess(w) \/ CompleteNoSpeech(w) \/ RecordFailure(w)
         PROVE  JobsOK' /\ WorkersOK' /\ RestOK'
    <3> DEFINE u == Current(w)
    <3>1. u \in Utterances /\ job[u] \in JobRow
      BY <2>17, <2>d, <2>e DEF CompleteSuccess, CompleteNoSpeech, RecordFailure, RunsAt
    <3>2. \/ job' = job
          \/ \E s \in {"succeeded", "no_speech"} : job' = [job EXCEPT ![u] = Settled(job[u], s)]
          \/ \E canonical, retryable \in BOOLEAN :
               job' = [job EXCEPT ![u] = Failed(job[u], canonical, retryable)]
      BY <2>17 DEF CompleteSuccess, CompleteNoSpeech, RecordFailure, RunsAt, Canonical
    <3>3. JobsOK'
      BY <2>b, <3>1, <3>2, SettledOK, FailedOK, OneRowChanges DEF JobsOK, JobStates
    <3>4. WorkersOK'
      BY <2>17, WorkerFinishes DEF CompleteSuccess, CompleteNoSpeech, RecordFailure
    <3> QED
      BY <2>17, <2>b, <3>3, <3>4 DEF CompleteSuccess, CompleteNoSpeech, RecordFailure
  <2>18. ASSUME UNCHANGED vars
         PROVE  JobsOK' /\ WorkersOK' /\ RestOK'
    BY <2>18, <2>b DEF vars, JobsOK
  <2> QED
    BY <2>1, <2>2, <2>3, <2>4, <2>5, <2>6, <2>7, <2>8, <2>9, <2>10, <2>11, <2>12,
       <2>13, <2>14, <2>15, <2>16, <2>17, <2>18 DEF Next, Runs
<1> QED
  BY <1>1, <1>2, PTL DEF Spec

\* Types, and the shape of the rows of jobs and workers.
THEOREM TypeCorrect == Spec => []TypeOK
BY TypesAndNumbers, PTL

\* Transcript sequences are 1, 2, ... in each session, each used once: the
\* maximum that commit_transcript_segment reads under the session lock is that
\* of an interval.
THEOREM TranscriptIsGapless == Spec => []TranscriptGapless
<1>1. TypeOK /\ Numbered => TranscriptGapless
  <2> SUFFICES ASSUME TypeOK, Numbered, NEW u \in Utterances, Canonical(u)
               PROVE  /\ \A v \in Utterances :
                           SessionOf[v] = SessionOf[u] /\ segment[v] = segment[u] => v = u
                      /\ \A m \in 1..(segment[u] - 1) :
                           \E v \in Utterances : SessionOf[v] = SessionOf[u] /\ segment[v] = m
    BY DEF TranscriptGapless
  <2>1. PICK n \in Nat : Numbers(SessionOf[u]) = 0..n
    BY DEF Numbered
  <2>2. segment[u] \in 0..n
    BY <2>1 DEF Numbers
  <2>3. ASSUME NEW m \in 1..(segment[u] - 1)
        PROVE  \E v \in Utterances : SessionOf[v] = SessionOf[u] /\ segment[v] = m
    <3>1. m \in Numbers(SessionOf[u]) /\ m # 0
      BY <2>1, <2>2
    <3> QED
      BY <3>1 DEF Numbers
  <2> QED
    BY <2>3 DEF Numbered
<1> QED
  BY <1>1, TypesAndNumbers, PTL

-----------------------------------------------------------------------------
(* The job row and the transcript.                                         *)

\* How a step may change the row of an utterance.
RowStep(u) ==
  \/ job'[u].state = job[u].state
  \/ Canonical(u) /\ job'[u].state = "succeeded"
  \/ ~Canonical(u) /\ job'[u].state # "succeeded"

LEMMA JobsStep ==
  ASSUME TypeOK, OutcomeAgrees, [Next]_vars, NEW u \in Utterances
  PROVE  RowStep(u)
<1>a. job \in [Utterances -> JobRow]
  BY DEF TypeOK
<1>b. \A v \in Utterances : job[v] \in JobRow
  BY <1>a
<1>c. ASSUME NEW row \in JobRow, NEW s PROVE Settled(row, s).state = s
  BY DEF Settled, JobRow
<1>d. ASSUME NEW s PROVE Fresh(s).state = s
  BY DEF Fresh
<1>e. \A v \in Utterances : Canonical(v) => job[v].state \in {"claimed", "succeeded"}
  BY DEF OutcomeAgrees
<1>f. \A v \in Utterances : v # u /\ (\E row : job' = [job EXCEPT ![v] = row]) => RowStep(u)
  BY <1>a DEF RowStep
<1>g. \A row : job' = [job EXCEPT ![u] = row] => job'[u] = row
  BY <1>a
<1>1. ASSUME NEW v \in Utterances, CommitUtterance(v)
      PROVE  RowStep(u)
  BY <1>1, <1>d, <1>e, <1>f, <1>g DEF CommitUtterance, RowStep
<1>2. ASSUME NEW v \in Utterances, Replay(v)
      PROVE  RowStep(u)
  BY <1>2, <1>b, <1>c, <1>d, <1>f, <1>g DEF Replay, RowStep
<1>3. ASSUME NEW v \in Utterances, DueComes(v) \/ CooldownPasses(v)
      PROVE  RowStep(u)
  BY <1>3, <1>a DEF DueComes, CooldownPasses, RowStep, JobRow
<1>4. CASE EnsureMissingJobs
  BY <1>4, <1>d, <1>e DEF EnsureMissingJobs, RowStep
<1>6. CASE ConvergeCanonical
  BY <1>6, <1>b, <1>c, <1>d DEF ConvergeCanonical, Converged, RowStep
<1>7. CASE StampReservations
  BY <1>7, <1>b DEF StampReservations, RowStep, JobRow
<1>8. ASSUME NEW w \in Workers, ClaimNext(w)
      PROVE  RowStep(u)
  <2>1. PICK v \in Found(w) :
          \/ /\ Canonical(v)
             /\ job' = [job EXCEPT ![v] = Settled(job[v], "succeeded")]
          \/ /\ ~Canonical(v)
             /\ job' = [job EXCEPT ![v] = Settled(job[v], "failed")]
          \/ /\ ~Canonical(v)
             /\ job' = [job EXCEPT ![v] =
                          [state |-> "claimed", attempts |-> job[v].attempts + 1,
                           claim |-> w, due |-> FALSE, delivery |-> "none"]]
    BY <1>8 DEF ClaimNext
  <2>2. v \in Utterances
    BY DEF Found, OfClass
  <2> QED
    BY <2>1, <2>2, <1>b, <1>c, <1>f, <1>g DEF RowStep
<1>9. ASSUME NEW w \in Workers, CompleteSuccess(w) \/ CompleteNoSpeech(w) \/ RecordFailure(w)
      PROVE  RowStep(u)
  <2> DEFINE v == Current(w)
             Waiting(row) == [row EXCEPT !.state = "retry_wait", !.claim = NoWorker,
                                         !.due = FALSE, !.delivery = "none"]
  <2>1. v \in Utterances
    BY <1>9 DEF CompleteSuccess, CompleteNoSpeech, RecordFailure, RunsAt, Current,
       TypeOK, WorkerRow
  <2>2. \/ job' = job
        \/ /\ Canonical(v)
           /\ job' = [job EXCEPT ![v] = Settled(job[v], "succeeded")]
        \/ /\ ~Canonical(v)
           /\ job' = [job EXCEPT ![v] = Settled(job[v], "no_speech")]
        \/ /\ ~Canonical(v)
           /\ job' = [job EXCEPT ![v] = Settled(job[v], "failed")]
        \/ /\ ~Canonical(v)
           /\ job' = [job EXCEPT ![v] = Waiting(job[v])]
    BY <1>9 DEF CompleteSuccess, CompleteNoSpeech, RecordFailure, RunsAt, Failed
  <2>3. ASSUME NEW row \in JobRow PROVE Waiting(row).state = "retry_wait"
    BY DEF JobRow
  <2> HIDE DEF v, Waiting
  <2> QED
    BY <2>1, <2>2, <2>3, <1>b, <1>c, <1>f, <1>g DEF RowStep
<1>5. job' = job => RowStep(u)
  BY DEF RowStep
<1> QED
  BY <1>1, <1>2, <1>3, <1>4, <1>5, <1>6, <1>7, <1>8, <1>9
  DEF Next, Runs, vars, SelectCandidates, AbortPass,
     PublishWakes, PublishSomeWakes, LoseWake, RepeatWake, TakeWake,
     NothingReserved, ReadWork, ProviderAnswers, CommitSegment, CommitFails, WorkerCrash

\* A succeeded job has its segment, and a job with a segment is succeeded or
\* still claimed: no retry, failure or silence is recorded beside a segment.
THEOREM OutcomeAlwaysAgrees == Spec => []OutcomeAgrees
<1>1. Init => OutcomeAgrees
  BY DEF Init, OutcomeAgrees, Canonical, Fresh
<1>2. TypeOK /\ OutcomeAgrees /\ [Next]_vars => OutcomeAgrees'
  <2> SUFFICES ASSUME TypeOK, OutcomeAgrees, [Next]_vars, NEW u \in Utterances
               PROVE  /\ job'[u].state = "succeeded" => Canonical(u)'
                      /\ Canonical(u)' => job'[u].state \in {"claimed", "succeeded"}
    BY DEF OutcomeAgrees
  <2>1. CASE segment' = segment
    BY <2>1, JobsStep DEF RowStep, OutcomeAgrees, Canonical
  <2>2. ASSUME NEW w \in Workers, NEW v \in Utterances, Appends(w, v)
        PROVE  /\ job'[u].state = "succeeded" => Canonical(u)'
               /\ Canonical(u)' => job'[u].state \in {"claimed", "succeeded"}
    <3>1. u # v => segment'[u] = segment[u]
      BY <2>2 DEF Appends, TypeOK
    <3> QED
      BY <2>2, <3>1 DEF Appends, HoldsClaim, OutcomeAgrees, Canonical
  <2> QED
    BY <2>1, <2>2, OnlyCommitsAppend
<1> QED
  BY <1>1, <1>2, TypeCorrect, PTL DEF Spec

\* A run that has lost its claim changes neither the transcript nor, unless
\* the segment is there already, the job.
THEOREM StaleRunsAreHarmless == Spec => StaleRunsChangeNothing
<1> DEFINE Harmless ==
      \A w \in Workers :
        LET u == Current(w) IN
        /\ worker[w].at \in WorkerSteps \ {"waking"}
        /\ job[u].state # "claimed" \/ job[u].claim # w
        /\ worker'[w] # worker[w]
        => segment' = segment /\ (Canonical(u) \/ job' = job)
<1>1. TypeOK /\ [Next]_vars => Harmless
  <2> SUFFICES ASSUME TypeOK, [Next]_vars, NEW w \in Workers,
                      worker[w].at \in WorkerSteps \ {"waking"},
                      ~HoldsClaim(w, Current(w)), worker'[w] # worker[w]
               PROVE  segment' = segment /\ (Canonical(Current(w)) \/ job' = job)
    BY DEF HoldsClaim
  <2>1. \E v \in Workers : TakeWake(v) \/ ClaimNext(v) \/ Runs(v) \/ CommitFails(v) \/ WorkerCrash(v)
    BY DEF Next, vars, CommitUtterance, Replay, DueComes, CooldownPasses,
       EnsureMissingJobs, ConvergeCanonical, SelectCandidates, StampReservations,
       AbortPass, PublishWakes, PublishSomeWakes, LoseWake, RepeatWake
  <2>2. PICK v \in Workers :
          TakeWake(v) \/ ClaimNext(v) \/ Runs(v) \/ CommitFails(v) \/ WorkerCrash(v)
    BY <2>1
  <2>3. v = w
    BY <2>2 DEF TakeWake, ClaimNext, Runs, CommitFails, WorkerCrash, NothingReserved,
       ReadWork, ProviderAnswers, CommitSegment, CompleteSuccess, CompleteNoSpeech,
       RecordFailure, Moves, Finishes, TypeOK
  <2> QED
    BY <2>2, <2>3 DEF TakeWake, ClaimNext, Runs, CommitFails, WorkerCrash,
       NothingReserved, ReadWork, ProviderAnswers, CommitSegment, CompleteSuccess,
       CompleteNoSpeech, RecordFailure, RunsAt, Idle, WorkerSteps
<1>2. Harmless /\ [Next]_vars => [Harmless]_vars
  OBVIOUS
<1>3. Spec => [][Harmless]_vars
  BY <1>1, TypeCorrect, PTL DEF Spec
<1> QED
  BY <1>3 DEF StaleRunsChangeNothing

-----------------------------------------------------------------------------
(* The scheduler implements Transcription.                                 *)

OpenStates == {"missing", "pending", "claimed", "retry_wait"}

\* How the state of one job may change without a segment being written.
StateStep(u) ==
  \/ job'[u].state = job[u].state
  \/ Canonical(u)
  \/ job[u].state \in OpenStates \cup {"absent"} /\ job'[u].state = "pending"
  \/ job[u].state \in OpenStates /\ job'[u].state = "claimed"
  \/ job[u].state = "claimed" /\ job'[u].state = "retry_wait"
  \/ job[u].state \in OpenStates /\ job'[u].state \in {"no_speech", "failed"}
  \/ job[u].state \in {"no_speech", "failed"} /\ job'[u].state = "pending"

\* A step changes the state of one job, or of jobs that stay open or have a
\* segment.
OneJobStep ==
  \/ \A u \in Utterances : \/ job'[u].state = job[u].state
                           \/ Canonical(u)
                           \/ {job[u].state, job'[u].state} \subseteq OpenStates
  \/ \E v \in Utterances : /\ StateStep(v)
                           /\ \A u \in Utterances \ {v} : job'[u] = job[u]

LEMMA StatesStep ==
  ASSUME TypeOK, OutcomeAgrees, [Next]_vars
  PROVE  OneJobStep
<1>a. job \in [Utterances -> JobRow]
  BY DEF TypeOK
<1>b. \A v \in Utterances : job[v] \in JobRow /\ job[v].state \in JobStates
  BY <1>a DEF JobRow
<1>c. ASSUME NEW row \in JobRow, NEW s PROVE Settled(row, s).state = s
  BY DEF Settled, JobRow
<1>d. ASSUME NEW s PROVE Fresh(s).state = s
  BY DEF Fresh
<1>e. ASSUME NEW v \in Utterances, NEW row, job' = [job EXCEPT ![v] = row],
             \/ Canonical(v)
             \/ job[v].state \in OpenStates \cup {"absent"} /\ row.state = "pending"
             \/ job[v].state \in OpenStates /\ row.state = "claimed"
             \/ job[v].state = "claimed" /\ row.state = "retry_wait"
             \/ job[v].state \in OpenStates /\ row.state \in {"no_speech", "failed"}
             \/ job[v].state \in {"no_speech", "failed"} /\ row.state = "pending"
      PROVE  OneJobStep
  <2>1. job'[v] = row /\ \A u \in Utterances \ {v} : job'[u] = job[u]
    BY <1>a, <1>e
  <2> QED
    BY <1>e, <2>1 DEF StateStep, OneJobStep
<1>5. job' = job => OneJobStep
  BY DEF OneJobStep
<1>1. ASSUME NEW v \in Utterances, CommitUtterance(v)
      PROVE  OneJobStep
  BY <1>1, <1>d, <1>e DEF CommitUtterance, OpenStates
<1>2. ASSUME NEW v \in Utterances, Replay(v)
      PROVE  OneJobStep
  <2> DEFINE row == IF Canonical(v) THEN Settled(job[v], "succeeded") ELSE Fresh("pending")
  <2>1. job' = [job EXCEPT ![v] = row]
    BY <1>2 DEF Replay
  <2>2. Canonical(v) \/ row.state = "pending"
    BY <1>d
  <2>3. Canonical(v) \/ job[v].state \in OpenStates \cup {"no_speech", "failed"}
    BY <1>2, <1>b DEF Replay, JobStates, OpenStates, OutcomeAgrees
  <2> HIDE DEF row
  <2> QED
    BY <2>1, <2>2, <2>3, <1>e
<1>3. ASSUME NEW v \in Utterances, DueComes(v) \/ CooldownPasses(v)
      PROVE  OneJobStep
  <2>1. \A u \in Utterances : job'[u].state = job[u].state
    BY <1>3, <1>a DEF DueComes, CooldownPasses, JobRow
  <2> QED
    BY <2>1 DEF OneJobStep
<1>4. CASE EnsureMissingJobs
  BY <1>4, <1>d DEF EnsureMissingJobs, OpenStates, OneJobStep
<1>6. CASE ConvergeCanonical
  BY <1>6 DEF ConvergeCanonical, Converged, OutcomeAgrees, OneJobStep
<1>7. CASE StampReservations
  <2>1. \A u \in Utterances : job'[u].state = job[u].state
    BY <1>7, <1>b DEF StampReservations, JobRow
  <2> QED
    BY <2>1 DEF OneJobStep
<1>8. ASSUME NEW w \in Workers, ClaimNext(w)
      PROVE  OneJobStep
  <2>1. PICK v \in Found(w) :
          \/ /\ Canonical(v)
             /\ job' = [job EXCEPT ![v] = Settled(job[v], "succeeded")]
          \/ job' = [job EXCEPT ![v] = Settled(job[v], "failed")]
          \/ job' = [job EXCEPT ![v] =
                          [state |-> "claimed", attempts |-> job[v].attempts + 1,
                           claim |-> w, due |-> FALSE, delivery |-> "none"]]
    BY <1>8 DEF ClaimNext
  <2>2. v \in Utterances /\ job[v].state \in OpenStates
    BY DEF Found, OfClass, Deliverable, OpenStates
  <2> QED
    BY <2>1, <2>2, <1>b, <1>c, <1>e
<1>9. ASSUME NEW w \in Workers, CompleteSuccess(w) \/ CompleteNoSpeech(w) \/ RecordFailure(w)
      PROVE  OneJobStep
  <2> DEFINE v == Current(w)
             Waiting(row) == [row EXCEPT !.state = "retry_wait", !.claim = NoWorker,
                                         !.due = FALSE, !.delivery = "none"]
  <2>1. v \in Utterances
    BY <1>9 DEF CompleteSuccess, CompleteNoSpeech, RecordFailure, RunsAt, Current,
       TypeOK, WorkerRow
  <2>2. \/ job' = job
        \/ /\ Canonical(v)
           /\ job' = [job EXCEPT ![v] = Settled(job[v], "succeeded")]
        \/ /\ job[v].state = "claimed"
           /\ \/ job' = [job EXCEPT ![v] = Settled(job[v], "no_speech")]
              \/ job' = [job EXCEPT ![v] = Settled(job[v], "failed")]
              \/ job' = [job EXCEPT ![v] = Waiting(job[v])]
    BY <1>9 DEF CompleteSuccess, CompleteNoSpeech, RecordFailure, RunsAt, Failed, HoldsClaim
  <2>3. ASSUME NEW row \in JobRow PROVE Waiting(row).state = "retry_wait"
    BY DEF JobRow
  <2>4. "claimed" \in OpenStates
    BY DEF OpenStates
  <2> HIDE DEF v, Waiting
  <2> QED
    BY <2>1, <2>2, <2>3, <2>4, <1>5, <1>b, <1>c, <1>e
<1> QED
  BY <1>1, <1>2, <1>3, <1>4, <1>5, <1>6, <1>7, <1>8, <1>9
  DEF Next, Runs, vars, SelectCandidates, AbortPass, PublishWakes, PublishSomeWakes,
     LoseWake, RepeatWake, TakeWake, NothingReserved, ReadWork, ProviderAnswers,
     CommitSegment, CommitFails, WorkerCrash

\* Each utterance is settled once, its text is one row of an append-only
\* transcript numbered without holes and is never revised, and only a replay
\* reopens what was settled without text.
THEOREM SchedulerKeepsPromise == Spec => KeepsPromise
<1>1. Init => Promise!Init
  BY DEF Init, Promise!Init, outcome, Outcome, Canonical, Fresh
<1>2. /\ TypeOK /\ Numbered /\ OutcomeAgrees
      /\ TypeOK' /\ OutcomeAgrees'
      /\ [Next]_vars
      => [Promise!Next]_<<outcome, segment>>
  <2> SUFFICES ASSUME TypeOK, Numbered, OutcomeAgrees, TypeOK', OutcomeAgrees', [Next]_vars
               PROVE  Promise!Next \/ UNCHANGED <<outcome, segment>>
    OBVIOUS
  <2>1. ASSUME NEW w \in Workers, NEW v \in Utterances, Appends(w, v)
        PROVE  Promise!Transcribe(v)
    <3>4. PICK n \in Nat : Numbers(SessionOf[v]) = 0..n
      BY DEF Numbered
    <3>5. NextSequence(SessionOf[v]) = n + 1
      BY <3>4, MaxOfInterval DEF NextSequence
    <3>6. segment' = [segment EXCEPT ![v] = n + 1] /\ segment'[v] = n + 1
      BY <2>1, <3>5 DEF Appends, TypeOK
    <3>7. \A u \in Utterances : SessionOf[u] = SessionOf[v] => segment[u] < n + 1
      BY <3>4 DEF Numbers, TypeOK
    <3>8. ASSUME NEW m \in 1..n
          PROVE  \E u \in Utterances : SessionOf[u] = SessionOf[v] /\ segment[u] = m
      <4>1. m \in Numbers(SessionOf[v]) /\ m # 0
        BY <3>4
      <4> QED
        BY <4>1 DEF Numbers
    <3>9. Promise!IsNext(segment'[v], SessionOf[v])
      BY <3>6, <3>7, <3>8 DEF Promise!IsNext
    <3>1. Outcome(v) = "open" /\ Outcome(v)' = "text"
      BY <2>1, <3>6 DEF Appends, Outcome, HoldsClaim, Canonical
    <3>2. ASSUME NEW u \in Utterances \ {v} PROVE Outcome(u)' = Outcome(u)
      BY <2>1, <3>6 DEF Appends, Outcome, Canonical, TypeOK
    <3>3. outcome' = [outcome EXCEPT ![v] = "text"]
      BY <3>1, <3>2 DEF outcome
    <3>11. outcome[v] = Outcome(v)
      BY DEF outcome
    <3>10. segment' = [segment EXCEPT ![v] = segment'[v]]
      BY <3>6
    <3> QED
      BY <3>1, <3>3, <3>9, <3>10, <3>11 DEF Promise!Transcribe
  <2>2. ASSUME segment' = segment
        PROVE  Promise!Next \/ UNCHANGED <<outcome, segment>>
    <3>1. \A u \in Utterances : Canonical(u)' <=> Canonical(u)
      BY <2>2 DEF Canonical
    <3>2. \A u \in Utterances : Canonical(u) => Outcome(u)' = Outcome(u)
      BY <3>1 DEF Outcome
    <3>3. ASSUME NEW u \in Utterances, job'[u].state = job[u].state
          PROVE  Outcome(u)' = Outcome(u)
      BY <3>1, <3>3 DEF Outcome
    <3>4. ASSUME NEW u \in Utterances, {job[u].state, job'[u].state} \subseteq OpenStates
          PROVE  Outcome(u)' = Outcome(u)
      BY <3>1, <3>2, <3>4 DEF Outcome, OpenStates
    <3>5. ASSUME NEW v \in Utterances, StateStep(v),
                 \A u \in Utterances \ {v} : job'[u] = job[u]
          PROVE  Promise!Next \/ UNCHANGED <<outcome, segment>>
      <4>1. \A u \in Utterances \ {v} : Outcome(u)' = Outcome(u)
        BY <3>3, <3>5
      <4>2. outcome' = [outcome EXCEPT ![v] = Outcome(v)']
        BY <4>1 DEF outcome
      <4>3. \/ Outcome(v)' = Outcome(v)
            \/ Outcome(v) = "unknown" /\ Outcome(v)' = "open"
            \/ Outcome(v) = "open" /\ Outcome(v)' \in {"silence", "failure"}
            \/ Outcome(v) \in {"silence", "failure"} /\ Outcome(v)' = "open"
        BY <3>1, <3>2, <3>5 DEF StateStep, Outcome, OpenStates
      <4>6. outcome[v] = Outcome(v)
        BY DEF outcome
      <4>4. CASE Outcome(v)' = Outcome(v)
        BY <4>1, <4>4, <2>2 DEF outcome
      <4>5. CASE Outcome(v)' # Outcome(v)
        <5>1. Promise!Accept(v) \/ Promise!SettleWithoutText(v) \/ Promise!Replay(v)
          BY <4>2, <4>3, <4>5, <4>6, <2>2
          DEF Promise!Accept, Promise!SettleWithoutText, Promise!Replay, Promise!Settled
        <5> QED
          BY <5>1 DEF Promise!Next
      <4> QED
        BY <4>4, <4>5
    <3>6. ASSUME \A u \in Utterances : \/ job'[u].state = job[u].state
                                        \/ Canonical(u)
                                        \/ {job[u].state, job'[u].state} \subseteq OpenStates
          PROVE  UNCHANGED <<outcome, segment>>
      BY <3>2, <3>3, <3>4, <3>6, <2>2 DEF outcome
    <3> QED
      BY <3>5, <3>6, StatesStep DEF OneJobStep
  <2> QED
    BY <2>1, <2>2, OnlyCommitsAppend DEF Promise!Next
<1> QED
  BY <1>1, <1>2, TypesAndNumbers, OutcomeAlwaysAgrees, PTL
  DEF Spec, KeepsPromise, Promise!Spec
=============================================================================
