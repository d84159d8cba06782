------------------------ MODULE MediaProcessingProofs ------------------------
(***************************************************************************)
(* Proofs about MediaProcessing for every set of uploads and workers, every  *)
(* attempt budget and whatever ffmpeg makes of a source.                     *)
(***************************************************************************)
EXTENDS MediaProcessing, FiniteSetTheorems, TLAPS

-----------------------------------------------------------------------------
(* Steps of an attempt.                                                    *)

\* A worker that is at a step of an attempt has a task.
LEMMA AtWork ==
  ASSUME TypeOK, NEW w \in Workers, worker[w].at # "idle"
  PROVE  worker[w] \in Task /\ worker[w].on \in Uploads
BY DEF TypeOK, Idle, Task

\* The task of worker w becomes t and no other worker moves.
Becomes(w, t) ==
  /\ worker'[w] = t
  /\ \A v \in Workers \ {w} : worker'[v] = worker[v]

LEMMA BecomesTyped ==
  ASSUME TypeOK, NEW w \in Workers, NEW t \in Task \cup {Idle},
         worker' = [worker EXCEPT ![w] = t]
  PROVE  Becomes(w, t) /\ worker' \in [Workers -> Task \cup {Idle}]
BY DEF TypeOK, Becomes

\* The attempt of w as it is, at another step.
At(w, stage, tx) ==
  /\ worker'[w] \in Task
  /\ worker'[w].at = stage
  /\ worker'[w].tx = tx
  /\ worker'[w].on = worker[w].on
  /\ worker'[w].try = worker[w].try

SameContent(w) == worker'[w].content = worker[w].content
SameOrdinal(w) == worker'[w].ordinal = worker[w].ordinal
OthersStay(w) == /\ worker' \in [Workers -> Task \cup {Idle}]
                 /\ \A v \in Workers \ {w} : worker'[v] = worker[v]

LEMMA GoToStep ==
  ASSUME TypeOK, NEW w \in Workers, worker[w] \in Task,
         NEW stage \in Working \cup Failures, GoTo(w, stage)
  PROVE  At(w, stage, worker[w].tx) /\ SameContent(w) /\ SameOrdinal(w) /\ OthersStay(w)
<1> DEFINE t == [worker[w] EXCEPT !.at = stage]
<1>1. t \in Task
  BY DEF Task
<1>2. worker' = [worker EXCEPT ![w] = t]
  BY DEF GoTo
<1>3. worker'[w] = t /\ OthersStay(w)
  BY <1>1, <1>2, BecomesTyped DEF Becomes, OthersStay
<1>4. t.at = stage /\ t.tx = worker[w].tx /\ t.on = worker[w].on /\ t.try = worker[w].try
      /\ t.content = worker[w].content /\ t.ordinal = worker[w].ordinal
  BY DEF Task
<1> QED
  BY <1>1, <1>3, <1>4 DEF At, SameContent, SameOrdinal

LEMMA BreaksStep ==
  ASSUME TypeOK, NEW w \in Workers, worker[w] \in Task,
         NEW failure \in Failures, Breaks(w, failure)
  PROVE  At(w, failure, FALSE) /\ SameContent(w) /\ SameOrdinal(w) /\ OthersStay(w)
<1> DEFINE t == [worker[w] EXCEPT !.at = failure, !.tx = FALSE]
<1>1. t \in Task
  BY DEF Task
<1>2. worker' = [worker EXCEPT ![w] = t]
  BY DEF Breaks, TypeOK
<1>3. worker'[w] = t /\ OthersStay(w)
  BY <1>1, <1>2, BecomesTyped DEF Becomes, OthersStay
<1>4. t.at = failure /\ t.tx = FALSE /\ t.on = worker[w].on /\ t.try = worker[w].try
      /\ t.content = worker[w].content /\ t.ordinal = worker[w].ordinal
  BY DEF Task
<1> QED
  BY <1>1, <1>3, <1>4 DEF At, SameContent, SameOrdinal

LEMMA IdleStep ==
  ASSUME TypeOK, NEW w \in Workers, worker' = [worker EXCEPT ![w] = Idle]
  PROVE  worker'[w] = Idle /\ OthersStay(w)
BY DEF TypeOK, OthersStay

LEMMA ContentStep ==
  ASSUME TypeOK, NEW w \in Workers, worker[w] \in Task, NEW stage \in Working,
         NEW c \in Contents \cup {NoContent},
         \/ worker' = [worker EXCEPT ![w].at = stage, ![w].content = c]
         \/ worker' = [worker EXCEPT ![w].content = c, ![w].at = stage]
  PROVE  /\ At(w, stage, worker[w].tx) /\ SameOrdinal(w) /\ OthersStay(w)
         /\ worker'[w].content = c
<1> DEFINE t == [worker[w] EXCEPT !.at = stage, !.content = c]
<1>1. t \in Task
  BY DEF Task
<1>1a. t = [worker[w] EXCEPT !.content = c, !.at = stage]
  BY DEF Task
<1>2. worker' = [worker EXCEPT ![w] = t]
  BY <1>1a DEF TypeOK
<1>3. worker'[w] = t /\ OthersStay(w)
  BY <1>1, <1>2, BecomesTyped DEF Becomes, OthersStay
<1>4. t.at = stage /\ t.tx = worker[w].tx /\ t.on = worker[w].on /\ t.try = worker[w].try
      /\ t.content = c /\ t.ordinal = worker[w].ordinal
  BY DEF Task
<1> QED
  BY <1>1, <1>3, <1>4 DEF At, SameOrdinal

LEMMA LockStep ==
  ASSUME TypeOK, NEW w \in Workers, worker[w] \in Task, NEW stage \in Working,
         NEW tx \in BOOLEAN, worker' = [worker EXCEPT ![w].at = stage, ![w].tx = tx]
  PROVE  At(w, stage, tx) /\ SameContent(w) /\ SameOrdinal(w) /\ OthersStay(w)
<1> DEFINE t == [worker[w] EXCEPT !.at = stage, !.tx = tx]
<1>1. t \in Task
  BY DEF Task
<1>2. worker' = [worker EXCEPT ![w] = t]
  BY DEF TypeOK
<1>3. worker'[w] = t /\ OthersStay(w)
  BY <1>1, <1>2, BecomesTyped DEF Becomes, OthersStay
<1>4. t.at = stage /\ t.tx = tx /\ t.on = worker[w].on /\ t.try = worker[w].try
      /\ t.content = worker[w].content /\ t.ordinal = worker[w].ordinal
  BY DEF Task
<1> QED
  BY <1>1, <1>3, <1>4 DEF At, SameContent, SameOrdinal

LEMMA LoseStep ==
  ASSUME TypeOK, NEW w \in Workers, worker[w] \in Task,
         worker' = [worker EXCEPT ![w].tx = FALSE]
  PROVE  At(w, worker[w].at, FALSE) /\ SameContent(w) /\ SameOrdinal(w) /\ OthersStay(w)
<1> DEFINE t == [worker[w] EXCEPT !.tx = FALSE]
<1>1. t \in Task
  BY DEF Task
<1>2. worker' = [worker EXCEPT ![w] = t]
  BY DEF TypeOK
<1>3. worker'[w] = t /\ OthersStay(w)
  BY <1>1, <1>2, BecomesTyped DEF Becomes, OthersStay
<1>4. t.at = worker[w].at /\ t.tx = FALSE /\ t.on = worker[w].on /\ t.try = worker[w].try
      /\ t.content = worker[w].content /\ t.ordinal = worker[w].ordinal
  BY DEF Task
<1> QED
  BY <1>1, <1>3, <1>4 DEF At, SameContent, SameOrdinal

LEMMA LinkStep ==
  ASSUME TypeOK, NEW w \in Workers, worker[w] \in Task, LinkObject(w)
  PROVE  At(w, "linked", worker[w].tx) /\ SameContent(w) /\ SameOrdinal(w) /\ OthersStay(w)
<1> DEFINE made == worker[w].content \notin objects[worker[w].on]
           t == [worker[w] EXCEPT !.at = "linked", !.made = made]
<1>1. t \in Task
  BY DEF Task, Working, Publishing
<1>2. worker' = [worker EXCEPT ![w] = t]
  BY DEF LinkObject, TypeOK
<1> HIDE DEF made
<1>3. worker'[w] = t /\ OthersStay(w)
  BY <1>1, <1>2, BecomesTyped DEF Becomes, OthersStay
<1>4. t.at = "linked" /\ t.tx = worker[w].tx /\ t.on = worker[w].on /\ t.try = worker[w].try
      /\ t.content = worker[w].content /\ t.ordinal = worker[w].ordinal
  BY DEF Task
<1> QED
  BY <1>1, <1>3, <1>4 DEF At, SameContent, SameOrdinal

LEMMA CandidateStep ==
  ASSUME TypeOK, NEW w \in Workers, worker[w] \in Task, NEW n \in Nat \ {0},
         worker' = [worker EXCEPT ![w].at = "segmenting", ![w].ordinal = n]
  PROVE  /\ At(w, "segmenting", worker[w].tx) /\ SameContent(w) /\ OthersStay(w)
         /\ worker'[w].ordinal = n
<1> DEFINE t == [worker[w] EXCEPT !.at = "segmenting", !.ordinal = n]
<1>1. t \in Task
  BY DEF Task, Working
<1>2. worker' = [worker EXCEPT ![w] = t]
  BY DEF TypeOK
<1>3. worker'[w] = t /\ OthersStay(w)
  BY <1>1, <1>2, BecomesTyped DEF Becomes, OthersStay
<1>4. t.at = "segmenting" /\ t.tx = worker[w].tx /\ t.on = worker[w].on
      /\ t.try = worker[w].try
      /\ t.content = worker[w].content /\ t.ordinal = n
  BY DEF Task
<1> QED
  BY <1>1, <1>3, <1>4 DEF At, SameContent

LEMMA FreshTask ==
  ASSUME NEW u \in Uploads, NEW n \in 1..MaxAttempts
  PROVE  LET t == [Idle EXCEPT !.at = "claimed", !.on = u, !.try = n]
         IN t \in Task /\ t.at = "claimed" /\ t.tx = FALSE /\ t.ordinal = 1
<1>1. n \in 1..MaxAttempts /\ 1 \in Nat \ {0}
  OBVIOUS
<1> QED
  BY <1>1 DEF Idle, Task, Working

LEMMA ClaimStep ==
  ASSUME TypeOK, NEW w \in Workers, NEW u \in Uploads, Claim(w, u)
  PROVE  /\ worker'[w] \in Task /\ OthersStay(w)
         /\ worker'[w].at = "claimed" /\ ~worker'[w].tx /\ worker'[w].ordinal = 1
         /\ row[u].tries < MaxAttempts
<1> DEFINE n == row[u].tries + 1
           t == [Idle EXCEPT !.at = "claimed", !.on = u, !.try = n]
<1>1. row[u].tries \in 0..MaxAttempts /\ row[u].tries < MaxAttempts
  BY MediaAssumption DEF Claim, Spent, TypeOK, Row
<1>2. n \in 1..MaxAttempts
  BY <1>1, MediaAssumption
<1>3. worker' = [worker EXCEPT ![w] = t]
  BY DEF Claim
<1> HIDE DEF n
<1>4. t \in Task /\ t.at = "claimed" /\ t.tx = FALSE /\ t.ordinal = 1
  BY <1>2, FreshTask
<1> HIDE DEF t
<1>5. worker'[w] = t /\ OthersStay(w)
  BY <1>3, <1>4, BecomesTyped DEF Becomes, OthersStay
<1> QED
  BY <1>1, <1>4, <1>5

-----------------------------------------------------------------------------
(* Types.                                                                  *)

\* What a row may become.
LEMMA RowMoves ==
  ASSUME NEW r \in Row
  PROVE  /\ \A e \in Errors : Failed(r, e) \in Row
         /\ r.tries < MaxAttempts =>
              [r EXCEPT !.state = "claimed", !.tries = @ + 1,
                        !.ripe = FALSE, !.error = "none"] \in Row
         /\ \A c \in Contents \cup {NoContent} :
              [r EXCEPT !.media = c] \in Row /\ [r EXCEPT !.media = c, !.ripe = FALSE] \in Row
         /\ \A n \in Nat, s \in RowStates :
              [r EXCEPT !.expected = n, !.ripe = FALSE, !.error = "none", !.state = s] \in Row
         /\ [r EXCEPT !.state = "retry_wait", !.ripe = FALSE, !.error = "other"] \in Row
         /\ \A s \in RowStates : [r EXCEPT !.state = s] \in Row
         /\ [r EXCEPT !.ripe = TRUE] \in Row
<1>1. \A e \in Errors : Failed(r, e) \in Row
  BY DEF Failed, Row, RowStates, Errors
<1>2. r.tries < MaxAttempts =>
        [r EXCEPT !.state = "claimed", !.tries = @ + 1, !.ripe = FALSE, !.error = "none"] \in Row
  <2> SUFFICES ASSUME r.tries < MaxAttempts
               PROVE  [r EXCEPT !.state = "claimed", !.tries = @ + 1,
                                !.ripe = FALSE, !.error = "none"] \in Row
    OBVIOUS
  <2>1. r.tries + 1 \in 0..MaxAttempts
    BY MediaAssumption DEF Row
  <2> QED
    BY <2>1 DEF Row, RowStates, Errors
<1>3. \A c \in Contents \cup {NoContent} :
        [r EXCEPT !.media = c] \in Row /\ [r EXCEPT !.media = c, !.ripe = FALSE] \in Row
  BY DEF Row
<1>4. \A n \in Nat, s \in RowStates :
        [r EXCEPT !.expected = n, !.ripe = FALSE, !.error = "none", !.state = s] \in Row
  BY DEF Row, Errors
<1>5. [r EXCEPT !.state = "retry_wait", !.ripe = FALSE, !.error = "other"] \in Row
  BY DEF Row, RowStates, Errors
<1>6. \A s \in RowStates : [r EXCEPT !.state = s] \in Row
  BY DEF Row
<1>7. [r EXCEPT !.ripe = TRUE] \in Row
  BY DEF Row
<1> QED
  BY <1>1, <1>2, <1>3, <1>4, <1>5, <1>6, <1>7

LEMMA ScanTyped ==
  ASSUME TypeOK, NEW claimed, Scan(claimed),
         claimed \in Uploads => row[claimed].tries < MaxAttempts
  PROVE  row' \in [Uploads -> Row]
<1> SUFFICES ASSUME NEW u \in Uploads PROVE row'[u] \in Row
  BY DEF Scan
<1>1. row[u] \in Row
  BY DEF TypeOK
<1>2. CASE u = claimed
  BY <1>1, <1>2, RowMoves DEF Scan
<1>3. CASE u # claimed
  BY <1>1, <1>3, RowMoves DEF Scan, Errors
<1> QED
  BY <1>2, <1>3

\* The worker's part of the type of the next state.
LEMMA WorkersTyped ==
  ASSUME TypeOK, NEW w \in Workers, WorkerStep(w)
  PROVE  worker' \in [Workers -> Task \cup {Idle}]
<1> DEFINE Typed == worker' \in [Workers -> Task \cup {Idle}]
<1>w. worker[w].at # "idle" => worker[w] \in Task
  BY AtWork
<1>1. CASE TakeWake(w)
  BY <1>1, ClaimStep DEF TakeWake, OthersStay, TypeOK
<1>2. CASE CheckSource(w)
  BY <1>2, <1>w, GoToStep DEF CheckSource, OthersStay, Working
<1>3. CASE LoadNormalized(w)
  <2>1. worker[w] \in Task /\ worker[w].on \in Uploads
    BY <1>3, AtWork DEF LoadNormalized
  <2> DEFINE u == worker[w].on
             known == IF row[u].media # NoContent THEN row[u].media ELSE manifest[u]
  <2>2. known \in Contents \cup {NoContent}
    BY <2>1 DEF TypeOK, Row
  <2>3. \/ GoTo(w, "normalizing") \/ Breaks(w, "drift")
        \/ \E s \in {"orphan", "segmenting"} :
             worker' = [worker EXCEPT ![w].content = known, ![w].at = s]
    BY <1>3 DEF LoadNormalized
  <2> HIDE DEF known
  <2> QED
    BY <2>1, <2>2, <2>3, GoToStep, BreaksStep, ContentStep DEF OthersStay, Working, Failures
<1>4. CASE ProjectOrphan(w)
  BY <1>4, <1>w, GoToStep, BreaksStep DEF ProjectOrphan, OthersStay, Working, Failures
<1>5. CASE Normalize(w)
  BY <1>5, <1>w, ContentStep DEF Normalize, OthersStay, Working
<1>6. CASE BeginPublication(w)
  BY <1>6, <1>w, LockStep DEF BeginPublication, OthersStay, Working, Publishing
<1>7. CASE LinkObject(w)
  BY <1>7, <1>w, LinkStep DEF LinkObject, OthersStay
<1>8. CASE CheckObject(w) \/ LinkManifest(w)
  BY <1>8, <1>w, GoToStep, BreaksStep
  DEF CheckObject, LinkManifest, OthersStay, Working, Publishing, Failures
<1>9. CASE FinishInstall(w)
  <2>1. worker[w] \in Task /\ worker[w].on \in Uploads
    BY <1>9, AtWork DEF FinishInstall
  <2>2. manifest[worker[w].on] \in Contents \cup {NoContent}
    BY <2>1 DEF TypeOK
  <2> QED
    BY <1>9, <2>1, <2>2, ContentStep DEF FinishInstall, OthersStay, Working, Publishing
<1>10. CASE CommitPublication(w)
  BY <1>10, <1>w, LockStep, BreaksStep DEF CommitPublication, OthersStay, Working, Failures
<1>11. CASE VerifyCommitted(w)
  BY <1>11, <1>w, GoToStep, BreaksStep DEF VerifyCommitted, OthersStay, Working, Failures
<1>12. CASE NextCandidate(w)
  BY <1>12, <1>w, GoToStep DEF NextCandidate, OthersStay, Working
<1>13. CASE CommitCandidate(w)
  <2>0. worker[w] \in Task
    BY <1>13, <1>w DEF CommitCandidate
  <2>1. worker[w].ordinal \in Nat \ {0} /\ worker[w].ordinal + 1 \in Nat \ {0}
    BY <2>0 DEF Task
  <2> QED
    BY <1>13, <2>0, <2>1, CandidateStep, BreaksStep DEF CommitCandidate, OthersStay, Failures
<1>14. CASE CountUtterances(w)
  BY <1>14, <1>w, GoToStep, BreaksStep DEF CountUtterances, OthersStay, Working, Failures
<1>15. CASE PublishResult(w)
  BY <1>15, <1>w, IdleStep, BreaksStep DEF PublishResult, OthersStay, Failures
<1>16. CASE Stale(w) \/ RecordError(w) \/ Crash(w)
  BY <1>16, IdleStep DEF Stale, RecordError, Crash, OthersStay
<1>17. CASE Fail(w)
  <2>1. worker[w] \in Task
    BY <1>17, AtWork DEF Fail, Working, Publishing
  <2> QED
    BY <1>17, <2>1, BreaksStep DEF Fail, OthersStay, Failures
<1>18. CASE LoseConnection(w)
  <2>1. worker[w] \in Task
    BY <1>18 DEF LoseConnection, TypeOK, Idle
  <2> QED
    BY <1>18, <2>1, LoseStep DEF LoseConnection, OthersStay
<1> QED
  BY <1>1, <1>2, <1>3, <1>4, <1>5, <1>6, <1>7, <1>8, <1>9, <1>10, <1>11, <1>12, <1>13,
     <1>14, <1>15, <1>16, <1>17, <1>18 DEF WorkerStep, AttemptStep

\* Only row u changes, and into r.
OnlyRow(u, r) == /\ row' \in [Uploads -> Row]
                 /\ row'[u] = r
                 /\ \A v \in Uploads \ {u} : row'[v] = row[v]

LEMMA RowStep ==
  ASSUME TypeOK, NEW u \in Uploads, NEW r \in Row, row' = [row EXCEPT ![u] = r]
  PROVE  OnlyRow(u, r)
BY DEF TypeOK, OnlyRow

LEMMA MediaStep ==
  ASSUME TypeOK, NEW u \in Uploads, NEW c \in Contents \cup {NoContent},
         \/ row' = [row EXCEPT ![u].media = c]
         \/ row' = [row EXCEPT ![u].media = c, ![u].ripe = FALSE]
  PROVE  \E ripe \in BOOLEAN : OnlyRow(u, [row[u] EXCEPT !.media = c, !.ripe = ripe])
<1>1. row[u] \in Row
  BY DEF TypeOK
<1>2. CASE row' = [row EXCEPT ![u].media = c]
  <2>1. row[u].ripe \in BOOLEAN
    BY <1>1 DEF Row
  <2>2. [row[u] EXCEPT !.media = c] = [row[u] EXCEPT !.media = c, !.ripe = row[u].ripe]
    BY <1>1 DEF Row
  <2>3. [row[u] EXCEPT !.media = c] \in Row
    BY <1>1, RowMoves
  <2>4. OnlyRow(u, [row[u] EXCEPT !.media = c])
    BY <1>2, <2>3, RowStep
  <2> QED
    BY <2>1, <2>2, <2>4
<1>3. CASE row' = [row EXCEPT ![u].media = c, ![u].ripe = FALSE]
  <2>1. row' = [row EXCEPT ![u] = [row[u] EXCEPT !.media = c, !.ripe = FALSE]]
    BY <1>3 DEF TypeOK
  <2>2. [row[u] EXCEPT !.media = c, !.ripe = FALSE] \in Row
    BY <1>1, RowMoves
  <2> QED
    BY <2>1, <2>2, RowStep
<1> QED
  BY <1>2, <1>3

LEMMA ResultStep ==
  ASSUME TypeOK, NEW u \in Uploads, NEW n \in Nat, NEW s \in RowStates,
         row' = [row EXCEPT ![u].expected = n, ![u].ripe = FALSE,
                            ![u].error = "none", ![u].state = s]
  PROVE  OnlyRow(u, [row[u] EXCEPT !.expected = n, !.ripe = FALSE,
                                   !.error = "none", !.state = s])
<1> DEFINE r == [row[u] EXCEPT !.expected = n, !.ripe = FALSE, !.error = "none", !.state = s]
<1>1. r \in Row
  BY RowMoves DEF TypeOK
<1>2. row' = [row EXCEPT ![u] = r]
  BY DEF TypeOK
<1> QED
  BY <1>1, <1>2, RowStep

\* The row after a failed attempt.
ErrorRow(w) ==
  IF worker[w].at = "retryable" /\ ~Spent(worker[w].on)
  THEN [row[worker[w].on] EXCEPT !.state = "retry_wait", !.ripe = FALSE, !.error = "other"]
  ELSE Failed(row[worker[w].on], Code(worker[w].at))

LEMMA ErrorStep ==
  ASSUME TypeOK, NEW w \in Workers, RecordError(w)
  PROVE  row' = row \/ (OwnsClaim(w) /\ OnlyRow(worker[w].on, ErrorRow(w)))
<1>1. worker[w].on \in Uploads
  BY AtWork DEF RecordError, Failures
<1>2. row[worker[w].on] \in Row
  BY <1>1 DEF TypeOK
<1>3. ErrorRow(w) \in Row
  <2>1. Code(worker[w].at) \in Errors
    BY DEF Code, Errors
  <2> QED
    BY <1>2, <2>1, RowMoves DEF ErrorRow
<1>4. row' = row \/ (OwnsClaim(w) /\ row' = [row EXCEPT ![worker[w].on] = ErrorRow(w)])
  BY DEF RecordError, ErrorRow
<1> QED
  BY <1>1, <1>3, <1>4, RowStep

\* The rows' part of the type of the next state.
LEMMA RowsTyped ==
  ASSUME TypeOK, NEW w \in Workers, WorkerStep(w)
  PROVE  row' \in [Uploads -> Row]
<1>w. worker[w].at # "idle" => worker[w].on \in Uploads /\ worker[w] \in Task
  BY AtWork
<1>1. CASE TakeWake(w)
  <2>1. ASSUME NEW u \in Uploads, Claim(w, u) PROVE row' \in [Uploads -> Row]
    BY <2>1, ClaimStep, ScanTyped DEF Claim
  <2>2. CASE Scan(NoUpload)
    BY <2>2, ScanTyped, MediaAssumption DEF NoUpload
  <2> QED
    BY <1>1, <2>1, <2>2 DEF TakeWake
<1>2. CASE ProjectOrphan(w) \/ CommitPublication(w)
  <2>1. worker[w].on \in Uploads /\ worker[w].content \in Contents \cup {NoContent}
    BY <1>2, <1>w DEF ProjectOrphan, CommitPublication, Task
  <2>2. \/ row' = row
        \/ row' = [row EXCEPT ![worker[w].on].media = worker[w].content]
        \/ row' = [row EXCEPT ![worker[w].on].media = worker[w].content,
                              ![worker[w].on].ripe = FALSE]
    BY <1>2 DEF ProjectOrphan, CommitPublication
  <2> QED
    BY <2>1, <2>2, MediaStep DEF OnlyRow, TypeOK
<1>3. CASE PublishResult(w)
  <2> DEFINE u == worker[w].on
             n == worker[w].ordinal - 1
             s == IF n = 0 THEN "succeeded" ELSE "waiting_stt"
  <2>1. u \in Uploads /\ n \in Nat
    BY <1>3, <1>w DEF PublishResult, Task
  <2>2. s \in RowStates
    BY DEF RowStates
  <2>3. \/ row' = row
        \/ row' = [row EXCEPT ![u].expected = n, ![u].ripe = FALSE,
                              ![u].error = "none", ![u].state = s]
    BY <1>3 DEF PublishResult
  <2> HIDE DEF n, s, u
  <2> QED
    BY <2>1, <2>2, <2>3, ResultStep DEF OnlyRow, TypeOK
<1>4. CASE RecordError(w)
  BY <1>4, ErrorStep DEF OnlyRow, TypeOK
<1>5. CASE row' = row
  BY <1>5 DEF TypeOK
<1> QED
  BY <1>1, <1>2, <1>3, <1>4, <1>5
  DEF WorkerStep, AttemptStep, CheckSource, LoadNormalized, Normalize, BeginPublication,
      LinkObject, CheckObject, LinkManifest, FinishInstall, VerifyCommitted,
      NextCandidate, CommitCandidate, CountUtterances, Stale, Fail, LoseConnection, Crash

LEMMA OrdinalsOfContent ==
  ASSUME NEW c \in Contents
  PROVE  1..Candidates[c] \subseteq Ordinals
BY DEF Ordinals

LEMMA CountTo ==
  ASSUME NEW n \in Nat
  PROVE  IsFiniteSet(1..n) /\ Cardinality(1..n) = n
BY FS_Interval

LEMMA OrdinalsAreNumbers == Ordinals \subseteq Nat \ {0}
BY MediaAssumption DEF Ordinals

\* Only slot k of upload u changes, and into s.
OnlySlot(u, k, s) ==
  /\ work' \in [Uploads -> [Ordinals -> Slot]]
  /\ \A v \in Uploads, j \in Ordinals :
       work'[v][j] = IF v = u /\ j = k THEN s ELSE work[v][j]

LEMMA SlotStep ==
  ASSUME TypeOK, NEW u \in Uploads, NEW k \in Ordinals, NEW s \in Slot,
         work' = [work EXCEPT ![u][k] = s]
  PROVE  OnlySlot(u, k, s)
<1>1. work[u] \in [Ordinals -> Slot]
  BY DEF TypeOK
<1>2. work'[u] = [work[u] EXCEPT ![k] = s] /\ \A v \in Uploads \ {u} : work'[v] = work[v]
  BY DEF TypeOK
<1>3. work' \in [Uploads -> [Ordinals -> Slot]]
  BY <1>1 DEF TypeOK
<1> QED
  BY <1>1, <1>2, <1>3 DEF OnlySlot

LEMMA CommitStep ==
  ASSUME TypeOK, NEW u \in Uploads, NEW k \in Ordinals, NEW c \in Contents,
         work' = [work EXCEPT ![u][k].from = c, ![u][k].stt = "open"]
  PROVE  OnlySlot(u, k, [work[u][k] EXCEPT !.from = c, !.stt = "open"])
<1> DEFINE s == [work[u][k] EXCEPT !.from = c, !.stt = "open"]
<1>1. work[u][k] \in Slot
  BY DEF TypeOK
<1>2. s \in Slot
  BY <1>1 DEF Slot
<1>3. work' = [work EXCEPT ![u][k] = s]
  BY DEF TypeOK
<1> QED
  BY <1>2, <1>3, SlotStep

LEMMA NextSequenceNat ==
  ASSUME NEW u \in Uploads
  PROVE  NextSequence(u) \in Nat
<1> DEFINE S == {k \in Ordinals : work[u][k].sequence > 0}
<1>1. IsFiniteSet(S)
  BY FS_Subset, MediaAssumption
<1> QED
  BY <1>1, FS_CardinalityType DEF NextSequence

\* A job settles, or a settled one is replayed: the utterance stays, and its job was
\* or is now one that may be open.
LEMMA SettleStep ==
  ASSUME TypeOK, NEW u \in Uploads, NEW k \in Ordinals, Settle(u, k) \/ Replay(u, k)
  PROVE  \E s \in Slot : /\ OnlySlot(u, k, s)
                         /\ s.from = work[u][k].from
                         /\ work[u][k].replayed => s.replayed
                         /\ work[u][k].stt # "open" => s.replayed
<1> DEFINE slot == work[u][k]
<1>1. slot \in Slot
  BY DEF TypeOK
<1>2. ASSUME NEW n \in Nat, slot.stt = "open",
             work' = [work EXCEPT ![u][k].stt = "text", ![u][k].sequence = n]
      PROVE  \E s \in Slot : /\ OnlySlot(u, k, s) /\ s.from = slot.from
                             /\ slot.replayed => s.replayed
                             /\ slot.stt # "open" => s.replayed
  <2> DEFINE s == [slot EXCEPT !.stt = "text", !.sequence = n]
  <2>1. s \in Slot /\ s.from = slot.from /\ s.replayed = slot.replayed
    BY <1>1 DEF Slot
  <2>2. work' = [work EXCEPT ![u][k] = s]
    BY <1>2 DEF TypeOK
  <2> HIDE DEF s
  <2> QED
    BY <1>2, <2>1, <2>2, SlotStep
<1>3. ASSUME NEW o \in {"silence", "failure"}, slot.stt = "open",
             work' = [work EXCEPT ![u][k].stt = o]
      PROVE  \E s \in Slot : /\ OnlySlot(u, k, s) /\ s.from = slot.from
                             /\ slot.replayed => s.replayed
                             /\ slot.stt # "open" => s.replayed
  <2> DEFINE s == [slot EXCEPT !.stt = o]
  <2>1. s \in Slot /\ s.from = slot.from /\ s.replayed = slot.replayed
    BY <1>1 DEF Slot
  <2>2. work' = [work EXCEPT ![u][k] = s]
    BY <1>3 DEF TypeOK
  <2> HIDE DEF s
  <2> QED
    BY <1>3, <2>1, <2>2, SlotStep
<1>4. CASE Replay(u, k)
  <2> DEFINE s == [slot EXCEPT !.stt = "open", !.replayed = TRUE]
  <2>1. s \in Slot /\ s.from = slot.from /\ s.replayed
    BY <1>1 DEF Slot
  <2>2. work' = [work EXCEPT ![u][k] = s]
    BY <1>4 DEF Replay, TypeOK
  <2> HIDE DEF s
  <2> QED
    BY <2>1, <2>2, SlotStep
<1> QED
  BY <1>2, <1>3, <1>4, NextSequenceNat DEF Settle

-----------------------------------------------------------------------------
(* The inductive invariant.                                                *)

\* Steps at which the content of an attempt is its own, at which it is the one that
\* the manifest names, and the steps of the segmentation.
Own == {"prepared", "linking", "linked", "checked", "installed"}
Decided == {"orphan", "projecting", "verifying", "segmenting", "committing", "counted"}
Segmenting == {"segmenting", "committing", "counted"}

\* What an attempt may rely on.  Only its transaction keeps the row as it is; its
\* utterances up to the ordinal exist whoever has made them.
AttemptOK(w) ==
  LET t == worker[w]
      u == worker[w].on
  IN t.at # "idle" =>
       /\ t.at = "drift" => manifest[u] # NoContent /\ t.content # manifest[u]
       /\ t.at \in Own => t.content \in Contents
       /\ t.at \in Decided => manifest[u] # NoContent /\ t.content = manifest[u]
       /\ t.at \in {"linked", "checked"} /\ manifest[u] = NoContent
            => t.content \in objects[u]
       /\ t.at = "installed" => manifest[u] # NoContent
       /\ t.tx => t.at \in Publishing /\ row[u].state = "claimed" /\ row[u].tries = t.try
       /\ t.at \notin Segmenting \cup Failures => t.ordinal = 1
       /\ t.at \in Segmenting => /\ 1..(t.ordinal - 1) \subseteq Committed(u)
                                 /\ t.ordinal <= Candidates[t.content] + 1
       /\ t.at = "committing" => t.ordinal <= Candidates[t.content]
       /\ t.at = "counted" => t.ordinal = Candidates[t.content] + 1

\* What holds of an upload, whoever works on it.
UploadOK(u) ==
  /\ manifest[u] # NoContent => manifest[u] \in objects[u]
  /\ row[u].media \in {NoContent, manifest[u]}
  /\ \A k \in Committed(u) : /\ manifest[u] # NoContent
                             /\ work[u][k].from = manifest[u]
                             /\ k <= Candidates[manifest[u]]
  /\ row[u].expected # NoCount => /\ manifest[u] # NoContent
                                  /\ row[u].expected = Candidates[manifest[u]]
                                  /\ 1..row[u].expected \subseteq Committed(u)
  /\ row[u].state \in {"waiting_stt", "succeeded"} => row[u].expected # NoCount
  /\ row[u].state = "waiting_stt" => row[u].expected > 0
  /\ row[u].state = "succeeded" =>
       \A k \in Committed(u) : work[u][k].stt \in {"text", "silence"} \/ work[u][k].replayed

Inv == /\ TypeOK
       /\ \A u \in Uploads : UploadOK(u)
       /\ \A w \in Workers : AttemptOK(w)

\* What no step takes from an attempt it does not advance.
Grows ==
  \A u \in Uploads :
    /\ manifest[u] # NoContent => manifest'[u] = manifest[u]
    /\ Committed(u) \subseteq Committed(u)'
    /\ manifest'[u] = NoContent => objects[u] \subseteq objects'[u]

LocksHold ==
  \A w \in Workers :
    worker[w].tx /\ worker'[w] = worker[w] =>
      LET u == worker[w].on IN row'[u].state = row[u].state /\ row'[u].tries = row[u].tries

LEMMA AttemptKept ==
  ASSUME Inv, Grows, LocksHold, NEW w \in Workers, worker'[w] = worker[w]
  PROVE  AttemptOK(w)'
<1> SUFFICES ASSUME worker[w].at # "idle" PROVE AttemptOK(w)'
  BY DEF AttemptOK
<1>1. worker[w].on \in Uploads
  BY AtWork DEF Inv
<1>2. AttemptOK(w)
  BY DEF Inv
<1> QED
  BY <1>1, <1>2 DEF AttemptOK, Grows, LocksHold, Own, Decided, Segmenting

\* A step of one worker in memory only.
LEMMA QuietStep ==
  ASSUME Inv, NEW w \in Workers, OthersStay(w), AttemptOK(w)',
         UNCHANGED <<row, objects, manifest, work>>,
         wake' \in BOOLEAN, UNCHANGED pass
  PROVE  Inv'
<1>1. Grows /\ LocksHold
  BY DEF Grows, LocksHold, Committed
<1>2. \A v \in Workers : AttemptOK(v)'
  BY <1>1, AttemptKept DEF OthersStay
<1>3. \A u \in Uploads : UploadOK(u)'
  BY DEF Inv, UploadOK, Committed
<1>4. TypeOK'
  BY DEF Inv, TypeOK, OthersStay
<1> QED
  BY <1>2, <1>3, <1>4 DEF Inv

LEMMA InvInitially == Init => Inv
<1> SUFFICES ASSUME Init PROVE Inv
  OBVIOUS
<1>1. row \in [Uploads -> Row]
  <2>1. \A s \in {"missing", "pending"} :
          [state |-> s, tries |-> 0, ripe |-> FALSE, media |-> NoContent,
           expected |-> NoCount, error |-> "none"] \in Row
    <3>1. 0 \in 0..MaxAttempts
      BY MediaAssumption
    <3> QED
      BY <3>1 DEF Row, RowStates, Errors
  <2> QED
    BY <2>1 DEF Init
<1>2. work \in [Uploads -> [Ordinals -> Slot]]
  BY DEF Init, Slot, NoWork
<1>3. TypeOK
  BY <1>1, <1>2 DEF Init, TypeOK, Resting
<1>4. \A u \in Uploads : Committed(u) = {}
  BY DEF Init, Committed, NoWork
<1>5. \A u \in Uploads : UploadOK(u)
  BY <1>4 DEF Init, UploadOK
<1>6. \A w \in Workers : AttemptOK(w)
  BY DEF Init, AttemptOK, Idle
<1> QED
  BY <1>3, <1>5, <1>6 DEF Inv

-----------------------------------------------------------------------------
(* Steps of an attempt in memory.                                          *)

LEMMA QuietSteps ==
  ASSUME Inv, NEW w \in Workers,
         \/ CheckSource(w) \/ LoadNormalized(w) \/ Normalize(w) \/ BeginPublication(w)
         \/ CheckObject(w) \/ VerifyCommitted(w) \/ NextCandidate(w) \/ CountUtterances(w)
         \/ Stale(w) \/ Fail(w) \/ LoseConnection(w) \/ Crash(w)
  PROVE  Inv'
<1> USE DEF Own, Decided, Segmenting
<1>t. TypeOK /\ AttemptOK(w) /\ (\A u \in Uploads : UploadOK(u))
  BY DEF Inv
<1>w. worker[w].at # "idle" => worker[w] \in Task /\ worker[w].on \in Uploads
  BY <1>t, AtWork
<1>c. UNCHANGED <<row, objects, manifest, work, wake, pass>>
  BY DEF CheckSource, LoadNormalized, Normalize, BeginPublication, CheckObject,
     VerifyCommitted, NextCandidate, CountUtterances, Stale, Fail, LoseConnection, Crash
<1>d. /\ UNCHANGED <<row, objects, manifest, work>> /\ UNCHANGED pass /\ wake' \in BOOLEAN
      /\ \A u \in Uploads : Committed(u)' = Committed(u)
  BY <1>t, <1>c DEF Committed, TypeOK
<1>1. CASE CheckSource(w)
  <2>1. worker[w] \in Task /\ worker[w].at = "claimed"
    BY <1>1, <1>w DEF CheckSource
  <2>2. At(w, "loading", worker[w].tx) /\ SameContent(w) /\ SameOrdinal(w) /\ OthersStay(w)
    BY <1>1, <1>t, <2>1, GoToStep DEF CheckSource, Working
  <2>3. AttemptOK(w)'
    BY <1>t, <1>d, <2>1, <2>2 DEF AttemptOK, At, SameContent, SameOrdinal, Publishing, Failures
  <2> QED
    BY <1>d, <2>2, <2>3, QuietStep
<1>3. CASE Normalize(w)
  <2>1. worker[w] \in Task /\ worker[w].at = "normalizing"
    BY <1>3, <1>w DEF Normalize
  <2>2. PICK c \in Contents : worker' = [worker EXCEPT ![w].at = "prepared", ![w].content = c]
    BY <1>3 DEF Normalize
  <2>3. At(w, "prepared", worker[w].tx) /\ SameOrdinal(w) /\ OthersStay(w)
        /\ worker'[w].content = c
    BY <1>t, <2>1, <2>2, ContentStep DEF Working
  <2>4. AttemptOK(w)'
    BY <1>t, <1>d, <2>1, <2>3 DEF AttemptOK, At, SameOrdinal, Publishing, Failures
  <2> QED
    BY <1>d, <2>3, <2>4, QuietStep
<1>4. CASE BeginPublication(w)
  <2>1. worker[w] \in Task /\ worker[w].at = "prepared"
    BY <1>4, <1>w DEF BeginPublication
  <2>2. At(w, "linking", TRUE) /\ SameContent(w) /\ SameOrdinal(w) /\ OthersStay(w)
    BY <1>4, <1>t, <2>1, LockStep DEF BeginPublication, Working, Publishing
  <2>3. row[worker[w].on].state = "claimed" /\ row[worker[w].on].tries = worker[w].try
    BY <1>4 DEF BeginPublication, Fenced, Current
  <2>4. AttemptOK(w)'
    BY <1>t, <1>d, <2>1, <2>2, <2>3
    DEF AttemptOK, At, SameContent, SameOrdinal, Publishing, Failures
  <2> QED
    BY <1>d, <2>2, <2>4, QuietStep
<1>2. CASE LoadNormalized(w)
  <2> DEFINE u == worker[w].on
             known == IF row[u].media # NoContent THEN row[u].media ELSE manifest[u]
  <2>1. worker[w] \in Task /\ u \in Uploads /\ worker[w].at = "loading"
    BY <1>2, <1>w DEF LoadNormalized
  <2>2. UploadOK(u) /\ known \in Contents \cup {NoContent}
    BY <1>t, <2>1 DEF TypeOK, Row
  <2>3. known # NoContent => known = manifest[u] /\ Verified(u, known)
    BY <2>2 DEF UploadOK, Verified
  <2>4. \/ GoTo(w, "normalizing")
        \/ /\ known # NoContent
           /\ \E s \in {"orphan", "segmenting"} :
                worker' = [worker EXCEPT ![w].content = known, ![w].at = s]
    BY <1>2, <2>3 DEF LoadNormalized
  <2>5. ~worker[w].tx /\ worker[w].ordinal = 1
    BY <1>t, <2>1 DEF AttemptOK, Publishing, Failures
  <2>6. CASE GoTo(w, "normalizing")
    <3>1. At(w, "normalizing", worker[w].tx) /\ SameOrdinal(w) /\ OthersStay(w)
      BY <1>t, <2>1, <2>6, GoToStep DEF Working
    <3>2. AttemptOK(w)'
      BY <2>5, <3>1 DEF AttemptOK, At, SameOrdinal, Publishing, Failures
    <3> QED
      BY <1>d, <3>1, <3>2, QuietStep
  <2> HIDE DEF known
  <2>7. ASSUME NEW s \in {"orphan", "segmenting"}, known # NoContent,
               worker' = [worker EXCEPT ![w].content = known, ![w].at = s]
        PROVE  Inv'
    <3>1. /\ At(w, s, worker[w].tx) /\ SameOrdinal(w) /\ OthersStay(w)
          /\ worker'[w].content = known
      BY <1>t, <2>1, <2>2, <2>7, ContentStep DEF Working
    <3>2. manifest'[u] = known /\ known \in Contents /\ Candidates[known] \in Nat
      BY <1>d, <2>2, <2>3, <2>7, MediaAssumption
    <3>3. worker'[w].ordinal = 1 /\ 1..(worker'[w].ordinal - 1) = {} /\ ~worker'[w].tx
      BY <2>5, <3>1 DEF At, SameOrdinal
    <3>4. manifest'[worker'[w].on] = worker'[w].content
          /\ manifest'[worker'[w].on] # NoContent
          /\ worker'[w].ordinal <= Candidates[worker'[w].content] + 1
      BY <2>7, <3>1, <3>2, <3>3 DEF At
    <3>5. AttemptOK(w)'
      BY <3>1, <3>3, <3>4 DEF AttemptOK, At, Failures
    <3> QED
      BY <1>d, <3>1, <3>5, QuietStep
  <2> QED
    BY <2>4, <2>6, <2>7
<1>5. CASE VerifyCommitted(w)
  <2> DEFINE u == worker[w].on
  <2>1. worker[w] \in Task /\ u \in Uploads /\ worker[w].at = "verifying"
    BY <1>5, <1>w DEF VerifyCommitted
  <2>2. UploadOK(u) /\ manifest[u] # NoContent /\ worker[w].content = manifest[u]
        /\ ~worker[w].tx /\ worker[w].ordinal = 1
    BY <1>t, <2>1 DEF AttemptOK, Publishing, Failures
  <2>3. GoTo(w, "segmenting")
    BY <1>5, <2>2 DEF VerifyCommitted, Verified, UploadOK
  <2>4. At(w, "segmenting", worker[w].tx) /\ SameContent(w) /\ SameOrdinal(w) /\ OthersStay(w)
    BY <1>t, <2>1, <2>3, GoToStep DEF Working
  <2>5. Candidates[manifest[u]] \in Nat
    BY <1>t, <2>1, <2>2, MediaAssumption DEF TypeOK
  <2>6. AttemptOK(w)'
    BY <1>d, <2>2, <2>4, <2>5 DEF AttemptOK, At, SameContent, SameOrdinal, Publishing, Failures
  <2> QED
    BY <1>d, <2>4, <2>6, QuietStep
<1>6. CASE NextCandidate(w)
  <2>1. worker[w] \in Task /\ worker[w].at = "segmenting"
    BY <1>6, <1>w DEF NextCandidate
  <2>2. At(w, "committing", worker[w].tx) /\ SameContent(w) /\ SameOrdinal(w) /\ OthersStay(w)
    BY <1>6, <1>t, <2>1, GoToStep DEF NextCandidate, Working
  <2>3. AttemptOK(w)'
    BY <1>t, <1>d, <1>w, <1>6, <2>1, <2>2
    DEF AttemptOK, NextCandidate, At, SameContent, SameOrdinal, Publishing, Failures
  <2> QED
    BY <1>d, <2>2, <2>3, QuietStep
<1>7. CASE CountUtterances(w)
  <2> DEFINE u == worker[w].on
             n == Candidates[worker[w].content]
  <2>1. worker[w] \in Task /\ u \in Uploads /\ worker[w].at = "segmenting"
    BY <1>7, <1>w DEF CountUtterances
  <2>2. /\ manifest[u] # NoContent /\ worker[w].content = manifest[u]
        /\ 1..(worker[w].ordinal - 1) \subseteq Committed(u)
        /\ worker[w].ordinal <= n + 1
        /\ UploadOK(u)
    BY <1>t, <2>1 DEF AttemptOK
  <2>3. n \in Nat /\ worker[w].ordinal \in Nat \ {0}
    BY <1>t, <2>1, <2>2, MediaAssumption DEF TypeOK, Task
  <2>4. worker[w].ordinal = n + 1
    BY <1>7, <2>2, <2>3 DEF CountUtterances
  <2>5. Committed(u) = 1..n
    <3>1. \A k \in Committed(u) : k \in Nat \ {0} /\ k <= n
      BY <2>2, OrdinalsAreNumbers DEF UploadOK, Committed
    <3> HIDE DEF n
    <3>2. 1..n \subseteq Committed(u)
      BY <2>2, <2>3, <2>4
    <3>3. Committed(u) \subseteq 1..n
      BY <2>3, <3>1
    <3> QED
      BY <3>2, <3>3
  <2>6. Cardinality(Committed(u)) = worker[w].ordinal - 1
    BY <2>3, <2>4, <2>5, CountTo
  <2>7. GoTo(w, "counted")
    BY <1>7, <2>6 DEF CountUtterances
  <2>8. At(w, "counted", worker[w].tx) /\ SameContent(w) /\ SameOrdinal(w) /\ OthersStay(w)
    BY <1>t, <2>1, <2>7, GoToStep DEF Working
  <2>9. AttemptOK(w)'
    BY <1>t, <1>d, <2>1, <2>2, <2>4, <2>8
    DEF AttemptOK, At, SameContent, SameOrdinal, Publishing, Failures
  <2> QED
    BY <1>d, <2>8, <2>9, QuietStep
<1>8. CASE Stale(w) \/ Crash(w)
  <2>1. worker'[w] = Idle /\ OthersStay(w)
    BY <1>8, <1>t, IdleStep DEF Stale, Crash
  <2>2. AttemptOK(w)'
    BY <2>1 DEF AttemptOK, Idle
  <2> QED
    BY <1>d, <2>1, <2>2, QuietStep
<1>9. CASE Fail(w)
  <2>1. worker[w] \in Task
    BY <1>9, <1>w DEF Fail, Working, Publishing
  <2>2. PICK failure \in {"retryable", "media", "storage"} : Breaks(w, failure)
    BY <1>9 DEF Fail
  <2>3. At(w, failure, FALSE) /\ OthersStay(w)
    BY <1>t, <2>1, <2>2, BreaksStep DEF Failures
  <2>4. AttemptOK(w)'
    BY <2>3 DEF AttemptOK, At, Publishing, Failures
  <2> QED
    BY <1>d, <2>3, <2>4, QuietStep
<1>10. CASE LoseConnection(w)
  <2>1. worker[w] \in Task
    BY <1>10, <1>t DEF LoseConnection, TypeOK, Idle
  <2>2. At(w, worker[w].at, FALSE) /\ SameContent(w) /\ SameOrdinal(w) /\ OthersStay(w)
    BY <1>10, <1>t, <2>1, LoseStep DEF LoseConnection
  <2>3. worker[w].at # "idle"
    BY <2>1 DEF Task, Working, Publishing, Failures
  <2>3a. worker[w].at \in Publishing
    BY <1>10, <1>t, <2>3 DEF LoseConnection, AttemptOK
  <2>4. AttemptOK(w)'
    BY <1>t, <1>d, <1>w, <2>2, <2>3, <2>3a
    DEF AttemptOK, At, SameContent, SameOrdinal, Publishing, Failures
  <2> QED
    BY <1>d, <2>2, <2>4, QuietStep
<1>11. CASE CheckObject(w)
  <2> DEFINE u == worker[w].on
  <2>1. worker[w] \in Task /\ u \in Uploads /\ worker[w].at = "linked"
    BY <1>11, <1>w DEF CheckObject
  <2>2. CASE worker[w].content \in objects[u]
    <3>1. At(w, "checked", worker[w].tx) /\ SameContent(w) /\ SameOrdinal(w) /\ OthersStay(w)
      BY <1>11, <1>t, <2>1, <2>2, GoToStep DEF CheckObject, Working, Publishing
    <3>2. AttemptOK(w)'
      BY <1>t, <1>d, <2>1, <2>2, <3>1
      DEF AttemptOK, At, SameContent, SameOrdinal, Publishing, Failures
    <3> QED
      BY <1>d, <3>1, <3>2, QuietStep
  <2>3. CASE worker[w].content \notin objects[u]
    <3>1. At(w, "drift", FALSE) /\ SameContent(w) /\ OthersStay(w)
      BY <1>11, <1>t, <2>1, <2>3, BreaksStep DEF CheckObject, Failures
    <3>2. manifest[u] # NoContent /\ manifest[u] \in objects[u]
      BY <1>t, <2>1, <2>3 DEF AttemptOK, UploadOK
    <3>3. AttemptOK(w)'
      BY <1>d, <2>3, <3>1, <3>2 DEF AttemptOK, At, SameContent, Publishing, Failures
    <3> QED
      BY <1>d, <3>1, <3>3, QuietStep
  <2> QED
    BY <2>2, <2>3
<1> QED
  BY <1>1, <1>2, <1>3, <1>4, <1>5, <1>6, <1>7, <1>8, <1>9, <1>10, <1>11

-----------------------------------------------------------------------------
(* Steps that change rows.                                                 *)

\* A change of a row that finds out nothing about the upload's utterances.
LEMMA RowChange ==
  ASSUME Inv, NEW u \in Uploads, UNCHANGED <<objects, manifest, work>>,
         row'[u].media \in {row[u].media, manifest[u]},
         row'[u].expected = row[u].expected,
         row'[u].state \in {"waiting_stt", "succeeded"} => row'[u].state = row[u].state
  PROVE  UploadOK(u)'
<1>1. UploadOK(u)
  BY DEF Inv
<1>2. Committed(u)' = Committed(u)
  BY DEF Committed
<1> QED
  BY <1>1, <1>2 DEF UploadOK

\* Only rows change, and those of transactions under way only in what they may lose.
LEMMA RowsStep ==
  ASSUME Inv, UNCHANGED <<objects, manifest, work>>, row' \in [Uploads -> Row],
         wake' \in BOOLEAN,
         pass' \in [at : {"resting", "converging"}, todo : SUBSET Uploads],
         LocksHold, \A u \in Uploads : UploadOK(u)',
         worker' \in [Workers -> Task \cup {Idle}],
         \A w \in Workers : worker'[w] = worker[w] \/ AttemptOK(w)'
  PROVE  Inv'
<1>1. Grows
  BY DEF Grows, Committed
<1>2. \A w \in Workers : AttemptOK(w)'
  BY <1>1, AttemptKept
<1>3. TypeOK'
  BY DEF Inv, TypeOK
<1> QED
  BY <1>2, <1>3 DEF Inv

LEMMA ScanKeeps ==
  ASSUME Inv, NEW claimed, Scan(claimed), UNCHANGED <<objects, manifest, work>>,
         claimed \in Uploads => claimed \in Offered /\ row[claimed].tries < MaxAttempts
  PROVE  LocksHold /\ \A u \in Uploads : UploadOK(u)'
<1>t. TypeOK
  BY DEF Inv
<1>1. ASSUME NEW u \in Uploads
      PROVE  /\ u \notin Offered => row'[u] = row[u]
             /\ UploadOK(u)'
  <2>1. row[u] \in Row /\ UploadOK(u)
    BY <1>t DEF TypeOK, Inv
  <2>2. CASE u = claimed
    <3>1. row'[u] = [row[u] EXCEPT !.state = "claimed", !.tries = @ + 1,
                                   !.ripe = FALSE, !.error = "none"]
      BY <2>2 DEF Scan
    <3>2. /\ row'[u].state = "claimed" /\ row'[u].error = "none"
          /\ row'[u].media = row[u].media /\ row'[u].expected = row[u].expected
      BY <2>1, <3>1 DEF Row
    <3>3. UploadOK(u)'
      BY <3>2, RowChange
    <3> QED
      BY <2>2, <3>3
  <2>3. CASE u # claimed /\ u \in Offered
    <3>1. row'[u] = row[u] \/ row'[u] = Failed(row[u], "other")
      BY <2>3 DEF Scan
    <3>2. \/ row'[u] = row[u]
          \/ /\ row'[u].state = "failed" /\ row'[u].error = "other"
             /\ row'[u].media = row[u].media /\ row'[u].expected = row[u].expected
      BY <2>1, <3>1 DEF Row, Failed
    <3>3. UploadOK(u)'
      BY <3>2, RowChange
    <3> QED
      BY <2>3, <3>3
  <2>4. CASE u # claimed /\ u \notin Offered
    <3>1. row'[u] = row[u]
      BY <2>4 DEF Scan
    <3>2. UploadOK(u)'
      BY <2>1, <3>1, RowChange DEF UploadOK
    <3> QED
      BY <3>1, <3>2
  <2> QED
    BY <2>2, <2>3, <2>4
<1>2. LocksHold
  <2> SUFFICES ASSUME NEW w \in Workers, worker[w].tx
               PROVE  LET u == worker[w].on
                      IN row'[u].state = row[u].state /\ row'[u].tries = row[u].tries
    BY DEF LocksHold
  <2>1. worker[w] \in Task \cup {Idle} /\ worker[w] # Idle
    BY <1>t DEF TypeOK, Idle
  <2>2. worker[w].on \in Uploads
    BY <2>1 DEF Task
  <2>3. worker[w].on \notin Offered
    BY <2>2 DEF Offered, Unlocked
  <2> QED
    BY <1>1, <2>2, <2>3
<1> QED
  BY <1>1, <1>2

LEMMA TakeWakeStep ==
  ASSUME Inv, NEW w \in Workers, TakeWake(w)
  PROVE  Inv'
<1>t. TypeOK
  BY DEF Inv
<1>1. row' \in [Uploads -> Row] /\ worker' \in [Workers -> Task \cup {Idle}]
  BY <1>t, RowsTyped, WorkersTyped DEF WorkerStep
<1>2. UNCHANGED <<objects, manifest, work, pass>> /\ wake' = FALSE
  BY DEF TakeWake
<1>3. ASSUME NEW u \in Uploads, Claim(w, u) PROVE Inv'
  <2>1. /\ worker'[w] \in Task /\ OthersStay(w)
        /\ worker'[w].at = "claimed" /\ ~worker'[w].tx /\ worker'[w].ordinal = 1
        /\ row[u].tries < MaxAttempts
    BY <1>t, <1>3, ClaimStep
  <2>2. LocksHold /\ \A v \in Uploads : UploadOK(v)'
    BY <1>2, <1>3, <2>1, ScanKeeps DEF Claim
  <2>3. AttemptOK(w)'
    BY <2>1 DEF AttemptOK, Own, Decided, Segmenting, Failures
  <2> QED
    BY <1>t, <1>1, <1>2, <2>1, <2>2, <2>3, RowsStep DEF OthersStay, TypeOK
<1>4. CASE Scan(NoUpload) /\ UNCHANGED worker
  <2>1. NoUpload \notin Uploads
    BY MediaAssumption DEF NoUpload
  <2>2. LocksHold /\ \A v \in Uploads : UploadOK(v)'
    BY <1>2, <1>4, <2>1, ScanKeeps
  <2> QED
    BY <1>t, <1>1, <1>2, <1>4, <2>2, RowsStep DEF TypeOK
<1> QED
  BY <1>3, <1>4 DEF TakeWake

\* The row of a worker's upload changes in a transaction that holds its lock, or is
\* the only one it leaves locked.
LEMMA OneRowLocks ==
  ASSUME Inv, NEW w \in Workers, worker[w].at # "idle", NEW r,
         row' = row \/ OnlyRow(worker[w].on, r),
         \/ Unlocked(worker[w].on)
         \/ r.state = row[worker[w].on].state /\ r.tries = row[worker[w].on].tries
  PROVE  LocksHold
<1>1. ASSUME NEW v \in Workers, worker[v].tx PROVE worker[v].on \in Uploads
  <2>1. worker[v] \in Task \cup {Idle} /\ worker[v] # Idle
    BY <1>1 DEF Inv, TypeOK, Idle
  <2> QED
    BY <2>1 DEF Task
<1> QED
  BY <1>1 DEF LocksHold, OnlyRow, Unlocked

LEMMA ProjectStep ==
  ASSUME Inv, NEW w \in Workers, ProjectOrphan(w) \/ CommitPublication(w)
  PROVE  Inv'
<1> DEFINE u == worker[w].on
<1>t. TypeOK /\ AttemptOK(w)
  BY DEF Inv
<1>1. /\ worker[w] \in Task /\ u \in Uploads
      /\ worker[w].at = IF ProjectOrphan(w) THEN "orphan" ELSE "projecting"
  BY <1>t, AtWork DEF ProjectOrphan, CommitPublication
<1>2. row' \in [Uploads -> Row] /\ worker' \in [Workers -> Task \cup {Idle}]
  BY <1>t, RowsTyped, WorkersTyped DEF WorkerStep, AttemptStep
<1>3. UNCHANGED <<objects, manifest, work, wake, pass>>
  BY DEF ProjectOrphan, CommitPublication
<1>4. /\ manifest[u] # NoContent /\ worker[w].content = manifest[u] /\ UploadOK(u)
      /\ worker[w].ordinal = 1
  BY <1>t, <1>1 DEF AttemptOK, Decided, Segmenting, Failures, Inv
<1>5. manifest[u] \in Contents /\ Candidates[manifest[u]] \in Nat /\ row[u] \in Row
  BY <1>t, <1>1, <1>4, MediaAssumption DEF TypeOK
<1>6. Projected(u, worker[w].content)
  BY <1>4 DEF Projected, UploadOK
<1>7. \/ row' = row
      \/ \E ripe \in BOOLEAN :
           OnlyRow(u, [row[u] EXCEPT !.media = manifest[u], !.ripe = ripe])
  <2>1. \/ row' = row
        \/ row' = [row EXCEPT ![u].media = manifest[u]]
        \/ row' = [row EXCEPT ![u].media = manifest[u], ![u].ripe = FALSE]
    BY <1>4 DEF ProjectOrphan, CommitPublication
  <2> QED
    BY <1>t, <1>1, <1>5, <2>1, MediaStep
<1>8. \/ At(w, "segmenting", FALSE) /\ SameContent(w) /\ SameOrdinal(w) /\ OthersStay(w)
      \/ At(w, "verifying", FALSE) /\ SameContent(w) /\ SameOrdinal(w) /\ OthersStay(w)
      \/ At(w, "retryable", FALSE) /\ OthersStay(w)
  <2>1. CASE ProjectOrphan(w)
    <3>1. worker[w].at = "orphan" /\ worker[w].tx \in BOOLEAN
      BY <1>1, <2>1 DEF ProjectOrphan, Task
    <3>2. worker[w].tx = FALSE
      BY <1>t, <3>1 DEF AttemptOK, Publishing
    <3> QED
      BY <1>t, <1>1, <1>6, <2>1, <3>2, GoToStep DEF ProjectOrphan, Working
  <2>2. CASE CommitPublication(w)
    BY <1>t, <1>1, <1>6, <2>2, LockStep, BreaksStep DEF CommitPublication, Working, Failures
  <2> QED
    BY <2>1, <2>2
<1>9. PICK r : /\ row' = row \/ OnlyRow(u, r)
               /\ r.state = row[u].state /\ r.tries = row[u].tries
               /\ r.expected = row[u].expected /\ r.error = row[u].error
               /\ r.media \in {row[u].media, manifest[u]}
  <2>1. ASSUME NEW ripe \in BOOLEAN
        PROVE  LET r == [row[u] EXCEPT !.media = manifest[u], !.ripe = ripe]
               IN /\ r.state = row[u].state /\ r.tries = row[u].tries
                  /\ r.expected = row[u].expected /\ r.error = row[u].error
                  /\ r.media \in {row[u].media, manifest[u]}
    BY <1>5 DEF Row
  <2> QED
    BY <1>7, <2>1
<1>10. LocksHold
  BY <1>1, <1>9, OneRowLocks
<1>11. ASSUME NEW v \in Uploads PROVE UploadOK(v)'
  <2>1. row'[v] = row[v] \/ (v = u /\ row'[v] = r)
    BY <1>9, <1>11 DEF OnlyRow
  <2> QED
    BY <1>3, <1>9, <2>1, RowChange
<1>12. AttemptOK(w)'
  <2>1. (\A v \in Uploads : Committed(v)' = Committed(v)) /\ manifest'[u] = manifest[u]
    BY <1>3 DEF Committed
  <2>3. CASE At(w, "retryable", FALSE)
    BY <2>3 DEF AttemptOK, At, Own, Decided, Segmenting, Failures
  <2>4. CASE At(w, "verifying", FALSE) /\ SameContent(w) /\ SameOrdinal(w)
    BY <1>4, <2>1, <2>4
    DEF AttemptOK, At, SameContent, SameOrdinal, Own, Decided, Segmenting, Failures
  <2>5. CASE At(w, "segmenting", FALSE) /\ SameContent(w) /\ SameOrdinal(w)
    <3>1. ~worker'[w].tx
      BY <2>5 DEF At
    <3>2. 1..(worker'[w].ordinal - 1) = {} /\ worker'[w].ordinal <= Candidates[manifest[u]] + 1
      BY <1>4, <1>5, <2>5 DEF SameOrdinal
    <3> QED
      BY <1>4, <2>1, <2>5, <3>1, <3>2
      DEF AttemptOK, At, SameContent, SameOrdinal, Own, Decided, Segmenting, Failures
  <2> QED
    BY <1>8, <2>3, <2>4, <2>5
<1> QED
  BY <1>t, <1>2, <1>3, <1>8, <1>10, <1>11, <1>12, RowsStep DEF OthersStay, TypeOK

\* _record_processing_error.
LEMMA RecordStep ==
  ASSUME Inv, NEW w \in Workers, RecordError(w)
  PROVE  Inv'
<1> DEFINE u == worker[w].on
<1>t. TypeOK /\ AttemptOK(w)
  BY DEF Inv
<1>1. worker[w].at \in Failures /\ u \in Uploads /\ Unlocked(u)
  BY <1>t, AtWork DEF RecordError, AttemptOK, Failures
<1>2. row' \in [Uploads -> Row] /\ worker' \in [Workers -> Task \cup {Idle}]
  BY <1>t, RowsTyped, WorkersTyped DEF WorkerStep, AttemptStep
<1>3. UNCHANGED <<objects, manifest, work, wake, pass>>
  BY DEF RecordError
<1>4. worker'[w] = Idle /\ OthersStay(w)
  BY <1>t, IdleStep DEF RecordError
<1>5. row' = row \/ OnlyRow(u, ErrorRow(w))
  BY <1>t, ErrorStep
<1>6. LocksHold
  BY <1>1, <1>5, OneRowLocks DEF Failures
<1>7. /\ ErrorRow(w).state \in {"retry_wait", "failed"}
      /\ ErrorRow(w).media = row[u].media /\ ErrorRow(w).expected = row[u].expected
  <2>1. row[u] \in Row
    BY <1>t, <1>1 DEF TypeOK
  <2> QED
    BY <1>1, <2>1 DEF ErrorRow, Failed, Code, Row
<1>8. ASSUME NEW v \in Uploads PROVE UploadOK(v)'
  <2>1. row'[v] = row[v] \/ (v = u /\ row'[v] = ErrorRow(w))
    BY <1>5 DEF OnlyRow
  <2> QED
    BY <1>3, <1>7, <2>1, RowChange
<1>9. AttemptOK(w)'
  BY <1>4 DEF AttemptOK, Idle
<1> QED
  BY <1>t, <1>2, <1>3, <1>4, <1>6, <1>8, <1>9, RowsStep DEF OthersStay, TypeOK

\* _publish_segmentation_result.
LEMMA PublishStep ==
  ASSUME Inv, NEW w \in Workers, PublishResult(w)
  PROVE  /\ Inv'
         /\ LET u == worker[w].on
                n == Candidates[manifest[u]]
            IN /\ u \in Uploads /\ n \in Nat
               /\ manifest[u] # NoContent /\ Committed(u) = 1..n
               /\ OnlyRow(u, [row[u] EXCEPT !.expected = n, !.ripe = FALSE, !.error = "none",
                                !.state = IF n = 0 THEN "succeeded" ELSE "waiting_stt"])
<1> DEFINE u == worker[w].on
           n == Candidates[manifest[u]]
           s == IF n = 0 THEN "succeeded" ELSE "waiting_stt"
           r == [row[u] EXCEPT !.expected = n, !.ripe = FALSE, !.error = "none", !.state = s]
<1>t. TypeOK /\ AttemptOK(w) /\ worker[w].at = "counted"
  BY DEF Inv, PublishResult
<1>1. worker[w] \in Task /\ u \in Uploads /\ Unlocked(u) /\ row[u].state = "claimed"
  BY <1>t, AtWork DEF PublishResult, Fenced, Current
<1>2. row' \in [Uploads -> Row] /\ worker' \in [Workers -> Task \cup {Idle}]
  BY <1>t, RowsTyped, WorkersTyped DEF WorkerStep, AttemptStep
<1>3. UNCHANGED <<objects, manifest, work, wake, pass>>
  BY DEF PublishResult
<1>4. /\ manifest[u] # NoContent /\ worker[w].content = manifest[u]
      /\ worker[w].ordinal = n + 1 /\ 1..(worker[w].ordinal - 1) \subseteq Committed(u)
  BY <1>t DEF AttemptOK, Decided, Segmenting
<1>5. n \in Nat /\ worker[w].ordinal \in Nat \ {0} /\ row[u] \in Row /\ UploadOK(u)
  BY <1>t, <1>1, <1>4, MediaAssumption DEF Inv, TypeOK, Task
<1>6. worker[w].ordinal - 1 = n
  BY <1>4, <1>5
<1>7. Committed(u) = 1..n
  <2>1. \A k \in Committed(u) : k \in Nat \ {0} /\ k <= n
    BY <1>5, OrdinalsAreNumbers DEF UploadOK, Committed
  <2> HIDE DEF n
  <2>2. Committed(u) \subseteq 1..n
    BY <1>5, <2>1
  <2> QED
    BY <1>4, <1>6, <2>2
<1>8. row[u].expected \in {NoCount, n}
  BY <1>5 DEF UploadOK
<1>9. /\ row' = [row EXCEPT ![u].expected = n, ![u].ripe = FALSE,
                            ![u].error = "none", ![u].state = s]
      /\ worker' = [worker EXCEPT ![w] = Idle]
  BY <1>6, <1>8 DEF PublishResult
<1>10. OnlyRow(u, r) /\ worker'[w] = Idle /\ OthersStay(w)
  <2>1. s \in RowStates
    BY DEF RowStates
  <2> HIDE DEF s, n
  <2> QED
    BY <1>t, <1>1, <1>5, <1>9, <2>1, ResultStep, IdleStep
<1>11. /\ r.expected = n /\ r.error = "none" /\ r.state = s /\ r.media = row[u].media
  <2> HIDE DEF s, n
  <2> QED
    BY <1>5 DEF Row
<1>12. LocksHold
  BY <1>t, <1>1, <1>10, OneRowLocks
<1>13. ASSUME NEW v \in Uploads PROVE UploadOK(v)'
  <2>1. CASE v # u
    <3>1. row'[v] = row[v]
      BY <1>10, <2>1 DEF OnlyRow
    <3> QED
      BY <1>3, <3>1, RowChange
  <2>2. CASE v = u
    <3>1. row'[v] = r
      BY <1>10, <2>2 DEF OnlyRow
    <3>2. Committed(v)' = Committed(v)
      BY <1>3 DEF Committed
    <3>3. n # NoCount
      BY <1>5 DEF NoCount
    <3>4. s = "succeeded" => Committed(v) = {}
      BY <1>7, <2>2
    <3> HIDE DEF r, n
    <3>5. s = "waiting_stt" => n > 0
      BY <1>5
    <3> HIDE DEF s
    <3>6. manifest'[v] = manifest[v] /\ objects'[v] = objects[v] /\ work'[v] = work[v]
          /\ n = Candidates[manifest[v]]
      BY <1>3, <2>2 DEF n
    <3>7. /\ row'[v].expected = n /\ row'[v].error = "none" /\ row'[v].state = s
          /\ row'[v].media = row[v].media
      BY <1>11, <2>2, <3>1
    <3>8. 1..n \subseteq Committed(v)' /\ UploadOK(v) /\ manifest[v] # NoContent
      BY <1>4, <1>5, <1>7, <2>2, <3>2, <3>6
    <3> HIDE DEF u
    <3> QED
      BY <3>2, <3>3, <3>4, <3>5, <3>6, <3>7, <3>8 DEF UploadOK
  <2> QED
    BY <2>1, <2>2
<1>14. AttemptOK(w)'
  BY <1>10 DEF AttemptOK, Idle
<1>15. Inv'
  BY <1>t, <1>2, <1>3, <1>10, <1>12, <1>13, <1>14, RowsStep DEF OthersStay, TypeOK
<1> QED
  BY <1>1, <1>4, <1>5, <1>7, <1>10, <1>15

-----------------------------------------------------------------------------
(* Steps in the file system and in the utterances.                         *)

\* Rows stay as they are.
LEMMA FilesStep ==
  ASSUME Inv, NEW w \in Workers, OthersStay(w), AttemptOK(w)', Grows,
         UNCHANGED <<row, wake, pass>>,
         objects' \in [Uploads -> SUBSET Contents],
         manifest' \in [Uploads -> Contents \cup {NoContent}],
         work' \in [Uploads -> [Ordinals -> Slot]],
         \A u \in Uploads : UploadOK(u)'
  PROVE  Inv'
<1>1. LocksHold
  BY DEF LocksHold
<1>2. \A v \in Workers : AttemptOK(v)'
  BY <1>1, AttemptKept DEF OthersStay
<1>3. TypeOK'
  BY DEF Inv, TypeOK, OthersStay
<1> QED
  BY <1>2, <1>3 DEF Inv

\* An upload whose row and utterances stay, and whose manifest keeps its object.
LEMMA FilesChange ==
  ASSUME Inv, NEW u \in Uploads, UNCHANGED <<row, work>>,
         manifest[u] # NoContent => manifest'[u] = manifest[u],
         manifest'[u] # NoContent => manifest'[u] \in objects'[u]
  PROVE  UploadOK(u)'
<1>1. UploadOK(u)
  BY DEF Inv
<1>2. Committed(u)' = Committed(u)
  BY DEF Committed
<1> QED
  BY <1>1, <1>2 DEF UploadOK

LEMMA LinkObjectStep ==
  ASSUME Inv, NEW w \in Workers, LinkObject(w)
  PROVE  Inv'
<1> DEFINE u == worker[w].on
           c == worker[w].content
<1>t. TypeOK /\ AttemptOK(w) /\ worker[w].at = "linking"
  BY DEF Inv, LinkObject
<1>1. worker[w] \in Task /\ u \in Uploads /\ c \in Contents
  BY <1>t, AtWork DEF AttemptOK, Own
<1>2. /\ UNCHANGED <<row, manifest, work, wake, pass>>
      /\ objects' = [objects EXCEPT ![u] = @ \cup {c}]
  BY DEF LinkObject
<1>3. At(w, "linked", worker[w].tx) /\ SameContent(w) /\ SameOrdinal(w) /\ OthersStay(w)
  BY <1>t, <1>1, LinkStep
<1>4. /\ objects' \in [Uploads -> SUBSET Contents]
      /\ c \in objects'[u]
      /\ \A v \in Uploads : objects[v] \subseteq objects'[v]
  BY <1>t, <1>1, <1>2 DEF TypeOK
<1>5. Grows
  BY <1>2, <1>4 DEF Grows, Committed
<1>6. ASSUME NEW v \in Uploads PROVE UploadOK(v)'
  <2>1. manifest[v] # NoContent => manifest[v] \in objects[v]
    BY DEF Inv, UploadOK
  <2> QED
    BY <1>2, <1>4, <2>1, FilesChange
<1>7. AttemptOK(w)'
  BY <1>t, <1>1, <1>2, <1>3, <1>4
  DEF AttemptOK, At, SameContent, SameOrdinal, Own, Decided, Segmenting, Failures, Publishing
<1> QED
  BY <1>t, <1>2, <1>3, <1>4, <1>5, <1>6, <1>7, FilesStep DEF TypeOK

LEMMA LinkManifestStep ==
  ASSUME Inv, NEW w \in Workers, LinkManifest(w)
  PROVE  /\ Inv'
         /\ LET u == worker[w].on
                c == worker[w].content
            IN /\ u \in Uploads /\ c \in Contents
               /\ UNCHANGED <<row, work>>
               /\ manifest' = IF manifest[u] = NoContent
                              THEN [manifest EXCEPT ![u] = c] ELSE manifest
<1> DEFINE u == worker[w].on
           c == worker[w].content
<1>t. TypeOK /\ AttemptOK(w) /\ worker[w].at = "checked"
  BY DEF Inv, LinkManifest
<1>1. worker[w] \in Task /\ u \in Uploads /\ c \in Contents
  BY <1>t, AtWork DEF AttemptOK, Own
<1>2. /\ UNCHANGED <<row, objects, work, wake, pass>>
      /\ manifest' = [manifest EXCEPT ![u] = FirstWins(u, c)]
      /\ GoTo(w, "installed")
  BY DEF LinkManifest
<1>3. At(w, "installed", worker[w].tx) /\ SameContent(w) /\ SameOrdinal(w) /\ OthersStay(w)
  BY <1>t, <1>1, <1>2, GoToStep DEF Working, Publishing
<1>4. /\ manifest' \in [Uploads -> Contents \cup {NoContent}]
      /\ manifest'[u] # NoContent
      /\ \A v \in Uploads : manifest[v] # NoContent \/ v # u => manifest'[v] = manifest[v]
      /\ manifest[u] = NoContent => manifest'[u] = c
      /\ manifest' = IF manifest[u] = NoContent
                     THEN [manifest EXCEPT ![u] = c] ELSE manifest
  BY <1>t, <1>1, <1>2, MediaAssumption DEF TypeOK, FirstWins
<1>5. Grows
  BY <1>2, <1>4 DEF Grows, Committed
<1>6. manifest[u] = NoContent => c \in objects[u]
  BY <1>t DEF AttemptOK
<1>7. ASSUME NEW v \in Uploads PROVE UploadOK(v)'
  <2>1. manifest[v] # NoContent => manifest[v] \in objects[v]
    BY DEF Inv, UploadOK
  <2>2. manifest'[v] # NoContent => manifest'[v] \in objects[v]
    BY <1>4, <1>6, <2>1
  <2> QED
    BY <1>2, <1>4, <2>2, FilesChange
<1>8. AttemptOK(w)'
  BY <1>t, <1>1, <1>2, <1>3, <1>4
  DEF AttemptOK, At, SameContent, SameOrdinal, Own, Decided, Segmenting, Failures, Publishing
<1> QED
  BY <1>t, <1>1, <1>2, <1>3, <1>4, <1>5, <1>7, <1>8, FilesStep DEF TypeOK

LEMMA FinishInstallStep ==
  ASSUME Inv, NEW w \in Workers, FinishInstall(w)
  PROVE  Inv'
<1> DEFINE u == worker[w].on
           c == worker[w].content
<1>t. TypeOK /\ AttemptOK(w) /\ worker[w].at = "installed"
  BY DEF Inv, FinishInstall
<1>1. worker[w] \in Task /\ u \in Uploads /\ manifest[u] \in Contents
  BY <1>t, AtWork DEF AttemptOK, TypeOK
<1>2. /\ UNCHANGED <<row, manifest, work, wake, pass>>
      /\ objects' = [objects EXCEPT ![u] = IF UnlinksObject(w) THEN @ \ {c} ELSE @]
      /\ worker' = [worker EXCEPT ![w].at = "projecting", ![w].content = manifest[u]]
  BY DEF FinishInstall
<1>3. /\ At(w, "projecting", worker[w].tx) /\ SameOrdinal(w) /\ OthersStay(w)
      /\ worker'[w].content = manifest[u]
  BY <1>t, <1>1, <1>2, ContentStep DEF Working, Publishing
<1>4. /\ objects' \in [Uploads -> SUBSET Contents]
      /\ \A v \in Uploads \ {u} : objects'[v] = objects[v]
      /\ \A d \in objects[u] : d = manifest[u] => d \in objects'[u]
  BY <1>t, <1>1, <1>2 DEF TypeOK, UnlinksObject
<1>5. manifest[u] # NoContent
  BY <1>1, MediaAssumption
<1>6. Grows
  BY <1>2, <1>4, <1>5 DEF Grows, Committed
<1>7. ASSUME NEW v \in Uploads PROVE UploadOK(v)'
  <2>1. manifest[v] # NoContent => manifest[v] \in objects[v]
    BY DEF Inv, UploadOK
  <2>2. manifest[v] # NoContent => manifest[v] \in objects'[v]
    BY <1>4, <2>1
  <2> QED
    BY <1>2, <2>2, FilesChange
<1>8. AttemptOK(w)'
  BY <1>t, <1>1, <1>2, <1>3, <1>5
  DEF AttemptOK, At, SameOrdinal, Own, Decided, Segmenting, Failures, Publishing
<1> QED
  BY <1>t, <1>2, <1>3, <1>4, <1>6, <1>7, <1>8, FilesStep DEF TypeOK

\* A candidate is committed: its utterance is there already, or is the next one.
LEMMA CommitCandidateStep ==
  ASSUME Inv, NEW w \in Workers, CommitCandidate(w)
  PROVE  /\ Inv'
         /\ LET u == worker[w].on
                k == worker[w].ordinal
            IN /\ u \in Uploads /\ k \in Ordinals
               /\ UNCHANGED <<row, manifest>>
               /\ manifest[u] # NoContent /\ k <= Candidates[manifest[u]]
               /\ \/ work' = work
                  \/ /\ k \notin Committed(u)
                     /\ \E s \in Slot : OnlySlot(u, k, s) /\ s.from = manifest[u]
<1> DEFINE u == worker[w].on
           k == worker[w].ordinal
           c == worker[w].content
<1>t. TypeOK /\ AttemptOK(w) /\ worker[w].at = "committing"
  BY DEF Inv, CommitCandidate
<1>1. worker[w] \in Task /\ u \in Uploads /\ k \in Nat \ {0}
  BY <1>t, AtWork DEF Task
<1>2. /\ manifest[u] # NoContent /\ c = manifest[u] /\ k <= Candidates[c]
      /\ 1..(k - 1) \subseteq Committed(u) /\ ~worker[w].tx
  BY <1>t DEF AttemptOK, Decided, Segmenting, Publishing
<1>3. c \in Contents /\ Candidates[c] \in Nat
  BY <1>t, <1>1, <1>2, MediaAssumption DEF TypeOK
<1>4. k \in Ordinals
  <2>1. k \in 1..Candidates[c]
    BY <1>1, <1>2, <1>3
  <2> QED
    BY <1>3, <2>1, OrdinalsOfContent
<1>5. work[u][k].from \in {NoContent, c}
  <2>1. UploadOK(u)
    BY <1>1 DEF Inv
  <2>2. k \in Committed(u) => work[u][k].from = manifest[u]
    BY <2>1 DEF UploadOK
  <2> QED
    BY <1>2, <1>4, <2>2 DEF Committed
<1>6. /\ worker' = [worker EXCEPT ![w].at = "segmenting", ![w].ordinal = k + 1]
      /\ work' = IF work[u][k].from = NoContent
                 THEN [work EXCEPT ![u][k].from = c, ![u][k].stt = "open"] ELSE work
      /\ UNCHANGED <<row, objects, manifest, wake, pass>>
  BY <1>5 DEF CommitCandidate
<1>7. /\ At(w, "segmenting", worker[w].tx) /\ SameContent(w) /\ OthersStay(w)
      /\ worker'[w].ordinal = k + 1
  <2>1. k + 1 \in Nat \ {0}
    BY <1>1
  <2> QED
    BY <1>t, <1>1, <1>6, <2>1, CandidateStep
<1>8. \/ work' = work /\ k \in Committed(u)
      \/ /\ k \notin Committed(u)
         /\ \E s \in Slot : OnlySlot(u, k, s) /\ s.from = c
  <2>1. CASE work[u][k].from # NoContent
    BY <1>4, <1>6, <2>1 DEF Committed
  <2>2. CASE work[u][k].from = NoContent
    <3> DEFINE s == [work[u][k] EXCEPT !.from = c, !.stt = "open"]
    <3>1. work[u][k] \in Slot
      BY <1>t, <1>1, <1>4 DEF TypeOK
    <3>2. s \in Slot /\ s.from = c
      BY <1>3, <3>1 DEF Slot
    <3>3. OnlySlot(u, k, s)
      BY <1>t, <1>1, <1>3, <1>4, <1>6, <2>2, CommitStep
    <3> HIDE DEF s
    <3> QED
      BY <2>2, <3>2, <3>3 DEF Committed
  <2> QED
    BY <2>1, <2>2
<1>9. /\ work' \in [Uploads -> [Ordinals -> Slot]]
      /\ \A v \in Uploads : Committed(v) \subseteq Committed(v)'
      /\ \A v \in Uploads, j \in Ordinals : v # u \/ j # k => work'[v][j] = work[v][j]
      /\ work'[u][k].from = c
  <2>1. CASE work' = work /\ k \in Committed(u)
    <3>1. work[u][k].from = c
      BY <1>5, <2>1 DEF Committed
    <3> QED
      BY <1>t, <2>1, <3>1 DEF TypeOK, Committed
  <2>2. CASE \E s \in Slot : OnlySlot(u, k, s) /\ s.from = c
    <3>1. PICK s \in Slot : OnlySlot(u, k, s) /\ s.from = c
      BY <2>2
    <3>2. c # NoContent
      BY <1>2
    <3> HIDE DEF u, k, c
    <3> QED
      BY <1>1, <1>4, <3>1, <3>2 DEF OnlySlot, Committed
  <2> QED
    BY <1>8, <2>1, <2>2
<1>10. Grows
  BY <1>6, <1>9 DEF Grows
<1>11. ASSUME NEW v \in Uploads PROVE UploadOK(v)'
  <2>1. UploadOK(v)
    BY DEF Inv
  <2>2. CASE work'[v] = work[v]
    <3>1. Committed(v)' = Committed(v)
      BY <2>2 DEF Committed
    <3> QED
      BY <1>6, <2>1, <2>2, <3>1 DEF UploadOK
  <2>3. CASE v = u /\ k \notin Committed(u)
    <3>1. row[v].expected = NoCount
      <4>1. ASSUME row[v].expected # NoCount PROVE FALSE
        <5>1. row[v].expected = Candidates[c] /\ 1..row[v].expected \subseteq Committed(u)
          BY <1>2, <2>1, <2>3, <4>1 DEF UploadOK
        <5>2. k \in 1..row[v].expected
          BY <1>1, <1>2, <1>3, <5>1
        <5> QED
          BY <2>3, <5>1, <5>2
      <4> QED
        BY <4>1
    <3>2. ASSUME NEW j \in Committed(v)'
          PROVE  work'[v][j].from = c /\ j <= Candidates[c]
      <4>1. j \in Ordinals
        BY <3>2 DEF Committed
      <4>2. CASE j = k
        BY <1>2, <1>9, <2>3, <4>2
      <4>3. CASE j # k
        <5>1. work'[v][j] = work[v][j]
          BY <1>9, <4>1, <4>3
        <5>2. j \in Committed(v)
          BY <3>2, <4>1, <5>1 DEF Committed
        <5> QED
          BY <1>2, <2>1, <2>3, <5>1, <5>2 DEF UploadOK
      <4> QED
        BY <4>2, <4>3
    <3>3. row'[v] = row[v] /\ manifest'[v] = manifest[v] /\ objects'[v] = objects[v]
          /\ manifest[v] = c /\ c # NoContent
      BY <1>2, <1>6, <2>3
    <3> QED
      BY <2>1, <3>1, <3>2, <3>3 DEF UploadOK
  <2>4. work'[v] = work[v] \/ (v = u /\ k \notin Committed(u))
    <3>1. CASE v # u
      BY <1>t, <1>9, <3>1 DEF TypeOK
    <3>2. CASE v = u
      BY <1>8, <3>2
    <3> QED
      BY <3>1, <3>2
  <2> QED
    BY <2>2, <2>3, <2>4
<1>12. AttemptOK(w)'
  <2>1. worker'[w].on = u /\ worker'[w].ordinal = k + 1 /\ ~worker'[w].tx
        /\ worker'[w].at = "segmenting" /\ worker'[w].content = c
    BY <1>2, <1>7 DEF At, SameContent
  <2>2. \A j \in Ordinals : work'[u][j].from # NoContent => j \in Committed(worker[w].on)'
    BY <2>1 DEF Committed
  <2>3. k \in Committed(worker[w].on)'
    BY <1>2, <1>4, <1>9, <2>2
  <2>4. \A j \in Committed(u) : j \in Committed(worker[w].on)'
    BY <1>1, <1>9, <2>1, <2>2 DEF Committed
  <2>5. 1..(worker'[w].ordinal - 1) \subseteq Committed(worker[w].on)'
    BY <1>1, <1>2, <2>1, <2>3, <2>4
  <2>6. manifest'[worker'[w].on] = c /\ c # NoContent
    BY <1>2, <1>6, <2>1
  <2>7. worker'[w].ordinal <= Candidates[worker'[w].content] + 1
    BY <1>1, <1>2, <1>3, <2>1
  <2> QED
    BY <2>1, <2>5, <2>6, <2>7 DEF AttemptOK, Own, Decided, Segmenting, Failures
<1>13. Inv'
  BY <1>t, <1>6, <1>7, <1>9, <1>10, <1>11, <1>12, FilesStep DEF TypeOK
<1> QED
  BY <1>1, <1>2, <1>4, <1>6, <1>8, <1>13

-----------------------------------------------------------------------------
(* The reconciler, the clock and transcription.                            *)

\* The utterances of an upload whose segmentation has been published.
LEMMA AllCommitted ==
  ASSUME Inv, NEW u \in Uploads, row[u].expected # NoCount
  PROVE  /\ row[u].expected \in Nat
         /\ manifest[u] # NoContent
         /\ row[u].expected = Candidates[manifest[u]]
         /\ Committed(u) = 1..row[u].expected
         /\ Cardinality(Committed(u)) = row[u].expected
<1> DEFINE n == row[u].expected
<1>1. UploadOK(u) /\ row[u] \in Row
  BY DEF Inv, TypeOK
<1>2. n \in Nat
  BY <1>1 DEF Row
<1>3. manifest[u] # NoContent /\ n = Candidates[manifest[u]] /\ 1..n \subseteq Committed(u)
  BY <1>1 DEF UploadOK
<1>4. \A k \in Committed(u) : k \in Nat \ {0} /\ k <= n
  BY <1>1, <1>3, OrdinalsAreNumbers DEF UploadOK, Committed
<1> HIDE DEF n
<1>5. Committed(u) = 1..n
  <2>1. Committed(u) \subseteq 1..n
    BY <1>2, <1>4
  <2> QED
    BY <1>3, <2>1
<1>6. Cardinality(Committed(u)) = n
  BY <1>2, <1>5, CountTo
<1> QED
  BY <1>2, <1>3, <1>5, <1>6 DEF n

LEMMA WaitingOutcome ==
  ASSUME Inv, NEW u \in Uploads, row[u].state = "waiting_stt"
  PROVE  \/ Outcome(u) = row[u]
         \/ Outcome(u) = Failed(row[u], "other")
         \/ AllSatisfied(u) /\ Outcome(u) = [row[u] EXCEPT !.state = "succeeded"]
<1>1. row[u].expected # NoCount /\ row[u].expected > 0
  BY DEF Inv, UploadOK
<1>2. row[u].expected \in Nat /\ Cardinality(Committed(u)) = row[u].expected
  BY <1>1, AllCommitted
<1>3. /\ ~(row[u].expected <= 0)
      /\ ~(Cardinality(Committed(u)) > row[u].expected)
      /\ ~(Cardinality(Committed(u)) < row[u].expected)
  BY <1>1, <1>2
<1>4. Outcome(u) = IF AnyFailed(u) THEN Failed(row[u], "other")
                   ELSE IF AllSatisfied(u) THEN [row[u] EXCEPT !.state = "succeeded"]
                   ELSE row[u]
  BY <1>3 DEF Outcome
<1> QED
  BY <1>4

\* Rows of uploads that no transaction has locked, or as they are for those that have.
LEMMA UnlockedRows ==
  ASSUME Inv,
         \A u \in Uploads : row[u].state = "claimed" /\ ~Unlocked(u) =>
                              row'[u].state = row[u].state /\ row'[u].tries = row[u].tries
  PROVE  LocksHold
<1> SUFFICES ASSUME NEW w \in Workers, worker[w].tx
             PROVE  LET u == worker[w].on
                    IN row'[u].state = row[u].state /\ row'[u].tries = row[u].tries
  BY DEF LocksHold
<1>1. worker[w] \in Task \cup {Idle} /\ worker[w] # Idle /\ AttemptOK(w)
  BY DEF Inv, TypeOK, Idle
<1>2. worker[w].on \in Uploads /\ worker[w].at # "idle"
  BY <1>1 DEF Task, Working, Publishing, Failures
<1>3. row[worker[w].on].state = "claimed" /\ ~Unlocked(worker[w].on)
  BY <1>1, <1>2 DEF AttemptOK, Unlocked
<1> QED
  BY <1>2, <1>3

LEMMA ReconcilerSteps ==
  ASSUME Inv,
         ReconcilerStep \/ LoseWake \/ \E u \in Uploads : TimePasses(u)
  PROVE  Inv'
<1>t. TypeOK /\ (\A u \in Uploads : UploadOK(u) /\ row[u] \in Row)
  BY DEF Inv, TypeOK
<1>1. UNCHANGED <<objects, manifest, work, worker>>
  BY DEF ReconcilerStep, StartPass, EnsureWake, PassFails, Converge, LoseWake, TimePasses
<1>2. wake' \in BOOLEAN /\ pass' \in [at : {"resting", "converging"}, todo : SUBSET Uploads]
  <2>p. pass \in [at : {"resting", "converging"}, todo : SUBSET Uploads] /\ wake \in BOOLEAN
    BY <1>t DEF TypeOK
  <2>1. CASE StartPass
    BY <2>p, <2>1 DEF StartPass
  <2>2. CASE EnsureWake \/ PassFails
    <3>1. pass' = Resting
      BY <2>2 DEF EnsureWake, PassFails
    <3>2. Resting \in [at : {"resting", "converging"}, todo : SUBSET Uploads]
      BY DEF Resting
    <3>3. wake' = wake \/ wake' = (wake \/ \E u \in Uploads : Claimable(u))
      BY <2>2 DEF EnsureWake, PassFails
    <3>4. wake' \in BOOLEAN
      BY <2>p, <3>3, Zenon
    <3> QED
      BY <3>1, <3>2, <3>4
  <2>3. CASE \E u \in Uploads : Converge(u)
    BY <2>p, <2>3 DEF Converge
  <2>4. CASE LoseWake \/ \E u \in Uploads : TimePasses(u)
    BY <2>p, <2>4 DEF LoseWake, TimePasses
  <2> QED
    BY <2>1, <2>2, <2>3, <2>4 DEF ReconcilerStep
<1>3. ASSUME row' \in [Uploads -> Row],
             \A u \in Uploads : row[u].state = "claimed" /\ ~Unlocked(u) =>
                                  row'[u].state = row[u].state /\ row'[u].tries = row[u].tries,
             \A u \in Uploads : UploadOK(u)'
      PROVE  Inv'
  <2>1. LocksHold
    BY <1>3, UnlockedRows
  <2> QED
    BY <1>t, <1>1, <1>2, <1>3, <2>1, RowsStep DEF TypeOK
<1>4. CASE row' = row
  <2>1. \A u \in Uploads : UploadOK(u)'
    BY <1>t, <1>1, <1>4, RowChange DEF UploadOK
  <2> QED
    BY <1>t, <1>3, <1>4, <2>1 DEF TypeOK
<1>5. CASE StartPass
  <2>1. ASSUME NEW u \in Uploads
        PROVE  /\ row'[u] \in Row /\ UploadOK(u)'
               /\ row[u].state = "claimed" => row'[u] = row[u]
    <3>1. row'[u] = row[u] \/ (row[u].state = "missing"
                                /\ row'[u] = [row[u] EXCEPT !.state = "pending"])
      BY <1>5 DEF StartPass
    <3>2. row'[u] \in Row
      BY <1>t, <3>1, RowMoves DEF RowStates
    <3>3. /\ row'[u].media = row[u].media /\ row'[u].expected = row[u].expected
          /\ row'[u].error = row[u].error
          /\ row'[u].state = row[u].state \/ row'[u].state = "pending"
      BY <1>t, <3>1 DEF Row
    <3>4. UploadOK(u)'
      BY <1>t, <1>1, <3>3, RowChange DEF UploadOK
    <3> QED
      BY <3>1, <3>2, <3>4
  <2>2. row' \in [Uploads -> Row]
    BY <1>5, <2>1 DEF StartPass
  <2> QED
    BY <1>3, <2>1, <2>2
<1>6. ASSUME NEW u \in Uploads, TimePasses(u) PROVE Inv'
  <2> DEFINE r == [row[u] EXCEPT !.ripe = TRUE]
  <2>1. r \in Row
    BY <1>t, RowMoves
  <2>2. row' = [row EXCEPT ![u] = r]
    BY <1>6 DEF TimePasses
  <2>3. r.state = row[u].state /\ r.tries = row[u].tries /\ r.media = row[u].media
        /\ r.expected = row[u].expected /\ r.error = row[u].error
    BY <1>t DEF Row
  <2> HIDE DEF r
  <2>4. OnlyRow(u, r)
    BY <1>t, <2>1, <2>2, RowStep
  <2>5. ASSUME NEW v \in Uploads
        PROVE  UploadOK(v)' /\ row'[v].state = row[v].state /\ row'[v].tries = row[v].tries
    <3>1. row'[v] = row[v] \/ (v = u /\ row'[v] = r)
      BY <2>4 DEF OnlyRow
    <3> QED
      BY <1>t, <1>1, <2>3, <3>1, RowChange DEF UploadOK
  <2> QED
    BY <1>3, <2>4, <2>5 DEF OnlyRow
<1>7. ASSUME NEW u \in Uploads, Converge(u), row[u].state = "waiting_stt",
             row' = [row EXCEPT ![u] = Outcome(u)]
      PROVE  Inv'
  <2>1. \/ Outcome(u) = row[u]
        \/ Outcome(u) = Failed(row[u], "other")
        \/ AllSatisfied(u) /\ Outcome(u) = [row[u] EXCEPT !.state = "succeeded"]
    BY <1>7, WaitingOutcome
  <2>2. Outcome(u) \in Row
    <3>1. "other" \in Errors /\ "succeeded" \in RowStates /\ row[u] \in Row
      BY <1>t DEF Errors, RowStates
    <3>2. Failed(row[u], "other") \in Row /\ [row[u] EXCEPT !.state = "succeeded"] \in Row
      BY <3>1, RowMoves
    <3> QED
      BY <2>1, <3>1, <3>2
  <2>3. OnlyRow(u, Outcome(u))
    BY <1>t, <1>7, <2>2, RowStep
  <2>4. ASSUME NEW v \in Uploads
        PROVE  UploadOK(v)' /\ (row[v].state = "claimed" => row'[v] = row[v])
    <3>1. CASE row'[v] = row[v]
      BY <1>t, <1>1, <3>1, RowChange DEF UploadOK
    <3>2. CASE v = u /\ row'[v] = Failed(row[v], "other")
      <4>1. row'[v].state = "failed" /\ row'[v].error = "other"
            /\ row'[v].media = row[v].media /\ row'[v].expected = row[v].expected
        BY <1>t, <3>2 DEF Failed, Row
      <4> QED
        BY <1>1, <1>7, <3>2, <4>1, RowChange
    <3>3. CASE v = u /\ AllSatisfied(u) /\ row'[v] = [row[v] EXCEPT !.state = "succeeded"]
      <4>1. row'[v].state = "succeeded" /\ row'[v].error = row[v].error
            /\ row'[v].media = row[v].media /\ row'[v].expected = row[v].expected
        BY <1>t, <3>3 DEF Row
      <4>2. Committed(v)' = Committed(v)
        BY <1>1 DEF Committed
      <4>3. UploadOK(v)'
        BY <1>t, <1>1, <1>7, <3>3, <4>1, <4>2 DEF UploadOK, AllSatisfied
      <4> QED
        BY <1>7, <3>3, <4>3
    <3> QED
      BY <2>1, <2>3, <3>1, <3>2, <3>3 DEF OnlyRow
  <2> QED
    BY <1>3, <2>3, <2>4 DEF OnlyRow
<1> QED
  BY <1>4, <1>5, <1>6, <1>7
  DEF ReconcilerStep, EnsureWake, PassFails, Converge, LoseWake

LEMMA TranscriptionSteps ==
  ASSUME Inv, NEW u \in Uploads, NEW k \in Ordinals, Settle(u, k) \/ Replay(u, k)
  PROVE  Inv' /\ UNCHANGED <<row, manifest>> /\ \A v \in Uploads : Committed(v)' = Committed(v)
<1>t. TypeOK
  BY DEF Inv
<1>1. UNCHANGED <<row, objects, manifest, worker, wake, pass>>
  BY DEF Settle, Replay
<1>2. PICK s \in Slot : /\ OnlySlot(u, k, s)
                        /\ s.from = work[u][k].from
                        /\ work[u][k].replayed => s.replayed
                        /\ work[u][k].stt # "open" => s.replayed
  BY <1>t, SettleStep
<1>3. \A v \in Uploads, j \in Ordinals :
        /\ work'[v][j].from = work[v][j].from
        /\ \/ work[v][j].stt \in {"text", "silence"} \/ work[v][j].replayed
           => work'[v][j].stt \in {"text", "silence"} \/ work'[v][j].replayed
  <2>1. work[u][k].stt \in {"text", "silence"} => work[u][k].stt # "open"
    OBVIOUS
  <2> QED
    BY <1>2, <2>1 DEF OnlySlot
<1>4. \A v \in Uploads : Committed(v)' = Committed(v)
  BY <1>3 DEF Committed
<1>5. ASSUME NEW v \in Uploads PROVE UploadOK(v)'
  <2>1. UploadOK(v)
    BY DEF Inv
  <2>2. \A j \in Committed(v) : j \in Ordinals
    BY DEF Committed
  <2> QED
    BY <1>1, <1>3, <1>4, <2>1, <2>2 DEF UploadOK
<1>6. Grows /\ LocksHold
  BY <1>1, <1>4 DEF Grows, LocksHold
<1>7. \A w \in Workers : AttemptOK(w)'
  BY <1>1, <1>6, AttemptKept
<1>8. TypeOK'
  BY <1>t, <1>1, <1>2 DEF TypeOK, OnlySlot
<1> QED
  BY <1>1, <1>4, <1>5, <1>7, <1>8 DEF Inv

LEMMA InvStep == Inv /\ [Next]_vars => Inv'
<1> SUFFICES ASSUME Inv, [Next]_vars PROVE Inv'
  OBVIOUS
<1>1. ASSUME NEW w \in Workers, WorkerStep(w) PROVE Inv'
  BY <1>1, QuietSteps, TakeWakeStep, ProjectStep, LinkObjectStep, LinkManifestStep,
     FinishInstallStep, CommitCandidateStep, PublishStep, RecordStep
  DEF WorkerStep, AttemptStep
<1>2. ASSUME NEW u \in Uploads, NEW k \in Ordinals, Settle(u, k) \/ Replay(u, k) PROVE Inv'
  BY <1>2, TranscriptionSteps
<1>3. CASE UNCHANGED vars
  BY <1>3 DEF vars, Inv, TypeOK, UploadOK, AttemptOK, Committed
<1> QED
  BY <1>1, <1>2, <1>3, ReconcilerSteps DEF Next

LEMMA InvAlways == Spec => []Inv
<1> QED
  BY InvInitially, InvStep, PTL DEF Spec

\* Every variable keeps its shape, whatever the uploads, workers and contents.
THEOREM TypeCorrect == Spec => []TypeOK
<1>1. Inv => TypeOK
  BY DEF Inv
<1> QED
  BY <1>1, InvAlways, PTL

\* Everything that exists of an upload comes from the one normalization its manifest
\* names, and its object is there, however installers race.
THEOREM NormalizationIsOne == Spec => []OneNormalization
<1>1. Inv => OneNormalization
  BY DEF Inv, UploadOK, OneNormalization
<1> QED
  BY <1>1, InvAlways, PTL

-----------------------------------------------------------------------------
(* Drifted evidence.                                                       *)

\* The steps of an attempt that loaded no normalization and has projected none, and
\* the drift that it may find.
NotYet == {"normalizing", "prepared", "linking", "linked", "checked", "installed",
           "projecting", "drift"}

\* The claims of an upload have different tokens, none beyond the last, and nothing is
\* projected while the owner of the claim has a normalization of its own to project.
ClaimOK(w) ==
  LET u == worker[w].on
  IN worker[w].at # "idle" =>
       /\ worker[w].try <= row[u].tries
       /\ \A v \in Workers \ {w} :
            worker[v].at # "idle" /\ worker[v].on = u => worker[v].try # worker[w].try
       /\ worker[w].at \in NotYet /\ OwnsClaim(w) => row[u].media = NoContent

DriftOK(u) ==
  row[u].error = "drift" =>
    row[u].state = "failed" /\ row[u].media = NoContent /\ manifest[u] # NoContent

DriftInv == (\A w \in Workers : ClaimOK(w)) /\ (\A u \in Uploads : DriftOK(u))

\* Where a step leads the worker that makes it, apart from taking a wake: out of its
\* attempt, or on in it, and into NotYet only while nothing is projected.
Onward(w) ==
  \/ worker'[w].at = "idle"
  \/ /\ worker[w].at # "idle"
     /\ worker'[w].on = worker[w].on /\ worker'[w].try = worker[w].try
     /\ worker'[w].at \in NotYet =>
          worker[w].at \in NotYet \/ row[worker[w].on].media = NoContent

\* What a row goes through, apart from being claimed.
RowGoesOn(u) ==
  /\ row'[u].tries = row[u].tries
  /\ row'[u].state = "claimed" => row[u].state = "claimed"

\* A worker that has an attempt and keeps it, whose row may be projected by another.
LEMMA ClaimKept ==
  ASSUME TypeOK, DriftInv, NEW w \in Workers, ClaimOK(w),
         \A v \in Workers : worker'[v].at # "idle" =>
           /\ worker[v].at # "idle"
           /\ worker'[v].on = worker[v].on /\ worker'[v].try = worker[v].try,
         \A u \in Uploads : RowGoesOn(u),
         Onward(w),
         LET u == worker[w].on
         IN worker'[w].at \in NotYet /\ OwnsClaim(w) => row'[u].media = row[u].media
  PROVE  ClaimOK(w)'
<1> SUFFICES ASSUME worker'[w].at # "idle" PROVE ClaimOK(w)'
  BY DEF ClaimOK
<1> DEFINE u == worker[w].on
<1>1. /\ worker[w].at # "idle" /\ u \in Uploads
      /\ worker'[w].on = u /\ worker'[w].try = worker[w].try
  BY AtWork
<1>2. RowGoesOn(u)
  BY <1>1
<1>3. worker'[w].try <= row'[u].tries
  BY <1>1, <1>2 DEF ClaimOK, RowGoesOn
<1>4. ASSUME NEW v \in Workers \ {w}, worker'[v].at # "idle", worker'[v].on = u
      PROVE  worker'[v].try # worker'[w].try
  BY <1>1, <1>4 DEF ClaimOK
<1>5. ASSUME worker'[w].at \in NotYet, OwnsClaim(w)'
      PROVE  row'[u].media = NoContent
  <2>1. row'[u].state = "claimed" /\ row'[u].tries = worker'[w].try
    BY <1>1, <1>5 DEF OwnsClaim
  <2>2. OwnsClaim(w)
    BY <1>1, <1>2, <2>1 DEF OwnsClaim, RowGoesOn
  <2>3. worker[w].at \in NotYet \/ row[u].media = NoContent
    BY <1>5 DEF Onward, NotYet
  <2>4. row[u].media = NoContent
    BY <1>1, <2>2, <2>3 DEF ClaimOK
  <2> QED
    BY <1>5, <2>2, <2>4
<1> QED
  BY <1>1, <1>3, <1>4, <1>5 DEF ClaimOK

\* The steps of an attempt in memory, in the file system and in the utterances.
LEMMA OnwardSteps ==
  ASSUME Inv, Inv', NEW w \in Workers,
         AttemptStep(w) \/ Fail(w) \/ LoseConnection(w) \/ Crash(w)
  PROVE  /\ Onward(w)
         /\ \A v \in Workers \ {w} : worker'[v] = worker[v]
<1>t. TypeOK /\ AttemptOK(w) /\ AttemptOK(w)'
  BY DEF Inv
<1>1. \A v \in Workers \ {w} : worker'[v] = worker[v]
  BY <1>t
  DEF AttemptStep, CheckSource, LoadNormalized, GoTo, Breaks, ProjectOrphan, Normalize,
      BeginPublication, LinkObject, CheckObject, LinkManifest, FinishInstall,
      CommitPublication, VerifyCommitted, NextCandidate, CommitCandidate, CountUtterances,
      PublishResult, Stale, RecordError, Fail, LoseConnection, Crash, TypeOK
<1> SUFFICES Onward(w)
  BY <1>1
<1>2. worker[w].at # "idle" => worker[w] \in Task /\ worker[w].on \in Uploads
  BY <1>t, AtWork
<1>3. CASE Stale(w) \/ RecordError(w) \/ Crash(w)
  <2>1. worker'[w] = Idle
    BY <1>t, <1>3, IdleStep DEF Stale, RecordError, Crash
  <2> QED
    BY <2>1 DEF Onward, Idle
<1>4. ASSUME NEW stage \in Working \cup Failures, NEW tx, At(w, stage, tx),
             worker[w].at # "idle", stage \notin NotYet \/ worker[w].at \in NotYet
      PROVE  Onward(w)
  BY <1>4 DEF At, Onward
\* A worker whose content is the one the manifest names finds no drift.
<1>5. ASSUME worker[w].at \in Decided, worker'[w].at = "drift", SameContent(w),
             At(w, "drift", FALSE), UNCHANGED manifest
      PROVE  FALSE
  BY <1>t, <1>5 DEF AttemptOK, At, SameContent, Decided
<1>6. CASE CheckSource(w)
  BY <1>2, <1>4, <1>6, <1>t, GoToStep DEF CheckSource, Working, NotYet
<1>7. CASE LoadNormalized(w)
  <2> DEFINE u == worker[w].on
             known == IF row[u].media # NoContent THEN row[u].media ELSE manifest[u]
  <2>1. worker[w] \in Task /\ u \in Uploads /\ worker[w].at = "loading"
    BY <1>2, <1>7 DEF LoadNormalized
  <2>2. UploadOK(u) /\ known \in Contents \cup {NoContent}
    BY <1>t, <2>1 DEF Inv, TypeOK, Row
  <2>3. known # NoContent => Verified(u, known)
    BY <2>2 DEF UploadOK, Verified
  <2>4. \/ known = NoContent /\ GoTo(w, "normalizing")
        \/ \E s \in {"orphan", "segmenting"} :
             worker' = [worker EXCEPT ![w].content = known, ![w].at = s]
    BY <1>7, <2>3 DEF LoadNormalized
  <2>5. known = NoContent => row[u].media = NoContent
    OBVIOUS
  <2>6. CASE known = NoContent /\ GoTo(w, "normalizing")
    <3>1. At(w, "normalizing", worker[w].tx)
      BY <1>t, <2>1, <2>6, GoToStep DEF Working
    <3> QED
      BY <2>1, <2>5, <2>6, <3>1 DEF At, Onward
  <2> HIDE DEF known
  <2>7. ASSUME NEW s \in {"orphan", "segmenting"},
               worker' = [worker EXCEPT ![w].content = known, ![w].at = s]
        PROVE  Onward(w)
    <3>1. s \in Working /\ s \notin NotYet
      BY DEF Working, NotYet
    <3>2. At(w, s, worker[w].tx)
      BY <1>t, <2>1, <2>2, <2>7, <3>1, ContentStep
    <3> QED
      BY <1>4, <2>1, <3>1, <3>2
  <2> QED
    BY <2>4, <2>6, <2>7
<1>8. CASE ProjectOrphan(w) \/ CommitPublication(w) \/ VerifyCommitted(w)
           \/ CommitCandidate(w) \/ CountUtterances(w) \/ PublishResult(w)
           \/ NextCandidate(w)
  <2>1. worker[w] \in Task /\ worker[w].at \in Decided /\ worker[w].at # "idle"
    BY <1>2, <1>8 DEF ProjectOrphan, CommitPublication, VerifyCommitted, CommitCandidate,
       CountUtterances, PublishResult, NextCandidate, Decided
  <2>2. UNCHANGED manifest
    BY <1>8 DEF ProjectOrphan, CommitPublication, VerifyCommitted, CommitCandidate,
       CountUtterances, PublishResult, NextCandidate
  <2>3. ~Breaks(w, "drift")
    <3>1. SUFFICES ASSUME Breaks(w, "drift") PROVE FALSE
      OBVIOUS
    <3>2. At(w, "drift", FALSE) /\ SameContent(w)
      BY <1>t, <2>1, <3>1, BreaksStep DEF Failures
    <3> QED
      BY <1>5, <2>1, <2>2, <3>2 DEF At
  <2>4. \/ \E s \in {"segmenting", "committing", "counted"} : GoTo(w, s)
        \/ worker' = [worker EXCEPT ![w].at = "verifying", ![w].tx = FALSE]
        \/ worker' = [worker EXCEPT ![w].at = "segmenting",
                                    ![w].ordinal = worker[w].ordinal + 1]
        \/ worker' = [worker EXCEPT ![w] = Idle]
        \/ Breaks(w, "retryable")
    BY <1>8, <2>3
    DEF ProjectOrphan, CommitPublication, VerifyCommitted, CommitCandidate,
        CountUtterances, PublishResult, NextCandidate
  <2>5. ASSUME NEW s \in {"segmenting", "committing", "counted"}, GoTo(w, s)
        PROVE  Onward(w)
    BY <1>t, <1>4, <2>1, <2>5, GoToStep DEF Working, NotYet
  <2>6. CASE worker' = [worker EXCEPT ![w].at = "verifying", ![w].tx = FALSE]
    BY <1>t, <1>4, <2>1, <2>6, LockStep DEF Working, NotYet
  <2>7. CASE worker' = [worker EXCEPT ![w].at = "segmenting",
                                      ![w].ordinal = worker[w].ordinal + 1]
    <3>1. worker[w].ordinal + 1 \in Nat \ {0}
      BY <2>1 DEF Task
    <3> QED
      BY <1>t, <1>4, <2>1, <2>7, <3>1, CandidateStep DEF Working, NotYet
  <2>8. CASE worker' = [worker EXCEPT ![w] = Idle]
    <3>1. worker'[w] = Idle
      BY <1>t, <2>8, IdleStep
    <3> QED
      BY <3>1 DEF Onward, Idle
  <2>9. CASE Breaks(w, "retryable")
    BY <1>t, <1>4, <2>1, <2>9, BreaksStep DEF Failures, NotYet
  <2> QED
    BY <2>4, <2>5, <2>6, <2>7, <2>8, <2>9
<1>9. CASE Normalize(w)
  <2>1. PICK c \in Contents : worker' = [worker EXCEPT ![w].at = "prepared", ![w].content = c]
    BY <1>9 DEF Normalize
  <2> QED
    BY <1>2, <1>4, <1>9, <1>t, <2>1, ContentStep DEF Normalize, Working, NotYet
<1>10. CASE BeginPublication(w)
  BY <1>2, <1>4, <1>10, <1>t, LockStep DEF BeginPublication, Working, Publishing, NotYet
<1>11. CASE LinkObject(w)
  BY <1>2, <1>4, <1>11, <1>t, LinkStep DEF LinkObject, Working, Publishing, NotYet
<1>12. CASE CheckObject(w) \/ LinkManifest(w)
  BY <1>2, <1>4, <1>12, <1>t, GoToStep, BreaksStep
  DEF CheckObject, LinkManifest, Working, Publishing, Failures, NotYet
<1>13. CASE FinishInstall(w)
  <2>1. manifest[worker[w].on] \in Contents \cup {NoContent}
    BY <1>2, <1>13, <1>t DEF FinishInstall, TypeOK
  <2> QED
    BY <1>2, <1>4, <1>13, <1>t, <2>1, ContentStep
    DEF FinishInstall, Working, Publishing, NotYet
<1>14. CASE Fail(w)
  <2>1. PICK failure \in {"retryable", "media", "storage"} : Breaks(w, failure)
    BY <1>14 DEF Fail
  <2> QED
    BY <1>2, <1>4, <1>14, <1>t, <2>1, BreaksStep DEF Fail, Working, Publishing, Failures, NotYet
<1>15. CASE LoseConnection(w)
  <2>1. worker[w].at # "idle" /\ worker[w] \in Task
    BY <1>15, <1>t DEF LoseConnection, TypeOK, Idle, Task, Working, Publishing, Failures
  <2>2. At(w, worker[w].at, FALSE)
    BY <1>15, <1>t, <2>1, LoseStep DEF LoseConnection
  <2> QED
    BY <2>1, <2>2 DEF At, Onward
<1> QED
  BY <1>1, <1>3, <1>6, <1>7, <1>8, <1>9, <1>10, <1>11, <1>12, <1>13, <1>14, <1>15
  DEF AttemptStep

\* What the steps of an attempt do to rows: the projection is by the owner of the claim,
\* which leaves NotYet with it, and a drift is recorded by an owner that is there.
LEMMA OnwardRows ==
  ASSUME Inv, NEW w \in Workers,
         AttemptStep(w) \/ Fail(w) \/ LoseConnection(w) \/ Crash(w)
  PROVE  LET u == worker[w].on
         IN \/ row' = row
            \/ /\ u \in Uploads /\ OwnsClaim(w) /\ RowGoesOn(u)
               /\ \A v \in Uploads \ {u} : row'[v] = row[v]
               /\ worker'[w].at \notin NotYet
               /\ \/ row'[u].error = row[u].error
                  \/ row'[u].error # "drift"
                  \/ /\ worker[w].at = "drift"
                     /\ row'[u].state = "failed" /\ row'[u].media = row[u].media
<1> DEFINE u == worker[w].on
<1>t. TypeOK /\ AttemptOK(w)
  BY DEF Inv
<1>1. CASE ProjectOrphan(w) \/ CommitPublication(w)
  <2>1. worker[w] \in Task /\ u \in Uploads
    BY <1>t, <1>1, AtWork DEF ProjectOrphan, CommitPublication
  <2>2. row[u] \in Row /\ worker[w].content \in Contents \cup {NoContent}
    BY <1>t, <2>1 DEF TypeOK, Task
  <2>3. \/ row' = row
        \/ /\ OwnsClaim(w)
           /\ \/ row' = [row EXCEPT ![u].media = worker[w].content]
              \/ row' = [row EXCEPT ![u].media = worker[w].content, ![u].ripe = FALSE]
           /\ \/ GoTo(w, "segmenting")
              \/ worker' = [worker EXCEPT ![w].at = "verifying", ![w].tx = FALSE]
    <3>1. CommitPublication(w) => worker[w].at # "idle"
      BY DEF CommitPublication
    <3> QED
      BY <1>t, <1>1, <3>1
      DEF ProjectOrphan, CommitPublication, Fenced, Current, OwnsClaim, AttemptOK
  <2>4. CASE row' # row
    <3>1. worker'[w].at \in {"segmenting", "verifying"}
      BY <1>t, <2>1, <2>3, <2>4, GoToStep, LockStep DEF At, Working
    <3>2. PICK ripe \in BOOLEAN :
            OnlyRow(u, [row[u] EXCEPT !.media = worker[w].content, !.ripe = ripe])
      BY <1>t, <2>1, <2>2, <2>3, <2>4, MediaStep
    <3>3. /\ row'[u].tries = row[u].tries /\ row'[u].state = row[u].state
          /\ row'[u].error = row[u].error
      BY <2>2, <3>2 DEF OnlyRow, Row
    <3> QED
      BY <2>1, <2>3, <2>4, <3>1, <3>2, <3>3 DEF OnlyRow, RowGoesOn, NotYet
  <2> QED
    BY <2>4
<1>2. CASE PublishResult(w)
  <2> DEFINE n == worker[w].ordinal - 1
             s == IF n = 0 THEN "succeeded" ELSE "waiting_stt"
  <2>1. worker[w] \in Task /\ u \in Uploads /\ OwnsClaim(w)
    BY <1>t, <1>2, AtWork DEF PublishResult, Fenced, Current, OwnsClaim
  <2>2. n \in Nat /\ s \in RowStates /\ row[u] \in Row /\ s # "claimed"
    BY <1>t, <2>1 DEF Task, RowStates, TypeOK
  <2>3. \/ row' = row
        \/ /\ row' = [row EXCEPT ![u].expected = n, ![u].ripe = FALSE,
                                 ![u].error = "none", ![u].state = s]
           /\ worker' = [worker EXCEPT ![w] = Idle]
    BY <1>2 DEF PublishResult
  <2> HIDE DEF n, s
  <2>4. CASE row' # row
    <3>1. worker'[w].at = "idle"
      BY <1>t, <2>3, <2>4, IdleStep DEF Idle
    <3>2. OnlyRow(u, [row[u] EXCEPT !.expected = n, !.ripe = FALSE,
                                    !.error = "none", !.state = s])
      BY <1>t, <2>1, <2>2, <2>3, <2>4, ResultStep
    <3>3. row'[u].tries = row[u].tries /\ row'[u].state = s /\ row'[u].error = "none"
      BY <2>2, <3>2 DEF OnlyRow, Row
    <3> QED
      BY <2>1, <2>2, <3>1, <3>2, <3>3 DEF OnlyRow, RowGoesOn, NotYet
  <2> QED
    BY <2>4
<1>3. CASE RecordError(w)
  <2>1. u \in Uploads /\ worker[w].at \in Failures /\ row[u] \in Row
    BY <1>t, <1>3, AtWork DEF RecordError, Failures, TypeOK
  <2>2. worker'[w].at = "idle"
    <3>1. worker'[w] = Idle
      BY <1>t, <1>3, IdleStep DEF RecordError
    <3> QED
      BY <3>1 DEF Idle
  <2>3. CASE row' # row
    <3>1. OwnsClaim(w) /\ OnlyRow(u, ErrorRow(w))
      BY <1>t, <1>3, <2>3, ErrorStep
    <3>2. /\ ErrorRow(w).tries = row[u].tries /\ ErrorRow(w).state \in {"retry_wait", "failed"}
          /\ ErrorRow(w).media = row[u].media
          /\ ErrorRow(w).error = "drift" =>
               worker[w].at = "drift" /\ ErrorRow(w).state = "failed"
      BY <2>1 DEF ErrorRow, Failed, Code, Row, Failures
    <3> QED
      BY <2>1, <2>2, <3>1, <3>2 DEF OnlyRow, RowGoesOn, NotYet
  <2> QED
    BY <2>3
<1>4. CASE row' = row
  BY <1>4
<1> QED
  BY <1>1, <1>2, <1>3, <1>4
  DEF AttemptStep, CheckSource, LoadNormalized, Normalize, BeginPublication,
      LinkObject, CheckObject, LinkManifest, FinishInstall, VerifyCommitted, NextCandidate,
      CommitCandidate, CountUtterances, Stale, Fail, LoseConnection, Crash

\* Manifests stay once they are there.
LEMMA ManifestStays ==
  ASSUME [Next]_vars, NEW u \in Uploads, manifest[u] # NoContent
  PROVE  manifest'[u] = manifest[u]
<1>1. ASSUME NEW w \in Workers, LinkManifest(w) PROVE manifest'[u] = manifest[u]
  BY <1>1 DEF LinkManifest, FirstWins
<1>2. CASE UNCHANGED manifest
  BY <1>2
<1> QED
  BY <1>1, <1>2
  DEF Next, vars, WorkerStep, AttemptStep, TakeWake, CheckSource, LoadNormalized,
      ProjectOrphan, Normalize, BeginPublication, LinkObject, CheckObject, FinishInstall,
      CommitPublication, VerifyCommitted, NextCandidate, CommitCandidate, CountUtterances,
      PublishResult, Stale, RecordError, Fail, LoseConnection, Crash, ReconcilerStep,
      StartPass, EnsureWake, PassFails, Converge, LoseWake, TimePasses, Settle, Replay

LEMMA DriftOnward ==
  ASSUME Inv, Inv', DriftInv, [Next]_vars, NEW w \in Workers,
         AttemptStep(w) \/ Fail(w) \/ LoseConnection(w) \/ Crash(w)
  PROVE  DriftInv'
<1> DEFINE u == worker[w].on
<1>t. TypeOK /\ AttemptOK(w)
  BY DEF Inv
<1>1. Onward(w) /\ \A v \in Workers \ {w} : worker'[v] = worker[v]
  BY OnwardSteps
<1>2. \/ row' = row
      \/ /\ u \in Uploads /\ OwnsClaim(w) /\ RowGoesOn(u)
         /\ \A v \in Uploads \ {u} : row'[v] = row[v]
         /\ worker'[w].at \notin NotYet
         /\ \/ row'[u].error = row[u].error
            \/ row'[u].error # "drift"
            \/ /\ worker[w].at = "drift"
               /\ row'[u].state = "failed" /\ row'[u].media = row[u].media
  BY OnwardRows
<1>3. \A v \in Uploads : RowGoesOn(v)
  BY <1>2 DEF RowGoesOn
<1>4. \A v \in Workers : worker'[v].at # "idle" =>
        /\ worker[v].at # "idle"
        /\ worker'[v].on = worker[v].on /\ worker'[v].try = worker[v].try
  BY <1>1 DEF Onward
<1>5. ASSUME NEW v \in Workers PROVE ClaimOK(v)'
  <2>1. Onward(v)
    BY <1>1 DEF Onward
  <2>2. ASSUME worker'[v].at \in NotYet, OwnsClaim(v)
        PROVE  row'[worker[v].on].media = row[worker[v].on].media
    <3>1. CASE row' = row
      BY <3>1
    <3>2. CASE row' # row
      <4>1. v # w /\ OwnsClaim(w) /\ u \in Uploads
        BY <1>2, <2>2, <3>2
      <4>2. worker[v].at # "idle" /\ worker[v].on \in Uploads
        BY <1>4, <1>t, <2>2, AtWork DEF NotYet
      <4>3. worker[w].at # "idle"
        <5>1. u # NoUpload
          BY <4>1, MediaAssumption DEF NoUpload
        <5>2. worker[w] # Idle
          BY <5>1 DEF Idle
        <5>3. worker[w] \in Task
          BY <1>t, <5>2 DEF TypeOK
        <5> QED
          BY <5>3 DEF Task, Working, Publishing, Failures
      <4>4. worker[v].on # u
        BY <2>2, <4>1, <4>2, <4>3 DEF DriftInv, ClaimOK, OwnsClaim
      <4> QED
        BY <1>2, <3>2, <4>2, <4>4
    <3> QED
      BY <3>1, <3>2
  <2>3. ClaimOK(v)
    BY DEF DriftInv
  <2> QED
    BY <1>3, <1>4, <1>t, <2>1, <2>2, <2>3, ClaimKept
<1>6. ASSUME NEW v \in Uploads, row'[v].error = "drift" PROVE DriftOK(v)'
  <2>1. CASE row'[v] = row[v]
    BY <1>6, <2>1, ManifestStays DEF DriftInv, DriftOK
  <2>2. CASE v = u /\ OwnsClaim(w) /\ worker[w].at = "drift"
             /\ row'[u].state = "failed" /\ row'[u].media = row[u].media
    <3>1. row[u].media = NoContent
      BY <2>2 DEF DriftInv, ClaimOK, NotYet
    <3>2. manifest[u] # NoContent
      BY <1>t, <2>2 DEF AttemptOK
    <3> QED
      BY <2>2, <3>1, <3>2, ManifestStays DEF DriftOK
  <2>3. CASE v = u /\ OwnsClaim(w) /\ row'[u].error = row[u].error
    <3>1. row[u].state = "failed"
      BY <1>6, <2>3 DEF DriftInv, DriftOK
    <3> QED
      BY <2>3, <3>1 DEF OwnsClaim
  <2> QED
    BY <1>2, <1>6, <2>1, <2>2, <2>3
<1> QED
  BY <1>5, <1>6 DEF DriftInv, DriftOK

\* A wake is taken: the claimed row gets a token that no attempt has.
LEMMA DriftTakeWake ==
  ASSUME Inv, Inv', DriftInv, [Next]_vars, NEW w \in Workers, TakeWake(w)
  PROVE  DriftInv'
<1>t. TypeOK
  BY DEF Inv
<1>1. UNCHANGED manifest /\ worker[w] = Idle
  BY DEF TakeWake
<1>2. PICK claimed \in Uploads \cup {NoUpload} :
        /\ Scan(claimed)
        /\ \/ claimed = NoUpload /\ UNCHANGED worker
           \/ /\ claimed \in Uploads /\ claimed \in Offered
              /\ worker' = [worker EXCEPT ![w] =
                   [Idle EXCEPT !.at = "claimed", !.on = claimed,
                                !.try = row[claimed].tries + 1]]
  BY DEF TakeWake, Claim
<1>3. ASSUME NEW u \in Uploads
      PROVE  /\ row[u] \in Row
             /\ row'[u].media = row[u].media
             /\ u # claimed => /\ RowGoesOn(u)
                               /\ \/ row'[u] = row[u]
                                  \/ row'[u].error = "other"
             /\ u = claimed => /\ row'[u].tries = row[u].tries + 1
                               /\ row'[u].error = "none"
  <2>1. row[u] \in Row
    BY <1>t DEF TypeOK
  <2>2. CASE u = claimed
    <3>1. row'[u] = [row[u] EXCEPT !.state = "claimed", !.tries = @ + 1,
                                   !.ripe = FALSE, !.error = "none"]
      BY <1>2, <2>2 DEF Scan
    <3> QED
      BY <2>1, <2>2, <3>1 DEF Row
  <2>3. CASE u # claimed
    <3>1. row'[u] = row[u] \/ row'[u] = Failed(row[u], "other")
      BY <1>2, <2>3 DEF Scan
    <3> QED
      BY <2>1, <2>3, <3>1 DEF Row, Failed, RowGoesOn
  <2> QED
    BY <2>2, <2>3
<1>4. ASSUME NEW u \in Uploads PROVE DriftOK(u)'
  <2>1. CASE row'[u] = row[u]
    BY <1>1, <2>1 DEF DriftInv, DriftOK
  <2>2. CASE row'[u].error \in {"none", "other"}
    BY <2>2 DEF DriftOK
  <2> QED
    BY <1>3, <2>1, <2>2
<1>5. \A v \in Workers \ {w} : worker'[v] = worker[v]
  BY <1>2, <1>t DEF TypeOK
<1>6. worker'[w] = worker[w]
      \/ /\ claimed \in Uploads /\ worker'[w].at = "claimed" /\ worker'[w].on = claimed
         /\ worker'[w].try = row[claimed].tries + 1
  <2>1. ASSUME claimed \in Uploads,
               worker' = [worker EXCEPT ![w] =
                   [Idle EXCEPT !.at = "claimed", !.on = claimed,
                                !.try = row[claimed].tries + 1]]
        PROVE  /\ worker'[w].at = "claimed" /\ worker'[w].on = claimed
               /\ worker'[w].try = row[claimed].tries + 1
    BY <1>t, <2>1 DEF TypeOK, Idle
  <2> QED
    BY <1>2, <2>1
<1>7. ASSUME NEW v \in Workers, worker[v].at # "idle"
      PROVE  /\ worker[v].on \in Uploads
             /\ worker[v].try \in Nat /\ row[worker[v].on].tries \in Nat
             /\ worker[v].try <= row[worker[v].on].tries
             /\ v # w
  <2>1. worker[v] \in Task /\ worker[v].on \in Uploads
    BY <1>t, <1>7, AtWork
  <2>2. worker[v].try \in Nat /\ row[worker[v].on].tries \in Nat
    <3>1. worker[v].try \in 1..MaxAttempts
      BY <2>1 DEF Task
    <3>2. row[worker[v].on].tries \in 0..MaxAttempts
      BY <1>3, <2>1 DEF Row
    <3> QED
      BY <3>1, <3>2, MediaAssumption
  <2>3. worker[v].try <= row[worker[v].on].tries
    BY <1>7 DEF DriftInv, ClaimOK
  <2>4. v # w
    BY <1>1, <1>7 DEF Idle
  <2> QED
    BY <2>1, <2>2, <2>3, <2>4
<1>8. ASSUME NEW v \in Workers \ {w} PROVE ClaimOK(v)'
  <2> SUFFICES ASSUME worker[v].at # "idle" PROVE ClaimOK(v)'
    BY <1>5 DEF ClaimOK
  <2> DEFINE u == worker[v].on
  <2>1. /\ u \in Uploads /\ worker[v].try \in Nat /\ row[u].tries \in Nat
        /\ worker[v].try <= row[u].tries /\ worker'[v] = worker[v] /\ ClaimOK(v)
    BY <1>5, <1>7 DEF DriftInv
  <2>2. row'[u].tries \in {row[u].tries, row[u].tries + 1} /\ row'[u].media = row[u].media
    BY <1>3, <2>1 DEF RowGoesOn
  <2>3. OwnsClaim(v)' => OwnsClaim(v)
    BY <1>3, <2>1 DEF OwnsClaim, RowGoesOn
  <2>4. ASSUME NEW x \in Workers \ {v}, worker'[x].at # "idle", worker'[x].on = u
        PROVE  worker'[x].try # worker'[v].try
    <3>1. CASE worker'[x] = worker[x]
      BY <2>1, <2>4, <3>1 DEF ClaimOK
    <3>2. CASE x = w /\ worker'[w].try = row[u].tries + 1
      BY <2>1, <3>2
    <3> QED
      BY <1>5, <1>6, <2>4, <3>1, <3>2
  <2> QED
    BY <2>1, <2>2, <2>3, <2>4 DEF ClaimOK
<1>9. ClaimOK(w)'
  <2>1. CASE worker'[w] = worker[w]
    BY <1>1, <2>1 DEF ClaimOK, Idle
  <2>2. CASE /\ claimed \in Uploads /\ worker'[w].at = "claimed" /\ worker'[w].on = claimed
             /\ worker'[w].try = row[claimed].tries + 1
    <3>1. row'[claimed].tries = row[claimed].tries + 1 /\ row[claimed].tries \in Nat
      BY <1>3, <2>2, MediaAssumption DEF Row
    <3>2. ASSUME NEW v \in Workers \ {w}, worker'[v].at # "idle", worker'[v].on = claimed
          PROVE  worker'[v].try # worker'[w].try
      BY <1>5, <1>7, <2>2, <3>1, <3>2
    <3> QED
      BY <2>2, <3>1, <3>2 DEF ClaimOK, NotYet
  <2> QED
    BY <1>6, <2>1, <2>2
<1> QED
  BY <1>4, <1>8, <1>9 DEF DriftInv

\* The reconciler, the clock and transcription know of no drift.
LEMMA DriftElsewhere ==
  ASSUME Inv, Inv', DriftInv, [Next]_vars,
         \/ ReconcilerStep \/ LoseWake \/ \E u \in Uploads : TimePasses(u)
         \/ \E u \in Uploads, k \in Ordinals : Settle(u, k) \/ Replay(u, k)
         \/ UNCHANGED vars
  PROVE  DriftInv'
<1>t. TypeOK
  BY DEF Inv
<1>1. UNCHANGED worker
  BY DEF ReconcilerStep, StartPass, EnsureWake, PassFails, Converge, LoseWake, TimePasses,
     Settle, Replay, vars
<1>2. ASSUME NEW u \in Uploads
      PROVE  /\ RowGoesOn(u) /\ row'[u].media = row[u].media
             /\ row'[u].error = "drift" =>
                  row[u].error = "drift" /\ (row[u].state = "failed" => row'[u].state = "failed")
  <2>1. row[u] \in Row
    BY <1>t DEF TypeOK
  <2>2. \/ row'[u] = row[u]
        \/ row[u].state = "missing" /\ row'[u] = [row[u] EXCEPT !.state = "pending"]
        \/ row'[u] = [row[u] EXCEPT !.ripe = TRUE]
        \/ row[u].state = "waiting_stt" /\ row'[u] = Outcome(u)
    <3>1. CASE StartPass
      BY <3>1 DEF StartPass
    <3>2. ASSUME NEW v \in Uploads, Converge(v) PROVE row'[u] = row[u] \/
                   (row[u].state = "waiting_stt" /\ row'[u] = Outcome(u))
      BY <1>t, <3>2 DEF Converge, TypeOK
    <3>3. ASSUME NEW v \in Uploads, TimePasses(v)
          PROVE  row'[u] = row[u] \/ row'[u] = [row[u] EXCEPT !.ripe = TRUE]
      BY <1>t, <3>3 DEF TimePasses, TypeOK
    <3>4. CASE row' = row
      BY <3>4
    <3> QED
      BY <3>1, <3>2, <3>3, <3>4
      DEF ReconcilerStep, EnsureWake, PassFails, LoseWake, Settle, Replay, vars
  <2>3. CASE row'[u] = row[u]
    BY <2>3 DEF RowGoesOn
  <2>5. CASE row'[u] = [row[u] EXCEPT !.ripe = TRUE]
    BY <2>1, <2>5 DEF RowGoesOn, Row
  <2>6. CASE row[u].state = "missing" /\ row'[u] = [row[u] EXCEPT !.state = "pending"]
    BY <2>1, <2>6 DEF RowGoesOn, Row
  <2>4. CASE row[u].state = "waiting_stt" /\ row'[u] = Outcome(u)
    <3>1. \/ row'[u] = row[u]
          \/ row'[u] = Failed(row[u], "other")
          \/ row'[u] = [row[u] EXCEPT !.state = "succeeded"]
      BY <2>4, WaitingOutcome
    <3>2. CASE row'[u] = row[u]
      BY <3>2 DEF RowGoesOn
    <3>3. CASE row'[u] = Failed(row[u], "other")
      <4>1. row'[u].state = "failed" /\ row'[u].error = "other"
            /\ row'[u].tries = row[u].tries /\ row'[u].media = row[u].media
        BY <2>1, <3>3 DEF Row, Failed
      <4> QED
        BY <4>1 DEF RowGoesOn
    <3>4. CASE row'[u] = [row[u] EXCEPT !.state = "succeeded"]
      <4>1. row'[u].state = "succeeded" /\ row'[u].error = row[u].error
            /\ row'[u].tries = row[u].tries /\ row'[u].media = row[u].media
        BY <2>1, <3>4 DEF Row
      <4> QED
        BY <2>4, <4>1 DEF RowGoesOn
    <3> QED
      BY <3>1, <3>2, <3>3, <3>4
  <2> QED
    BY <2>2, <2>3, <2>4, <2>5, <2>6
<1>3. ASSUME NEW w \in Workers PROVE ClaimOK(w)'
  <2>1. ASSUME worker[w].at # "idle" PROVE worker[w].on \in Uploads
    BY <1>t, <2>1, AtWork
  <2>2. CASE worker[w].at = "idle"
    BY <1>1, <2>2 DEF ClaimOK
  <2>3. CASE worker[w].at # "idle"
    <3>1. Onward(w) /\ ClaimOK(w)
      BY <1>1, <2>3 DEF Onward, DriftInv
    <3> QED
      BY <1>1, <1>2, <1>t, <2>1, <2>3, <3>1, ClaimKept
  <2> QED
    BY <2>2, <2>3
<1>4. ASSUME NEW u \in Uploads PROVE DriftOK(u)'
  BY <1>2, <1>4, ManifestStays DEF DriftInv, DriftOK
<1> QED
  BY <1>3, <1>4 DEF DriftInv

LEMMA DriftAlways == Spec => []DriftInv
<1>1. Init => DriftInv
  BY DEF Init, DriftInv, ClaimOK, DriftOK, Idle
<1>2. Inv /\ Inv' /\ DriftInv /\ [Next]_vars => DriftInv'
  <2> SUFFICES ASSUME Inv, Inv', DriftInv, [Next]_vars PROVE DriftInv'
    OBVIOUS
  <2> QED
    BY DriftOnward, DriftTakeWake, DriftElsewhere DEF Next, WorkerStep
<1> QED
  BY <1>1, <1>2, InvAlways, PTL DEF Spec

\* Drifted evidence is seen by nobody but an installer that has lost the manifest to
\* other content, and fails an upload only while the winner's is still projected by
\* none: for any number of installers, and wherever they stop or die.
THEOREM EvidenceNeverDrifts == Spec => []NoFalseDrift
<1>1. Inv /\ DriftInv => NoFalseDrift
  <2> SUFFICES ASSUME Inv, DriftInv PROVE NoFalseDrift
    OBVIOUS
  <2>1. ASSUME NEW w \in Workers, worker[w].at = "drift"
        PROVE  manifest[worker[w].on] \notin {NoContent, worker[w].content}
    BY <2>1 DEF Inv, AttemptOK
  <2> QED
    BY <2>1 DEF DriftInv, DriftOK, NoFalseDrift
<1> QED
  BY <1>1, InvAlways, DriftAlways, PTL

\* A transcribed upload has text or silence for each of its utterances.
THEOREM TranscriptsAreComplete == Spec => []TranscriptComplete
<1>1. ASSUME Inv, NEW u \in Uploads, row[u].state = "succeeded"
      PROVE  /\ Cardinality(Committed(u)) = row[u].expected
             /\ \A k \in Committed(u) :
                  work[u][k].stt \in {"text", "silence"} \/ work[u][k].replayed
  BY <1>1, AllCommitted DEF Inv, UploadOK
<1>2. Inv => TranscriptComplete
  BY <1>1 DEF TranscriptComplete
<1> QED
  BY <1>2, InvAlways, PTL

-----------------------------------------------------------------------------
(* A claim that was taken over.                                            *)

\* A worker whose claim was taken over changes nothing in the row.
THEOREM TakenOverIsHarmless == Spec => TakenOverChangesNothing
<1> DEFINE Harmless == \A w \in Workers : \A u \in Uploads :
                         /\ worker[w].on = u
                         /\ worker'[w] # worker[w]
                         /\ row[u].state # "claimed" \/ row[u].tries # worker[w].try
                         => row'[u] = row[u]
<1>1. Inv /\ [Next]_vars => Harmless
  <2> SUFFICES ASSUME Inv, [Next]_vars, NEW w \in Workers, NEW u \in Uploads,
                      worker[w].on = u, worker'[w] # worker[w],
                      row[u].state # "claimed" \/ row[u].tries # worker[w].try
               PROVE  row'[u] = row[u]
    OBVIOUS
  <2>t. TypeOK /\ AttemptOK(w)
    BY DEF Inv
  <2>1. ~Current(w) /\ ~OwnsClaim(w)
    BY DEF Current, OwnsClaim
  <2>2. ASSUME NEW v \in Workers, WorkerStep(v) PROVE v = w
    <3>1. OthersStay(v) \/ \A x \in Workers \ {v} : worker'[x] = worker[x]
      BY <2>2, <2>t
      DEF WorkerStep, AttemptStep, TakeWake, Claim, CheckSource, LoadNormalized, GoTo, Breaks,
          ProjectOrphan, Normalize, BeginPublication, LinkObject, CheckObject, LinkManifest, FinishInstall,
          CommitPublication, VerifyCommitted, NextCandidate, CommitCandidate,
          CountUtterances, PublishResult, Stale, RecordError, Fail, LoseConnection, Crash,
          TypeOK
    <3> QED
      BY <3>1 DEF OthersStay
  <2>3. WorkerStep(w)
    BY <2>2 DEF Next, vars, ReconcilerStep, StartPass, EnsureWake, PassFails, Converge,
       LoseWake, TimePasses, Settle, Replay
  <2>4. ~TakeWake(w)
    BY MediaAssumption DEF TakeWake, Idle, NoUpload
  <2>5. CASE CommitPublication(w)
    <3>1. worker[w].at # "idle" /\ worker[w].on = u
      BY <2>5 DEF CommitPublication
    <3>2. ~worker[w].tx
      BY <2>t, <3>1 DEF AttemptOK
    <3> QED
      BY <2>5, <3>2 DEF CommitPublication
  <2>6. CASE ProjectOrphan(w) \/ PublishResult(w) \/ RecordError(w)
    BY <2>1, <2>6 DEF ProjectOrphan, PublishResult, Fenced, RecordError
  <2> QED
    BY <2>3, <2>4, <2>5, <2>6
    DEF WorkerStep, AttemptStep, CheckSource, LoadNormalized, Normalize, BeginPublication,
        LinkObject, CheckObject, LinkManifest, FinishInstall, VerifyCommitted, NextCandidate,
        CommitCandidate, CountUtterances, Stale, Fail, LoseConnection, Crash
<1> QED
  BY <1>1, InvAlways, PTL DEF Spec, TakenOverChangesNothing

-----------------------------------------------------------------------------
(* Media processing implements UploadOutcome.                              *)

StageNow == [u \in Uploads |-> StageOf(row[u])]
MadeNow == [u \in Uploads |-> Cardinality(Committed(u))]

\* A step that leaves the utterances and gives up some uploads, or none.
LEMMA GivingUp ==
  ASSUME UNCHANGED <<manifest, work>>,
         \A u \in Uploads :
           \/ StageOf(row'[u]) = StageOf(row[u])
           \/ /\ StageOf(row'[u]) = "failed"
              /\ StageOf(row[u]) \in {"preparing", "transcribing"}
  PROVE  Promise!Next
<1> DEFINE S == {u \in Uploads : StageOf(row'[u]) # StageOf(row[u])}
<1>1. MadeNow' = MadeNow
  BY DEF MadeNow, Committed
<1>2. \A u \in S : StageNow[u] \in {"preparing", "transcribing"}
  BY DEF StageNow
<1>3. StageNow' = [u \in Uploads |-> IF u \in S THEN "failed" ELSE StageNow[u]]
  BY DEF StageNow
<1>4. Promise!GiveUp(S)
  BY <1>1, <1>2, <1>3 DEF Promise!GiveUp, StageNow, MadeNow
<1> QED
  BY <1>4 DEF Promise!Next

\* A step that moves one upload, and leaves the utterances.
LEMMA Moving ==
  ASSUME UNCHANGED <<manifest, work>>, NEW u \in Uploads, NEW to,
         StageOf(row'[u]) = to,
         \A v \in Uploads \ {u} : row'[v] = row[v]
  PROVE  Promise!MoveTo(u, to)
<1>1. MadeNow' = MadeNow
  BY DEF MadeNow, Committed
<1>2. StageNow' = [StageNow EXCEPT ![u] = to]
  BY DEF StageNow
<1> QED
  BY <1>1, <1>2 DEF Promise!MoveTo, StageNow, MadeNow

LEMMA StageOfRow ==
  ASSUME NEW r \in Row
  PROVE  /\ r.state \in {"missing", "pending", "claimed", "retry_wait"}
              => StageOf(r) = "preparing"
         /\ r.state = "failed" => StageOf(r) = "failed"
         /\ r.state = "waiting_stt" => StageOf(r) = "transcribing"
         /\ r.state = "succeeded" /\ r.expected = 0 => StageOf(r) = "no_speech"
         /\ r.state = "succeeded" /\ r.expected # 0 => StageOf(r) = "transcribed"
BY DEF StageOf

\* The row of an upload moves on before its result, gives up, or keeps its result.
BeforeResult == {"missing", "pending", "claimed", "retry_wait"}
MovesOn(u) ==
  \/ row'[u].state = row[u].state /\ row'[u].expected = row[u].expected
  \/ row[u].state \in BeforeResult /\ row'[u].state \in BeforeResult \cup {"failed"}

LEMMA MovingOn ==
  ASSUME TypeOK, TypeOK', UNCHANGED <<manifest, work>>, \A u \in Uploads : MovesOn(u)
  PROVE  Promise!Next
<1>1. ASSUME NEW u \in Uploads
      PROVE  \/ StageOf(row'[u]) = StageOf(row[u])
             \/ /\ StageOf(row'[u]) = "failed"
                /\ StageOf(row[u]) \in {"preparing", "transcribing"}
  <2>1. row[u] \in Row /\ row'[u] \in Row
    BY DEF TypeOK
  <2>2. CASE row'[u].state = row[u].state /\ row'[u].expected = row[u].expected
    BY <2>2 DEF StageOf
  <2>3. CASE /\ row[u].state \in BeforeResult
             /\ row'[u].state \in BeforeResult \cup {"failed"}
    BY <2>1, <2>3, StageOfRow DEF BeforeResult
  <2> QED
    BY <2>2, <2>3 DEF MovesOn
<1> QED
  BY <1>1, GivingUp

LEMMA ScanMovesOn ==
  ASSUME TypeOK, NEW claimed, Scan(claimed), claimed \in Uploads => claimed \in Offered,
         NEW u \in Uploads
  PROVE  MovesOn(u)
<1>r. row[u] \in Row
  BY DEF TypeOK
<1>1. CASE row'[u] = row[u]
  BY <1>1 DEF MovesOn
<1>2. CASE row'[u] # row[u]
  <2>1. u \in Offered
    BY <1>2 DEF Scan
  <2>2. row[u].state \in {"pending", "claimed", "retry_wait"}
    BY <2>1 DEF Offered, Claimable
  <2>3. \/ row'[u] = Failed(row[u], "other")
        \/ row'[u] = [row[u] EXCEPT !.state = "claimed", !.tries = @ + 1,
                                    !.ripe = FALSE, !.error = "none"]
    BY <1>2 DEF Scan
  <2>4. row'[u].state \in {"claimed", "failed"}
    BY <1>r, <2>3 DEF Failed, Row
  <2> QED
    BY <2>2, <2>4 DEF MovesOn, BeforeResult
<1> QED
  BY <1>1, <1>2

\* Claims, projections, errors, the clock, and rows that are made.
LEMMA RowsImplement ==
  ASSUME Inv, Inv',
         \/ \E w \in Workers : TakeWake(w) \/ ProjectOrphan(w) \/ CommitPublication(w)
                               \/ RecordError(w)
         \/ StartPass \/ \E u \in Uploads : TimePasses(u)
  PROVE  Promise!Next
<1>t. TypeOK /\ TypeOK' /\ \A u \in Uploads : row[u] \in Row
  BY DEF Inv, TypeOK
<1>1. UNCHANGED <<manifest, work>>
  BY DEF TakeWake, ProjectOrphan, CommitPublication, RecordError, StartPass, TimePasses
<1> SUFFICES ASSUME NEW u \in Uploads PROVE MovesOn(u)
  BY <1>t, <1>1, MovingOn
<1>2. ASSUME NEW w \in Workers, TakeWake(w) PROVE MovesOn(u)
  <2>1. ASSUME NEW v \in Uploads, Claim(w, v) PROVE MovesOn(u)
    BY <1>t, <2>1, ScanMovesOn DEF Claim
  <2>2. CASE Scan(NoUpload)
    BY <1>t, <2>2, ScanMovesOn, MediaAssumption DEF NoUpload
  <2> QED
    BY <1>2, <2>1, <2>2 DEF TakeWake
<1>3. ASSUME NEW w \in Workers, ProjectOrphan(w) \/ CommitPublication(w) PROVE MovesOn(u)
  <2>1. worker[w] \in Task
    BY <1>t, <1>3, AtWork DEF ProjectOrphan, CommitPublication
  <2>2. worker[w].on \in Uploads /\ worker[w].content \in Contents \cup {NoContent}
    BY <2>1 DEF Task
  <2>3. \/ row' = row
        \/ row' = [row EXCEPT ![worker[w].on].media = worker[w].content]
        \/ row' = [row EXCEPT ![worker[w].on].media = worker[w].content,
                              ![worker[w].on].ripe = FALSE]
    BY <1>3 DEF ProjectOrphan, CommitPublication
  <2>4. \/ row'[u] = row[u]
        \/ \E ripe \in BOOLEAN :
             row'[u] = [row[u] EXCEPT !.media = worker[w].content, !.ripe = ripe]
    BY <1>t, <2>2, <2>3, MediaStep DEF OnlyRow
  <2> QED
    BY <1>t, <2>4 DEF MovesOn, Row
<1>4. ASSUME NEW w \in Workers, RecordError(w) PROVE MovesOn(u)
  <2>1. row' = row \/ (OwnsClaim(w) /\ OnlyRow(worker[w].on, ErrorRow(w)))
    BY <1>t, <1>4, ErrorStep
  <2>2. CASE row'[u] = row[u]
    BY <2>2 DEF MovesOn
  <2>3. CASE u = worker[w].on /\ OwnsClaim(w) /\ row'[u] = ErrorRow(w)
    <3>1. row'[u].state \in {"retry_wait", "failed"}
      BY <1>t, <2>3 DEF ErrorRow, Failed, Row
    <3> QED
      BY <2>3, <3>1 DEF MovesOn, BeforeResult, OwnsClaim
  <2> QED
    BY <2>1, <2>2, <2>3 DEF OnlyRow
<1>5. CASE StartPass
  <2>1. \/ row'[u] = row[u]
        \/ row[u].state = "missing" /\ row'[u] = [row[u] EXCEPT !.state = "pending"]
    BY <1>5 DEF StartPass
  <2>2. \/ row'[u] = row[u]
        \/ row[u].state = "missing" /\ row'[u].state = "pending"
    BY <1>t, <2>1 DEF Row
  <2> QED
    BY <2>2 DEF MovesOn, BeforeResult
<1>6. ASSUME NEW v \in Uploads, TimePasses(v) PROVE MovesOn(u)
  <2>1. row'[u] = row[u] \/ row'[u] = [row[u] EXCEPT !.ripe = TRUE]
    BY <1>t, <1>6 DEF TimePasses, TypeOK
  <2> QED
    BY <1>t, <2>1 DEF MovesOn, Row
<1> QED
  BY <1>2, <1>3, <1>4, <1>5, <1>6

\* The result of the segmentation starts the transcription, or there is no speech.
LEMMA PublishImplements ==
  ASSUME Inv, NEW w \in Workers, PublishResult(w)
  PROVE  Promise!Next
<1> DEFINE u == worker[w].on
           n == Candidates[manifest[u]]
           s == IF n = 0 THEN "succeeded" ELSE "waiting_stt"
           r == [row[u] EXCEPT !.expected = n, !.ripe = FALSE, !.error = "none", !.state = s]
<1>1. /\ u \in Uploads /\ n \in Nat /\ manifest[u] # NoContent /\ Committed(u) = 1..n
      /\ OnlyRow(u, r) /\ row[u] \in Row /\ row[u].state = "claimed"
      /\ UNCHANGED <<manifest, work>>
  BY PublishStep DEF PublishResult, Fenced, Current, Inv, TypeOK
<1>2. StageOf(row[u]) = "preparing"
  BY <1>1, StageOfRow
<1>3. row'[u] \in Row /\ row'[u].state = s /\ row'[u].expected = n
  <2>1. row'[u] = r /\ row'[u] \in Row
    BY <1>1 DEF OnlyRow
  <2> HIDE DEF n, s
  <2>2. r.state = s /\ r.expected = n
    BY <1>1 DEF Row
  <2> QED
    BY <2>1, <2>2
<1>4. StageOf(row'[u]) = IF n = 0 THEN "no_speech" ELSE "transcribing"
  BY <1>3, StageOfRow
<1>5. \A v \in Uploads \ {u} : row'[v] = row[v]
  BY <1>1 DEF OnlyRow
<1>6. MadeNow[u] = n /\ StageNow[u] = "preparing"
  BY <1>1, <1>2, CountTo DEF MadeNow, StageNow
<1>7. Promise!Prepared(u)
  BY <1>1, <1>6 DEF Promise!Prepared, MadeNow, StageNow
<1>8. Promise!MoveTo(u, IF n = 0 THEN "no_speech" ELSE "transcribing")
  BY <1>1, <1>4, <1>5, Moving
<1>9. CASE n = 0
  <2>1. Promise!FindNoSpeech(u)
    BY <1>6, <1>7, <1>8, <1>9 DEF Promise!FindNoSpeech, MadeNow, StageNow
  <2> QED
    BY <1>1, <2>1 DEF Promise!Next
<1>10. CASE n # 0
  <2>1. Promise!StartTranscribing(u)
    BY <1>1, <1>6, <1>7, <1>8, <1>10 DEF Promise!StartTranscribing, MadeNow, StageNow
  <2> QED
    BY <1>1, <2>1 DEF Promise!Next
<1> QED
  BY <1>9, <1>10

\* The reconciler ends a transcription.
LEMMA ConvergeImplements ==
  ASSUME Inv, Inv', NEW u \in Uploads, Converge(u)
  PROVE  Promise!Next
<1>t. TypeOK /\ TypeOK' /\ row[u] \in Row
  BY DEF Inv, TypeOK
<1>1. UNCHANGED <<manifest, work>>
  BY DEF Converge
<1>2. CASE row' = row
  BY <1>t, <1>1, <1>2, MovingOn DEF MovesOn
<1>3. CASE row[u].state = "waiting_stt" /\ row' = [row EXCEPT ![u] = Outcome(u)]
  <2>1. row'[u] = Outcome(u) /\ \A v \in Uploads \ {u} : row'[v] = row[v]
    BY <1>t, <1>3 DEF TypeOK
  <2>2. StageOf(row[u]) = "transcribing" /\ row'[u] \in Row
    BY <1>t, <1>3, StageOfRow DEF TypeOK
  <2>3. row[u].expected # 0
    BY <1>3 DEF Inv, UploadOK
  <2>4. CASE Outcome(u) = row[u]
    BY <1>t, <1>1, <2>1, <2>4, MovingOn DEF MovesOn
  <2>5. CASE Outcome(u) = Failed(row[u], "other")
    <3>1. row'[u].state = "failed"
      BY <1>t, <2>1, <2>5 DEF Failed, Row
    <3>2. StageOf(row'[u]) = "failed"
      BY <2>2, <3>1, StageOfRow
    <3> QED
      BY <1>1, <2>1, <2>2, <3>2, GivingUp
  <2>6. CASE Outcome(u) = [row[u] EXCEPT !.state = "succeeded"]
    <3>1. row'[u].state = "succeeded" /\ row'[u].expected # 0
      BY <1>t, <2>1, <2>3, <2>6 DEF Row
    <3>2. StageOf(row'[u]) = "transcribed"
      BY <2>2, <3>1, StageOfRow
    <3>3. Promise!MoveTo(u, "transcribed")
      BY <1>1, <2>1, <3>2, Moving
    <3>4. Promise!Finish(u)
      BY <2>2, <3>3 DEF Promise!Finish
    <3> QED
      BY <3>4 DEF Promise!Next
  <2> QED
    BY <1>3, <2>4, <2>5, <2>6, WaitingOutcome
<1> QED
  BY <1>2, <1>3 DEF Converge

\* The stage of an upload whose segmentation has not been published.
LEMMA StageUnpublished ==
  ASSUME Inv, NEW u \in Uploads, row[u].expected = NoCount
  PROVE  StageOf(row[u]) \in {"preparing", "failed"}
<1>1. row[u] \in Row /\ row[u].state \notin {"waiting_stt", "succeeded"}
  BY DEF Inv, TypeOK, UploadOK
<1> QED
  BY <1>1, StageOfRow DEF Row, RowStates

LEMMA ChooseImplements ==
  ASSUME Inv, NEW w \in Workers, LinkManifest(w)
  PROVE  Promise!Next \/ UNCHANGED <<row, manifest, work>>
<1> DEFINE u == worker[w].on
           c == worker[w].content
<1>1. /\ u \in Uploads /\ c \in Contents /\ UNCHANGED <<row, work>>
      /\ manifest' = IF manifest[u] = NoContent THEN [manifest EXCEPT ![u] = c] ELSE manifest
  BY LinkManifestStep
<1>2. CASE manifest[u] = NoContent
  <2>1. row[u].expected = NoCount
    BY <1>1, <1>2 DEF Inv, UploadOK
  <2>2. StageNow[u] \in {"preparing", "failed"}
    BY <1>1, <2>1, StageUnpublished DEF StageNow
  <2>3. UNCHANGED <<StageNow, MadeNow>>
    BY <1>1 DEF StageNow, MadeNow, Committed
  <2>4. \E d \in Contents : manifest' = [manifest EXCEPT ![u] = d]
    BY <1>1, <1>2
  <2>5. Promise!Choose(u)
    BY <1>2, <2>2, <2>3, <2>4 DEF Promise!Choose, StageNow, MadeNow
  <2> QED
    BY <1>1, <2>5 DEF Promise!Next
<1> QED
  BY <1>1, <1>2

LEMMA MakeImplements ==
  ASSUME Inv, NEW w \in Workers, CommitCandidate(w)
  PROVE  Promise!Next \/ UNCHANGED <<row, manifest, work>>
<1> DEFINE u == worker[w].on
           k == worker[w].ordinal
           n == Candidates[manifest[u]]
<1>1. /\ u \in Uploads /\ k \in Ordinals /\ UNCHANGED <<row, manifest>>
      /\ manifest[u] # NoContent /\ k <= n
      /\ \/ work' = work
         \/ /\ k \notin Committed(u)
            /\ \E s \in Slot : OnlySlot(u, k, s) /\ s.from = manifest[u]
  BY CommitCandidateStep
<1>2. CASE work' # work
  <2>1. PICK s \in Slot : OnlySlot(u, k, s) /\ s.from = manifest[u]
    BY <1>1, <1>2
  <2>2. k \notin Committed(u) /\ k \in Nat \ {0} /\ n \in Nat
    BY <1>1, <1>2, OrdinalsAreNumbers, MediaAssumption DEF Inv, TypeOK
  <2>3. \A j \in Committed(u) : j \in Nat \ {0} /\ j <= n /\ j # k
    BY <1>1, <2>2, OrdinalsAreNumbers DEF Inv, UploadOK, Committed
  <2>4. Committed(u) \in SUBSET ((1..n) \ {k}) /\ k \in 1..n
    <3> HIDE DEF n
    <3> QED
      BY <1>1, <2>2, <2>3
  <2>5. /\ IsFiniteSet(Committed(u)) /\ Cardinality(Committed(u)) \in Nat
        /\ Cardinality(Committed(u)) < n
    <3> HIDE DEF n, k, u
    <3>1. IsFiniteSet(1..n) /\ Cardinality(1..n) = n
      BY <2>2, CountTo
    <3>2. IsFiniteSet((1..n) \ {k}) /\ Cardinality((1..n) \ {k}) = n - 1
      BY <2>4, <3>1, FS_RemoveElement
    <3>3. IsFiniteSet(Committed(u)) /\ Cardinality(Committed(u)) <= n - 1
      BY <2>4, <3>2, FS_Subset
    <3>4. Cardinality(Committed(u)) \in Nat
      BY <3>3, FS_CardinalityType
    <3> QED
      BY <2>2, <3>3, <3>4
  <2>6. row[u].expected = NoCount
    <3>1. ASSUME row[u].expected # NoCount PROVE FALSE
      <4>1. Cardinality(Committed(u)) = n
        BY <1>1, <3>1, AllCommitted
      <4> QED
        BY <2>2, <2>5, <4>1
    <3> QED
      BY <3>1
  <2>7. {j \in Ordinals : work'[u][j].from # NoContent} = Committed(u) \cup {k}
    <3> HIDE DEF k, u
    <3> QED
      BY <1>1, <2>1 DEF OnlySlot, Committed
  <2>8. \A v \in Uploads \ {u} :
          {j \in Ordinals : work'[v][j].from # NoContent} = Committed(v)
    BY <2>1 DEF OnlySlot, Committed
  <2>9. MadeNow' = [MadeNow EXCEPT ![u] = @ + 1]
    <3>1. Cardinality(Committed(u) \cup {k}) = Cardinality(Committed(u)) + 1
      BY <2>2, <2>5, FS_AddElement
    <3>2. MadeNow' = [v \in Uploads |->
                        Cardinality({j \in Ordinals : work'[v][j].from # NoContent})]
      BY DEF MadeNow, Committed
    <3> HIDE DEF u, k, n
    <3> QED
      BY <1>1, <2>7, <2>8, <3>1, <3>2 DEF MadeNow
  <2>10. StageNow[u] \in {"preparing", "failed"} /\ UNCHANGED StageNow
    BY <1>1, <2>6, StageUnpublished DEF StageNow
  <2>11. MadeNow[u] < n
    BY <1>1, <2>5 DEF MadeNow
  <2>12. Promise!Make(u)
    BY <1>1, <2>9, <2>10, <2>11 DEF Promise!Make, StageNow, MadeNow
  <2> QED
    BY <1>1, <2>12 DEF Promise!Next
<1> QED
  BY <1>1, <1>2

\* Media processing implements UploadOutcome: for every set of uploads and workers.
THEOREM ProcessingKeepsPromise == Spec => ImplementsOutcome
<1>1. Init => Promise!Init
  <2> SUFFICES ASSUME Init PROVE Promise!Init
    OBVIOUS
  <2>1. \A u \in Uploads : row[u].state \in {"missing", "pending"}
    BY DEF Init
  <2>2. StageNow = [u \in Uploads |-> "preparing"]
    BY <2>1, InvInitially, StageOfRow DEF StageNow, Inv, TypeOK
  <2>3. \A u \in Uploads : Committed(u) = {}
    BY DEF Init, Committed, NoWork
  <2>4. MadeNow = [u \in Uploads |-> 0]
    BY <2>3, FS_EmptySet DEF MadeNow
  <2>5. manifest = [u \in Uploads |-> NoContent]
    BY DEF Init
  <2> QED
    BY <2>2, <2>4, <2>5 DEF Promise!Init, StageNow, MadeNow
<1>2. Inv /\ Inv' /\ [Next]_vars => [Promise!Next]_<<StageNow, manifest, MadeNow>>
  <2> SUFFICES ASSUME Inv, Inv', [Next]_vars
               PROVE  Promise!Next \/ UNCHANGED <<StageNow, manifest, MadeNow>>
    OBVIOUS
  <2>1. CASE UNCHANGED <<row, manifest, work>>
    BY <2>1 DEF StageNow, MadeNow, Committed
  <2>2. ASSUME NEW u \in Uploads, NEW k \in Ordinals, Settle(u, k) \/ Replay(u, k)
        PROVE  UNCHANGED <<StageNow, manifest, MadeNow>>
    BY <2>2, TranscriptionSteps DEF StageNow, MadeNow
  <2>3. ASSUME NEW w \in Workers, WorkerStep(w)
        PROVE  Promise!Next \/ UNCHANGED <<row, manifest, work>>
    BY <2>3, RowsImplement, PublishImplements, ChooseImplements, MakeImplements
    DEF WorkerStep, AttemptStep, CheckSource, LoadNormalized, Normalize, BeginPublication,
        LinkObject, CheckObject, FinishInstall, VerifyCommitted, NextCandidate,
        CountUtterances, Stale, Fail, LoseConnection, Crash
  <2>4. CASE ReconcilerStep
    BY <2>4, RowsImplement, ConvergeImplements, <2>1
    DEF ReconcilerStep, EnsureWake, PassFails
  <2>5. CASE \E u \in Uploads : TimePasses(u)
    BY <2>5, RowsImplement
  <2> QED
    BY <2>1, <2>2, <2>3, <2>4, <2>5 DEF Next, LoseWake, vars
<1>3. Promise!Spec <=> Promise!Init /\ [][Promise!Next]_<<StageNow, manifest, MadeNow>>
  BY DEF Promise!Spec, StageNow, MadeNow
<1> QED
  BY <1>1, <1>2, <1>3, InvAlways, PTL DEF Spec, ImplementsOutcome
=============================================================================
