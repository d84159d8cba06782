--------------------------- MODULE MediaProcessing ---------------------------
(***************************************************************************)
(* Processing of completed uploads: recantor/media_processing.py with       *)
(* media_storage.py, media_tasks.py and media_reconciler.py.  A worker      *)
(* claims a row, normalizes the source with ffmpeg, publishes the result in  *)
(* the file system (the first wins), cuts it into utterances and hands them  *)
(* to transcription; the reconciler turns the outcome of their STT jobs      *)
(* into the outcome of the upload and wakes the worker.                      *)
(*                                                                         *)
(* Times are kept as "ripe": next_attempt_at or claim_expires_at has passed. *)
(* A claim's token is its attempt number, which no other claim of the row    *)
(* has.  The source and the storage are not changed from outside.            *)
(***************************************************************************)
EXTENDS Integers, FiniteSets

CONSTANTS
  Uploads,       \* completed uploads, numbered in the order of created_at
  Workers,       \* media workers; one whose claim has lapsed may go on
  Contents,      \* what ffmpeg can make of a source
  Candidates,    \* number of utterances the segmentation finds in a content
  MaxAttempts,   \* media_max_attempts
  MaxReplays,    \* bound on the jobs of an upload an operator replays, each once
  NoContent

\* The ordinals of utterances, finitely many as the size of an upload is limited.
Ordinals == UNION {1..Candidates[c] : c \in Contents}

ASSUME MediaAssumption ==
  /\ Uploads \subseteq Nat \ {0}
  /\ Candidates \in [Contents -> Nat]
  /\ IsFiniteSet(Ordinals)
  /\ MaxAttempts \in Nat \ {0}
  /\ MaxReplays \in Nat
  /\ NoContent \notin Contents

VARIABLES
  row,        \* upload_media_processing
  objects,    \* content objects of each upload in the normalized storage
  manifest,   \* its manifest: the content it names
  work,       \* utterances by ordinal, their STT job and transcript segment
  worker,     \* what each worker is doing
  wake,       \* a wake is in the Redis queue
  pass        \* the pass of the reconciler

vars == <<row, objects, manifest, work, worker, wake, pass>>

NoUpload == 0
NoCount == -1

RowStates == {"missing", "pending", "claimed", "retry_wait", "waiting_stt",
              "succeeded", "failed"}

\* How an attempt fails: an error worth another attempt, a permanent one, evidence in
\* conflict with what the worker computes (the *_drift and *_integrity codes of
\* normalization and segmentation), or the storage of an utterance, which the code
\* records as a drift of the segmentation too.
Failures == {"retryable", "media", "storage", "drift"}

\* last_error_code: none, a conflict of evidence, one in name only, or any other.
Errors == {"none", "drift", "storage", "other"}
Code(failure) == IF failure \in {"drift", "storage"} THEN failure ELSE "other"

\* The steps of publication, from the lock of the row to its commit.
Publishing == {"linking", "linked", "checked", "installed", "projecting"}
Working == Publishing \cup
  {"claimed", "loading", "orphan", "normalizing", "prepared",
   "verifying", "segmenting", "committing", "counted"}

Slot == [from : Contents \cup {NoContent},
         stt : {"unknown", "open", "text", "silence", "failure"},
         sequence : Nat, replayed : BOOLEAN]
NoWork == [from |-> NoContent, stt |-> "unknown", sequence |-> 0, replayed |-> FALSE]

Row == [state : RowStates, tries : 0..MaxAttempts, ripe : BOOLEAN,
        media : Contents \cup {NoContent}, expected : Nat \cup {NoCount},
        error : Errors]

\* "made" is object_created; "tx": the worker's transaction holds the row's lock.
Task == [at : Working \cup Failures, on : Uploads, try : 1..MaxAttempts,
         content : Contents \cup {NoContent}, ordinal : Nat \ {0},
         made : BOOLEAN, tx : BOOLEAN]
Idle == [at |-> "idle", on |-> NoUpload, try |-> 0, content |-> NoContent,
         ordinal |-> 1, made |-> FALSE, tx |-> FALSE]

\* The reconciler between two passes.
Resting == [at |-> "resting", todo |-> {}]

Init ==
  /\ row \in [Uploads -> {[state |-> s, tries |-> 0, ripe |-> FALSE,
                           media |-> NoContent, expected |-> NoCount,
                           error |-> "none"] : s \in {"missing", "pending"}}]
  /\ objects = [u \in Uploads |-> {}]
  /\ manifest = [u \in Uploads |-> NoContent]
  /\ work = [u \in Uploads |-> [k \in Ordinals |-> NoWork]]
  /\ worker = [w \in Workers |-> Idle]
  /\ wake = FALSE
  /\ pass = Resting

-----------------------------------------------------------------------------
(* Claims.                                                                 *)

\* Faulty variant: a claim whose worker died is not taken up again.
ClaimableUnlessClaimed(u) ==
  row[u].state = "pending" \/ (row[u].state = "retry_wait" /\ row[u].ripe)

\* _claimable_expression.
Claimable(u) ==
  \/ row[u].state = "pending"
  \/ row[u].state \in {"retry_wait", "claimed"} /\ row[u].ripe

\* No transaction holds the lock of the row.
Unlocked(u) == \A w \in Workers : worker[w].tx => worker[w].on # u

\* next_attempt_at or claim_expires_at passes.
TimePasses(u) ==
  /\ row[u].state \in {"retry_wait", "claimed"}
  /\ ~row[u].ripe
  /\ row' = [row EXCEPT ![u].ripe = TRUE]
  /\ UNCHANGED <<objects, manifest, work, worker, wake, pass>>

\* Faulty variant: attempts are not counted against the limit.
NeverSpent(u) == row[u].tries > MaxAttempts

Spent(u) == row[u].tries >= MaxAttempts

Failed(r, error) == [r EXCEPT !.state = "failed", !.ripe = FALSE, !.error = error]

\* The rows claim_next_upload_processing can take, without those that others lock.
Offered == {u \in Uploads : Claimable(u) /\ Unlocked(u)}

\* Its scan, in the order of created_at: rows whose attempts are used up fail on
\* the way to the first one that can be claimed (its limit of 8 rows is not kept).
Scan(claimed) ==
  row' = [u \in Uploads |->
            IF u = claimed
            THEN [row[u] EXCEPT !.state = "claimed", !.tries = @ + 1,
                                !.ripe = FALSE, !.error = "none"]
            ELSE IF u \in Offered /\ Spent(u) /\ (claimed # NoUpload => u < claimed)
            THEN Failed(row[u], "other") ELSE row[u]]

Claim(w, u) ==
  /\ u \in Offered
  /\ ~Spent(u)
  /\ \A v \in Offered : v < u => Spent(v)
  /\ Scan(u)
  /\ worker' = [worker EXCEPT ![w] =
                  [Idle EXCEPT !.at = "claimed", !.on = u, !.try = row[u].tries + 1]]

\* process_media_upload_wake up to the claim.
TakeWake(w) ==
  /\ wake
  /\ worker[w] = Idle
  /\ wake' = FALSE
  /\ \/ \E u \in Uploads : Claim(w, u)
     \/ /\ \A u \in Offered : Spent(u)
        /\ Scan(NoUpload)
        /\ UNCHANGED worker
  /\ UNCHANGED <<objects, manifest, work, pass>>

\* Redis restarts, or the worker dies with the wake in its hands.
LoseWake ==
  /\ wake
  /\ wake' = FALSE
  /\ UNCHANGED <<row, objects, manifest, work, worker, pass>>

\* Faulty variant: the token is not looked at.
AnyToken(w) == LET r == row[worker[w].on] IN r.state = "claimed" /\ ~r.ripe

\* The fence of every transaction of a claim: the row is claimed, by this token,
\* and the lease has not passed.
Current(w) ==
  LET r == row[worker[w].on]
  IN r.state = "claimed" /\ r.tries = worker[w].try /\ ~r.ripe

\* A transaction of the claim gets the lock of the row and passes the fence.
Fenced(w) == Unlocked(worker[w].on) /\ Current(w)

GoTo(w, stage) == worker' = [worker EXCEPT ![w].at = stage]

\* MediaProcessingStale from a fence: the worker stops and changes nothing.
FenceStages == {"claimed", "orphan", "normalizing", "prepared",
                "segmenting", "counted"}
Stale(w) ==
  /\ worker[w].at \in FenceStages
  /\ Unlocked(worker[w].on)
  /\ ~Current(w)
  /\ worker' = [worker EXCEPT ![w] = Idle]
  /\ UNCHANGED <<row, objects, manifest, work, wake, pass>>

\* An error ends the attempt; a transaction under way is rolled back.
Breaks(w, failure) ==
  worker' = [worker EXCEPT ![w].at = failure, ![w].tx = FALSE]

-----------------------------------------------------------------------------
(* Normalization.                                                          *)

\* execute_upload_processing_claim up to _load_or_create_normalized: the source
\* is as it was completed, and the claim is renewed (extending it is no more than
\* time not passing).
CheckSource(w) ==
  /\ worker[w].at = "claimed"
  /\ Fenced(w)
  /\ GoTo(w, "loading")
  /\ UNCHANGED <<row, objects, manifest, work, wake, pass>>

\* verify_committed.
Verified(u, content) == manifest[u] = content /\ content \in objects[u]

\* _load_or_create_normalized: what is projected, or an orphaned manifest, or a new
\* normalization.
LoadNormalized(w) ==
  LET u == worker[w].on
      known == IF row[u].media # NoContent THEN row[u].media ELSE manifest[u]
  IN /\ worker[w].at = "loading"
     /\ IF known = NoContent THEN GoTo(w, "normalizing")
        ELSE IF ~Verified(u, known) THEN Breaks(w, "drift")
        ELSE worker' = [worker EXCEPT
               ![w].content = known,
               ![w].at = IF row[u].media = NoContent THEN "orphan" ELSE "segmenting"]
     /\ UNCHANGED <<row, objects, manifest, work, wake, pass>>

\* _apply_normalized_projection.
Projected(u, content) == row[u].media \in {NoContent, content}

\* _project_normalized, of an orphaned manifest.
ProjectOrphan(w) ==
  LET u == worker[w].on
  IN /\ worker[w].at = "orphan"
     /\ Fenced(w)
     /\ IF Projected(u, worker[w].content)
        THEN /\ row' = [row EXCEPT ![u].media = worker[w].content]
             /\ GoTo(w, "segmenting")
        ELSE Breaks(w, "drift") /\ UNCHANGED row
     /\ UNCHANGED <<objects, manifest, work, wake, pass>>

\* ffprobe and a renewal, ffmpeg into a private file and the renewal that decides,
\* and prepare_temp.
Normalize(w) ==
  /\ worker[w].at = "normalizing"
  /\ Fenced(w)
  /\ \E c \in Contents :
       worker' = [worker EXCEPT ![w].at = "prepared", ![w].content = c]
  /\ UNCHANGED <<row, objects, manifest, work, wake, pass>>

\* _publish_prepared_normalized up to the installation: from here on the row is
\* locked.
BeginPublication(w) ==
  /\ worker[w].at = "prepared"
  /\ Fenced(w)
  /\ worker' = [worker EXCEPT ![w].at = "linking", ![w].tx = TRUE]
  /\ UNCHANGED <<row, objects, manifest, work, wake, pass>>

\* install_prepared_first_wins: link the object, under the name of its hash.
LinkObject(w) ==
  LET u == worker[w].on
  IN /\ worker[w].at = "linking"
     /\ objects' = [objects EXCEPT ![u] = @ \cup {worker[w].content}]
     /\ worker' = [worker EXCEPT ![w].at = "linked",
                                 ![w].made = worker[w].content \notin objects[u]]
     /\ UNCHANGED <<row, manifest, work, wake, pass>>

\* The object must be there to be named, whoever has linked it: it is not if its maker
\* has lost the manifest and removed it since.
CheckObject(w) ==
  /\ worker[w].at = "linked"
  /\ IF worker[w].content \in objects[worker[w].on]
     THEN GoTo(w, "checked") ELSE Breaks(w, "drift")
  /\ UNCHANGED <<row, objects, manifest, work, wake, pass>>

\* Faulty variant: the manifest is replaced (rename instead of link).
Replaced(u, content) == content

\* The manifest after link(2), which never replaces a file.
FirstWins(u, content) == IF manifest[u] = NoContent THEN content ELSE manifest[u]

\* The link of the manifest: the commit point.
LinkManifest(w) ==
  /\ worker[w].at = "checked"
  /\ manifest' = [manifest EXCEPT ![worker[w].on] =
                    FirstWins(worker[w].on, worker[w].content)]
  /\ GoTo(w, "installed")
  /\ UNCHANGED <<row, objects, work, wake, pass>>

\* Faulty variant: a loser removes its object even if the winner has the same.
UnlinkMade(w) == worker[w].made

\* The loser removes the object that only it can have made.
UnlinksObject(w) ==
  worker[w].made /\ manifest[worker[w].on] # worker[w].content

\* The rest of the installation: the winner is what counts from here on.
FinishInstall(w) ==
  LET u == worker[w].on
  IN /\ worker[w].at = "installed"
     /\ objects' = [objects EXCEPT ![u] =
                      IF UnlinksObject(w) THEN @ \ {worker[w].content} ELSE @]
     /\ worker' = [worker EXCEPT ![w].at = "projecting", ![w].content = manifest[u]]
     /\ UNCHANGED <<row, manifest, work, wake, pass>>

\* The projection and the commit, which extends the lease and unlocks the row, or
\* fails as the connection is gone.
CommitPublication(w) ==
  LET u == worker[w].on
  IN /\ worker[w].at = "projecting"
     /\ IF ~worker[w].tx THEN Breaks(w, "retryable") /\ UNCHANGED row
        ELSE IF ~Projected(u, worker[w].content) THEN Breaks(w, "drift") /\ UNCHANGED row
        ELSE /\ row' = [row EXCEPT ![u].media = worker[w].content, ![u].ripe = FALSE]
             /\ worker' = [worker EXCEPT ![w].at = "verifying", ![w].tx = FALSE]
     /\ UNCHANGED <<objects, manifest, work, wake, pass>>

VerifyCommitted(w) ==
  /\ worker[w].at = "verifying"
  /\ IF Verified(worker[w].on, worker[w].content)
     THEN GoTo(w, "segmenting") ELSE Breaks(w, "drift")
  /\ UNCHANGED <<row, objects, manifest, work, wake, pass>>

\* PostgreSQL drops the connection: the transaction is rolled back and the row
\* unlocked while the installation goes on in its thread.
LoseConnection(w) ==
  /\ worker[w].tx
  /\ worker' = [worker EXCEPT ![w].tx = FALSE]
  /\ UNCHANGED <<row, objects, manifest, work, wake, pass>>

-----------------------------------------------------------------------------
(* Segmentation.                                                           *)

\* The detector finds the next candidate, and _commit_candidate renews the claim.
NextCandidate(w) ==
  /\ worker[w].at = "segmenting"
  /\ worker[w].ordinal <= Candidates[worker[w].content]
  /\ Fenced(w)
  /\ GoTo(w, "committing")
  /\ UNCHANGED <<row, objects, manifest, work, wake, pass>>

\* commit_utterance_work, in a transaction that the claim does not fence.  The
\* producer key is the ordinal; other audio under the same key is a conflict.
CommitCandidate(w) ==
  LET u == worker[w].on
      k == worker[w].ordinal
      slot == work[u][k]
  IN /\ worker[w].at = "committing"
     /\ IF slot.from \in {NoContent, worker[w].content}
        THEN worker' = [worker EXCEPT ![w].at = "segmenting", ![w].ordinal = k + 1]
        ELSE Breaks(w, "drift")
     /\ work' = IF slot.from = NoContent
                THEN [work EXCEPT ![u][k].from = worker[w].content,
                                  ![u][k].stt = "open"]
                ELSE work
     /\ UNCHANGED <<row, objects, manifest, wake, pass>>

Committed(u) == {k \in Ordinals : work[u][k].from # NoContent}

\* The end of segment_normalized: the durable utterances are counted.
CountUtterances(w) ==
  /\ worker[w].at = "segmenting"
  /\ worker[w].ordinal > Candidates[worker[w].content]
  /\ IF Cardinality(Committed(worker[w].on)) = worker[w].ordinal - 1
     THEN GoTo(w, "counted") ELSE Breaks(w, "drift")
  /\ UNCHANGED <<row, objects, manifest, work, wake, pass>>

\* _publish_segmentation_result.
PublishResult(w) ==
  LET u == worker[w].on
      count == worker[w].ordinal - 1
  IN /\ worker[w].at = "counted"
     /\ Fenced(w)
     /\ IF row[u].expected \in {NoCount, count}
        THEN /\ row' = [row EXCEPT ![u].expected = count, ![u].ripe = FALSE,
                          ![u].error = "none",
                          ![u].state = IF count = 0 THEN "succeeded" ELSE "waiting_stt"]
             /\ worker' = [worker EXCEPT ![w] = Idle]
        ELSE Breaks(w, "drift") /\ UNCHANGED row
     /\ UNCHANGED <<objects, manifest, work, wake, pass>>

-----------------------------------------------------------------------------
(* Failures of an attempt.                                                 *)

\* A permanent error of the source, of ffprobe or ffmpeg, or of the storage of an
\* utterance; or any exception, which is worth another attempt.
Fail(w) ==
  /\ worker[w].at \in Working
  /\ \/ Breaks(w, "retryable")
     \/ worker[w].at \in {"claimed", "normalizing"} /\ Breaks(w, "media")
     \/ worker[w].at = "committing" /\ Breaks(w, "storage")
  /\ UNCHANGED <<row, objects, manifest, work, wake, pass>>

\* Faulty variant: the error is recorded whoever holds the claim.
OwnsAnyClaim(w) == row[worker[w].on].state = "claimed"

\* The claim is the worker's own; its lease may have passed.
OwnsClaim(w) == LET r == row[worker[w].on] IN
                  r.state = "claimed" /\ r.tries = worker[w].try

\* _record_processing_error.
RecordError(w) ==
  LET u == worker[w].on
  IN /\ worker[w].at \in Failures
     /\ Unlocked(u)
     /\ row' = IF ~OwnsClaim(w) THEN row
               ELSE [row EXCEPT ![u] =
                 IF worker[w].at = "retryable" /\ ~Spent(u)
                 THEN [@ EXCEPT !.state = "retry_wait", !.ripe = FALSE,
                                !.error = "other"]
                 ELSE Failed(@, Code(worker[w].at))]
     /\ worker' = [worker EXCEPT ![w] = Idle]
     /\ UNCHANGED <<objects, manifest, work, wake, pass>>

\* The worker's process dies.
Crash(w) ==
  /\ worker[w] # Idle
  /\ worker' = [worker EXCEPT ![w] = Idle]
  /\ UNCHANGED <<row, objects, manifest, work, wake, pass>>

-----------------------------------------------------------------------------
(* Transcription, as SttScheduler implements it (module Transcription).     *)

\* The next sequence of the upload's transcript.
NextSequence(u) == Cardinality({k \in Ordinals : work[u][k].sequence > 0}) + 1

Settle(u, k) ==
  /\ work[u][k].stt = "open"
  /\ \/ work' = [work EXCEPT ![u][k].stt = "text", ![u][k].sequence = NextSequence(u)]
     \/ \E o \in {"silence", "failure"} : work' = [work EXCEPT ![u][k].stt = o]
  /\ UNCHANGED <<row, objects, manifest, worker, wake, pass>>

Replayed(u) == {k \in Ordinals : work[u][k].replayed}

\* An operator replays the job of an utterance without a segment.
Replay(u, k) ==
  /\ work[u][k].stt \in {"silence", "failure"}
  /\ ~work[u][k].replayed
  /\ Cardinality(Replayed(u)) < MaxReplays
  /\ work' = [work EXCEPT ![u][k].stt = "open", ![u][k].replayed = TRUE]
  /\ UNCHANGED <<row, objects, manifest, worker, wake, pass>>

-----------------------------------------------------------------------------
(* The reconciler.                                                         *)

\* ensure_upload_processing_rows, and the ids that _converge_waiting_stt reads.
StartPass ==
  /\ pass = Resting
  /\ row' = [u \in Uploads |->
               IF row[u].state = "missing" THEN [row[u] EXCEPT !.state = "pending"]
               ELSE row[u]]
  /\ pass' = [pass EXCEPT !.at = "converging",
                          !.todo = {u \in Uploads : row[u].state = "waiting_stt"}]
  /\ UNCHANGED <<objects, manifest, work, worker, wake>>

\* Faulty variant: one satisfied utterance is enough.
AnySatisfied(u) == \E k \in Committed(u) : work[u][k].stt \in {"text", "silence"}

AllSatisfied(u) == \A k \in Committed(u) : work[u][k].stt \in {"text", "silence"}
AnyFailed(u) == \E k \in Committed(u) : work[u][k].stt = "failure"

\* The decision of _converge_waiting_stt about a row that is still waiting.
Outcome(u) ==
  LET count == Cardinality(Committed(u))
  IN CASE row[u].expected <= 0 -> Failed(row[u], "drift")
       [] row[u].expected > 0 /\ count > row[u].expected -> Failed(row[u], "drift")
       [] row[u].expected > 0 /\ count < row[u].expected -> row[u]
       [] OTHER -> IF AnyFailed(u) THEN Failed(row[u], "other")
                   ELSE IF AllSatisfied(u) THEN [row[u] EXCEPT !.state = "succeeded"]
                   ELSE row[u]

Converge(u) ==
  /\ pass.at = "converging"
  /\ u \in pass.todo
  /\ pass' = [pass EXCEPT !.todo = @ \ {u}]
  /\ row' = IF row[u].state = "waiting_stt" /\ Unlocked(u)
            THEN [row EXCEPT ![u] = Outcome(u)] ELSE row
  /\ UNCHANGED <<objects, manifest, work, worker, wake>>

\* The end of the pass: with a runnable row, ensure_media_wake_capacity leaves one
\* wake in the queue and no more.  It may find nothing to claim when it is taken.
EnsureWake ==
  /\ pass.at = "converging"
  /\ pass.todo = {}
  /\ wake' = (wake \/ \E u \in Uploads : Claimable(u))
  /\ pass' = Resting
  /\ UNCHANGED <<row, objects, manifest, work, worker>>

\* The database or Redis fails during a pass, or the reconciler is restarted.
PassFails ==
  /\ pass # Resting
  /\ pass' = Resting
  /\ UNCHANGED <<row, objects, manifest, work, worker, wake>>

-----------------------------------------------------------------------------
AttemptStep(w) ==
  \/ CheckSource(w) \/ LoadNormalized(w) \/ ProjectOrphan(w)
  \/ Normalize(w) \/ BeginPublication(w)
  \/ LinkObject(w) \/ CheckObject(w) \/ LinkManifest(w) \/ FinishInstall(w)
  \/ CommitPublication(w) \/ VerifyCommitted(w)
  \/ NextCandidate(w) \/ CommitCandidate(w) \/ CountUtterances(w) \/ PublishResult(w)
  \/ Stale(w) \/ RecordError(w)

WorkerStep(w) ==
  TakeWake(w) \/ AttemptStep(w) \/ Fail(w) \/ LoseConnection(w) \/ Crash(w)

ReconcilerStep ==
  \/ StartPass \/ EnsureWake \/ PassFails
  \/ \E u \in Uploads : Converge(u)

Next ==
  \/ \E w \in Workers : WorkerStep(w)
  \/ ReconcilerStep
  \/ LoseWake
  \/ \E u \in Uploads : TimePasses(u)
  \/ \E u \in Uploads, k \in Ordinals : Settle(u, k) \/ Replay(u, k)

Spec == Init /\ [][Next]_vars

\* Time passes, jobs settle (EventuallySettled of SttScheduler), a worker's attempt
\* goes on (its subprocesses have time limits) and so does the reconciler; Redis
\* does not lose every wake and not every pass fails.
Fairness ==
  /\ \A u \in Uploads : WF_vars(TimePasses(u)) /\ SF_vars(Converge(u))
  /\ \A u \in Uploads, k \in Ordinals : WF_vars(Settle(u, k))
  /\ \A w \in Workers : WF_vars(AttemptStep(w))
  /\ SF_vars(\E w \in Workers : TakeWake(w))
  /\ WF_vars(StartPass) /\ SF_vars(EnsureWake)

FairSpec == Spec /\ Fairness

-----------------------------------------------------------------------------
\* Every variable keeps its shape.
TypeOK ==
  /\ row \in [Uploads -> Row]
  /\ objects \in [Uploads -> SUBSET Contents]
  /\ manifest \in [Uploads -> Contents \cup {NoContent}]
  /\ work \in [Uploads -> [Ordinals -> Slot]]
  /\ worker \in [Workers -> Task \cup {Idle}]
  /\ wake \in BOOLEAN
  /\ pass \in [at : {"resting", "converging"}, todo : SUBSET Uploads]

\* Everything that exists of an upload comes from the one normalization its manifest
\* names, also what a worker commits after it has lost its claim: "stale/reclaimed
\* workers cannot publish authoritative normalized identity".  And the object it names
\* is there, although installers that have lost the row's lock race in the file
\* system, link the same object, remove the one they made when they lose, or die
\* between the two links.
OneNormalization ==
  \A u \in Uploads :
    /\ manifest[u] # NoContent => manifest[u] \in objects[u]
    /\ row[u].media \in {NoContent, manifest[u]}
    /\ \A k \in Committed(u) : work[u][k].from = manifest[u]

\* Crashed, stale and current workers look like drifted evidence to each other in one
\* case only: an installer that has lost the manifest to other content finds the object
\* it did not make removed by the loser that did.  So an upload fails for the retries of
\* its own workers only while the manifest that won is still projected by none of
\* them; all evidence a worker has taken over from another is found as it was left.
NoFalseDrift ==
  /\ \A w \in Workers : worker[w].at = "drift" =>
       manifest[worker[w].on] \notin {NoContent, worker[w].content}
  /\ \A u \in Uploads : row[u].error = "drift" =>
       /\ row[u].media = NoContent
       /\ manifest[u] # NoContent

\* A transcribed upload has text or silence for each of its utterances, except for
\* those an operator replays afterwards.
TranscriptComplete ==
  \A u \in Uploads : row[u].state = "succeeded" =>
    /\ Cardinality(Committed(u)) = row[u].expected
    /\ \A k \in Committed(u) :
         work[u][k].stt \in {"text", "silence"} \/ work[u][k].replayed

\* A worker whose claim was taken over changes nothing in the row: it cannot renew
\* it, fail it, nor publish a result over its successor's.
TakenOverChangesNothing ==
  [][\A w \in Workers : \A u \in Uploads :
       /\ worker[w].on = u
       /\ worker'[w] # worker[w]
       /\ row[u].state # "claimed" \/ row[u].tries # worker[w].try
       => row'[u] = row[u]]_vars

\* What an upload looks like from outside.
StageOf(r) ==
  CASE r.state = "succeeded" -> IF r.expected = 0 THEN "no_speech" ELSE "transcribed"
    [] r.state = "waiting_stt" -> "transcribing"
    [] r.state = "failed" -> "failed"
    [] OTHER -> "preparing"

Promise == INSTANCE UploadOutcome WITH
  stage <- [u \in Uploads |-> StageOf(row[u])],
  chosen <- manifest,
  made <- [u \in Uploads |-> Cardinality(Committed(u))]

\* Media processing implements UploadOutcome.
ImplementsOutcome == Promise!Spec

\* Every completed upload ends, as a transcript, as silence or as a failure, whatever
\* workers die, wakes are lost and passes fail.
EveryUploadEnds ==
  \A u \in Uploads : <>(row[u].state \in {"succeeded", "failed"})
=============================================================================
