---------------------------- MODULE SttScheduler ----------------------------
(***************************************************************************)
(* Durable transcription scheduling: apps/api/src/recantor/stt_jobs.py with *)
(* the commit of stt.py and transcript.py, the Celery wakes of stt_tasks.py *)
(* and the loop of stt_reconciler.py.                                       *)
(*                                                                         *)
(* PostgreSQL is the truth: one stt_jobs row per utterance, locked by each  *)
(* transaction that changes it.  Redis holds only wakes, which say that     *)
(* some reserved job of a workload class may be claimed; they are lost,     *)
(* repeated and late.  Worker and reconciler processes die at any step.     *)
(*                                                                         *)
(* Time is abstracted to what the queries compare: whether a lease or a     *)
(* retry time has passed (due), and how old the last reservation is         *)
(* (delivery).  A reservation older than the lease or retry time it would   *)
(* serve does not count, so setting such a time makes delivery "none".      *)
(***************************************************************************)
EXTENDS Integers, FiniteSets, FiniteSetsExt

CONSTANTS
  Utterances,     \* numbers of utterances; within a session, their sequence
  SessionOf,      \* the session of each utterance
  Classes,        \* the workload classes: "live", and "upload" if it is modelled
  ClassOf,        \* the workload class of each session
  Workers,        \* worker processes
  WorkerClass,    \* the class whose queue each worker consumes
  FairClasses,    \* classes whose workers are assumed to run
  MaxAttempts,    \* settings.stt_max_attempts
  ClassLimit,     \* stt_reconcile_batch_size, the same for both classes
  SessionLimit,   \* stt_reconcile_per_session_limit
  MaxWakes,       \* bound on the wakes in one queue
  MaxReplays,     \* bound on operator replays of one utterance
  NoWorker        \* claim_token IS NULL

ASSUME SchedulerAssumption ==
  /\ "live" \in Classes
  /\ Classes \subseteq {"live", "upload"}
  /\ Utterances \subseteq Nat \ {0}
  /\ IsFiniteSet(Utterances)
  /\ Utterances # {}
  /\ \A u \in Utterances : ClassOf[SessionOf[u]] \in Classes
  /\ WorkerClass \in [Workers -> Classes]
  /\ NoWorker \notin Workers
  /\ MaxAttempts \in Nat \ {0}
  /\ ClassLimit \in Nat \ {0}
  /\ SessionLimit \in Nat \ {0}
  /\ MaxWakes \in Nat
  /\ MaxReplays \in Nat

VARIABLES
  job,            \* stt_jobs rows
  segment,        \* transcript_segments.sequence per utterance, 0 without row
  worker,         \* per worker: its step, its utterance
  wakes,          \* wakes in the queue of each class
  reconciler,     \* the reconciler's step, class and wake target
  replays         \* history: operator replays of each utterance

vars == <<job, segment, worker, wakes, reconciler, replays>>

JobStates == {"absent", "missing", "pending", "claimed", "retry_wait",
              "succeeded", "no_speech", "failed"}
\* "absent": no utterance yet.  "missing": an utterance without a job row.
\* claim is the worker whose current run holds the claim token: a token is a
\* fresh uuid, and a worker process runs one claim at a time.
\* delivery: "recent" within the cooldown, "lapsing" beyond it by the latest
\* clock but not by that of a transaction that read the clock before.
JobRow == [state : JobStates, attempts : 0..MaxAttempts,
           claim : Workers \cup {NoWorker}, due : BOOLEAN,
           delivery : {"none", "recent", "lapsing"}]

Fresh(s) == [state |-> s, attempts |-> 0, claim |-> NoWorker, due |-> FALSE,
             delivery |-> "none"]

Idle == [at |-> "idle", on |-> 0]
WorkerSteps == {"waking", "reading", "calling", "committing", "succeeding",
                "silent", "failing", "failing_for_good"}
WorkerRow == [at : WorkerSteps \cup {"idle"}, on : Utterances \cup {0}]

ReconcilerSteps == {"ensure", "converge", "select", "stamp", "wake"}
PassStart == [at |-> "ensure", class |-> "live", picked |-> {}, target |-> 0]

Class(u) == ClassOf[SessionOf[u]]
Canonical(u) == segment[u] # 0

-----------------------------------------------------------------------------
(* The job row.                                                            *)

\* Faulty variants of HoldsClaim: the claim token is not compared, or the
\* state is not.  Definitions marked "Faulty variant" are no part of the model:
\* each is a mutant of the definition after it that some property must catch.
HoldsAnyClaim(w, u) == job[u].state = "claimed"
HoldsUnlessTakenOver(w, u) == job[u].claim \in {w, NoWorker}

\* _claim_commit_is_current, and the same test in the other handlers.
HoldsClaim(w, u) == job[u].state = "claimed" /\ job[u].claim = w

\* Faulty variant: the claim token is not cleared.
SettledKeepingClaim(row, s) == [row EXCEPT !.state = s]

\* _mark_succeeded, _mark_no_speech, _mark_retry_budget_exhausted.
Settled(row, s) == [row EXCEPT !.state = s, !.claim = NoWorker, !.due = FALSE]

\* The states and times a delivery can be for.
Deliverable(row) ==
  \/ row.state = "pending"
  \/ row.state \in {"retry_wait", "claimed"} /\ row.due

\* _delivery_reservation_expression.
Reserved(row) == row.delivery = "recent" /\ Deliverable(row)

\* _eligible_expression.
Eligible(row) == row.delivery # "recent" /\ Deliverable(row)

\* Faulty variant: a claim counts although its lease has passed.
OutstandingForever(row) == row.state = "claimed" \/ Reserved(row)

\* _outstanding_expression.
Outstanding(row) == (row.state = "claimed" /\ ~row.due) \/ Reserved(row)

OfClass(c) == {u \in Utterances : Class(u) = c}
OutstandingOf(us) == Cardinality({u \in us : Outstanding(job[u])})

\* The order of an eligible job within its session.
Rank(u) == Cardinality({v \in Utterances : /\ SessionOf[v] = SessionOf[u]
                                           /\ Eligible(job[v]) /\ v <= u})

\* The jobs a session may still have reserved.
Candidates(c) ==
  {u \in OfClass(c) :
     /\ Eligible(job[u])
     /\ Rank(u) + OutstandingOf({v \in Utterances : SessionOf[v] = SessionOf[u]})
          <= SessionLimit}

-----------------------------------------------------------------------------
\* Utterances that have no job row were committed before the scheduler was
\* deployed.
Init ==
  /\ \E old \in SUBSET Utterances :
       /\ \A u \in old, v \in Utterances :
            SessionOf[v] = SessionOf[u] /\ v < u => v \in old
       /\ job = [u \in Utterances |-> Fresh(IF u \in old THEN "missing" ELSE "absent")]
  /\ segment = [u \in Utterances |-> 0]
  /\ worker = [w \in Workers |-> Idle]
  /\ wakes = [c \in Classes |-> 0]
  /\ reconciler = PassStart
  /\ replays = [u \in Utterances |-> 0]

\* commit_utterance_work: the row of an utterance and its job, or the retry of
\* a commit, which ensures the job.
CommitUtterance(u) ==
  /\ job[u].state \in {"absent", "missing"}
  /\ \A v \in Utterances :
       SessionOf[v] = SessionOf[u] /\ v < u => job[v].state # "absent"
  /\ job' = [job EXCEPT ![u] = Fresh("pending")]
  /\ UNCHANGED <<segment, worker, wakes, reconciler, replays>>

\* requeue_failed_stt_job, which refuses an active claim, unless the segment is there.
Replay(u) ==
  /\ job[u].state \notin {"absent", "missing"}
  /\ job[u].state = "claimed" => Canonical(u)
  /\ replays[u] < MaxReplays
  /\ job' = [job EXCEPT ![u] = IF Canonical(u) THEN Settled(@, "succeeded")
                               ELSE Fresh("pending")]
  /\ replays' = [replays EXCEPT ![u] = @ + 1]
  /\ UNCHANGED <<segment, worker, wakes, reconciler>>

\* The clock passes a lease or a retry time, or the reservation cooldown.
DueComes(u) ==
  /\ job[u].state \in {"claimed", "retry_wait"}
  /\ ~job[u].due
  /\ job' = [job EXCEPT ![u].due = TRUE]
  /\ UNCHANGED <<segment, worker, wakes, reconciler, replays>>

CooldownPasses(u) ==
  /\ job[u].delivery # "none"
  /\ job' = [job EXCEPT ![u].delivery = IF @ = "recent" THEN "lapsing" ELSE "none"]
  /\ UNCHANGED <<segment, worker, wakes, reconciler, replays>>

-----------------------------------------------------------------------------
(* reconcile_stt_jobs, one step per transaction.                           *)

\* _ensure_missing_jobs.
EnsureMissingJobs ==
  /\ reconciler.at = "ensure"
  /\ job' = [u \in Utterances |-> IF job[u].state = "missing"
                                  THEN Fresh("pending") ELSE job[u]]
  /\ reconciler' = [reconciler EXCEPT !.at = "converge"]
  /\ UNCHANGED <<segment, worker, wakes, replays>>

\* The rows _converge_canonical and _repair_false_succeeded change.  The
\* repair finds nothing to do as long as OutcomeAgrees holds, so the two
\* transactions are one step here.
Converged(u) ==
  IF Canonical(u) THEN Settled(job[u], "succeeded")
  ELSE IF job[u].state = "succeeded" THEN Fresh("pending") ELSE job[u]

ConvergeCanonical ==
  /\ reconciler.at = "converge"
  /\ job' = [u \in Utterances |-> Converged(u)]
  /\ reconciler' = [reconciler EXCEPT !.at = "select"]
  /\ UNCHANGED <<segment, worker, wakes, replays>>

\* _reserve_fair_candidates up to the choice.  Lower ranks go first; the turn
\* between sessions of equal rank is left open.
SelectCandidates ==
  LET c == reconciler.class
      free == ClassLimit - OutstandingOf(OfClass(c))
  IN
  /\ reconciler.at = "select"
  /\ \E picked \in SUBSET Candidates(c) :
       /\ Cardinality(picked) =
            Min({Cardinality(Candidates(c)), Max({0, free})})
       /\ \A u \in picked, v \in Candidates(c) \ picked : Rank(u) <= Rank(v)
       /\ reconciler' = [reconciler EXCEPT !.at = "stamp", !.picked = picked]
  /\ UNCHANGED <<job, segment, worker, wakes, replays>>

\* Its UPDATE looks at the rows again, which workers may have changed; it
\* counts the wakes in the same transaction.
StampReservations ==
  /\ reconciler.at = "stamp"
  /\ job' = [u \in Utterances |->
               IF u \in reconciler.picked /\ Eligible(job[u])
               THEN [job[u] EXCEPT !.delivery = "recent"] ELSE job[u]]
  /\ reconciler' =
       [reconciler EXCEPT !.at = "wake", !.picked = {},
          !.target = Cardinality({u \in OfClass(reconciler.class) : Reserved(job'[u])})]
  /\ UNCHANGED <<segment, worker, wakes, replays>>

NextPass(class) ==
  IF class = "live" /\ "upload" \in Classes
  THEN [PassStart EXCEPT !.class = "upload"] ELSE PassStart

\* ensure_stt_wake_capacity tops the queue up to the target, or fails having
\* sent some of the wakes or none; the pass goes on.
TopUp(c) == [wakes EXCEPT ![c] = Max({@, reconciler.target})]

PublishWakes(c) ==
  /\ reconciler.at = "wake"
  /\ reconciler.class = c
  /\ wakes' = TopUp(c)
  /\ reconciler' = NextPass(c)
  /\ UNCHANGED <<job, segment, worker, replays>>

PublishSomeWakes(c) ==
  /\ reconciler.at = "wake"
  /\ reconciler.class = c
  /\ \E n \in wakes[c]..TopUp(c)[c] : wakes' = [wakes EXCEPT ![c] = n]
  /\ reconciler' = NextPass(c)
  /\ UNCHANGED <<job, segment, worker, replays>>

\* An exception ends the pass of both classes; so does a restart.
AbortPass ==
  /\ reconciler # PassStart
  /\ reconciler' = PassStart
  /\ UNCHANGED <<job, segment, worker, wakes, replays>>

-----------------------------------------------------------------------------
(* Wakes in Redis.                                                         *)

LoseWake(c) ==
  /\ wakes[c] > 0
  /\ wakes' = [wakes EXCEPT ![c] = @ - 1]
  /\ UNCHANGED <<job, segment, worker, reconciler, replays>>

\* A redelivery, or a message of an earlier release.
RepeatWake(c) ==
  /\ wakes[c] < MaxWakes
  /\ wakes' = [wakes EXCEPT ![c] = @ + 1]
  /\ UNCHANGED <<job, segment, worker, reconciler, replays>>

-----------------------------------------------------------------------------
(* Workers.                                                                *)

TakeWake(w) ==
  LET c == WorkerClass[w] IN
  /\ worker[w] = Idle
  /\ wakes[c] > 0
  /\ wakes' = [wakes EXCEPT ![c] = @ - 1]
  /\ worker' = [worker EXCEPT ![w].at = "waking"]
  /\ UNCHANGED <<job, segment, reconciler, replays>>

Moves(w, at) == worker' = [worker EXCEPT ![w].at = at]
Finishes(w) == worker' = [worker EXCEPT ![w] = Idle]
RunsAt(w, at) == worker[w].at = at
Current(w) == worker[w].on

\* The reservations a worker may find: one that lapses is still found by a
\* worker that read the clock before.
Found(w) == {u \in OfClass(WorkerClass[w]) :
               job[u].delivery # "none" /\ Deliverable(job[u])}

\* One round of _claim_next_reserved_stt_job.  A job that turns out to be
\* settled is not claimed, and the next one is tried.
ClaimNext(w) ==
  /\ RunsAt(w, "waking")
  /\ \E u \in Found(w) :
       IF Canonical(u) \/ job[u].attempts >= MaxAttempts
       THEN /\ job' = [job EXCEPT ![u] = Settled(@, IF Canonical(u) THEN "succeeded"
                                                    ELSE "failed")]
            /\ UNCHANGED worker
       ELSE /\ job' = [job EXCEPT ![u] =
                         [state |-> "claimed", attempts |-> @.attempts + 1,
                          claim |-> w, due |-> FALSE, delivery |-> "none"]]
            /\ worker' = [worker EXCEPT ![w] = [at |-> "reading", on |-> u]]
  /\ UNCHANGED <<segment, wakes, reconciler, replays>>

NothingReserved(w) ==
  /\ RunsAt(w, "waking")
  /\ \A u \in Found(w) : job[u].delivery = "lapsing"
  /\ Finishes(w)
  /\ UNCHANGED <<job, segment, wakes, reconciler, replays>>

\* transcribe_utterance: the utterance, an earlier segment and the audio.
ReadWork(w) ==
  /\ RunsAt(w, "reading")
  /\ IF Canonical(Current(w)) THEN Moves(w, "succeeding")
     ELSE \E at \in {"calling", "failing_for_good"} : Moves(w, at)
  /\ UNCHANGED <<job, segment, wakes, reconciler, replays>>

\* The provider answers with text, a blank text, an error worth a retry or
\* one that is not.
ProviderAnswers(w) ==
  /\ RunsAt(w, "calling")
  /\ \E at \in {"committing", "silent", "failing", "failing_for_good"} : Moves(w, at)
  /\ UNCHANGED <<job, segment, wakes, reconciler, replays>>

Numbers(s) == {0} \cup {segment[u] : u \in {v \in Utterances : SessionOf[v] = s}}
NextSequence(s) == 1 + Max(Numbers(s))

\* commit_transcript_segment with its guard.  The commit may be rolled back,
\* and the worker may lose the connection before it learns of a commit: both
\* end as an unexpected error.
CommitSegment(w) ==
  LET u == Current(w) IN
  /\ RunsAt(w, "committing")
  /\ IF HoldsClaim(w, u)
     THEN /\ segment' = IF Canonical(u) THEN segment
                        ELSE [segment EXCEPT ![u] = NextSequence(SessionOf[u])]
          /\ \E at \in {"succeeding", "failing"} : Moves(w, at)
     ELSE Finishes(w) /\ UNCHANGED segment
  /\ UNCHANGED <<job, wakes, reconciler, replays>>

CommitFails(w) ==
  /\ RunsAt(w, "committing")
  /\ Moves(w, "failing")
  /\ UNCHANGED <<job, segment, wakes, reconciler, replays>>

\* _complete_claim_success.
CompleteSuccess(w) ==
  LET u == Current(w) IN
  /\ RunsAt(w, "succeeding")
  /\ job' = IF Canonical(u) THEN [job EXCEPT ![u] = Settled(@, "succeeded")] ELSE job
  /\ Finishes(w)
  /\ UNCHANGED <<segment, wakes, reconciler, replays>>

\* _complete_claim_no_speech.
CompleteNoSpeech(w) ==
  LET u == Current(w) IN
  /\ RunsAt(w, "silent")
  /\ job' = IF Canonical(u) THEN [job EXCEPT ![u] = Settled(@, "succeeded")]
            ELSE IF HoldsClaim(w, u) THEN [job EXCEPT ![u] = Settled(@, "no_speech")]
            ELSE job
  /\ Finishes(w)
  /\ UNCHANGED <<segment, wakes, reconciler, replays>>

\* Faulty variant: a failure is recorded although the segment was committed.
FailedUnseen(row, canonical, retryable) ==
  IF retryable /\ row.attempts < MaxAttempts
  THEN [row EXCEPT !.state = "retry_wait", !.claim = NoWorker, !.due = FALSE,
                   !.delivery = "none"]
  ELSE Settled(row, "failed")

\* The row _record_claim_failure leaves.
Failed(row, canonical, retryable) ==
  IF canonical THEN Settled(row, "succeeded")
  ELSE IF retryable /\ row.attempts < MaxAttempts
  THEN [row EXCEPT !.state = "retry_wait", !.claim = NoWorker, !.due = FALSE,
                   !.delivery = "none"]
  ELSE Settled(row, "failed")

RecordFailure(w) ==
  LET u == Current(w)
      retryable == RunsAt(w, "failing")
  IN
  /\ RunsAt(w, "failing") \/ RunsAt(w, "failing_for_good")
  /\ job' = IF Canonical(u) \/ HoldsClaim(w, u)
            THEN [job EXCEPT ![u] = Failed(@, Canonical(u), retryable)] ELSE job
  /\ Finishes(w)
  /\ UNCHANGED <<segment, wakes, reconciler, replays>>

\* The worker process dies; acks_late lets the broker deliver its wake again.
WorkerCrash(w) ==
  /\ worker[w] # Idle
  /\ Finishes(w)
  /\ UNCHANGED <<job, segment, wakes, reconciler, replays>>

Runs(w) ==
  \/ NothingReserved(w) \/ ReadWork(w) \/ ProviderAnswers(w) \/ CommitSegment(w)
  \/ CompleteSuccess(w) \/ CompleteNoSpeech(w) \/ RecordFailure(w)

Next ==
  \/ \E u \in Utterances :
       CommitUtterance(u) \/ Replay(u) \/ DueComes(u) \/ CooldownPasses(u)
  \/ EnsureMissingJobs \/ ConvergeCanonical \/ SelectCandidates \/ StampReservations
  \/ AbortPass
  \/ \E c \in Classes :
       PublishWakes(c) \/ PublishSomeWakes(c) \/ LoseWake(c) \/ RepeatWake(c)
  \/ \E w \in Workers :
       TakeWake(w) \/ ClaimNext(w) \/ Runs(w) \/ CommitFails(w) \/ WorkerCrash(w)

Spec == Init /\ [][Next]_vars

-----------------------------------------------------------------------------
(* Fairness.  The reconciler and the workers of FairClasses run (Docker     *)
(* restarts them), and the clock advances.  Disturbances may go on for any  *)
(* time but not for ever: passes that abort, wakes that are lost or taken   *)
(* by a worker that dies before it claims, and reservations that lapse      *)
(* before a wake on its way is served, though the cooldown is many times    *)
(* the reconciler's interval.  A worker may crash for ever while it runs a  *)
(* claim: each crash costs its job an attempt.                              *)

OnItsWay(u) ==
  /\ Reserved(job[u])
  /\ \/ reconciler.at = "wake" /\ reconciler.class = Class(u)
     \/ wakes[Class(u)] > 0
     \/ \E w \in Workers : RunsAt(w, "waking") /\ WorkerClass[w] = Class(u)

Disturbance ==
  \/ AbortPass
  \/ \E c \in FairClasses :
       \/ LoseWake(c)
       \/ reconciler.at = "wake" /\ reconciler.class = c /\ wakes' # TopUp(c)
  \/ \E w \in Workers : WorkerClass[w] \in FairClasses /\ RunsAt(w, "waking") /\ WorkerCrash(w)
  \/ \E u \in Utterances : Class(u) \in FairClasses /\ OnItsWay(u) /\ CooldownPasses(u)

Reconciles ==
  \/ EnsureMissingJobs \/ ConvergeCanonical \/ SelectCandidates \/ StampReservations
  \/ \E c \in Classes : PublishWakes(c)

Fairness ==
  /\ WF_vars(Reconciles)
  /\ \A u \in Utterances : WF_vars(DueComes(u)) /\ WF_vars(CooldownPasses(u))
  /\ \A w \in Workers : WorkerClass[w] \in FairClasses =>
       WF_vars(TakeWake(w)) /\ WF_vars(ClaimNext(w)) /\ WF_vars(Runs(w))
  /\ <>[][~Disturbance]_vars

FairSpec == Spec /\ Fairness

-----------------------------------------------------------------------------
(* Properties.                                                             *)

TypeOK ==
  /\ job \in [Utterances -> JobRow]
  /\ segment \in [Utterances -> Nat]
  /\ worker \in [Workers -> WorkerRow]
  /\ wakes \in [Classes -> Nat]
  /\ reconciler \in [at : ReconcilerSteps, class : Classes,
                     picked : SUBSET Utterances, target : Nat]
  /\ replays \in [Utterances -> 0..MaxReplays]
  /\ \A w \in Workers : worker[w].on = 0 <=> worker[w].at \in {"idle", "waking"}
  /\ \A u \in Utterances : job[u].claim # NoWorker <=> job[u].state = "claimed"

\* The row and the transcript agree: "succeeded" means there is a segment, and
\* a job with a segment is succeeded or still claimed by the run that wrote
\* it, never waiting for a retry, given up or silent.  So the repair of false
\* successes never finds one of this code's own making.
OutcomeAgrees ==
  \A u \in Utterances :
    /\ job[u].state = "succeeded" => Canonical(u)
    /\ Canonical(u) => job[u].state \in {"claimed", "succeeded"}

\* The sequences of a session's transcript are 1, 2, ... without a hole or a
\* repetition, however the commits of its workers interleave.
TranscriptGapless ==
  \A u \in Utterances : Canonical(u) =>
    /\ \A v \in Utterances : SessionOf[v] = SessionOf[u] /\ segment[v] = segment[u] => v = u
    /\ \A m \in 1..(segment[u] - 1) :
         \E v \in Utterances : SessionOf[v] = SessionOf[u] /\ segment[v] = m

\* A run that lost its claim changes nothing: the job it worked on is decided
\* by the present holder, and a late answer, text, silence or error, is
\* dropped unless the transcript has the segment already.
StaleRunsChangeNothing ==
  [][\A w \in Workers :
       LET u == Current(w) IN
       /\ worker[w].at \in WorkerSteps \ {"waking"}
       /\ job[u].state # "claimed" \/ job[u].claim # w
       /\ worker'[w] # worker[w]
       => segment' = segment /\ (Canonical(u) \/ job' = job)]_vars

\* The outcome an observer sees.
Outcome(u) ==
  CASE Canonical(u) -> "text"
    [] ~Canonical(u) /\ job[u].state = "absent" -> "unknown"
    [] ~Canonical(u) /\ job[u].state = "no_speech" -> "silence"
    [] ~Canonical(u) /\ job[u].state = "failed" -> "failure"
    [] OTHER -> "open"

outcome == [u \in Utterances |-> Outcome(u)]

Promise == INSTANCE Transcription

\* Each utterance is settled once, as text, silence or failure, and its text is
\* final: the scheduler implements Transcription.
KeepsPromise == Promise!Spec

\* Each committed utterance of a class whose workers run is settled in the
\* end, though wakes are lost, workers and the reconciler die, reservations
\* lapse, and the workers of the other class may all be stuck.
EventuallySettled ==
  \A u \in Utterances :
    Class(u) \in FairClasses /\ job[u].state # "absent"
      ~> job[u].state \in {"succeeded", "no_speech", "failed"}
=============================================================================
