--------------------------- MODULE BrowserRecorder ---------------------------
(***************************************************************************)
(* One recording seen from the browser: apps/web/src/recorder, composed     *)
(* with the server of RecordingSession.  Tabs of one origin share IndexedDB *)
(* (the local session row with its high-water mark, and the spool of chunks *)
(* that await a durable ACK); each tab's controller works on a snapshot of  *)
(* the row it holds in memory.  A tab may be closed or crash at any time;   *)
(* requests and answers get lost, and a request its sender has given up on  *)
(* may still reach the server later.                                        *)
(*                                                                         *)
(* Time is abstracted: a chunk ends at its sequence number.  The server's   *)
(* heartbeat timeout only tells "recording" from "interrupted", which no    *)
(* decision of the client reads, so those handlers are left to              *)
(* RecordingSession.                                                        *)
(***************************************************************************)
EXTENDS Integers, FiniteSets

CONSTANTS
  Tabs,
  MaxChunks,      \* bound on captured chunks
  MaxWriters,     \* bound on the writer ids the browser draws
  MaxEpoch,       \* bound on capture_epoch
  GapIds,         \* bounds the client_gap_ids the browser draws
  LateKinds,      \* kinds of request that may reach the server late
  MaxLate,        \* bound on requests still under way after their sender gave up
  NoTab           \* nobody holds the capture lock

ASSUME BrowserAssumption ==
  /\ NoTab \notin Tabs
  /\ {MaxChunks, MaxWriters, MaxEpoch} \subseteq Nat \ {0}
  /\ MaxLate \in Nat

VARIABLES
  state, token, writer, epoch, heartbeat, chunks, audio, gaps,
  finalSequence, finalEndMs, finalizer, completeness,  \* see RecordingSession
  row,            \* the session row in IndexedDB
  spool,          \* the chunks in IndexedDB
  started,        \* commitStartedSession has consumed the pending start
  drawn,          \* writer ids drawn so far
  captured,       \* chunks captured so far, each with a body of its own
  phase,          \* snapshot.phase of each tab, finer while it awaits something
  mem,            \* localSession of each tab
  pending,        \* what the running sync of each tab has still to upload
  fenced,         \* tabs with captureFenced
  lock,           \* the tab holding the Web Lock of the session
  late            \* requests their sender has given up on

NoWriter == 0
Capability == "capability"

Server == INSTANCE RecordingSession WITH
  Writers <- 1..MaxWriters, Tokens <- {Capability}, Payloads <- 1..MaxChunks,
  Sequences <- 1..MaxChunks, Boundaries <- 0..MaxChunks,
  EndTimes <- 0..MaxChunks, NoToken <- "none", NoPayload <- 0

server == <<state, token, writer, epoch, heartbeat, chunks, audio, gaps,
            finalSequence, finalEndMs, finalizer, completeness>>
storage == <<row, spool, started>>
counters == <<drawn, captured>>
tabs == <<phase, mem, pending, fenced, lock>>
vars == <<server, storage, counters, tabs, late>>

Row == [writer : 1..MaxWriters, epoch : 1..MaxEpoch,
        pendingWriter : 0..MaxWriters, last : 0..MaxChunks]
NoRow == [writer |-> NoWriter, epoch |-> 0, pendingWriter |-> NoWriter, last |-> 0]

\* "locking": the session is stored, the lock not yet obtained; "broken": recoverable,
\* with the last chunk still being hashed.
Phases == {"closed", "idle", "starting", "locking", "recording", "stopping", "broken",
           "resuming", "claiming", "resumeGap", "finishing", "finishGap", "finalizing",
           "recoverable", "complete", "error"}

-----------------------------------------------------------------------------
(* Requests, and what the server does with one that arrives.               *)

CreateRequest == [kind |-> "create"]
ClaimRequest(w, e) == [kind |-> "claim", writer |-> w, epoch |-> e]
ChunkRequest(c) == [kind |-> "chunk", chunk |-> c]
GapRequest(r, id) == [kind |-> "gap", writer |-> r.writer, epoch |-> r.epoch, id |-> id]
FinalizeRequest(r) ==
  [kind |-> "finalize", writer |-> r.writer, epoch |-> r.epoch, final |-> r.last]

Handle(r) ==
  CASE r.kind = "create"   -> Server!CreateSession(1, Capability)
    [] r.kind = "claim"    -> Server!ClaimCapture(r.writer, Capability, r.epoch)
    [] r.kind = "chunk"    -> Server!AcceptChunk(r.chunk)
    [] r.kind = "gap"      -> Server!DeclareGap(r.id, r.writer, r.epoch, {})
    [] r.kind = "finalize" -> Server!Finalize(r.writer, r.epoch, r.final, r.final, {})

\* The sender gets no answer: the request was handled, is under way, or is lost.
Unanswered(r) ==
  \/ Handle(r) /\ UNCHANGED late
  \/ /\ r.kind \in LateKinds
     /\ Cardinality(late) < MaxLate
     /\ late' = late \cup {r}
     /\ UNCHANGED server
  \/ UNCHANGED <<server, late>>

\* A request arrives after its sender gave up; a refusal reaches nobody.
LateArrival ==
  \E r \in late :
    /\ late' = late \ {r}
    /\ Handle(r) \/ UNCHANGED server
    /\ UNCHANGED <<storage, counters, tabs>>

-----------------------------------------------------------------------------
(* Steps the operations of the controller share.                           *)

Enter(t, p) == phase' = [phase EXCEPT ![t] = p]
Remember(t, r) == mem' = [mem EXCEPT ![t] = r]
LockFree(t) == lock \in {NoTab, t}

\* Faulty variant: a tab that could not get the lock drops it for its owner.
UnlockForAll(t) == lock' = NoTab
Unlock(t) == lock' = IF lock = t THEN NoTab ELSE lock

\* putLocalSession: whatever the tab holds overwrites the row.
PutLocalSession(r) == row' = r

\* deleteLocalSession, after which the tab holds no session either.
DeleteLocalSession(t, p) ==
  /\ row' = NoRow
  /\ spool' = {}
  /\ Remember(t, NoRow)
  /\ pending' = [pending EXCEPT ![t] = {}]
  /\ Unlock(t)
  /\ Enter(t, p)
  /\ UNCHANGED <<started, fenced>>

\* keepStoppedSessionRecoverable, and what a recorder that breaks does.
KeepRecoverable(t) ==
  /\ PutLocalSession(mem[t])
  /\ Enter(t, "recoverable")
  /\ Unlock(t)
  /\ UNCHANGED <<spool, started, mem>>

\* resume leaves the row alone when it fails.
GiveUpResuming(t) ==
  /\ Enter(t, "recoverable")
  /\ Unlock(t)
  /\ UNCHANGED <<storage, mem>>

\* A stale-writer refusal, if it reaches the tab, fences it until it is reloaded.
FenceIf(refused, t) ==
  \/ UNCHANGED fenced
  \/ refused /\ fenced' = fenced \cup {t}

\* serverStateFencesLocal.
MatchingCompletion(r) ==
  state = "complete" /\ epoch = r.epoch /\ finalSequence = r.last
Fences(r) ==
  /\ ~ MatchingCompletion(r)
  /\ ~ (r.pendingWriter # NoWriter /\ epoch = r.epoch + 1 /\ writer = r.pendingWriter)
  /\ (state = "complete" \/ epoch # r.epoch \/ writer # r.writer)

\* acceptedBySameCaptureGeneration and reconcileLocalSpool.
Reconciled == {c \in spool : ~ (c.epoch = epoch /\ c.seq \in Server!Accepted)}

\* Faulty variant: the capture generation is claimed, or the end declared,
\* while chunks still await their ACK.
AnySpool == TRUE
SpoolAcked == spool = {}

-----------------------------------------------------------------------------
(* Opening a page and closing it.                                          *)

\* FencedRecorderController.initialize on an origin without a session.
OpenFresh(t) ==
  /\ phase[t] = "closed"
  /\ row = NoRow
  /\ Enter(t, "idle")
  /\ UNCHANGED <<server, storage, counters, mem, pending, fenced, lock, late>>

\* initializeFencedFromServerTruth: the inner controller is not initialized.
OpenFenced(t) ==
  /\ phase[t] = "closed"
  /\ row # NoRow
  /\ Fences(row)
  /\ fenced' = fenced \cup {t}
  /\ Enter(t, "recoverable")
  /\ UNCHANGED <<server, storage, counters, mem, pending, lock, late>>

\* initialize reads that the session is complete, with the first read of the
\* server, the one for the fence, possibly having failed.
OpenComplete(t) ==
  /\ phase[t] = "closed"
  /\ row # NoRow
  /\ state = "complete"
  /\ DeleteLocalSession(t, "idle")
  /\ UNCHANGED <<server, counters, late>>

\* initialize finds a session to recover, with or without the server's help,
\* and refreshFenceFromServer reads the server once more.
OpenRecoverable(t) ==
  /\ phase[t] = "closed"
  /\ row # NoRow
  /\ Enter(t, "recoverable")
  /\ Remember(t, row)
  /\ \/ UNCHANGED spool
     \/ state # "complete" /\ spool' = Reconciled
  /\ FenceIf(Fences(row), t)
  /\ UNCHANGED <<server, row, started, counters, pending, lock, late>>

\* The tab is closed, reloaded or crashes.
Close(t) ==
  /\ phase[t] # "closed"
  /\ Enter(t, "closed")
  /\ Remember(t, NoRow)
  /\ pending' = [pending EXCEPT ![t] = {}]
  /\ fenced' = fenced \ {t}
  /\ Unlock(t)
  /\ UNCHANGED <<server, storage, counters, late>>

-----------------------------------------------------------------------------
(* start.  Tabs that start together share the persisted start identity.    *)

BeginStart(t) ==
  /\ phase[t] \in {"idle", "error"}
  /\ t \notin fenced
  /\ ~ started
  /\ Enter(t, "starting")
  /\ drawn' = 1
  /\ UNCHANGED <<server, storage, captured, mem, pending, fenced, lock, late>>

\* createLiveSession answers, and commitStartedSession finds the pending start.
Started(t) ==
  LET new == [writer |-> 1, epoch |-> 1, pendingWriter |-> NoWriter, last |-> 0] IN
  /\ phase[t] = "starting"
  /\ ~ started
  /\ \/ Handle(CreateRequest)
     \/ state # "none" /\ UNCHANGED server
  /\ started' = TRUE
  /\ PutLocalSession(new)
  /\ Remember(t, new)
  /\ Enter(t, "locking")
  /\ UNCHANGED <<spool, counters, pending, fenced, lock, late>>

\* acquireCaptureTabLock gets the lock, and the recorder starts.
StartLocked(t) ==
  /\ phase[t] = "locking"
  /\ LockFree(t)
  /\ lock' = t
  /\ Enter(t, "recording")
  /\ UNCHANGED <<server, storage, counters, mem, pending, fenced, late>>

\* Another tab has found the session and got the lock, or the recorder does not start.
StartRefused(t) ==
  /\ phase[t] = "locking"
  /\ KeepRecoverable(t)
  /\ UNCHANGED <<server, counters, pending, fenced, late>>

\* The request gets no answer, or another tab has committed the start.
StartFails(t) ==
  /\ phase[t] = "starting"
  /\ IF started THEN UNCHANGED <<server, late>> ELSE Unanswered(CreateRequest)
  /\ Enter(t, "error")
  /\ UNCHANGED <<storage, counters, mem, pending, fenced, lock>>

-----------------------------------------------------------------------------
(* Recording.  persistCapturedBlob takes a snapshot of localSession, hashes  *)
(* the chunk, stores it in one transaction and then advances localSession.   *)
(* One chunk at a time is on its way: the chain of promises stores them in   *)
(* turn.                                                                   *)

NextChunk(t) ==
  [seq |-> mem[t].last + 1, writer |-> mem[t].writer, epoch |-> mem[t].epoch,
   payload |-> captured + 1, endMs |-> mem[t].last + 1]
Advanced(r) == [r EXCEPT !.last = @ + 1]

\* The checks of appendCapturedChunk against the row and the spool.
MayAppend(c) ==
  /\ row.writer = c.writer
  /\ row.epoch = c.epoch
  /\ row.last + 1 = c.seq
  /\ \A d \in spool : d.seq # c.seq

SpoolNext(t) ==
  /\ captured < MaxChunks
  /\ MayAppend(NextChunk(t))
  /\ spool' = spool \cup {NextChunk(t)}
  /\ captured' = captured + 1

\* Faulty variant: the row is left to a later write.
AppendWithoutHighWater(t) ==
  /\ SpoolNext(t)
  /\ Remember(t, Advanced(mem[t]))
  /\ UNCHANGED row

\* appendCapturedChunk: one transaction for the chunk and the high-water mark.
AppendCapturedChunk(t) ==
  /\ SpoolNext(t)
  /\ Remember(t, Advanced(mem[t]))
  /\ PutLocalSession(Advanced(mem[t]))

Capture(t) ==
  /\ phase[t] = "recording"
  /\ AppendCapturedChunk(t)
  /\ UNCHANGED <<server, started, drawn, phase, pending, fenced, lock, late>>

\* The spool cannot take a chunk, or the recorder or microphone stops, with nothing on
\* its way to the spool: failCaptureBecauseSpoolIsUnsafe, ...MediaInterrupted.
CaptureBreaks(t) ==
  /\ phase[t] = "recording"
  /\ KeepRecoverable(t)
  /\ UNCHANGED <<server, counters, pending, fenced, late>>

\* Neither waits for a chunk on its way.  One whose transaction is under way is stored,
\* and then the old localSession is put over the row that counts it.
CaptureBreaksOver(t) ==
  /\ phase[t] = "recording"
  /\ SpoolNext(t)
  /\ PutLocalSession(mem[t])
  /\ Enter(t, "recoverable")
  /\ Unlock(t)
  /\ UNCHANGED <<server, started, drawn, mem, pending, fenced, late>>

\* One that is still being hashed goes on to the transaction afterwards.
CaptureBreaksOff(t) ==
  /\ phase[t] = "recording"
  /\ PutLocalSession(mem[t])
  /\ Enter(t, "broken")
  /\ Unlock(t)
  /\ UNCHANGED <<server, spool, started, counters, mem, pending, fenced, late>>

TailStored(t) ==
  /\ phase[t] = "broken"
  /\ AppendCapturedChunk(t)
  /\ Enter(t, "recoverable")
  /\ UNCHANGED <<server, started, drawn, pending, fenced, lock, late>>

\* The row is another one by now, or the spool cannot take it: the capture that has
\* failed already fails because its spool is unsafe.
TailRefused(t) ==
  /\ phase[t] = "broken"
  /\ KeepRecoverable(t)
  /\ UNCHANGED <<server, counters, pending, fenced, late>>

\* syncPending: fetch the state, reconcile, list what is left to upload.
SyncStart(t) ==
  /\ mem[t] # NoRow
  /\ pending[t] = {}
  /\ spool # {}
  /\ spool' = Reconciled
  /\ pending' = [pending EXCEPT ![t] = Reconciled]
  /\ UNCHANGED <<server, row, started, counters, phase, mem, fenced, lock, late>>

\* The chunk uploadWithRetry works on.
Uploading(t) == CHOOSE c \in pending[t] : \A d \in pending[t] : c.seq <= d.seq

\* The server acknowledges the chunk, now or on the retry of an earlier
\* upload; deleteSpoolChunk goes by the sequence number.
UploadAcked(t) ==
  /\ pending[t] # {}
  /\ LET c == Uploading(t) IN
     /\ \/ Server!AcceptChunk(c)
        \/ c \in chunks /\ UNCHANGED server
     /\ spool' = {d \in spool : d.seq # c.seq}
     /\ pending' = [pending EXCEPT ![t] = @ \ {c}]
  /\ UNCHANGED <<row, started, counters, phase, mem, fenced, lock, late>>

\* The last attempt times out, or the request is aborted or refused: the sync
\* ends.  The server may also have crashed with the file already durable.
UploadFails(t) ==
  /\ pending[t] # {}
  /\ LET c == Uploading(t)
         stale == c.seq \notin Server!Accepted /\ ~ Server!ValidWriter(c.writer, c.epoch)
     IN
     /\ \/ Unanswered(ChunkRequest(c))
        \/ Server!AcceptChunkCrash(c) /\ UNCHANGED late
     /\ FenceIf(stale, t)
  /\ pending' = [pending EXCEPT ![t] = {}]
  /\ UNCHANGED <<storage, counters, phase, mem, lock>>

\* stop, by the user or because the tab was fenced, has awaited the chunks on their way;
\* the running sync is aborted and a new one awaited.
Stop(t) ==
  /\ phase[t] = "recording"
  /\ Enter(t, "stopping")
  /\ pending' = [pending EXCEPT ![t] = {}]
  /\ UNCHANGED <<server, storage, counters, mem, fenced, lock, late>>

\* The first half of finalizeLocalSession.
BeginFinalize(t, r) ==
  /\ PutLocalSession(r)
  /\ Remember(t, r)
  /\ Enter(t, "finalizing")

StopSynced(t) ==
  /\ phase[t] = "stopping"
  /\ pending[t] = {}
  /\ IF SpoolAcked
     THEN BeginFinalize(t, mem[t]) /\ UNCHANGED <<spool, started, lock>>
     ELSE KeepRecoverable(t)
  /\ UNCHANGED <<server, counters, pending, fenced, late>>

-----------------------------------------------------------------------------
(* resume.                                                                 *)

\* A chunk still being hashed, a matter of milliseconds, is taken to be stored before
\* anybody resumes or finishes in that tab.
MayRecover(t) == phase[t] = "recoverable" /\ t \notin fenced /\ mem[t] # NoRow

\* adoptMatchingRemoteCompletion, with which resume and finish both begin.
AdoptCompletion(t) ==
  /\ MayRecover(t)
  /\ LockFree(t)
  /\ MatchingCompletion(mem[t])
  /\ DeleteLocalSession(t, "complete")
  /\ UNCHANGED <<server, counters, late>>

\* The lock is taken and old audio reconciled, or the tab stays as it is.
Recover(t, p) ==
  /\ MayRecover(t)
  /\ LockFree(t)
  /\ ~ MatchingCompletion(mem[t])
  /\ lock' = t
  /\ spool' = Reconciled
  /\ Enter(t, p)
  /\ UNCHANGED <<server, row, started, counters, mem, pending, fenced, late>>

Resume(t) == Recover(t, "resuming")

\* Faulty variant: the claim's writer id is only kept in memory.
IntentInMemory(t, r) == Remember(t, r) /\ UNCHANGED row

\* The intent to claim is persisted before the claim is sent.
PersistIntent(t, r) == Remember(t, r) /\ PutLocalSession(r)

ResumeSynced(t) ==
  /\ phase[t] = "resuming"
  /\ pending[t] = {}
  /\ SpoolAcked
  /\ Enter(t, "claiming")
  /\ IF mem[t].pendingWriter # NoWriter
     THEN UNCHANGED <<row, drawn, mem>>
     ELSE /\ drawn < MaxWriters
          /\ drawn' = drawn + 1
          /\ PersistIntent(t, [mem[t] EXCEPT !.pendingWriter = drawn + 1])
  /\ UNCHANGED <<server, spool, started, captured, pending, fenced, lock, late>>

\* Audio awaits its ACK, or the microphone is refused.
ResumeBlocked(t) ==
  /\ phase[t] = "resuming"
  /\ pending[t] = {}
  /\ GiveUpResuming(t)
  /\ UNCHANGED <<server, counters, pending, fenced, late>>

\* Faulty variant: each capture generation numbers its chunks from one.
ResumedFromOne(r) ==
  [r EXCEPT !.writer = r.pendingWriter, !.epoch = @ + 1, !.pendingWriter = NoWriter,
            !.last = 0]

Resumed(r) ==
  [r EXCEPT !.writer = r.pendingWriter, !.epoch = @ + 1, !.pendingWriter = NoWriter]

ClaimAnswered(t) ==
  LET r == mem[t] IN
  /\ phase[t] = "claiming"
  /\ \/ Server!ClaimCapture(r.pendingWriter, Capability, r.epoch)
     \/ Server!RetryClaim(r.pendingWriter, Capability, r.epoch)
  /\ PutLocalSession(Resumed(r))
  /\ Remember(t, Resumed(r))
  /\ Enter(t, "resumeGap")
  /\ UNCHANGED <<spool, started, counters, pending, fenced, lock, late>>

\* No answer, or a refusal.
ClaimFails(t) ==
  /\ phase[t] = "claiming"
  /\ Unanswered(ClaimRequest(mem[t].pendingWriter, mem[t].epoch))
  /\ GiveUpResuming(t)
  /\ UNCHANGED <<counters, pending, fenced>>

\* recordRecoveryGap: a wall-clock gap under a fresh id, unless the
\* interruption was shorter than a second.
FreshGap(t) ==
  \E id \in GapIds :
    Server!DeclareGap(id, mem[t].writer, mem[t].epoch, {})

ResumeGapAnswered(t) ==
  /\ phase[t] = "resumeGap"
  /\ FreshGap(t) \/ UNCHANGED server
  /\ Enter(t, "recording")
  /\ UNCHANGED <<storage, counters, mem, pending, fenced, lock, late>>

\* No answer, or a refusal, of the gap a tab is declaring.
GapLost(t) ==
  /\ \E id \in GapIds : Unanswered(GapRequest(mem[t], id))
  /\ FenceIf(~ Server!ValidWriter(mem[t].writer, mem[t].epoch), t)

ResumeGapFails(t) ==
  /\ phase[t] = "resumeGap"
  /\ GapLost(t)
  /\ GiveUpResuming(t)
  /\ UNCHANGED <<counters, pending>>

-----------------------------------------------------------------------------
(* finishRecovered.                                                        *)

Finish(t) == Recover(t, "finishing")

\* Another tab has the lock, or the server cannot be read.
FinishRefused(t) ==
  /\ MayRecover(t)
  /\ KeepRecoverable(t)
  /\ UNCHANGED <<server, counters, pending, fenced, late>>

\* The row finish goes on with once it knows what became of a claim whose
\* answer it never saw.
ClaimWon(r) == epoch = r.epoch + 1 /\ writer = r.pendingWriter
ClaimNotSeen(r) == epoch = r.epoch /\ writer = r.writer

\* Faulty variant: finish takes over a writer id without looking for the claim.
ResolvedBlindly(r) == Resumed(r)

Resolved(r) ==
  IF r.pendingWriter # NoWriter /\ ClaimWon(r) THEN Resumed(r)
  ELSE [r EXCEPT !.pendingWriter = NoWriter]

FinishSynced(t) ==
  LET r == mem[t] IN
  /\ phase[t] = "finishing"
  /\ pending[t] = {}
  /\ SpoolAcked
  /\ ~ MatchingCompletion(r)
  /\ \/ r.pendingWriter = NoWriter
     \/ ClaimNotSeen(r)
     \/ ClaimWon(r) /\ Server!RetryClaim(r.pendingWriter, Capability, r.epoch)
  /\ IF state = "finalizing"
     THEN BeginFinalize(t, Resolved(r))
     ELSE /\ Enter(t, "finishGap")
          /\ Remember(t, Resolved(r))
          /\ IF r.pendingWriter = NoWriter THEN UNCHANGED row
                                           ELSE PutLocalSession(Resolved(r))
  /\ UNCHANGED <<server, spool, started, counters, pending, fenced, lock, late>>

\* The second read shows the completion an earlier request brought about.
FinishAdopts(t) ==
  /\ phase[t] = "finishing"
  /\ pending[t] = {}
  /\ SpoolAcked
  /\ MatchingCompletion(mem[t])
  /\ DeleteLocalSession(t, "complete")
  /\ UNCHANGED <<server, counters, late>>

\* Audio awaits its ACK, ownership has changed, or a request fails.
FinishBlocked(t) ==
  /\ phase[t] = "finishing"
  /\ pending[t] = {}
  /\ KeepRecoverable(t)
  /\ UNCHANGED <<server, counters, pending, fenced, late>>

FinishGapAnswered(t) ==
  /\ phase[t] = "finishGap"
  /\ FreshGap(t) \/ UNCHANGED server
  /\ BeginFinalize(t, mem[t])
  /\ UNCHANGED <<spool, started, counters, pending, fenced, lock, late>>

FinishGapFails(t) ==
  /\ phase[t] = "finishGap"
  /\ GapLost(t)
  /\ KeepRecoverable(t)
  /\ UNCHANGED <<counters, pending>>

\* finalizeRecording answers.  On a complete session the server compares the
\* boundary and the finalizer and answers the same again.
Complete(t) ==
  LET r == mem[t] IN
  /\ phase[t] = "finalizing"
  /\ \/ /\ Server!Finalize(r.writer, r.epoch, r.last, r.last, {})
        /\ state' = "complete"
     \/ /\ MatchingCompletion(r)
        /\ finalizer = [writer |-> r.writer, epoch |-> r.epoch]
        /\ UNCHANGED server
  /\ DeleteLocalSession(t, "complete")
  /\ UNCHANGED <<counters, late>>

\* The server answers that sequences are missing, refuses, or does not answer.
FinalizeFails(t) ==
  LET r == mem[t] IN
  /\ phase[t] = "finalizing"
  /\ Unanswered(FinalizeRequest(r))
  /\ FenceIf(state # "complete" /\ ~ Server!ValidWriter(r.writer, r.epoch), t)
  /\ KeepRecoverable(t)
  /\ UNCHANGED <<counters, pending>>

-----------------------------------------------------------------------------
Init ==
  /\ Server!Init
  /\ row = NoRow
  /\ spool = {}
  /\ started = FALSE
  /\ drawn = 0
  /\ captured = 0
  /\ phase = [t \in Tabs |-> "closed"]
  /\ mem = [t \in Tabs |-> NoRow]
  /\ pending = [t \in Tabs |-> {}]
  /\ fenced = {}
  /\ lock = NoTab
  /\ late = {}

\* A tab takes up a session, or is refused it and puts what it holds in the row.
TakesUp(t) ==
  \/ StartLocked(t) \/ StartRefused(t) \/ Resume(t) \/ Finish(t) \/ FinishRefused(t)

Step(t) ==
  \/ OpenFresh(t) \/ OpenFenced(t) \/ OpenComplete(t) \/ OpenRecoverable(t)
  \/ Close(t)
  \/ BeginStart(t) \/ Started(t) \/ StartFails(t)
  \/ Capture(t) \/ CaptureBreaks(t)
  \/ CaptureBreaksOff(t) \/ TailStored(t) \/ TailRefused(t)
  \/ SyncStart(t) \/ UploadAcked(t) \/ UploadFails(t)
  \/ Stop(t) \/ StopSynced(t)
  \/ AdoptCompletion(t)
  \/ ResumeSynced(t) \/ ResumeBlocked(t)
  \/ ClaimAnswered(t) \/ ClaimFails(t)
  \/ ResumeGapAnswered(t) \/ ResumeGapFails(t)
  \/ FinishSynced(t) \/ FinishAdopts(t)
  \/ FinishBlocked(t) \/ FinishGapAnswered(t) \/ FinishGapFails(t)
  \/ Complete(t) \/ FinalizeFails(t)

Next == LateArrival \/ \E t \in Tabs : Step(t) \/ TakesUp(t) \/ CaptureBreaksOver(t)

Spec == Init /\ [][Next]_vars

-----------------------------------------------------------------------------
(* Two things the code leaves to chance, and without which audio can be     *)
(* lost: that a tab which takes up a session holds the row as it is, no     *)
(* other tab being about to record or to store a chunk, and that capture    *)
(* does not break during the transaction of a chunk.                       *)

Fresh(t) ==
  /\ mem[t] = row
  /\ \A u \in Tabs \ {t} : phase[u] \notin {"locking", "broken"}

CarefulNext ==
  \/ LateArrival
  \/ \E t \in Tabs :
       \/ Step(t)
       \/ Fresh(t) /\ TakesUp(t)

CarefulSpec == Init /\ [][CarefulNext]_vars

-----------------------------------------------------------------------------
(* Properties.                                                             *)

TypeOK ==
  /\ Server!TypeOK
  /\ row \in Row \cup {NoRow}
  /\ spool \subseteq Server!Chunk
  /\ started \in BOOLEAN
  /\ drawn \in 0..MaxWriters
  /\ captured \in 0..MaxChunks
  /\ phase \in [Tabs -> Phases]
  /\ mem \in [Tabs -> Row \cup {NoRow}]
  /\ pending \in [Tabs -> SUBSET Server!Chunk]
  /\ fenced \subseteq Tabs
  /\ lock \in Tabs \cup {NoTab}

\* "Keep every unacknowledged chunk until server ACK" (docs/decisions/0002):
\* a chunk leaves the browser's storage only when the server has accepted that
\* very chunk, not another one with its sequence number.
AudioKeptUntilAcked == [][\A c \in spool : c \in spool' \/ c \in chunks']_vars

\* The row's high-water mark covers each sequence ever used, in the spool or
\* on the server, so that neither a resumed capture reuses one nor a recovered
\* end leaves one out.
HighWaterCoversAudio ==
  row # NoRow => \A c \in spool \cup chunks : c.seq <= row.last

\* A complete recording holds every chunk that was ever captured.
CompleteHoldsAllAudio ==
  state = "complete" => {c.payload : c \in chunks} = 1..captured

\* Audio in the browser can always still be uploaded: the server accepts the
\* generation it was captured under, and no end is declared before it.
AudioNeverStranded ==
  \A c \in spool \ chunks :
    /\ Server!ValidWriter(c.writer, c.epoch)
    /\ Server!CanAcceptChunks
    /\ Server!WithinBoundary(c.seq)

\* The row identifies the server's current capture generation, or the claim
\* whose answer is awaited does: otherwise nobody can resume or finish.
SessionStaysRecoverable ==
  row # NoRow /\ state # "complete" =>
    \/ row.writer = writer /\ row.epoch = epoch
    \/ row.pendingWriter = writer /\ row.epoch + 1 = epoch

\* Of all that fails, repeats or comes late, only a claim that the server handles
\* after the browser has given up on it makes a session unrecoverable.
LateClaimHandled == \E r \in late : r.kind = "claim" /\ late' = late \ {r}
OnlyLateClaimsStrand ==
  [][SessionStaysRecoverable => SessionStaysRecoverable' \/ LateClaimHandled]_vars

\* Tabs of one browser never record, resume or finish at the same time.
Active == {"recording", "stopping", "resuming", "claiming", "resumeGap",
           "finishing", "finishGap", "finalizing"}
OneActiveTab == \A t, u \in Tabs : {phase[t], phase[u]} \subseteq Active => t = u
=============================================================================
