----------------------------- MODULE UploadClient -----------------------------
(***************************************************************************)
(* The upload of one file by the browser: apps/web/src/UploadPanel.tsx and  *)
(* upload/recovery.ts with the tus client they use, composed with tusd's    *)
(* hooks and the server (UploadCompletion).                                 *)
(*                                                                         *)
(* The tus client (Uppy) and tusd are external.  What is taken of them: the *)
(* client remembers the upload's URL once its POST is answered; it asks for *)
(* the offset (HEAD) before it sends; tusd calls the finish hook when the   *)
(* last byte has come in, HookTries times at most (-hooks-http-retry), and  *)
(* answers the PATCH with the result; HEAD calls no hook.                   *)
(***************************************************************************)
EXTENDS UploadCompletion

CONSTANTS
  HookTries,    \* tries of a hook call: 1 + hooks-http-retry
  MaxFaults,    \* bound on lost answers, failed hook calls and reloads
  LosesPosts,   \* whether the answer to a tus POST can be lost (bound: TusIds)
  NoHook        \* no finish hook is being handled

ASSUME ClientAssumption ==
  /\ HookTries \in Nat \ {0}
  /\ MaxFaults \in Nat
  /\ LosesPosts \in BOOLEAN
  /\ NoHook \notin Calls

VARIABLES
  client,   \* the phase of the page, the tus upload its POST is making
  saved,    \* the recovery record in localStorage
  url,      \* the tus upload the tus client remembers for the file
  finish,   \* per tus upload: the state of tusd's pre-finish hook
  faults

clientVars == <<client, saved, url, finish, faults>>
allVars == <<vars, clientVars>>

\* "sending" and "finishing" are the phase "uploading": before and after the
\* last byte.  "done" stands for the phases of result tracking.
Phases == {"idle", "preparing", "posting", "sending", "finishing", "verifying",
           "error", "done", "expired"}

HookRow == [result : {"none", "due", "passed", "refused", "failed"},
            left : 0..HookTries, handler : Calls \cup {NoHook}]

ClientInit ==
  /\ Init
  /\ client = [at |-> "idle", post |-> NoTus]
  /\ saved = [session |-> FALSE, complete |-> FALSE]
  /\ url = NoTus
  /\ finish = [id \in TusIds |->
                 [result |-> "none", left |-> HookTries, handler |-> NoHook]]
  /\ faults = 0

GoTo(phase) == client' = [at |-> phase, post |-> NoTus]

Fault == faults < MaxFaults /\ faults' = faults + 1

ClientOnly == UNCHANGED <<vars, finish, faults>>

\* An admitted POST may stay unanswered if there is an id for the next one.
MayLosePost ==
  client.post # NoTus => LosesPosts /\ \E id \in TusIds : tusd[id].made = "no"

\* Where the tus client that beginTransfer makes takes up the transfer.
Transfer == IF url = NoTus THEN "posting" ELSE "sending"

-----------------------------------------------------------------------------
(* The page.                                                               *)

\* start, or restoreSavedUpload after a reload.
Start ==
  /\ client.at \in {"idle", "error"}
  /\ GoTo(IF client.at = "idle" /\ saved.complete THEN "done" ELSE "preparing")
  /\ UNCHANGED <<saved, url>>
  /\ ClientOnly

\* The Resume button after an error: retryAll.
RetryAll ==
  /\ client.at = "error"
  /\ saved.session
  /\ GoTo(Transfer)
  /\ UNCHANGED <<saved, url>>
  /\ ClientOnly

\* createUploadSession: it makes the session, or returns the one it has made.
SessionCreated ==
  \/ CreateUploadSession
  \/ record.state # "absent" /\ UNCHANGED vars

\* recoverOrCreateSession without a session id, and beginTransfer.
CreateAnswered ==
  /\ client.at = "preparing"
  /\ ~saved.session
  /\ SessionCreated
  /\ saved' = [saved EXCEPT !.session = TRUE]
  /\ GoTo(Transfer)
  /\ UNCHANGED <<url, finish, faults>>

\* Faulty variant: the progress is taken for the completion.
AllReceived == record.received = Declared

\* state = 'uploaded' and completed_at in the answer of getUploadSession.
DurablyUploaded == record.state = "uploaded" /\ Completed

\* markUploadDurablyComplete and trackResult.
MarkComplete ==
  /\ saved' = [saved EXCEPT !.complete = TRUE]
  /\ GoTo("done")

\* recoverOrCreateSession with a session id, and beginTransfer.
SessionRead ==
  /\ client.at = "preparing"
  /\ saved.session
  /\ ~record.expired
  /\ IF DurablyUploaded THEN MarkComplete
     ELSE GoTo(Transfer) /\ UNCHANGED saved
  /\ UNCHANGED url
  /\ ClientOnly

\* waitForDurableCompletion.
Verified ==
  /\ client.at = "verifying"
  /\ ~record.expired
  /\ DurablyUploaded
  /\ MarkComplete
  /\ UNCHANGED url
  /\ ClientOnly

VerifyGivesUp ==
  /\ client.at = "verifying"
  /\ ~record.expired
  /\ ~DurablyUploaded
  /\ GoTo("error")
  /\ UNCHANGED <<saved, url>>
  /\ ClientOnly

\* 410 in answer to a read (handleExpired): the recovery record is discarded.
ReadExpired ==
  /\ client.at \in {"preparing", "verifying", "done"}
  /\ saved.session
  /\ record.expired
  /\ GoTo("expired")
  /\ saved' = [session |-> FALSE, complete |-> FALSE]
  /\ UNCHANGED url
  /\ ClientOnly

\* A request to the API is not answered; a creation may have been handled.
ReadUnanswered ==
  /\ client.at \in {"preparing", "verifying"}
  /\ Fault
  /\ \/ ~saved.session /\ CreateUploadSession
     \/ UNCHANGED vars
  /\ GoTo("error")
  /\ UNCHANGED <<saved, url, finish>>

\* The page is closed or reloaded; what tusd and the API are doing goes on.
Reload ==
  /\ client.at \notin {"idle", "expired"}
  /\ Fault
  /\ MayLosePost
  /\ GoTo("idle")
  /\ UNCHANGED <<vars, saved, url, finish>>

-----------------------------------------------------------------------------
(* The tus client and tusd.                                                *)

\* POST: tusd calls the pre-create hook.
PostAdmitted(id) ==
  /\ client.at = "posting"
  /\ client.post = NoTus
  /\ PreCreate(id)
  /\ client' = [client EXCEPT !.post = id]
  /\ UNCHANGED <<saved, url, finish, faults>>

PostRefused ==
  /\ client.at = "posting"
  /\ client.post = NoTus
  /\ record.expired \/ record.tus # NoTus
  /\ GoTo("error")
  /\ UNCHANGED <<saved, url>>
  /\ ClientOnly

PostAnswered ==
  /\ client.post # NoTus
  /\ tusd[client.post].made = "created"
  /\ url' = client.post
  /\ GoTo("sending")
  /\ UNCHANGED saved
  /\ ClientOnly

\* The POST does not arrive, or is not answered.
PostUnanswered ==
  /\ client.at = "posting"
  /\ MayLosePost
  /\ Fault
  /\ GoTo("error")
  /\ UNCHANGED <<vars, saved, url, finish>>

\* PATCH: tusd stores the bytes, and after the last calls the finish hook.
Patch ==
  /\ client.at = "sending"
  /\ TusAppend(url)
  /\ IF tusd'[url].offset = Declared
     THEN /\ GoTo("finishing")
          /\ finish' = [finish EXCEPT ![url].result = "due"]
     ELSE UNCHANGED <<client, finish>>
  /\ UNCHANGED <<saved, url, faults>>

\* HEAD finds all bytes stored: upload-success.
HeadWhole ==
  /\ client.at = "sending"
  /\ tusd[url].offset = Declared
  /\ GoTo("verifying")
  /\ UNCHANGED <<saved, url>>
  /\ ClientOnly

\* The last PATCH is answered.
PatchAnswered ==
  /\ client.at = "finishing"
  /\ finish[url].result \in {"passed", "refused", "failed"}
  /\ GoTo(IF finish[url].result = "passed" THEN "verifying" ELSE "error")
  /\ UNCHANGED <<saved, url>>
  /\ ClientOnly

\* The connection breaks: upload-error.
PatchBreaks ==
  /\ client.at \in {"sending", "finishing"}
  /\ Fault
  /\ GoTo("error")
  /\ UNCHANGED <<vars, saved, url, finish>>

TusCreates(id) ==
  /\ TusCreate(id)
  /\ UNCHANGED clientVars

\* post-create and post-receive hooks; the client does not wait for them.
ProgressHook(id, offset) ==
  /\ ReportProgress(id, offset)
  /\ UNCHANGED clientVars

Expires ==
  /\ Expire
  /\ UNCHANGED clientVars

\* Somebody else writes to the shared volume.
FileChanges(id) == ChangeFile(id) /\ UNCHANGED clientVars

-----------------------------------------------------------------------------
(* The finish hooks.                                                       *)

Awaited(id) == finish[id].result = "due" /\ finish[id].handler = NoHook

\* A try of the pre-finish hook reaches the API.
FinishCall(h, id) ==
  /\ Awaited(id)
  /\ PrepareCompletion(h, id)
  /\ finish' = [finish EXCEPT ![id].handler = h]
  /\ UNCHANGED <<client, saved, url, faults>>

\* The API refuses the hook; tusd does not retry an answer.
FinishRefused(id) ==
  /\ Awaited(id)
  /\ ~Binds(id)
  /\ finish' = [finish EXCEPT ![id].result = "refused"]
  /\ UNCHANGED <<vars, client, saved, url, faults>>

\* The post-finish hook, which nobody waits for.
PostFinishCall(h, id) ==
  /\ finish[id].result = "passed"
  /\ PrepareCompletion(h, id)
  /\ UNCHANGED clientVars

Inspect(h) ==
  /\ OpenFile(h) \/ HashFile(h)
  /\ UNCHANGED clientVars

\* The tus upload whose pre-finish hook h answers, if tusd still waits for it.
AnsweredBy(h) == {id \in TusIds : finish[id].handler = h}

Answer(h, result) ==
  finish' = [id \in TusIds |->
               IF id \in AnsweredBy(h)
               THEN [finish[id] EXCEPT !.handler = NoHook, !.result = result]
               ELSE finish[id]]

Publish(h) ==
  /\ PublishCompletion(h)
  /\ Answer(h, "passed")
  /\ UNCHANGED <<client, saved, url, faults>>

\* Another file content than this handler's has been published.
Conflicts(h) == Completed /\ record.identity # Evidence(h)

\* The capability has expired since the upload was bound, or the completion conflicts.
PublishRefused(h) ==
  /\ call[h].at = "hashed"
  /\ ~StillBound(h) \/ (Revalidated(h) /\ Conflicts(h))
  /\ AbandonCompletion(h)
  /\ Answer(h, "refused")
  /\ UNCHANGED <<client, saved, url, faults>>

\* Faulty variant: the tries are not limited.
TriesForever(id) ==
  finish' = [finish EXCEPT ![id].left = @ - 1, ![id].handler = NoHook]

\* What tusd does when a try of the hook fails.
TryFailed(id) ==
  finish' = [finish EXCEPT ![id].left = @ - 1, ![id].handler = NoHook,
                           ![id].result = IF finish[id].left = 1 THEN "failed" ELSE "due"]

\* The storage finds the file not as declared or changed (500): tusd tries again.
StorageFails(h) ==
  /\ \/ call[h].at = "bound" /\ ~file[call[h].on].whole
     \/ call[h].at = "reading" /\ ~UnchangedFile(h)
     \/ call[h].at = "hashed" /\ StillBound(h) /\ ~Revalidated(h)
  /\ AbandonCompletion(h)
  /\ IF AnsweredBy(h) = {} THEN UNCHANGED finish
     ELSE \E id \in AnsweredBy(h) : TryFailed(id)
  /\ UNCHANGED <<client, saved, url, faults>>

\* A try fails: the API is down, the storage fails, or the answer is lost, which
\* the handler may not notice.
TryFails(id) ==
  /\ finish[id].result = "due"
  /\ Fault
  /\ \/ UNCHANGED vars
     \/ finish[id].handler # NoHook /\ AbandonCompletion(finish[id].handler)
  /\ TryFailed(id)
  /\ UNCHANGED <<client, saved, url>>

\* tusd stops; after its restart it only knows the file and its offset.
TusdRestarts(id) ==
  /\ finish[id].result = "due"
  /\ Fault
  /\ finish' = [finish EXCEPT ![id].result = "failed", ![id].handler = NoHook]
  /\ UNCHANGED <<vars, client, saved, url>>

-----------------------------------------------------------------------------
ClientStep ==
  \/ Start \/ RetryAll
  \/ CreateAnswered \/ SessionRead
  \/ Verified \/ VerifyGivesUp \/ ReadExpired
  \/ \E id \in TusIds : PostAdmitted(id)
  \/ PostRefused \/ PostAnswered
  \/ Patch \/ HeadWhole \/ PatchAnswered

HookStep ==
  \/ \E id \in TusIds : TusCreates(id) \/ FinishRefused(id)
  \/ \E h \in Calls, id \in TusIds : FinishCall(h, id)
  \/ \E h \in Calls : Inspect(h) \/ Publish(h) \/ PublishRefused(h)
                       \/ StorageFails(h)

FaultStep ==
  \/ ReadUnanswered \/ Reload \/ PostUnanswered \/ PatchBreaks
  \/ \E id \in TusIds : TryFails(id) \/ TusdRestarts(id)

OtherStep ==
  \/ Expires
  \/ \E id \in TusIds, offset \in 0..Declared : ProgressHook(id, offset)
  \/ \E h \in Calls, id \in TusIds : PostFinishCall(h, id)
  \/ \E id \in TusIds : FileChanges(id)

ComposedNext == ClientStep \/ HookStep \/ FaultStep \/ OtherStep

ComposedSpec == ClientInit /\ [][ComposedNext]_allVars

\* The page goes on, its user retries after an error, and tusd and the API, which
\* Docker restarts, go on.
FairSpec == ComposedSpec /\ WF_allVars(ClientStep) /\ WF_allVars(HookStep)

-----------------------------------------------------------------------------
\* Every variable keeps its shape.
ClientTypeOK ==
  /\ TypeOK
  /\ client \in [at : Phases, post : TusIds \cup {NoTus}]
  /\ saved \in [session : BOOLEAN, complete : BOOLEAN]
  /\ url \in TusIds \cup {NoTus}
  /\ finish \in [TusIds -> HookRow]
  /\ faults \in 0..MaxFaults

\* The page says "durably uploaded", now or after a reload, only if the server has
\* published the completion: tusd's answer alone is not enough for the claim.
DurableClaimTrue ==
  client.at = "done" \/ saved.complete =>
    Completed /\ processing = record.identity

Started == client.at # "idle"
Over == client.at \in {"done", "expired"} \/ record.expired

\* The finish hook was lost, with all bytes stored and nothing published.
HookLost == ~Completed /\ \E id \in TusIds : finish[id].result = "failed"

\* The session is bound to a tus upload that the client does not know.
UploadUnknown == record.tus \notin {NoTus, url, client.post}

\* "You can retry safely": whatever fails on the way, an upload whose user retries
\* is durably complete in the end, or its capability expires.
RetrySafely == Started ~> Over

\* Retrying fails for two reasons only, and then for ever: tusd will not call the
\* finish hook again, or the session is bound to an upload whose POST was not
\* answered.  Lost reads, chunks and answers of hooks, failures of the API within
\* the tries of a hook, and reloads do not prevent the completion.
RetryEnds == Started ~> (Over \/ [](HookLost \/ UploadUnknown))
=============================================================================
