--------------------------- MODULE UploadCompletion ---------------------------
(***************************************************************************)
(* The server of one uploaded file: apps/api/src/recantor/uploads.py and    *)
(* upload_storage.py, called by the hooks of tusd, which stores the bytes.  *)
(*                                                                         *)
(* A hook may come late, twice, or overtaken by others, for any tus upload  *)
(* of the session, so the model lets tusd report any offset it has reached  *)
(* at any time.  A finish hook is three steps: a transaction that binds the *)
(* tus upload, the hashing of its file with no lock held, a transaction     *)
(* that publishes the result; several can be under way, and the API can die *)
(* in each.  The file can be changed from outside in between.               *)
(*                                                                         *)
(* A request with a wrong capability token, or with metadata other than     *)
(* declared, is refused before anything changes, and is left out.           *)
(***************************************************************************)
EXTENDS Integers, FiniteSets

CONSTANTS
  TusIds,       \* ids tusd gives to the tus uploads made for the session
  Calls,        \* finish hooks that can be under way at once
  Declared,     \* declared_byte_length, in chunks
  MaxChanges,   \* bound on the changes of a file from outside
  NoTus,        \* tus_upload_id IS NULL
  NoIdentity    \* completed_at IS NULL; no processing row

ASSUME UploadAssumption ==
  /\ Declared \in Nat \ {0}
  /\ MaxChanges \in Nat
  /\ NoTus \notin TusIds
  /\ NoIdentity \notin [tus : TusIds, content : 0..MaxChanges]

VARIABLES
  record,       \* upload_records row, with the state of its session
  processing,   \* identity in the upload_media_processing row
  tusd,         \* per tus upload: admitted, created, its offset
  file,         \* per tus upload: content and length of its file
  call          \* per finish hook: its step and its evidence

vars == <<record, processing, tusd, file, call>>

Versions == 0..MaxChanges

\* storage_key (the path of the tus upload's file) and sha256.
Identities == [tus : TusIds, content : Versions]

Records == [state : {"absent", "uploading", "uploaded"}, expired : BOOLEAN,
            tus : TusIds \cup {NoTus}, received : 0..Declared,
            identity : Identities \cup {NoIdentity}]

TusUploads == [made : {"no", "admitted", "created"}, offset : 0..Declared]

\* version stands for the file's inode and mtime, and for its content; whole
\* says that its length is the declared one.
Files == [version : Versions, whole : BOOLEAN]

\* content is what was hashed (sha256), version the stat in the evidence.
CallSteps == {"idle", "bound", "reading", "hashed"}
CallRow == [at : CallSteps, on : TusIds \cup {NoTus}, content : Versions,
            version : Versions]

NoCall == [at |-> "idle", on |-> NoTus, content |-> 0, version |-> 0]
Bound(id) == [at |-> "bound", on |-> id, content |-> 0, version |-> 0]
NoRecord == [state |-> "absent", expired |-> FALSE, tus |-> NoTus,
             received |-> 0, identity |-> NoIdentity]

Completed == record.identity # NoIdentity

-----------------------------------------------------------------------------
Init ==
  /\ record = NoRecord
  /\ processing = NoIdentity
  /\ tusd = [id \in TusIds |-> [made |-> "no", offset |-> 0]]
  /\ file = [id \in TusIds |-> [version |-> 0, whole |-> FALSE]]
  /\ call = [h \in Calls |-> NoCall]

\* create_upload_session: session and record in one transaction.  A repeated or
\* concurrent request gets the row that exists, or a conflict.
CreateUploadSession ==
  /\ record.state = "absent"
  /\ record' = [record EXCEPT !.state = "uploading"]
  /\ UNCHANGED <<processing, tusd, file, call>>

\* expires_at passes.
Expire ==
  /\ record.state # "absent"
  /\ ~record.expired
  /\ record' = [record EXCEPT !.expired = TRUE]
  /\ UNCHANGED <<processing, tusd, file, call>>

\* _load_upload and _validate_capability.
Valid == record.state # "absent" /\ ~record.expired

\* Faulty variants: the binding is overwritten, or a bound upload is refused.
BindsAny(id) == Valid
BindsOnce(id) == Valid /\ record.tus = NoTus

\* _bind_tus_upload, after the checks that precede it.
Binds(id) == Valid /\ record.tus \in {NoTus, id}

\* The pre-create hook.  tusd makes the upload once it has the answer.
PreCreate(id) ==
  /\ Valid
  /\ record.tus = NoTus
  /\ tusd[id].made = "no"
  /\ tusd' = [tusd EXCEPT ![id].made = "admitted"]
  /\ UNCHANGED <<record, processing, file, call>>

\* tusd makes the upload, with an empty file.
TusCreate(id) ==
  /\ tusd[id].made = "admitted"
  /\ tusd' = [tusd EXCEPT ![id].made = "created"]
  /\ UNCHANGED <<record, processing, file, call>>

\* tusd appends bytes it receives to the file.
TusAppend(id) ==
  /\ tusd[id].made = "created"
  /\ tusd[id].offset < Declared
  /\ tusd' = [tusd EXCEPT ![id].offset = @ + 1]
  /\ file' = [file EXCEPT ![id].whole = tusd[id].offset + 1 = Declared]
  /\ UNCHANGED <<record, processing, call>>

\* Somebody replaces, truncates or rewrites a file of the shared volume.
ChangeFile(id) ==
  /\ tusd[id].offset = Declared
  /\ file[id].version < MaxChanges
  /\ \E whole \in BOOLEAN :
       file' = [file EXCEPT ![id] = [version |-> @.version + 1, whole |-> whole]]
  /\ UNCHANGED <<record, processing, tusd, call>>

\* Faulty variants: the last hook to arrive decides; offsets are added up.
LastReported(offset) == offset
AddedUp(offset) == record.received + offset

\* received_bytes after a progress hook.
Received(offset) == IF offset > record.received THEN offset ELSE record.received

\* _process_nonfinish_hook, for post-create and post-receive.
ReportProgress(id, offset) ==
  /\ tusd[id].made = "created"
  /\ offset <= tusd[id].offset
  /\ Binds(id)
  /\ record' = [record EXCEPT !.tus = id, !.received = Received(offset)]
  /\ UNCHANGED <<processing, tusd, file, call>>

-----------------------------------------------------------------------------
(* The pre-finish and post-finish hooks.                                   *)

\* _prepare_completion.
PrepareCompletion(h, id) ==
  /\ call[h].at = "idle"
  /\ tusd[id].made = "created"
  /\ tusd[id].offset = Declared
  /\ Binds(id)
  /\ record' = [record EXCEPT !.tus = id, !.received = Declared]
  /\ call' = [call EXCEPT ![h] = Bound(id)]
  /\ UNCHANGED <<processing, tusd, file>>

\* inspect_completed up to the first read: the length is as declared.
OpenFile(h) ==
  /\ call[h].at = "bound"
  /\ file[call[h].on].whole
  /\ call' = [call EXCEPT ![h].at = "reading",
                          ![h].content = file[call[h].on].version]
  /\ UNCHANGED <<record, processing, tusd, file>>

\* identity_before = identity_after = path_identity.
UnchangedFile(h) == /\ file[call[h].on].whole
                    /\ file[call[h].on].version = call[h].content

\* inspect_completed from the last read on.
HashFile(h) ==
  /\ call[h].at = "reading"
  /\ UnchangedFile(h)
  /\ call' = [call EXCEPT ![h].at = "hashed",
                          ![h].version = file[call[h].on].version]
  /\ UNCHANGED <<record, processing, tusd, file>>

\* Faulty variant: the evidence is not checked again under the lock.
NeverRevalidated(h) == TRUE

\* revalidate_completed.
Revalidated(h) == /\ file[call[h].on].whole
                  /\ file[call[h].on].version = call[h].version

\* The checks of _publish_completion before it reads the file's stat.
StillBound(h) == Valid /\ record.tus = call[h].on

Evidence(h) == [tus |-> call[h].on, content |-> call[h].content]

\* Faulty variants: each completion writes its evidence; the processing row is
\* left to a later transaction.
Upserts(h) == processing' = Evidence(h)
RowLeft(h) == /\ Completed => record.identity = Evidence(h)
              /\ UNCHANGED processing

\* The completion is the first, and adds the processing row, or repeats the first,
\* whose row agrees.
FirstOrSame(h) ==
  /\ Completed => record.identity = Evidence(h)
  /\ processing \in {NoIdentity, Evidence(h)}
  /\ processing' = Evidence(h)

\* _publish_completion.
PublishCompletion(h) ==
  /\ call[h].at = "hashed"
  /\ StillBound(h)
  /\ Revalidated(h)
  /\ FirstOrSame(h)
  /\ record' = [record EXCEPT !.identity = Evidence(h), !.received = Declared,
                              !.state = "uploaded"]
  /\ call' = [call EXCEPT ![h] = NoCall]
  /\ UNCHANGED <<tusd, file>>

\* A check fails, or the API dies: the transaction under way is rolled back.
AbandonCompletion(h) ==
  /\ call[h].at # "idle"
  /\ call' = [call EXCEPT ![h] = NoCall]
  /\ UNCHANGED <<record, processing, tusd, file>>

-----------------------------------------------------------------------------
CompletionStep(h) ==
  \/ \E id \in TusIds : PrepareCompletion(h, id)
  \/ OpenFile(h)
  \/ HashFile(h)
  \/ PublishCompletion(h)
  \/ AbandonCompletion(h)

TusStep(id) ==
  \/ PreCreate(id)
  \/ TusCreate(id)
  \/ TusAppend(id)
  \/ ChangeFile(id)
  \/ \E offset \in 0..Declared : ReportProgress(id, offset)

Next ==
  \/ CreateUploadSession
  \/ Expire
  \/ \E id \in TusIds : TusStep(id)
  \/ \E h \in Calls : CompletionStep(h)

Spec == Init /\ [][Next]_vars

-----------------------------------------------------------------------------
\* Every variable keeps its shape.
TypeOK ==
  /\ record \in Records
  /\ processing \in Identities \cup {NoIdentity}
  /\ tusd \in [TusIds -> TusUploads]
  /\ file \in [TusIds -> Files]
  /\ call \in [Calls -> CallRow]

\* The session is "uploaded" exactly when the record has the completion evidence;
\* that evidence is of the bound tus upload, of all bytes, and a processing row
\* with the same identity exists from that moment on (_publish_completion commits
\* the three together, whichever of several finish hooks gets there).
CompletionConsistent ==
  /\ Completed <=> record.state = "uploaded"
  /\ processing = record.identity
  /\ Completed => /\ record.identity.tus = record.tus
                  /\ record.received = Declared
                  /\ tusd[record.tus].offset = Declared

\* received_bytes never promises more than tusd holds of the one tus upload the
\* session is bound to, although hooks of other tus uploads of the session arrive.
ProgressTruthful ==
  IF record.tus = NoTus THEN record.received = 0
  ELSE record.received <= tusd[record.tus].offset

\* The progress a client reads never goes back, and the session never moves to
\* another tus upload, in whatever order the hooks of tusd arrive.
ProgressMonotone ==
  [][/\ record'.received >= record.received
     /\ record.tus # NoTus => record'.tus = record.tus]_vars

\* What is published is what the bound file holds at that moment, whole and before
\* the capability expired, although it was hashed long before without a lock.
PublishedAsStored ==
  [][record'.identity # record.identity =>
       /\ record'.identity.content = file[record'.tus].version
       /\ file[record'.tus].whole
       /\ ~record.expired]_vars

\* Completion is final: no later hook, not even one that hashed a changed file,
\* alters the evidence or what is to be processed.
CompletionFinal ==
  [][Completed => /\ record'.identity = record.identity
                  /\ record'.state = record.state
                  /\ processing' = processing]_vars
=============================================================================
