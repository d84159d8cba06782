# Recantor in TLA+

Recantor records meetings in a browser, keeps the audio durably on a server and
transcribes it with an external speech-to-text provider; recordings can also be
uploaded as files. This directory holds TLA+ models of its core, TLC
configurations that check them on small instances, and proofs, checked by TLAPS,
that the main properties hold for every instance.

`PROJECT.json` lists the components, the runs, the mutants that show that each
property can fail, the source lines behind every definition, the hazards and
the theorems.

## The system

| component | source | state | operations |
| --- | --- | --- | --- |
| Recording session | `apps/api/src/recantor/recording.py`, `routes/recording.py` | rows `recording_sessions`, `recording_chunks`, `recording_gaps` | create, claim, heartbeat, put chunk, declare gap, finalize, read state |
| Chunk storage | `storage.py` | files under `sessions/<id>/raw` and `/utterances` | commit (temp file, fsync, rename), verify, read |
| Browser recorder | `apps/web/src/recorder` | IndexedDB (session row, spool, pending start), the Web Lock, each tab's controller | start, capture, sync, stop, resume, finish, reload |
| Realtime lane | `realtime_audio.py`, `routes/realtime_audio.py`, `recorder/realtimeAudio.ts` | endpoint detector of each socket | feed frames, commit utterances |
| Utterance work | `utterance.py` | `transcription_utterances`, utterance files and manifests | commit work (fenced for live capture), read pages |
| STT scheduler | `stt_jobs.py`, `stt_tasks.py`, `stt_reconciler.py` | `stt_jobs` rows, Celery queues, the reconciler | ensure, converge, reserve, wake, claim, execute, complete, retry, replay |
| STT execution | `stt.py` | none | read audio, call provider, commit |
| Transcript | `transcript.py`, `transcript_realtime.py`, `routes/transcript.py`, `apps/web/src/transcript` | `transcript_segments`, notifier queue, sockets, cursors | commit segment, page, notify, stream |
| Uploads | `uploads.py`, `upload_storage.py`, `routes/uploads.py`, `apps/web/src/upload` | `upload_records`, tusd files, the browser's upload handles | create, tus hooks, publish completion, recover |
| Media processing | `media_processing.py`, `media_storage.py`, `media_tasks.py`, `media_reconciler.py` | `upload_media_processing` rows, normalized files | claim, renew, normalize, install first-wins, segment, converge with STT |
| Upload results | `upload_results.py` | none | status, transcript pages, export |

How they interact. The browser talks to the API over HTTP only; every handler is
one PostgreSQL transaction that locks the session row first. Tabs of one origin
share IndexedDB and a lock. The realtime lane and media processing both commit
utterances, which creates their STT jobs in the same transaction. Workers and
the reconciler share nothing but PostgreSQL; Redis carries wakes, whose loss the
reconciler makes good. A transcript segment is committed under a guard that
checks the job's claim; its notice is best effort.

What is hard. Requests that arrive late, twice, or without their answer; a crash
between a file and its row, or between a segment and its job; capture moving to
another writer while the old one's requests are under way; a finalize that takes
several calls; leases that expire while a provider is still answering; two
workers appending to one transcript; tabs with old snapshots of shared storage.

What makes each component correct:

- recording: acknowledged audio is durable, one writer owns a generation, a
  boundary pins it, and completion and its completeness are and stay true;
- browser: audio leaves it only when the server has it, it stays uploadable,
  the high-water mark covers it, a complete recording holds all of it, and the
  session stays recoverable;
- scheduler: each utterance is settled once and in the end, transcripts are
  numbered without a hole, stale runs change nothing;
- utterances and the lane: a stream is cut into exactly its speech segments, and no
  utterance of a superseded generation is committed after one of its successor;
- uploads: one tus upload per session, one completion, of what is stored, and a
  page that claims it only then and reaches it if its user retries;
- media: one normalization is chosen for good, workers that race or crash are taken for
  drift in one known case only, the outcome is final, true, complete and comes in the end;
- delivery: the panel shows the transcript without a hole and catches up with it;
- results: an export holds each segment of its time once and in order, and the
  poll does not say "no speech" of an upload that has a transcript (it can).

## Modules

**RecordingSession** is the server of one session. `state`, `writer`, `epoch`,
`finalSequence`, `finalEndMs`, `finalizer` and `completeness` are columns of the
session row; `chunks` and `gaps` are rows; `audio` are files. There is one action
per handler. A handler that raises leaves no trace and is no step, except
`AcceptChunkCrash`, which leaves a file. Requests are arbitrary: any writer,
generation and body at any time, which includes late and repeated ones. The
server reads the clock only to see whether a heartbeat is older than its timeout
(`heartbeat`). A payload stands for everything a retry compares but sequence,
writer, epoch and end time. The gap rows of one finalize call are one record.
Sessions share no rows, so there is one.

**SttScheduler** has one row of `job` per utterance, the transcript (`segment`),
workers with the step they are at, one queue of `wakes` per class and the
`reconciler` at one transaction of its pass. Steps are transactions, provider
answers and messages. A claim token is a fresh uuid, and a worker runs one claim
at a time, so the token is the worker. Of time it keeps what queries compare:
whether a lease or retry time has passed, and whether the last reservation is
recent. `lapsing` is a reservation a transaction with an older clock still sees.
Left open are the turn among sessions of equal rank, and which of several
reserved jobs a worker gets (rows locked by others are skipped). The bound of
rounds of the claim loop is left out. "Missing" jobs belong to utterances of a release
without the scheduler.

**Transcription** is what the scheduler promises: an utterance is accepted, then
settled once as text, silence or failure; text is appended to its session's
transcript and never changes; only an operator's replay reopens silence and
failure. `SttScheduler!KeepsPromise` states the refinement: a job's state and its
segment map to an `outcome`.

**BrowserRecorder** composes the browser with the server (`Server == INSTANCE
RecordingSession`): the server's variables change only by the server's actions,
called with what the browser sends. `row` and `spool` are IndexedDB, `mem` and
`phase` each tab's controller, `pending` what its running sync has still to
upload, `lock` the Web Lock, `fenced` the tabs told that their generation is
over. `phase` is finer than the snapshot's: it names what an operation awaits, so
`locking` is the wait for the lock behind the commit of a started session, and
`broken` a capture that has failed while its last chunk is still being hashed.
Storing a chunk is one IndexedDB transaction (`Capture`). Capture breaks with nothing
on its way to the spool (`CaptureBreaks`), with a chunk still being hashed, which is
stored or refused later (`CaptureBreaksOff`, `TailStored`, `TailRefused`), or during the
transaction of a chunk, after which the row is written from the old snapshot
(`CaptureBreaksOver`). Each tab has one chunk on its way at most, and nobody
resumes or finishes in a tab while its last chunk is being hashed.
A request is answered, or it is not: then it was handled, is lost, or joins
`late`, from which it may arrive any time later. A chunk ends at its sequence
number. The heartbeat timeout changes nothing a client decides, so the
composition leaves it out. Sequences can be missing on the server only if
chunks vanish from IndexedDB or from the server, so `gap_sequences` is empty.
Deferring a finalization is an unanswered request.

`Spec` is the program. `CarefulSpec` is the program but for two things the code leaves
to chance, under which audio is lost (see below): there a tab takes up a session only
while it holds the row as it is and no other tab is about to record or to store a chunk
(`Fresh`), and capture does not break during the transaction of a chunk. All
safety properties about audio are stated of `CarefulSpec`.

**UploadCompletion** is the server of one uploaded file. `record` is the row of
`upload_records` with the state of its session, `processing` the identity in the
row for media processing, `call` a finish hook: the transaction that binds, the
hashing without a lock (`OpenFile`, `HashFile`), the transaction that publishes.
`tusd` and `file` are external: tusd's uploads and their files, which somebody may
change (`ChangeFile`). A hook may report any offset tusd has reached, at any time,
which covers late, repeated and overtaken hooks. A file's `version` is its inode
and mtime, and its content. A repeated creation returns the row there is.

**UploadClient** extends `UploadCompletion` with the page (`client`, its phase;
`saved`, the recovery record in localStorage), the tus client (`url`, the upload
it remembers for the file) and tusd's pre-finish hook (`finish`). Of the tus client
and tusd, which are not part of the repository, it takes what the code builds on:
a client asks for the offset before it sends, and has succeeded when all bytes are
stored; tusd calls the finish hook when the last byte comes in, six times at most
(`-hooks-http-retry=5`), and not for a HEAD. The phases of result tracking are
"done".

**MediaProcessing** turns a published upload into utterances. `row` is the row of
`upload_media_processing`; `objects` and `manifest` are the normalized files; `work`
has, for each utterance of an upload, its row and the state of its STT job; each
`worker` is at a step of its attempt, from the claim over normalization, the steps of
the installation (link the object, check that it is there, link the manifest, remove
the object of a loser) and the row, to the utterances and the publication; `wake` is
the Celery queue and `pass` the reconciler. What ffmpeg makes of a file differs
between runs (`Contents`). Only the last claim's token counts, so that the token is
the worker, and a worker whose lease has passed goes on until it looks. An
installer holds the row's lock (`tx`) unless it has lost its connection, and
then links in the same directory as another one. An object that is gone when it is
checked, and evidence that contradicts the worker's own, end the upload as
"drift"; a failing storage of an utterance, which the code gives a drift code
too, is kept apart as "storage". STT is one step per job (`Settle`).

**UploadOutcome** is what media processing promises: an upload is taken in, one
content is chosen for it, and it ends once, transcribed, silent or failed.
`MediaProcessing!ImplementsOutcome` states the refinement.

**UploadResults** adds the poll of the result to `MediaProcessing`: the count of
segments in one statement, the processing row in a later one.

**TranscriptReading** has the transcript of one session (`stt`, `sequence`, commits
under way in `writing`, which meet at the lock of the session's row), the notifier's
bounded `queue`, the `panel` with its socket, cursor, timer and fetch, and an `export`
page by page. Any notice, socket or fetch may be lost; replays insert segments while
others read. A page is the set of the first `PageSize` of what is asked for; that it
comes sorted is the query's ORDER BY.

**EndpointDetector** is the detector of `realtime_audio.py` with the loop of its route, as
a recursive function over the frames of a stream: pre-roll, voiced minimum, pauses, hard
cuts and lost frames. `Cuts(input, flushed)` is what the handler has given out of the
frames it has heard so far, with the tail only if it flushed. The reference definition
says, without a state, what each utterance holds (`Sound`) and which phrases must be in
one (`Complete`): a phrase that has enough speech and is heard without a break until its
utterance is due to end, which is at a pause, at the length limit of an utterance that
begins with it, or at a flush.

**RealtimeLane** has one `lane` for each capture generation, the socket's handler: it
checks the generation when it opens, hears frames one by one, and commits what the
detector cuts from them, each utterance behind a fence under the lock of the session's
row. The socket ends by a flush, without one, or by a refused utterance. `capture` is the
generation and whether the recording is live, `committed` what each lane has committed,
`utterances` the generation of each utterance of the session.

The modules named **...Proofs** hold the theorems of the module they are named for
(**RealtimeLaneProofs** those of `EndpointDetector` too); modules named **MC...** the
definitions the configurations need.

Definitions marked "Faulty variant" are not part of a model: each is a plausible
bug of the definition after it, and TLC finds that it violates a property.

## Runs

| run | instance | shows |
| --- | --- | --- |
| `recording_session` | 2 writers, 2 bodies, 2 sequences, 3 generations, boundaries 0 to 2 | all properties of the server under arbitrary requests |
| `stt_scheduler` | 1 utterance, 2 workers, 3 attempts, 1 replay | row and transcript agree, stale runs are harmless, Transcription is implemented |
| `stt_liveness` | 2 live utterances and 1 of an upload, a worker for live only, limits 1, 1 attempt | live work is settled although uploads are stuck |
| `browser_recorder` | 2 tabs, 2 chunks, 3 writers and generations, 1 gap, 1 late request of any kind, under `CarefulSpec` | one active tab; no audio lost, stranded or left out; only a late claim takes the session from its row |
| `browser_broken_capture` | 1 tab, 2 chunks, no late requests | violation: capture that breaks during the transaction of a chunk loses audio |
| `browser_late_claim` | 1 tab, 1 late request | violation: a claim that arrives late locks the browser out |
| `upload_client` | 2 tus uploads, 2 finish hooks of 2 tries, 2 chunks, 1 change per file, 3 faults of any kind | one upload is bound; what is published is whole, as stored, in time, final; the page claims it only then; retrying gets there, with two exceptions |
| `upload_lost_hook` | 2 tries, 1 fault, no POST lost | violation: after a restart of tusd retrying never ends |
| `media_processing` | 1 upload, 2 workers, 2 attempts, contents of 2 or 1 utterances, 1 replay | one normalization, no false drift, a final, complete outcome that comes in the end; UploadOutcome is implemented |
| `transcript_reading` | 3 utterances, pages of 1, a queue of 1, 2 replays, 1 reload | numbers, panel and export without a hole; the panel catches up |
| `realtime_lane` | 2 generations, 7 frames, pre-roll 2, minimum 2, pause 2, hard cut 5 | generations in order; each lane commits what its stream holds |
| `upload_no_speech` | 1 upload of 1 utterance, 1 worker | violation: the poll says "no speech" of an upload with a transcript |

Why the bounds suffice. Two writers and two bodies are the two sides of every
conflict the server knows; three generations let a claim supersede one that has
already superseded; two sequences give a hole and a late arrival. One utterance
suffices where rows do not interact; the only interaction is the transcript's numbers,
which `transcript_reading` checks with up to three commits under way. Three attempts
are a first run, one that is taken over, and one after that; `stt_liveness` has a
single attempt, so that a retry is left to `stt_scheduler` and to the theorems. Two tabs
are the holder of a session and a rival; two chunks over three generations let a
browser capture before and after a recovery, and one late request, of any kind, may
arrive at any later step. `MaxWakes` bounds repetition of messages; the number of wakes
has no other influence than how many workers look for work. Two tus uploads are the
bound one and another; two hooks race; a file that changes once can change before, while
and after it is hashed. Two workers are the owner and a stale one; contents with
different numbers of utterances differ in everything a reader sees; two attempts let
the first be lost at any step. Pages of one and a queue of one make every
boundary a common one, and with three utterances a segment is inserted before, at or
behind the cursor of an export between two of its pages. Seven frames, with a pre-roll
of two and a hard cut at five, hold an utterance that is cut and the one after it, a
pause, and a lost frame after speech, in either of two generations. The safety
theorems hold without these bounds.

Symmetry is used for writers and bodies, workers, tabs and gap ids, and not in the
liveness runs.

### Fairness

`stt_liveness`, `upload_client`, `upload_lost_hook`, `media_processing` and
`transcript_reading` assume any. In the scheduler,
Docker restarts the reconciler and the workers,
so their steps are weakly fair, and clocks advance. A worker may crash in every
claim it runs: each costs the job an attempt, and the budget settles it. What may
not go on for ever is stated as `<>[][~Disturbance]_vars`: passes that abort,
wakes that are lost, workers that die between taking a wake and claiming, and
reservations that lapse while their wake is under way. Without it nothing
can be promised. Upload workers get no fairness.

In `UploadClient` the page and its user go on (the property is about users who
retry), and so do tusd and the API, which Docker restarts. Faults are bounded and
owe nothing to fairness, nor do expiry, progress hooks and the post-finish hook.

In `MediaProcessing` leases pass, jobs are settled (which `stt_liveness` checks of
the scheduler), an attempt that does not crash goes on, and the reconciler starts its
passes. Taking a wake, ensuring one and converging are strongly fair: each pass
may fail and each wake may be lost, but not for ever. In `TranscriptReading` the timer
polls, and fetches are answered again and again; nothing is assumed of notices,
sockets and Redis, so the panel must not depend on them.

### Disagreements found

- When the microphone or the spool fails, the controller writes its snapshot of the
  session to the row without waiting for the chunk on its way. If that chunk's
  transaction is under way, the row's high-water mark goes back below a chunk that is
  spooled; a resumed recording uses its sequence number again, and
  `reconcileLocalSpool` deletes the new audio before it is uploaded, against "Keep every
  unacknowledged chunk until server ACK" (`docs/decisions/0002`). One tab is enough
  (`browser_broken_capture`). `HighWaterCoversAudio` and `CompleteHoldsAllAudio` fail in
  the same way.
- A tab keeps the snapshot of the session row it took when it was opened. Opened
  while another tab records, and used to resume once that one is closed, it loses audio
  in the same way; so does a tab that is refused the lock and puts its snapshot over the
  row. It needs two tabs, and no run shows it: `CarefulSpec` excludes it with `Fresh`.
  These two are the only ways: in `CarefulSpec` nothing is lost, whatever else the tabs do.
- If a claim times out, the user chooses Finish, and the claim is then processed
  after all, the browser has thrown away the writer id that now owns the session
  (`browser_late_claim`). With claims that are handled before their sender gives
  up, or never, this cannot happen (`OnlyLateClaimsStrand`).
- If tusd restarts before the finish hook is answered, or all tries of the hook
  fail, the file is whole and nothing will ever publish it; the page's "Retry
  safely" finds all bytes stored and waits in vain (`upload_lost_hook`).
- If the answer to the tus POST is lost, the session is bound to an upload the
  client does not know, and any other is refused. This is the exception
  `UploadUnknown` of `RetryEnds`: without it the property fails.
- The poll of an upload's result counts the segments first and reads the processing
  row later; what is committed in between makes it answer "no speech", at which the
  page stops (`upload_no_speech`).
- "A loser can only observe and return the existing winner" (`media_storage.py:343-347`)
  is not so with three installers: two of them make the same content and a third one
  another; the third wins the manifest, the loser that made the object removes it, and the
  other one, between its link and its check, finds it gone and records an integrity
  error, which ends the upload. Both must have lost the row's lock before. `NoFalseDrift`
  says that there is no other false drift. Two workers, as in `media_processing`, cannot
  show it.
- A chunk of sequence 0 is accepted and never counted, so that a session declared
  to end at 0 is "empty" although it holds audio. The bundled client counts from 1.

## Proofs

The assumptions are `RecordingAssumption`, `BrowserAssumption`, `SchedulerAssumption`, `UploadAssumption`,
`ClientAssumption`, `MediaAssumption`, `ReadingAssumption`, `LaneAssumption` and
`DetectorAssumption`: constants have their types, and the null values are not ordinary
ones. Three say more: an upload has finitely many utterances (`upload_max_bytes` bounds
it), so has a session, and an utterance with too little speech to count is over, with its
pre-roll and pauses, before it is cut for its length (`PreRoll + (MinVoiced - 1) * Silence
< HardMax`). The settings say so by default (200, 160, 600 and 8000 ms, for uploads
180 s); with settings that do not, a cut could drop what it cuts off.

*RecordingSessionProofs.* `TypeOK` is inductive as it stands, because it includes
the shape of the row (an owner exactly while the session is open, a boundary
exactly from finalizing on). `AcceptedAudioDurable` is inductive with it: a
file is only written where it is absent or equal. `OneWriterPerGeneration`
includes that evidence of the current generation is its owner's, which makes it
inductive across claims. `BoundaryAccounted` and `CompletenessTruthful` are
inductive with `TypeOK`, since nothing is accepted after completion. The two
action properties follow from `TypeOK` step by step.

*BrowserRecorderProofs.* For any number of tabs, what a browser sends (`Sensible`) makes
each of its steps a step of the server or none (`ComposesWithServer`), so that the
theorems above hold of the composition: its `TypeCorrect` takes the server's types from
them. `TabOK` says that a tab in an active phase holds the lock and a session; a
step of another tab changes neither, since it takes a free lock or gives up its own.

The types, the composition and `TabsTakeTurns` are theorems about `Spec`. The theorems
about audio are about `CarefulSpec`, since in `Spec` audio can be lost
(`browser_broken_capture`). One tab always holds the row as it is (`HoldsTheRow`), so that
for it the only condition left is that capture does not break during the transaction of
a chunk: `OneTabLosesNothing` assumes `[][~ BreaksOver]_vars`. Several tabs hold it unless
one keeps a snapshot of the row while another writes to it.

The invariant `AudioInv` speaks of the `Session`: what the tab that holds the lock has, or
else the row. The two differ only when another tab that finds the recording complete has
deleted the row. `RowOK`: whoever holds the lock acts, on the session as the row has it,
and the session counts all chunks. `AudioOK`: a sequence number identifies a chunk wherever
it is (spool, server, late upload), and the spool is of the session's generation.
`GenerationOK`: once the server is a generation ahead, or an end is declared or being
declared, nothing awaits its ACK and nothing is captured (`Quiet`). `EndOK`: a declared end
is the high-water mark. `PoisedOK`: a tab without the lock that is about to record, or has
a last chunk to store, is alone and holds the row. And every request that may still
arrive is `Apt`: a late claim or finalize ends a generation that is quiet, at the high-water mark, or one that is over. The
proof splits a step into what the server makes of it (`ServerFits`), what becomes of lock,
row and session (`Orderly`: a lock is kept, taken, held or let go of) and what the tab does
(`TabKeeps`). `OnlyLateClaimsStrand` follows from `AheadOK`: a server that is ahead of the
row belongs to the claim whose intent the row holds.

*SttSchedulerProofs.* `TranscriptIsGapless` (a theorem only: `CommitSegment` is one step
here, and `transcript_reading` checks numbering with commits that overlap) needs
`Numbered`: for each session, `Numbers` is an interval `0..n` and no number is used twice.
Appending the maximum plus one keeps it. `OutcomeAgrees` is inductive with the types.
`StaleRunsChangeNothing` follows because each step of a run is guarded by
`HoldsClaim`. `SchedulerKeepsPromise` shows that each step is a step of
`Transcription` or a stutter: only `CommitSegment` appends, which by `Numbered`
is the next number, and only settling and replaying change `outcome`, where
`OutcomeAgrees` excludes that a settled text is reopened.

*UploadCompletionProofs.* The inductive invariant adds `CallsBound` to the checked
ones: a finish hook under way holds no lock, but the session stays bound to its tus
upload, all bytes stay received, and hashed evidence is of one version of the file.
`RowSteps` lists what can change the rows, `PublishEffect` what publication does;
the three action properties follow from them.

*UploadClientProofs.* Each step of the composition is a step of `UploadCompletion` or
leaves it alone (`ComposesWithServer`), so that its theorems carry over.
`DurableClaimTrue` becomes inductive with what the page knows (`SendsToKnown`) and with
the link between tusd's hook and the server's handling of it (`HooksOK`).

*MediaProcessingProofs.* The invariant has three parts beside the types. `UploadOK` says of
an upload that its rows, its manifest and its outcome agree; `AttemptOK` says of a
worker, by its step, what it holds and has seen. The second part must survive the
steps of the others, for which two frames suffice: `Grows` (manifest, objects and rows of
utterances are only added, except the object an installer made itself) and `LocksHold`
(nobody changes what a row's lock protects). From it follow one normalization and, with a
mapping of each step to one of `UploadOutcome`, the refinement. The checks of evidence
that can fail in a true attempt come before the row names a content (`NotYet`): `DriftInv`
adds that an attempt is one worker's (`ClaimOK`), and that whoever still owns its claim at
such a step sees a row that names none, so that an upload that ends as drift
(`EvidenceNeverDrifts`) has a manifest and nothing projected from it.

*TranscriptReadingProofs.* `Numbered` says that committed segments have the numbers `1..n`
once each and commits under way the next ones. Then what a page after `k` holds is
an interval that begins with `k + 1` (`PageOfInterval`, from finiteness of the
transcript), which is why the panel's cursor skips nothing. An export that has read up
to `n` holds the segments `1..n`, and those inserted later have higher numbers.

*RealtimeLaneProofs.* `CutsAreSoundAndComplete`: what the detector cuts from any stream, of
any length, is sound and complete. The induction over frames takes the least frame for
which a claim fails (`Counting`, from the well-foundedness of the naturals): it gives the
recursive function (`AfterSteps`) and then the invariant `Attentive`: the utterances so far
are sound, and the detector holds an unbroken run of frames after them, quiet (`Quietly`,
at most the pre-roll) or an utterance under way (`Ongoing`), whose length, speech and
silence its counters tell. `LongEnough` bounds the length of an utterance that has too
little speech; here the assumption about the settings is needed. Completeness follows a
phrase: from the frame it begins with it is in an utterance or in the one under way
(`Followed`), until that one is due to end (`DueEnds`). `LanesAreFaithful` carries this to
what a lane has committed at any time: hearing more frames only adds cuts (`CutsGrow`), and
a lane commits the cuts in their order, so that what it has committed is a first part of
them. `GenerationsStayInOrder`: a lane commits only while its generation is current,
and generations only grow.

Only model-checked: liveness (`EventuallySettled`, `RetryEnds`, `EveryUploadEnds`,
`PanelCatchesUp`; the prover has no fairness or ENABLED) and `UploadResults`, whose one
property does not hold. All safety properties of the passing runs are proved, those of
`BrowserRecorder` about audio of `CarefulSpec`, as they are checked.

## Not modelled

Not modelled at all are the components listed so in `PROJECT.json`: presentation, the API
shell, and the release scripts, which keep no state the properties depend on. Of modelled
components these parts are left out:

- the files of utterances and their manifests, which are installed like chunks, and
  the damage of files from outside;
- the localStorage fallback of the tab lock, several sessions in one browser, and the
  declaration of missing sequences by a client whose IndexedDB lost chunks;
- the choice of an upload's file, its handle and content evidence, and a fresh upload
  after expiry;
- drift of the media specification between releases, the batch limit of a
  pass (100) and of a claim scan (8), which matter only with more uploads than TLC
  can enumerate;
- deadlocks between row locks, which PostgreSQL resolves by aborting one transaction;
- the order within a page and the formats of an export, which are the database's and
  the formatter's;
- failures of capture that meet a stop: a last fragment the spool refuses while `stop`
  waits for it, or two chunks of a tab on their way at once; and a user who resumes or
  finishes in a tab while its last chunk is being hashed;
- the loudness of a frame, which is an input of the detector, the delay of a
  reconnect, and the status shown beside a transcript;
- what becomes of a lane's speech behind a refused utterance, or in the detector of a
  socket that broke: it is lost in the model as in the code (`UtteranceRefused`, `Break`),
  and no property says otherwise, since the lane is best effort;
- migrations, which run once and offline: the rows of an earlier release are initial
  states.
