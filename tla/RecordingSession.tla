-------------------------- MODULE RecordingSession --------------------------
(***************************************************************************)
(* The server side of one live recording: apps/api/src/recantor/           *)
(* recording.py.  Every handler opens one PostgreSQL transaction and takes  *)
(* the session row FOR UPDATE before it reads anything else                 *)
(* (_locked_session), so a handler that succeeds is one atomic step; a      *)
(* handler that raises rolls its transaction back and is a stuttering step, *)
(* except for the audio file accept_chunk may already have made durable.    *)
(*                                                                         *)
(* Requests are inputs chosen in Next: any client may send any request at   *)
(* any time, which covers delayed, duplicated and reordered calls.          *)
(* Sessions never touch one another's rows, so one session is modelled.     *)
(***************************************************************************)
EXTENDS Integers, FiniteSets

CONSTANTS
  Writers,        \* writer_id values that capture clients use
  Tokens,         \* recovery tokens
  Payloads,       \* identities of chunk bodies: bytes, hash, start time, type
  GapIds,         \* client_gap_id values
  Sequences,      \* sequence numbers clients put in PUT /chunks/{sequence}
  Boundaries,     \* final_sequence values clients declare
  EndTimes,       \* monotonic_end_ms values of chunks and of finalize
  MaxEpoch,       \* bound on capture_epoch
  NoWriter,       \* active_writer_id IS NULL
  NoToken,        \* no session row yet
  NoPayload       \* no file at the chunk's storage path

ASSUME RecordingAssumption ==
  /\ NoWriter \notin Writers
  /\ NoToken \notin Tokens
  /\ NoPayload \notin Payloads
  /\ Sequences \subseteq Int
  /\ Boundaries \subseteq Nat
  /\ EndTimes \subseteq Nat
  /\ MaxEpoch \in Nat \ {0}

VARIABLES
  state,          \* RecordingSession.state, "none" before the row exists
  token,          \* recovery_token_hash
  writer,         \* active_writer_id
  epoch,          \* capture_epoch
  heartbeat,      \* "stale" once last_heartbeat_at is older than the timeout
  chunks,         \* recording_chunks rows
  audio,          \* files under sessions/<id>/raw, by sequence
  gaps,           \* recording_gaps rows
  finalSequence,  \* final_sequence, NoBoundary when NULL
  finalEndMs,     \* final_monotonic_end_ms, NoBoundary when NULL
  finalizer,      \* finalized_writer_id and finalized_capture_epoch
  completeness    \* audio_completeness, "none" when NULL

ownership == <<token, writer, epoch>>
boundary == <<finalSequence, finalEndMs>>
outcome == <<finalizer, completeness>>
vars == <<state, token, writer, epoch, heartbeat, chunks, audio, gaps,
          finalSequence, finalEndMs, finalizer, completeness>>

NoBoundary == -1
NoFinalizer == [writer |-> NoWriter, epoch |-> 0]

States == {"none", "recording", "interrupted", "finalizing", "complete"}
Chunk == [seq : Sequences, writer : Writers, epoch : 1..MaxEpoch,
          payload : Payloads, endMs : EndTimes]

(* The gap rows finalize inserts get fresh ids, one row for each run of     *)
(* missing sequences; here one record covers all the runs of one call.      *)
FinalizeGap == "finalize"
Gap == [id : GapIds \cup {FinalizeGap}, writer : Writers,
        epoch : 1..MaxEpoch, covers : SUBSET Int]

-----------------------------------------------------------------------------
(* Guards and helpers.                                                     *)

\* Faulty variants of _validate_writer: one of the two comparisons is missing.
\* Definitions marked "Faulty variant" are not part of the model: each is the
\* mutant of the definition after it that some property below must catch.
ValidWriterAnyEpoch(w, e) == state # "none" /\ writer = w
ValidWriterAnyWriter(w, e) == state \notin {"none", "complete"} /\ epoch = e

ValidWriter(w, e) == state # "none" /\ writer = w /\ epoch = e

CanAcceptChunks == state \in {"recording", "interrupted", "finalizing"}

\* _mark_interrupted_if_stale: the state every handler that calls it goes on
\* with.
StateAfterStaleCheck ==
  IF state = "recording" /\ heartbeat = "stale" THEN "interrupted" ELSE state

Accepted == {c.seq : c \in chunks}

WithinBoundary(s) ==
  state = "finalizing" /\ finalSequence # NoBoundary => s <= finalSequence

Expected(f) == 1..f

\* _sequences_covered_by_gaps.  Wall-clock gaps cover no sequence.
CoveredBy(gs, f) == {s \in Expected(f) : \E g \in gs : s \in g.covers}

\* Faulty variant: a gap counts although its sequence arrived after all.
ClassifyByGapsOnly(f, accepted, covered) ==
  IF f = 0 THEN "empty" ELSE IF covered # {} THEN "partial" ELSE "full"

Classify(f, accepted, covered) ==
  IF f = 0 THEN "empty"
  ELSE IF \E s \in Expected(f) : s \notin accepted /\ s \in covered
       THEN "partial" ELSE "full"

-----------------------------------------------------------------------------
Init ==
  /\ state = "none"
  /\ token = NoToken
  /\ writer = NoWriter
  /\ epoch = 0
  /\ heartbeat = "fresh"
  /\ chunks = {}
  /\ audio = [s \in Sequences |-> NoPayload]
  /\ gaps = {}
  /\ finalSequence = NoBoundary
  /\ finalEndMs = NoBoundary
  /\ finalizer = NoFinalizer
  /\ completeness = "none"

\* create_live_session.  A retry with the same client_request_id returns the
\* row or raises; it changes nothing.
CreateSession(w, t) ==
  /\ state = "none"
  /\ state' = "recording"
  /\ writer' = w
  /\ token' = t
  /\ epoch' = 1
  /\ heartbeat' = "fresh"
  /\ UNCHANGED <<chunks, audio, gaps, boundary, outcome>>

\* Wall-clock time passes the heartbeat timeout.
HeartbeatExpires ==
  /\ state # "none"
  /\ heartbeat = "fresh"
  /\ heartbeat' = "stale"
  /\ UNCHANGED <<state, ownership, chunks, audio, gaps, boundary, outcome>>

\* get_recording_session, the read behind every state and session fetch.
ReadSession ==
  /\ state # "none"
  /\ state' = StateAfterStaleCheck
  /\ UNCHANGED <<ownership, heartbeat, chunks, audio, gaps, boundary, outcome>>

\* Faulty variant: a session that is being finalized, or is complete, can be
\* claimed.
ClaimableInAnyState(t) == state # "none" /\ t = token

Claimable(t) ==
  /\ StateAfterStaleCheck \notin {"none", "finalizing", "complete"}
  /\ t = token

\* claim_capture advances the capture generation.
ClaimCapture(w, t, expected) ==
  /\ Claimable(t)
  /\ epoch = expected
  /\ epoch < MaxEpoch
  /\ writer' = w
  /\ epoch' = expected + 1
  /\ state' = "recording"
  /\ heartbeat' = "fresh"
  /\ UNCHANGED <<token, chunks, audio, gaps, boundary, outcome>>

\* claim_capture answering the retry of a claim whose response was lost: the
\* row is returned as the stale check left it.
RetryClaim(w, t, expected) ==
  /\ Claimable(t)
  /\ epoch = expected + 1
  /\ writer = w
  /\ state' = StateAfterStaleCheck
  /\ UNCHANGED <<ownership, heartbeat, chunks, audio, gaps, boundary, outcome>>

\* heartbeat.
Heartbeat(w, e) ==
  /\ ValidWriter(w, e)
  /\ state # "complete"
  /\ heartbeat' = "fresh"
  /\ state' = IF StateAfterStaleCheck = "interrupted"
              THEN "recording" ELSE StateAfterStaleCheck
  /\ UNCHANGED <<ownership, chunks, audio, gaps, boundary, outcome>>

\* The part of accept_chunk before commit_bytes, for a sequence that has no
\* row.  A sequence that has one only compares and verifies: the retry is
\* acknowledged or refused and changes nothing.
MayStoreChunk(c) ==
  /\ c.seq \notin Accepted
  /\ ValidWriter(c.writer, c.epoch)
  /\ CanAcceptChunks
  /\ WithinBoundary(c.seq)

\* Faulty variant: a file left by an earlier attempt is taken as this chunk.
CommitBytesTrustingExisting(c) ==
  audio' = IF audio[c.seq] = NoPayload
           THEN [audio EXCEPT ![c.seq] = c.payload] ELSE audio

\* FilesystemAudioStorage.commit_bytes: a file already at the path must hold
\* the same bytes, otherwise the request fails.
CommitBytes(c) ==
  /\ audio[c.seq] \in {NoPayload, c.payload}
  /\ audio' = [audio EXCEPT ![c.seq] = c.payload]

\* accept_chunk.
AcceptChunk(c) ==
  /\ MayStoreChunk(c)
  /\ CommitBytes(c)
  /\ chunks' = chunks \cup {c}
  /\ UNCHANGED <<state, ownership, heartbeat, gaps, boundary, outcome>>

\* The process dies, or the commit fails, after the file is durable: the row
\* is rolled back and the file stays.
AcceptChunkCrash(c) ==
  /\ MayStoreChunk(c)
  /\ CommitBytes(c)
  /\ UNCHANGED <<state, ownership, heartbeat, chunks, gaps, boundary, outcome>>

\* declare_gap.  It validates the writer and nothing else.
DeclareGap(id, w, e, covers) ==
  /\ ValidWriter(w, e)
  /\ \A g \in gaps : g.id # id
  /\ gaps' = gaps \cup {[id |-> id, writer |-> w, epoch |-> e, covers |-> covers]}
  /\ UNCHANGED <<state, ownership, heartbeat, chunks, audio, boundary, outcome>>

\* The conflicts finalize_session checks before it takes a boundary.
BoundaryAdmissible(f, ms) ==
  /\ finalSequence \in {NoBoundary, f}
  /\ finalEndMs \in {NoBoundary, ms}
  /\ \A c \in chunks : c.seq <= f /\ c.endMs <= ms

\* What is missing of a boundary, given the sequences covered by gaps.
Missing(f, covered) == (Expected(f) \ Accepted) \ covered

\* Faulty variant: the chunks alone are counted up to the boundary, which
\* takes a late sequence for a missing one.
NothingMissingByCount(f, covered) ==
  Cardinality(Accepted) + Cardinality(covered) >= f

NothingMissing(f, covered) == Missing(f, covered) = {}

\* finalize_session on a session that is not complete.  `requested` are the
\* gap_sequences of the request.  On a complete session the call compares the
\* boundary and the finalizer and answers; it changes nothing.
Finalize(w, e, f, ms, requested) ==
  LET before   == CoveredBy(gaps, f)
      declared == Missing(f, before) \cap requested
      covered  == before \cup declared
  IN
  /\ state # "complete"
  /\ ValidWriter(w, e)
  /\ BoundaryAdmissible(f, ms)
  /\ finalSequence' = f
  /\ finalEndMs' = ms
  /\ gaps' = IF declared = {} THEN gaps
             ELSE gaps \cup {[id |-> FinalizeGap, writer |-> w, epoch |-> e,
                              covers |-> declared]}
  /\ IF NothingMissing(f, covered)
     THEN /\ state' = "complete"
          /\ finalizer' = [writer |-> w, epoch |-> e]
          /\ writer' = NoWriter
          /\ completeness' = Classify(f, Accepted, covered)
     ELSE /\ state' = "finalizing"
          /\ UNCHANGED <<finalizer, writer, completeness>>
  /\ UNCHANGED <<token, epoch, heartbeat, chunks, audio>>

Next ==
  \/ \E w \in Writers, t \in Tokens : CreateSession(w, t)
  \/ HeartbeatExpires
  \/ ReadSession
  \/ \E w \in Writers, t \in Tokens, e \in 1..MaxEpoch :
       ClaimCapture(w, t, e) \/ RetryClaim(w, t, e)
  \/ \E w \in Writers, e \in 1..MaxEpoch : Heartbeat(w, e)
  \/ \E c \in Chunk : AcceptChunk(c)
  \/ \E c \in Chunk : AcceptChunkCrash(c)
  \/ \E id \in GapIds, w \in Writers, e \in 1..MaxEpoch,
        first \in Boundaries \ {0}, last \in Boundaries :
       DeclareGap(id, w, e, first..last)
  \/ \E w \in Writers, e \in 1..MaxEpoch, f \in Boundaries, ms \in EndTimes,
        requested \in SUBSET (Boundaries \ {0}) :
       Finalize(w, e, f, ms, requested)

Spec == Init /\ [][Next]_vars

-----------------------------------------------------------------------------
(* Properties.                                                             *)

\* Types, and the shape of the row: it has an owner exactly while it is
\* neither absent nor complete, and terminal evidence exactly when complete.
TypeOK ==
  /\ state \in States
  /\ token \in Tokens \cup {NoToken}
  /\ writer \in Writers \cup {NoWriter}
  /\ epoch \in 0..MaxEpoch
  /\ heartbeat \in {"fresh", "stale"}
  /\ chunks \subseteq Chunk
  /\ audio \in [Sequences -> Payloads \cup {NoPayload}]
  /\ gaps \subseteq Gap
  /\ finalSequence \in Boundaries \cup {NoBoundary}
  /\ finalEndMs \in EndTimes \cup {NoBoundary}
  /\ finalizer \in [writer : Writers, epoch : 1..MaxEpoch] \cup {NoFinalizer}
  /\ completeness \in {"none", "empty", "partial", "full"}
  /\ writer = NoWriter <=> state \in {"none", "complete"}
  /\ epoch = 0 <=> state = "none"
  /\ completeness # "none" <=> state = "complete"
  /\ finalizer # NoFinalizer <=> state = "complete"
  /\ finalSequence # NoBoundary <=> state \in {"finalizing", "complete"}
  /\ finalEndMs # NoBoundary <=> finalSequence # NoBoundary

\* "Acknowledgement means durable" (docs/ARCHITECTURE.md): a sequence has one
\* accepted chunk, and the file at its path holds that chunk's bytes, whatever
\* a crash between the file commit and the row commit left there before.  So
\* the retry of an acknowledged chunk is always acknowledged again.
AcceptedAudioDurable ==
  \A c \in chunks :
    /\ audio[c.seq] = c.payload
    /\ \A d \in chunks : d.seq = c.seq => d = c

\* The writer a capture generation belongs to, once it is over as well.
Owner == IF state = "complete" THEN finalizer.writer ELSE writer
Evidence == {[writer |-> c.writer, epoch |-> c.epoch] : c \in chunks}
            \cup {[writer |-> g.writer, epoch |-> g.epoch] : g \in gaps}

\* One live capture writer owns a session at a time (docs/decisions/0002):
\* all the evidence of a capture generation, chunks and gaps, comes from one
\* writer, and that of the last generation from its present owner.
OneWriterPerGeneration ==
  /\ \A x, y \in Evidence : x.epoch = y.epoch => x.writer = y.writer
  /\ \A x \in Evidence : x.epoch <= epoch /\ (x.epoch = epoch => x.writer = Owner)

\* Nothing accepted lies beyond a declared boundary, and a session is complete
\* only if each sequence through the boundary is an accepted chunk or covered
\* by a gap: finalize may take several calls, with chunks and gaps arriving in
\* between, and a sequence can get both.
BoundaryAccounted ==
  /\ finalSequence # NoBoundary => \A c \in chunks : c.seq <= finalSequence
  /\ state = "complete" =>
       /\ Missing(finalSequence, CoveredBy(gaps, finalSequence)) = {}
       /\ \A c \in chunks : c.endMs <= finalEndMs

\* audio_completeness is terminal evidence that stays true: it is computed
\* once, and no later chunk or gap can make it wrong.
CompletenessTruthful ==
  state = "complete" =>
    LET f == finalSequence IN
    /\ completeness = "empty" <=> f = 0
    /\ completeness = "full" <=> f # 0 /\ Expected(f) \subseteq Accepted
    /\ completeness = "partial" <=>
         \E s \in Expected(f) : s \notin Accepted /\ \E g \in gaps : s \in g.covers

\* A generation that was superseded adds no evidence any more, and a complete
\* session none at all, though the old writer's requests keep arriving.
OldEvidence(generation) ==
  <<{c \in chunks : c.epoch < generation}, {g \in gaps : g.epoch < generation}>>
SupersededEvidenceFrozen ==
  [][/\ \A n \in 1..MaxEpoch : n <= epoch => OldEvidence(n)' = OldEvidence(n)
     /\ state = "complete" => chunks' = chunks /\ gaps' = gaps]_vars

\* Once a boundary is declared no claim moves the session to another owner,
\* the boundary stays the same, and only completion ends that state.
BoundaryPinsOwner ==
  [][finalSequence # NoBoundary =>
       /\ boundary' = boundary
       /\ epoch' = epoch
       /\ Owner' = Owner
       /\ state' \in {"finalizing", "complete"}]_vars
=============================================================================
