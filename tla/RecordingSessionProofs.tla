----------------------- MODULE RecordingSessionProofs -----------------------
(***************************************************************************)
(* Proofs about RecordingSession for every set of writers, tokens,         *)
(* payloads, gap ids, sequence numbers, boundaries and end times, and      *)
(* every bound on the capture epoch.                                       *)
(***************************************************************************)
EXTENDS RecordingSession, TLAPS

\* finalize_session only adds a gap row, of the finalizing writer, that covers
\* sequences up to the boundary which neither a chunk nor a gap accounts for.
LEMMA FinalizeAddsGaps ==
  ASSUME NEW w \in Writers, NEW e \in 1..MaxEpoch, NEW f \in Boundaries,
         NEW ms \in EndTimes, NEW requested \in SUBSET (Boundaries \ {0}),
         gaps \subseteq Gap, Finalize(w, e, f, ms, requested)
  PROVE  \E declared \in SUBSET Expected(f) :
           /\ declared = Missing(f, CoveredBy(gaps, f)) \cap requested
           /\ gaps' = IF declared = {} THEN gaps
                      ELSE gaps \cup {[id |-> FinalizeGap, writer |-> w,
                                       epoch |-> e, covers |-> declared]}
           /\ gaps' \subseteq Gap
           /\ CoveredBy(gaps', f) = CoveredBy(gaps, f) \cup declared
<1> DEFINE declared == Missing(f, CoveredBy(gaps, f)) \cap requested
           row == [id |-> FinalizeGap, writer |-> w, epoch |-> e, covers |-> declared]
<1>1. declared \subseteq Expected(f)
  BY DEF Missing
<1>2. Expected(f) \subseteq Int
  BY DEF Expected
<1>3. gaps' = IF declared = {} THEN gaps ELSE gaps \cup {row}
  BY DEF Finalize
<1>4. row \in Gap
  BY <1>1, <1>2 DEF Gap
<1>5. gaps' \subseteq Gap
  BY <1>3, <1>4
<1>6. CoveredBy(gaps', f) = CoveredBy(gaps, f) \cup declared
  <2>1. row.covers = declared
    OBVIOUS
  <2> HIDE DEF row, declared
  <2>2. ASSUME NEW s \in Expected(f)
        PROVE  (\E g \in gaps' : s \in g.covers)
                 <=> s \in CoveredBy(gaps, f) \cup declared
    BY <1>3, <2>1, <2>2 DEF CoveredBy
  <2>3. CoveredBy(gaps, f) \cup declared \subseteq Expected(f)
    BY <1>1 DEF CoveredBy
  <2> QED
    BY <2>2, <2>3 DEF CoveredBy
<1> QED
  BY <1>1, <1>3, <1>5, <1>6

\* The row keeps its types and its shape: an owner exactly while it is
\* neither absent nor complete, terminal evidence exactly when complete.
THEOREM TypeCorrect == Spec => []TypeOK
<1> USE RecordingAssumption
<1>1. Init => TypeOK
  BY DEF Init, TypeOK, States, Chunk, Gap, NoBoundary, NoFinalizer
<1>2. TypeOK /\ [Next]_vars => TypeOK'
  <2> SUFFICES ASSUME TypeOK, [Next]_vars PROVE TypeOK'
    OBVIOUS
  <2> USE DEF TypeOK, States, ownership, boundary, outcome
  <2>1. ASSUME NEW w \in Writers, NEW t \in Tokens, CreateSession(w, t)
        PROVE TypeOK'
    BY <2>1 DEF CreateSession, NoBoundary, NoFinalizer
  <2>2. CASE HeartbeatExpires
    BY <2>2 DEF HeartbeatExpires
  <2>3. CASE ReadSession
    BY <2>3 DEF ReadSession, StateAfterStaleCheck
  <2>4. ASSUME NEW w \in Writers, NEW t \in Tokens, NEW e \in 1..MaxEpoch,
               ClaimCapture(w, t, e)
        PROVE TypeOK'
    BY <2>4 DEF ClaimCapture, Claimable, StateAfterStaleCheck
  <2>5. ASSUME NEW w \in Writers, NEW t \in Tokens, NEW e \in 1..MaxEpoch,
               RetryClaim(w, t, e)
        PROVE TypeOK'
    BY <2>5 DEF RetryClaim, Claimable, StateAfterStaleCheck
  <2>6. ASSUME NEW w \in Writers, NEW e \in 1..MaxEpoch, Heartbeat(w, e)
        PROVE TypeOK'
    BY <2>6 DEF Heartbeat, ValidWriter, StateAfterStaleCheck
  <2>7. ASSUME NEW c \in Chunk, AcceptChunk(c)
        PROVE TypeOK'
    BY <2>7 DEF AcceptChunk, CommitBytes, Chunk
  <2>8. ASSUME NEW c \in Chunk, AcceptChunkCrash(c)
        PROVE TypeOK'
    BY <2>8 DEF AcceptChunkCrash, CommitBytes, Chunk
  <2>9. ASSUME NEW id \in GapIds, NEW w \in Writers, NEW e \in 1..MaxEpoch,
               NEW first \in Boundaries \ {0}, NEW last \in Boundaries,
               DeclareGap(id, w, e, first..last)
        PROVE TypeOK'
    BY <2>9 DEF DeclareGap, Gap
  <2>10. ASSUME NEW w \in Writers, NEW e \in 1..MaxEpoch, NEW f \in Boundaries,
                NEW ms \in EndTimes, NEW requested \in SUBSET (Boundaries \ {0}),
                Finalize(w, e, f, ms, requested)
         PROVE TypeOK'
    <3>1. gaps' \subseteq Gap
      BY <2>10, FinalizeAddsGaps
    <3>2. /\ finalSequence' \in Boundaries /\ finalSequence' # NoBoundary
          /\ finalEndMs' \in EndTimes /\ finalEndMs' # NoBoundary
      BY <2>10 DEF Finalize, NoBoundary
    <3>3. \/ /\ state' = "complete"
             /\ finalizer' = [writer |-> w, epoch |-> e]
             /\ writer' = NoWriter
             /\ completeness' \in {"empty", "partial", "full"}
          \/ /\ state' = "finalizing"
             /\ UNCHANGED <<finalizer, writer, completeness>>
      BY <2>10 DEF Finalize, Classify
    <3>4. state # "complete" /\ state # "none"
      BY <2>10 DEF Finalize, ValidWriter
    <3>5. UNCHANGED <<token, epoch, heartbeat, chunks, audio>>
      BY <2>10 DEF Finalize
    <3>6. [writer |-> w, epoch |-> e] # NoFinalizer
      BY DEF NoFinalizer
    <3> QED
      BY <3>1, <3>2, <3>3, <3>4, <3>5, <3>6
  <2>11. CASE UNCHANGED vars
    BY <2>11 DEF vars
  <2> QED
    BY <2>1, <2>2, <2>3, <2>4, <2>5, <2>6, <2>7, <2>8, <2>9, <2>10, <2>11
    DEF Next
<1> QED
  BY <1>1, <1>2, PTL DEF Spec

-----------------------------------------------------------------------------
(* What a step may do to the evidence and to the ownership of a session.    *)

\* A chunk or a gap that a step adds belongs to the writer and the generation
\* that own the session before and after the step.
LEMMA NewEvidenceIsCurrent ==
  ASSUME TypeOK, [Next]_vars
  PROVE  /\ chunks \subseteq chunks'
         /\ gaps \subseteq gaps'
         /\ \A c \in chunks' \ chunks :
              c.writer = writer /\ c.epoch = epoch /\ WithinBoundary(c.seq)
         /\ \A g \in gaps' \ gaps : g.writer = writer /\ g.epoch = epoch
         /\ chunks' # chunks \/ gaps' # gaps =>
              writer \in Writers /\ epoch' = epoch /\ Owner' = Owner
<1> USE RecordingAssumption DEF TypeOK, Owner, ownership, boundary, outcome
<1>1. ASSUME NEW c \in Chunk, AcceptChunk(c)
      PROVE  /\ chunks' = chunks \cup {c}
             /\ c.writer = writer /\ c.epoch = epoch /\ WithinBoundary(c.seq)
             /\ c.writer \in Writers
             /\ UNCHANGED <<gaps, epoch, writer, state, finalizer>>
  BY <1>1 DEF AcceptChunk, MayStoreChunk, ValidWriter, Chunk
<1>2. ASSUME NEW id \in GapIds, NEW w \in Writers, NEW e \in 1..MaxEpoch,
             NEW covers \in SUBSET Int, DeclareGap(id, w, e, covers)
      PROVE  /\ gaps' = gaps \cup {[id |-> id, writer |-> writer,
                                   epoch |-> epoch, covers |-> covers]}
             /\ writer \in Writers
             /\ UNCHANGED <<chunks, epoch, writer, state, finalizer>>
  BY <1>2 DEF DeclareGap, ValidWriter
<1>3. ASSUME NEW w \in Writers, NEW e \in 1..MaxEpoch, NEW f \in Boundaries,
             NEW ms \in EndTimes, NEW requested \in SUBSET (Boundaries \ {0}),
             Finalize(w, e, f, ms, requested)
      PROVE  /\ gaps \subseteq gaps'
             /\ \A g \in gaps' \ gaps : g.writer = writer /\ g.epoch = epoch
             /\ writer \in Writers
             /\ Owner' = Owner
             /\ UNCHANGED <<chunks, epoch>>
  <2>1. gaps \subseteq Gap
    OBVIOUS
  <2>2. w = writer /\ e = epoch /\ UNCHANGED <<chunks, epoch>> /\ state # "complete"
    BY <1>3 DEF Finalize, ValidWriter
  <2>3. Owner' = Owner
    BY <1>3, <2>2 DEF Finalize
  <2> HIDE DEF TypeOK, Owner, ownership, boundary, outcome
  <2>4. PICK declared \in SUBSET Expected(f) :
          /\ declared = Missing(f, CoveredBy(gaps, f)) \cap requested
          /\ gaps' = IF declared = {} THEN gaps
                     ELSE gaps \cup {[id |-> FinalizeGap, writer |-> w,
                                      epoch |-> e, covers |-> declared]}
          /\ gaps' \subseteq Gap
          /\ CoveredBy(gaps', f) = CoveredBy(gaps, f) \cup declared
    BY <1>3, <2>1, FinalizeAddsGaps
  <2> QED
    BY <2>2, <2>3, <2>4
<1>4. CASE \/ \E w \in Writers, t \in Tokens : CreateSession(w, t)
           \/ HeartbeatExpires
           \/ ReadSession
           \/ \E w \in Writers, t \in Tokens, e \in 1..MaxEpoch :
                ClaimCapture(w, t, e) \/ RetryClaim(w, t, e)
           \/ \E w \in Writers, e \in 1..MaxEpoch : Heartbeat(w, e)
           \/ \E c \in Chunk : AcceptChunkCrash(c)
           \/ UNCHANGED vars
  <2>1. UNCHANGED <<chunks, gaps>>
    BY <1>4 DEF CreateSession, HeartbeatExpires, ReadSession, ClaimCapture,
       RetryClaim, Heartbeat, AcceptChunkCrash, vars
  <2> QED
    BY <2>1
<1>5. ASSUME NEW c \in Chunk, AcceptChunk(c) PROVE Owner' = Owner
  BY <1>1, <1>5
<1>6. CASE \E c \in Chunk : AcceptChunk(c)
  BY <1>1, <1>5, <1>6
<1>7. CASE \E id \in GapIds, w \in Writers, e \in 1..MaxEpoch,
              first \in Boundaries \ {0}, last \in Boundaries :
             DeclareGap(id, w, e, first..last)
  <2>1. PICK id \in GapIds, w \in Writers, e \in 1..MaxEpoch, covers \in SUBSET Int :
          DeclareGap(id, w, e, covers)
    BY <1>7
  <2> DEFINE row == [id |-> id, writer |-> writer, epoch |-> epoch, covers |-> covers]
  <2>2. /\ gaps' = gaps \cup {row}
        /\ writer \in Writers
        /\ UNCHANGED <<chunks, epoch, writer, state, finalizer>>
    BY <1>2, <2>1
  <2>3. row.writer = writer /\ row.epoch = epoch
    OBVIOUS
  <2>4. Owner' = Owner
    BY <2>2
  <2> HIDE DEF row
  <2> QED
    BY <2>2, <2>3, <2>4
<1>8. CASE \E w \in Writers, e \in 1..MaxEpoch, f \in Boundaries, ms \in EndTimes,
              requested \in SUBSET (Boundaries \ {0}) :
             Finalize(w, e, f, ms, requested)
  BY <1>3, <1>8
<1> QED
  BY <1>4, <1>6, <1>7, <1>8 DEF Next

\* A step keeps the generation and its owner, or it starts the next one while
\* no boundary is declared.
LEMMA OwnershipStep ==
  ASSUME TypeOK, [Next]_vars
  PROVE  \/ epoch' = epoch /\ (state # "none" => Owner' = Owner)
         \/ epoch' = epoch + 1 /\ finalSequence = NoBoundary
<1> USE RecordingAssumption DEF TypeOK, Owner, ownership, boundary, outcome
<1>1. CASE \E w \in Writers, t \in Tokens : CreateSession(w, t)
  BY <1>1 DEF CreateSession
<1>2. CASE \E w \in Writers, t \in Tokens, e \in 1..MaxEpoch : ClaimCapture(w, t, e)
  BY <1>2 DEF ClaimCapture, Claimable, StateAfterStaleCheck
<1>3. CASE \/ HeartbeatExpires
           \/ ReadSession
           \/ \E w \in Writers, t \in Tokens, e \in 1..MaxEpoch : RetryClaim(w, t, e)
           \/ \E w \in Writers, e \in 1..MaxEpoch : Heartbeat(w, e)
           \/ \E c \in Chunk : AcceptChunk(c)
           \/ \E c \in Chunk : AcceptChunkCrash(c)
           \/ \E id \in GapIds, w \in Writers, e \in 1..MaxEpoch,
                 first \in Boundaries \ {0}, last \in Boundaries :
                DeclareGap(id, w, e, first..last)
           \/ UNCHANGED vars
  <2>1. /\ UNCHANGED <<epoch, writer, finalizer>>
        /\ state' = "complete" <=> state = "complete"
    BY <1>3 DEF HeartbeatExpires, ReadSession, RetryClaim, Heartbeat, AcceptChunk,
       AcceptChunkCrash, DeclareGap, StateAfterStaleCheck, vars
  <2> QED
    BY <2>1
<1>4. CASE \E w \in Writers, e \in 1..MaxEpoch, f \in Boundaries, ms \in EndTimes,
              requested \in SUBSET (Boundaries \ {0}) :
             Finalize(w, e, f, ms, requested)
  BY <1>4 DEF Finalize, ValidWriter
<1> QED
  BY <1>1, <1>2, <1>3, <1>4 DEF Next

\* A complete session never changes again, but for the heartbeat clock.
LEMMA CompleteIsFinal ==
  ASSUME TypeOK, [Next]_vars, state = "complete"
  PROVE  UNCHANGED <<state, ownership, chunks, audio, gaps, boundary, outcome>>
BY RecordingAssumption
DEF TypeOK, Next, vars, CreateSession, HeartbeatExpires, ReadSession,
    StateAfterStaleCheck, ClaimCapture, RetryClaim, Claimable, Heartbeat,
    AcceptChunk, AcceptChunkCrash, MayStoreChunk, DeclareGap, Finalize,
    ValidWriter, ownership, boundary, outcome, Chunk

-----------------------------------------------------------------------------
(* The safety invariants.                                                   *)

\* An accepted chunk's file holds its bytes, and a sequence is accepted once:
\* commit_bytes never replaces a file, and accept_chunk looks the sequence up
\* under the session lock.
THEOREM AckedAudioIsDurable == Spec => []AcceptedAudioDurable
<1> USE RecordingAssumption
<1>1. Init => AcceptedAudioDurable
  BY DEF Init, AcceptedAudioDurable
<1>2. TypeOK /\ AcceptedAudioDurable /\ [Next]_vars => AcceptedAudioDurable'
  <2> SUFFICES ASSUME TypeOK, AcceptedAudioDurable, [Next]_vars
               PROVE  AcceptedAudioDurable'
    OBVIOUS
  <2>1. ASSUME NEW c \in Chunk, MayStoreChunk(c), CommitBytes(c)
        PROVE  /\ audio'[c.seq] = c.payload
               /\ \A d \in chunks : d.seq # c.seq /\ audio'[d.seq] = audio[d.seq]
    BY <2>1 DEF TypeOK, MayStoreChunk, CommitBytes, Accepted, Chunk
  <2>2. ASSUME NEW c \in Chunk, AcceptChunk(c) PROVE AcceptedAudioDurable'
    BY <2>1, <2>2 DEF AcceptChunk, AcceptedAudioDurable
  <2>3. ASSUME NEW c \in Chunk, AcceptChunkCrash(c) PROVE AcceptedAudioDurable'
    BY <2>1, <2>3 DEF AcceptChunkCrash, AcceptedAudioDurable
  <2>4. ASSUME UNCHANGED <<chunks, audio>> PROVE AcceptedAudioDurable'
    BY <2>4 DEF AcceptedAudioDurable
  <2>5. CASE \/ \E w \in Writers, t \in Tokens : CreateSession(w, t)
             \/ HeartbeatExpires
             \/ ReadSession
             \/ \E w \in Writers, t \in Tokens, e \in 1..MaxEpoch :
                  ClaimCapture(w, t, e) \/ RetryClaim(w, t, e)
             \/ \E w \in Writers, e \in 1..MaxEpoch : Heartbeat(w, e)
             \/ \E id \in GapIds, w \in Writers, e \in 1..MaxEpoch,
                  first \in Boundaries \ {0}, last \in Boundaries :
                 DeclareGap(id, w, e, first..last)
             \/ UNCHANGED vars
    <3>1. UNCHANGED <<chunks, audio>>
      BY <2>5 DEF CreateSession, HeartbeatExpires, ReadSession, ClaimCapture,
         RetryClaim, Heartbeat, DeclareGap, vars
    <3> QED
      BY <2>4, <3>1
  <2>6. ASSUME NEW w \in Writers, NEW e \in 1..MaxEpoch, NEW f \in Boundaries,
               NEW ms \in EndTimes, NEW requested \in SUBSET (Boundaries \ {0}),
               Finalize(w, e, f, ms, requested)
        PROVE  AcceptedAudioDurable'
    <3>1. UNCHANGED <<chunks, audio>>
      BY <2>6 DEF Finalize
    <3> QED
      BY <2>4, <3>1
  <2>7. CASE \E c \in Chunk : AcceptChunk(c) \/ AcceptChunkCrash(c)
    BY <2>2, <2>3, <2>7
  <2> QED
    BY <2>5, <2>6, <2>7 DEF Next
<1> QED
  BY <1>1, <1>2, TypeCorrect, PTL DEF Spec

\* All the evidence of a capture generation comes from one writer.
THEOREM SingleWriter == Spec => []OneWriterPerGeneration
<1> USE RecordingAssumption
<1>1. Init => OneWriterPerGeneration
  BY DEF Init, OneWriterPerGeneration, Evidence
<1>2. TypeOK /\ OneWriterPerGeneration /\ [Next]_vars => OneWriterPerGeneration'
  <2> SUFFICES ASSUME TypeOK, OneWriterPerGeneration, [Next]_vars
               PROVE  OneWriterPerGeneration'
    OBVIOUS
  <2> DEFINE New(x) == x.writer = writer /\ x.epoch = epoch
  <2>1. \A x \in Evidence' : x \in Evidence \/ New(x)
    BY NewEvidenceIsCurrent DEF Evidence
  <2>2. \A x \in Evidence : x.epoch \in 1..MaxEpoch
    BY DEF Evidence, TypeOK, Chunk, Gap
  <2>3. epoch \in 0..MaxEpoch
    BY DEF TypeOK
  <2>4. CASE Evidence' # Evidence
    <3>1. writer \in Writers /\ epoch' = epoch /\ Owner' = Owner
      BY <2>4, NewEvidenceIsCurrent DEF Evidence
    <3>2. Owner = writer
      BY <3>1 DEF Owner, TypeOK
    <3> QED
      BY <2>1, <2>2, <2>3, <3>1, <3>2 DEF OneWriterPerGeneration
  <2>5. CASE Evidence' = Evidence
    <3>1. CASE epoch' = epoch /\ (state # "none" => Owner' = Owner)
      <4>1. state = "none" => Evidence = {}
        BY <2>2, <2>3 DEF TypeOK, OneWriterPerGeneration
      <4> QED
        BY <2>5, <3>1, <4>1 DEF OneWriterPerGeneration
    <3>2. CASE epoch' = epoch + 1
      BY <2>2, <2>3, <2>5, <3>2 DEF OneWriterPerGeneration
    <3> QED
      BY <3>1, <3>2, OwnershipStep
  <2> QED
    BY <2>4, <2>5
<1> QED
  BY <1>1, <1>2, TypeCorrect, PTL DEF Spec

\* A complete session accounts for each sequence through its boundary, and
\* nothing accepted lies beyond a declared boundary.
THEOREM BoundaryIsAccounted == Spec => []BoundaryAccounted
<1> USE RecordingAssumption
<1>1. Init => BoundaryAccounted
  BY DEF Init, BoundaryAccounted
<1>2. TypeOK /\ BoundaryAccounted /\ [Next]_vars => BoundaryAccounted'
  <2> SUFFICES ASSUME TypeOK, BoundaryAccounted, [Next]_vars
               PROVE  BoundaryAccounted'
    OBVIOUS
  <2>1. CASE state = "complete"
    BY <2>1, CompleteIsFinal
    DEF BoundaryAccounted, Missing, CoveredBy, Accepted, boundary
  <2>2. ASSUME state # "complete",
               NEW w \in Writers, NEW e \in 1..MaxEpoch, NEW f \in Boundaries,
               NEW ms \in EndTimes, NEW requested \in SUBSET (Boundaries \ {0}),
               Finalize(w, e, f, ms, requested)
        PROVE  BoundaryAccounted'
    <3> DEFINE before == CoveredBy(gaps, f)
               covered == before \cup (Missing(f, before) \cap requested)
    <3>1. /\ finalSequence' = f /\ finalEndMs' = ms /\ chunks' = chunks
          /\ \A c \in chunks : c.seq <= f /\ c.endMs <= ms
      BY <2>2 DEF Finalize, BoundaryAdmissible
    <3>2. CoveredBy(gaps', f) = covered
      BY <2>2, FinalizeAddsGaps DEF TypeOK
    <3>3. state' = "complete" => Missing(f, covered) = {}
      BY <2>2 DEF Finalize, NothingMissing
    <3>4. Accepted' = Accepted /\ CoveredBy(gaps, f)' = CoveredBy(gaps', f)
      BY <3>1 DEF Accepted, CoveredBy
    <3> HIDE DEF covered
    <3>5. state' = "complete" => ((Expected(f) \ Accepted') \ CoveredBy(gaps', f)) = {}
      BY <3>2, <3>3, <3>4 DEF Missing
    <3> QED
      BY <3>1, <3>5 DEF BoundaryAccounted, Missing, CoveredBy
  <2>3. CASE state # "complete" /\ state' # "complete" /\ UNCHANGED finalSequence
    <3>1. \A c \in chunks' \ chunks : WithinBoundary(c.seq)
      BY NewEvidenceIsCurrent
    <3> QED
      BY <2>3, <3>1 DEF BoundaryAccounted, WithinBoundary, TypeOK
  <2>4. CASE /\ state # "complete"
             /\ ~ \E w \in Writers, e \in 1..MaxEpoch, f \in Boundaries, ms \in EndTimes,
                     requested \in SUBSET (Boundaries \ {0}) :
                    Finalize(w, e, f, ms, requested)
    <3>1. state' # "complete" /\ UNCHANGED finalSequence
      BY <2>4
      DEF TypeOK, Next, vars, boundary, CreateSession, HeartbeatExpires, ReadSession,
          StateAfterStaleCheck, ClaimCapture, RetryClaim, Heartbeat, AcceptChunk,
          AcceptChunkCrash, DeclareGap
    <3> QED
      BY <2>3, <2>4, <3>1
  <2> QED
    BY <2>1, <2>2, <2>4
<1> QED
  BY <1>1, <1>2, TypeCorrect, PTL DEF Spec

\* audio_completeness stays the truth about the accepted chunks and the gaps.
THEOREM CompletenessStaysTrue == Spec => []CompletenessTruthful
<1> USE RecordingAssumption
<1>1. Init => CompletenessTruthful
  BY DEF Init, CompletenessTruthful
<1>2. TypeOK /\ CompletenessTruthful /\ [Next]_vars => CompletenessTruthful'
  <2> SUFFICES ASSUME TypeOK, CompletenessTruthful, [Next]_vars, state' = "complete"
               PROVE  CompletenessTruthful'
    BY DEF CompletenessTruthful
  <2>1. CASE state = "complete"
    BY <2>1, CompleteIsFinal DEF CompletenessTruthful, Accepted, boundary, outcome
  <2>2. ASSUME state # "complete",
               NEW w \in Writers, NEW e \in 1..MaxEpoch, NEW f \in Boundaries,
               NEW ms \in EndTimes, NEW requested \in SUBSET (Boundaries \ {0}),
               Finalize(w, e, f, ms, requested)
        PROVE  CompletenessTruthful'
    <3> DEFINE before == CoveredBy(gaps, f)
               covered == before \cup (Missing(f, before) \cap requested)
    <3>1. /\ finalSequence' = f /\ chunks' = chunks
          /\ completeness' = Classify(f, Accepted, covered)
          /\ Missing(f, covered) = {}
      BY <2>2 DEF Finalize, NothingMissing
    <3>2. CoveredBy(gaps', f) = covered
      BY <2>2, FinalizeAddsGaps DEF TypeOK
    <3>3. Accepted' = Accepted
      BY <3>1 DEF Accepted
    <3> HIDE DEF covered
    <3>4. \A s \in Expected(f) : s \in covered <=> \E g \in gaps' : s \in g.covers
      BY <3>2 DEF CoveredBy
    <3>5. \A s \in Expected(f) : s \in Accepted \/ s \in covered
      BY <3>1 DEF Missing
    <3>6. f = 0 => Expected(f) = {}
      BY DEF Expected
    <3>7. f \in Nat
      OBVIOUS
    <3>8. /\ completeness' = "empty" <=> f = 0
          /\ completeness' = "full" <=> f # 0 /\ Expected(f) \subseteq Accepted
          /\ completeness' = "partial" <=>
               \E s \in Expected(f) : s \notin Accepted /\ s \in covered
      BY <3>1, <3>5, <3>6 DEF Classify
    <3>9. (\E s \in Expected(f) : s \notin Accepted /\ s \in covered) <=>
          (\E s \in Expected(f) : s \notin Accepted /\ \E g \in gaps' : s \in g.covers)
      BY <3>4
    <3> QED
      BY <3>1, <3>3, <3>8, <3>9 DEF CompletenessTruthful, Expected
  <2> QED
    BY <2>1, <2>2
    DEF TypeOK, Next, vars, CreateSession, HeartbeatExpires, ReadSession,
        StateAfterStaleCheck, ClaimCapture, RetryClaim, Heartbeat, AcceptChunk,
        AcceptChunkCrash, DeclareGap
<1> QED
  BY <1>1, <1>2, TypeCorrect, PTL DEF Spec

-----------------------------------------------------------------------------
(* What no step may do.                                                     *)

\* A superseded generation adds no evidence, and a complete session none.
THEOREM SupersededEvidenceIsFrozen == Spec => SupersededEvidenceFrozen
<1> USE RecordingAssumption
<1>1. TypeOK /\ [Next]_vars =>
        [/\ \A n \in 1..MaxEpoch : n <= epoch => OldEvidence(n)' = OldEvidence(n)
         /\ state = "complete" => chunks' = chunks /\ gaps' = gaps]_vars
  <2> SUFFICES ASSUME TypeOK, [Next]_vars
               PROVE  /\ \A n \in 1..MaxEpoch : n <= epoch => OldEvidence(n)' = OldEvidence(n)
                      /\ state = "complete" => chunks' = chunks /\ gaps' = gaps
    OBVIOUS
  <2>1. ASSUME NEW n \in 1..MaxEpoch, n <= epoch
        PROVE  OldEvidence(n)' = OldEvidence(n)
    <3>1. \A c \in chunks' \ chunks : ~(c.epoch < n)
      BY <2>1, NewEvidenceIsCurrent DEF TypeOK
    <3>2. \A g \in gaps' \ gaps : ~(g.epoch < n)
      BY <2>1, NewEvidenceIsCurrent DEF TypeOK
    <3>3. chunks \subseteq chunks' /\ gaps \subseteq gaps'
      BY NewEvidenceIsCurrent
    <3> QED
      BY <3>1, <3>2, <3>3 DEF OldEvidence
  <2>2. state = "complete" => chunks' = chunks /\ gaps' = gaps
    BY CompleteIsFinal
  <2> QED
    BY <2>1, <2>2
<1> QED
  BY <1>1, TypeCorrect, PTL DEF Spec, SupersededEvidenceFrozen

\* A declared boundary stays, and no claim changes the owner after it.
THEOREM BoundaryPinsTheOwner == Spec => BoundaryPinsOwner
<1> USE RecordingAssumption
<1>1. TypeOK /\ [Next]_vars =>
        [finalSequence # NoBoundary =>
           /\ boundary' = boundary
           /\ epoch' = epoch
           /\ Owner' = Owner
           /\ state' \in {"finalizing", "complete"}]_vars
  <2> SUFFICES ASSUME TypeOK, [Next]_vars, finalSequence # NoBoundary
               PROVE  /\ boundary' = boundary
                      /\ epoch' = epoch
                      /\ Owner' = Owner
                      /\ state' \in {"finalizing", "complete"}
    OBVIOUS
  <2>1. epoch' = epoch /\ Owner' = Owner
    BY OwnershipStep DEF TypeOK
  <2>2. state \in {"finalizing", "complete"} /\ finalEndMs # NoBoundary
    BY DEF TypeOK
  <2> DEFINE Pinned == /\ finalSequence' = finalSequence
                       /\ finalEndMs' = finalEndMs
                       /\ state' \in {"finalizing", "complete"}
  <2>3. ASSUME NEW w \in Writers, NEW e \in 1..MaxEpoch, NEW f \in Boundaries,
               NEW ms \in EndTimes, NEW requested \in SUBSET (Boundaries \ {0}),
               Finalize(w, e, f, ms, requested)
        PROVE  Pinned
    BY <2>2, <2>3 DEF Finalize, BoundaryAdmissible
  <2>4. ASSUME \/ HeartbeatExpires
               \/ ReadSession
               \/ \E w \in Writers, e \in 1..MaxEpoch : Heartbeat(w, e)
               \/ \E c \in Chunk : AcceptChunk(c)
               \/ \E c \in Chunk : AcceptChunkCrash(c)
               \/ \E id \in GapIds, w \in Writers, e \in 1..MaxEpoch,
                     first \in Boundaries \ {0}, last \in Boundaries :
                    DeclareGap(id, w, e, first..last)
               \/ UNCHANGED vars
        PROVE  Pinned
    BY <2>2, <2>4
    DEF vars, HeartbeatExpires, ReadSession, StateAfterStaleCheck, Heartbeat,
        AcceptChunk, AcceptChunkCrash, DeclareGap, ownership, boundary, outcome
  <2>5. /\ ~ \E w \in Writers, t \in Tokens : CreateSession(w, t)
        /\ ~ \E w \in Writers, t \in Tokens, e \in 1..MaxEpoch :
               ClaimCapture(w, t, e) \/ RetryClaim(w, t, e)
    BY <2>2
    DEF CreateSession, ClaimCapture, RetryClaim, Claimable, StateAfterStaleCheck
  <2>6. Pinned
    BY <2>3, <2>4, <2>5 DEF Next
  <2> QED
    BY <2>1, <2>6 DEF boundary
<1> QED
  BY <1>1, TypeCorrect, PTL DEF Spec, BoundaryPinsOwner
=============================================================================
