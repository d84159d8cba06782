------------------------- MODULE MCRecordingSession -------------------------
(* Small instances of RecordingSession for TLC. *)
EXTENDS RecordingSession, TLC

\* Writers are interchangeable, and so are payloads.
WriterSymmetry == Permutations(Writers) \cup Permutations(Payloads)
=============================================================================
