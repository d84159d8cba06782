------------------------- MODULE MCTranscriptReading -------------------------
(* Small instances of TranscriptReading for TLC. *)
EXTENDS TranscriptReading, TLC
=============================================================================
