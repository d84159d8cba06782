--------------------------- MODULE MCUploadResults ---------------------------
(* Small instances of UploadResults for TLC. *)
EXTENDS UploadResults, TLC

CONSTANT c1

\* One utterance.
One == c1 :> 1
=============================================================================
