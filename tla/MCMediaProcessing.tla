-------------------------- MODULE MCMediaProcessing --------------------------
(* Small instances of MediaProcessing for TLC. *)
EXTENDS MediaProcessing, TLC

CONSTANTS c1, c2

\* ffmpeg makes content with two utterances, or, run again, with one.
TwoOrOne == c1 :> 2 @@ c2 :> 1
=============================================================================
