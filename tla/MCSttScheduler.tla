--------------------------- MODULE MCSttScheduler ---------------------------
(* Small instances of SttScheduler for TLC. *)
EXTENDS SttScheduler, TLC

CONSTANTS s1, s2

\* One utterance of a live session.
OneUtterance == 1 :> s1
OneClass == s1 :> "live"
LiveWorkers == [w \in Workers |-> "live"]

\* A live session of two utterances and an upload session of one, a live worker only.
TwoSessions == 1 :> s1 @@ 2 :> s1 @@ 3 :> s2
TwoClasses == s1 :> "live" @@ s2 :> "upload"
CONSTANT w1
OneLiveWorker == w1 :> "live"

WorkerSymmetry == Permutations(Workers)
=============================================================================
