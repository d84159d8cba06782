---------------------------- MODULE UploadOutcome ----------------------------
(***************************************************************************)
(* What media processing promises for each durably completed upload,        *)
(* whatever happens to its workers and their claims: one normalization is   *)
(* chosen, once; its utterances are made in order, none twice and none of   *)
(* another normalization; transcription starts only when all of them are    *)
(* made; and the upload ends once.  MediaProcessing implements this          *)
(* specification.                                                           *)
(***************************************************************************)
EXTENDS Naturals

CONSTANTS Uploads, Contents, Candidates, NoContent

VARIABLES
  stage,     \* where each upload stands
  chosen,    \* the content its utterances are cut from
  made       \* how many of its utterances exist

Stages == {"preparing", "transcribing", "transcribed", "no_speech", "failed"}

Init ==
  /\ stage = [u \in Uploads |-> "preparing"]
  /\ chosen = [u \in Uploads |-> NoContent]
  /\ made = [u \in Uploads |-> 0]

MoveTo(u, s) == stage' = [stage EXCEPT ![u] = s] /\ UNCHANGED <<chosen, made>>

\* A worker that has lost its claim may still choose or make something, but not
\* after the transcription has started.
Choose(u) ==
  /\ chosen[u] = NoContent
  /\ stage[u] \in {"preparing", "failed"}
  /\ \E c \in Contents : chosen' = [chosen EXCEPT ![u] = c]
  /\ UNCHANGED <<stage, made>>

Make(u) ==
  /\ chosen[u] # NoContent
  /\ made[u] < Candidates[chosen[u]]
  /\ stage[u] \in {"preparing", "failed"}
  /\ made' = [made EXCEPT ![u] = @ + 1]
  /\ UNCHANGED <<stage, chosen>>

Prepared(u) == /\ stage[u] = "preparing"
               /\ chosen[u] # NoContent
               /\ made[u] = Candidates[chosen[u]]

StartTranscribing(u) == Prepared(u) /\ made[u] > 0 /\ MoveTo(u, "transcribing")
FindNoSpeech(u) == Prepared(u) /\ made[u] = 0 /\ MoveTo(u, "no_speech")
Finish(u) == stage[u] = "transcribing" /\ MoveTo(u, "transcribed")

\* Several uploads may be given up together.
GiveUp(S) ==
  /\ \A u \in S : stage[u] \in {"preparing", "transcribing"}
  /\ stage' = [u \in Uploads |-> IF u \in S THEN "failed" ELSE stage[u]]
  /\ UNCHANGED <<chosen, made>>

Next ==
  \/ \E u \in Uploads : \/ Choose(u) \/ Make(u)
                        \/ StartTranscribing(u) \/ FindNoSpeech(u) \/ Finish(u)
  \/ \E S \in SUBSET Uploads : GiveUp(S)

Spec == Init /\ [][Next]_<<stage, chosen, made>>
=============================================================================
