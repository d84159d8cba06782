---------------------------- MODULE UploadResults ----------------------------
(***************************************************************************)
(* The result status of an upload, as its client polls it while the media   *)
(* processing and the transcription go on: read_upload_result_status of      *)
(* recantor/upload_results.py, composed with MediaProcessing.  It counts the  *)
(* segments in one statement and reads the processing row in a later one;    *)
(* under READ COMMITTED each sees what is committed when it runs.            *)
(***************************************************************************)
EXTENDS MediaProcessing

VARIABLE poll    \* of the one client: its step, its upload, the count, the answer

allVars == <<vars, poll>>

AtRest == [at |-> "idle", on |-> NoUpload, count |-> 0, answer |-> "none"]

\* Utterances with a transcript segment.
Segments(u) == {k \in Ordinals : work[u][k].sequence > 0}

\* _segment_count.
CountSegments(u) ==
  /\ poll.at = "idle"
  /\ poll' = [AtRest EXCEPT !.at = "counted", !.on = u,
                            !.count = Cardinality(Segments(u))]
  /\ UNCHANGED vars

\* The state in the answer.
ResultState(count, r) ==
  CASE r.state \in {"missing", "pending", "claimed", "retry_wait"} -> "preparing"
    [] r.state = "waiting_stt" -> "transcribing"
    [] r.state = "succeeded" -> IF count > 0 THEN "complete" ELSE "no_speech"
    [] OTHER -> "failed"

\* The processing row is read and answered with.  pollResult asks again while the
\* upload is prepared or transcribed, and stops at any other answer.
ReadRow ==
  /\ poll.at = "counted"
  /\ LET answer == ResultState(poll.count, row[poll.on])
     IN poll' = IF answer \in {"preparing", "transcribing"} THEN AtRest
                ELSE [poll EXCEPT !.at = "answered", !.answer = answer]
  /\ UNCHANGED vars

\* The page is opened anew.
Reopen ==
  /\ poll.at = "answered"
  /\ poll' = AtRest
  /\ UNCHANGED vars

PollStep == (\E u \in Uploads : CountSegments(u)) \/ ReadRow \/ Reopen

ResultsInit == Init /\ poll = AtRest
ResultsNext == PollStep \/ (Next /\ UNCHANGED poll)
ResultsSpec == ResultsInit /\ [][ResultsNext]_allVars

-----------------------------------------------------------------------------
\* "No speech was detected, so there is no transcript text to show": the client is
\* given this final answer only if the upload's transcript is empty.
NoSpeechTruthful ==
  [][poll.at = "counted" /\ poll'.answer = "no_speech"
       => Segments(poll.on) = {}]_allVars
=============================================================================
