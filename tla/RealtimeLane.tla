----------------------------- MODULE RealtimeLane -----------------------------
(***************************************************************************)
(* The realtime lane of a live recording: session_realtime_audio             *)
(* (recantor/routes/realtime_audio.py) and commit_utterance_work              *)
(* (recantor/utterance.py), fed by web/src/recorder/realtimeAudio.ts.  What   *)
(* the handler makes of each frame it hears is EndpointDetector.             *)
(*                                                                         *)
(* The browser opens one lane per capture generation (startRealtimeLane) and  *)
(* does not wait for it when it stops, resumes or finishes the recording.    *)
(* Of the recording (RecordingSession) only the generation and whether the   *)
(* session takes live utterances count; a generation has one writer           *)
(* (OneWriterPerGeneration).  What becomes of an utterance is SttScheduler.  *)
(***************************************************************************)
EXTENDS EndpointDetector

CONSTANTS
  MaxEpoch,     \* bound on the capture generations
  MaxFrames     \* bound on the frames that all lanes hear

ASSUME LaneAssumption == MaxEpoch \in Nat \ {0} /\ MaxFrames \in Nat

VARIABLES
  capture,      \* capture_epoch, and whether the state is one of _ALLOWED_LIVE_STATES
  lane,         \* the handler of each generation's socket
  committed,    \* of each generation: the candidates its lane has committed
  utterances    \* of each utterance, in the order of sequence: its generation

vars == <<capture, lane, committed, utterances>>

Epochs == 1..MaxEpoch

\* "open": frames are heard; "flushed": the detector gave out what it held, behind
\* "stop" or a socket closed with 1000 or 1001; "broken": the socket ended otherwise,
\* and what the detector held is lost; "refused": a candidate was not taken.
LaneSteps == {"none", "open", "flushed", "broken", "refused"}

\* The stream as it was sent, with the frames that were dropped.
NoLane == [step |-> "none", heard |-> <<>>]

Init ==
  /\ capture = [epoch |-> 1, open |-> TRUE]
  /\ lane = [e \in Epochs |-> NoLane]
  /\ committed = [e \in Epochs |-> <<>>]
  /\ utterances = <<>>

-----------------------------------------------------------------------------
\* claim_capture.
Claim ==
  /\ capture.open
  /\ capture.epoch < MaxEpoch
  /\ capture' = [capture EXCEPT !.epoch = @ + 1]
  /\ UNCHANGED <<lane, committed, utterances>>

\* finalize_session.
DeclareEnd ==
  /\ capture.open
  /\ capture' = [capture EXCEPT !.open = FALSE]
  /\ UNCHANGED <<lane, committed, utterances>>

\* _owner_is_current, and _validate_expected_capture.
OwnerIsCurrent(e) == capture = [epoch |-> e, open |-> TRUE]

\* The start handshake arrives and is answered with ready, or with an error.
StartLane(e) ==
  /\ lane[e].step = "none"
  /\ e <= capture.epoch
  /\ lane' = [lane EXCEPT ![e].step = IF OwnerIsCurrent(e) THEN "open" ELSE "refused"]
  /\ UNCHANGED <<capture, committed, utterances>>

\* The candidates the detector has given out.
Flushed(e) == lane[e].step = "flushed"
Found(e) == Cuts(lane[e].heard, Flushed(e))

\* The handler is at _commit_candidate: it receives no further message.
Pending(e) == Len(committed[e]) < Len(Found(e))

LaneOnly(e, heard, step) ==
  /\ lane[e].step = "open"
  /\ ~ Pending(e)
  /\ lane' = [lane EXCEPT ![e] = [step |-> step, heard |-> heard]]
  /\ UNCHANGED <<capture, committed, utterances>>

HeardByAll == FoldFunction(LAMBDA l, n : Len(l.heard) + n, 0, lane)

\* feed, for the next frame; or the browser drops that frame (handlePcmFrame).
Listen(e, frame) ==
  /\ HeardByAll < MaxFrames
  /\ LaneOnly(e, Append(lane[e].heard, frame), "open")

\* flush: "stop", or the socket was closed with 1000 or 1001.
Flush(e) == LaneOnly(e, lane[e].heard, "flushed")

\* The socket ends otherwise, or sends what it should not.
Break(e) == LaneOnly(e, lane[e].heard, "broken")

\* Faulty variant: the check of the handshake is relied on.
AsGreeted(e) == capture.open

\* The fence of commit_utterance_work, under the lock of the session's row.
Fenced(e) == OwnerIsCurrent(e)

\* _commit_candidate for the next candidate, which may have been found long ago: the
\* utterance, numbered behind those there are, and its job, in one transaction.
CommitUtterance(e) ==
  /\ Pending(e)
  /\ lane[e].step # "refused"
  /\ Fenced(e)
  /\ committed' = [committed EXCEPT ![e] = Append(@, Found(e)[Len(@) + 1])]
  /\ utterances' = Append(utterances, e)
  /\ UNCHANGED <<capture, lane>>

\* The fence or the storage refuses the utterance, or the server dies: the socket is
\* closed, and neither it nor what was heard after it is tried again.
UtteranceRefused(e) ==
  /\ Pending(e)
  /\ lane[e].step # "refused"
  /\ lane' = [lane EXCEPT ![e].step = "refused"]
  /\ UNCHANGED <<capture, committed, utterances>>

LaneStep(e) ==
  \/ StartLane(e) \/ Flush(e) \/ Break(e) \/ CommitUtterance(e) \/ UtteranceRefused(e)
  \/ \E frame \in Frames : Listen(e, frame)

Next == Claim \/ DeclareEnd \/ \E e \in Epochs : LaneStep(e)

Spec == Init /\ [][Next]_vars

-----------------------------------------------------------------------------
\* Every variable keeps its shape.
TypeOK ==
  /\ capture \in [epoch : Epochs, open : BOOLEAN]
  /\ lane \in [Epochs -> [step : LaneSteps, heard : Seq(Frames)]]
  /\ committed \in [Epochs -> Seq([from : Nat, to : Nat, frames : Seq(Nat)])]
  /\ utterances \in Seq(Epochs)

\* The utterances of a session are in the order of the generations they were
\* captured in, although sockets of older generations stay open, hear speech and
\* try to commit it after the recording has been resumed elsewhere.
GenerationsInOrder ==
  \A i, j \in DOMAIN utterances : i < j => utterances[i] <= utterances[j]

\* What a lane has committed, of whatever it has heard so far: each utterance is
\* unbroken audio with enough speech, and none overlaps another; and unless one was
\* refused, no phrase is left out whose end was heard, by a pause, a hard cut or a
\* flush.  Pauses, cuts, lost frames, a claim elsewhere and the end of the socket come
\* in any combination.
LaneFaithful ==
  \A e \in Epochs :
    LET heard == lane[e].heard
    IN /\ Sound(heard, committed[e])
       /\ ~ Pending(e) /\ lane[e].step # "refused" =>
            Complete(heard, committed[e], Flushed(e))
=============================================================================
