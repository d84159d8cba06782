---------------------------- MODULE Transcription ----------------------------
(***************************************************************************)
(* What durable transcription promises for each committed utterance,       *)
(* whatever happens to workers, queues and clocks: it is settled, as text,  *)
(* as silence or as a failure; text is one row of an append-only transcript *)
(* and is never revised; silence and failure change only when an operator   *)
(* replays the utterance.  SttScheduler implements this specification.      *)
(***************************************************************************)
EXTENDS Naturals

CONSTANTS
  Utterances,      \* ids of utterances
  SessionOf        \* the session of each utterance

VARIABLES
  outcome,         \* what became of each utterance so far
  segment          \* transcript sequence of its segment, 0 without one

Settled == {"text", "silence", "failure"}

\* The next sequence of a session's transcript: no hole and no reuse.
IsNext(n, s) ==
  /\ n \in Nat \ {0}
  /\ \A u \in Utterances : SessionOf[u] = s => segment[u] < n
  /\ \A m \in 1..(n - 1) :
       \E u \in Utterances : SessionOf[u] = s /\ segment[u] = m

Init ==
  /\ outcome \in [Utterances -> {"unknown", "open"}]
  /\ segment = [u \in Utterances |-> 0]

\* The utterance is committed.
Accept(u) ==
  /\ outcome[u] = "unknown"
  /\ outcome' = [outcome EXCEPT ![u] = "open"]
  /\ UNCHANGED segment

Transcribe(u) ==
  /\ outcome[u] = "open"
  /\ outcome' = [outcome EXCEPT ![u] = "text"]
  /\ segment' = [segment EXCEPT ![u] = segment'[u]]
  /\ IsNext(segment'[u], SessionOf[u])

SettleWithoutText(u) ==
  /\ outcome[u] = "open"
  /\ \E o \in Settled \ {"text"} : outcome' = [outcome EXCEPT ![u] = o]
  /\ UNCHANGED segment

Replay(u) ==
  /\ outcome[u] \in Settled \ {"text"}
  /\ outcome' = [outcome EXCEPT ![u] = "open"]
  /\ UNCHANGED segment

Next == \E u \in Utterances :
  Accept(u) \/ Transcribe(u) \/ SettleWithoutText(u) \/ Replay(u)

Spec == Init /\ [][Next]_<<outcome, segment>>
=============================================================================
