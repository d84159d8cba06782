--------------------------- MODULE EndpointDetector ---------------------------
(***************************************************************************)
(* How the realtime lane cuts speech into utterances: EnergyEndpointDetector *)
(* (recantor/realtime_audio.py) with the loop of session_realtime_audio that *)
(* feeds it.  Lengths are counted in frames (20 ms each).  Whether a frame   *)
(* is loud enough to be speech is an input; so is the loss of frames, which  *)
(* the browser drops when its socket is backlogged.                          *)
(***************************************************************************)
EXTENDS Integers, SequencesExt

CONSTANTS
  PreRoll,      \* pre_roll_ms
  MinVoiced,    \* min_voiced_ms
  Silence,      \* silence_ms
  HardMax       \* hard_max_ms

ASSUME DetectorAssumption ==
  /\ PreRoll \in Nat
  /\ {MinVoiced, Silence, HardMax} \subseteq Nat \ {0}
  \* As the settings have it by default: an utterance too short to count is over,
  \* with its pre-roll and pauses, before it is cut for its length.
  /\ PreRoll + 1 < HardMax
  /\ PreRoll + (MinVoiced - 1) * Silence < HardMax

\* A detector holds the offsets of the frames it has kept.
Empty == [pre |-> <<>>, active |-> <<>>, voiced |-> 0, trailing |-> 0]

\* reset.
Reset(d) == Empty

\* _append_pre_roll, where of frames of one size the oldest makes room.
Quiet(d, offset) ==
  LET all == Append(d.pre, offset)
  IN [d EXCEPT !.pre = IF Len(all) > PreRoll THEN Tail(all) ELSE all]

\* _begin.
Begin(d, offset) ==
  [Empty EXCEPT !.active = Append(d.pre, offset), !.voiced = 1]

\* The frames of the utterance under way, with one more.
Extended(d, offset, speech) ==
  [d EXCEPT !.active = Append(@, offset),
            !.voiced = IF speech THEN @ + 1 ELSE @,
            !.trailing = IF speech THEN 0 ELSE @ + 1]

\* An utterance under way ends: it is long enough, or has been silent long enough.
Ends(d) == \/ Last(d.active) + 1 - Head(d.active) >= HardMax
           \/ d.trailing >= Silence

\* _finish, whose candidate counts if enough of it is speech.
Candidates(d) ==
  IF d.active # <<>> /\ d.voiced >= MinVoiced
  THEN <<[from |-> Head(d.active), to |-> Last(d.active), frames |-> d.active]>>
  ELSE <<>>

\* feed.
Fed(h, offset, speech) ==
  IF h.d.active = <<>>
  THEN [h EXCEPT !.d = IF speech THEN Begin(@, offset) ELSE Quiet(@, offset)]
  ELSE LET d == Extended(h.d, offset, speech)
       IN IF Ends(d) THEN [h EXCEPT !.d = Reset(d), !.out = @ \o Candidates(d)]
          ELSE [h EXCEPT !.d = d]

\* Faulty variant: frames that are missing are passed over.
BridgesGaps(h, offset) == h

\* The discontinuity of the route: what was heard before a missing frame is dropped.
Joined(h, offset) ==
  IF h.expected \in {0, offset} THEN h ELSE [h EXCEPT !.d = Reset(@)]

\* One packet.
Heard(h, offset, speech) ==
  [Fed(Joined(h, offset), offset, speech) EXCEPT !.expected = offset + 1]

\* Frame i of the input is speech, silence or lost.
Frames == {"speech", "silence", "lost"}

Unheard == [d |-> Empty, expected |-> 0, out |-> <<>>]
Hear(input, h, i) == IF input[i] = "lost" THEN h ELSE Heard(h, i, input[i] = "speech")

\* What the handler holds after each frame.
After(input) ==
  LET after[i \in 0..Len(input)] ==
        IF i = 0 THEN Unheard ELSE Hear(input, after[i - 1], i)
  IN after

\* The utterances of a stream so far, and with what the detector still holds, if the
\* stream is flushed.
Cuts(input, flushed) ==
  LET h == After(input)[Len(input)]
  IN IF flushed THEN h.out \o Candidates(h.d) ELSE h.out

-----------------------------------------------------------------------------
\* What a stream of frames may be cut into, without saying how.
Spoken(input, S) == {i \in S : input[i] = "speech"}
Whole(input, S) == \A i \in S : input[i] # "lost"
OnePhrase(input, S) ==
  ~ \E i \in S : i + Silence - 1 \in S /\ Spoken(input, i..(i + Silence - 1)) = {}

\* Each utterance is one piece of audio as it was captured, with enough speech, not
\* too long, and after the ones before it.
Sound(input, out) ==
  \A k \in DOMAIN out :
    LET S == out[k].from..out[k].to
    IN /\ out[k].frames = [i \in 1..Cardinality(S) |-> out[k].from + i - 1]
       /\ Whole(input, S)
       /\ Cardinality(Spoken(input, S)) >= MinVoiced
       /\ Cardinality(S) <= HardMax
       /\ k > 1 => out[k - 1].to < out[k].from

\* Audio a..e that is heard without a break is the end of the utterance under way at a:
\* there the stream is stopped, or a pause or a cut for the length of what began at a
\* is due.
Due(input, a, e, flushed) ==
  \/ flushed /\ e = Len(input)
  \/ e - a + 1 >= HardMax
  \/ e - a >= Silence /\ Spoken(input, (e - Silence + 1)..e) = {}

\* A phrase a..b is left out only if a frame was lost before its utterance ended, or if
\* it is too short, also as the rest of an utterance that was cut for its length.
Complete(input, out, flushed) ==
  \A a, b, e \in DOMAIN input :
    LET S == a..b
    IN /\ a <= b /\ b <= e
       /\ input[a] = "speech" /\ OnePhrase(input, S)
       /\ Whole(input, a..e) /\ Due(input, a, e, flushed)
       /\ \A k \in DOMAIN out : S \cap (out[k].from..out[k].to) = {}
       => Cardinality(Spoken(input, S)) < MinVoiced
=============================================================================
