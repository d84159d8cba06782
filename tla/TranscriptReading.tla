-------------------------- MODULE TranscriptReading --------------------------
(***************************************************************************)
(* The two readers of a session's transcript while it is being written.      *)
(* The live panel (apps/web/src/transcript) follows it by sequence, woken by *)
(* notices (recantor/transcript_realtime.py, routes/transcript.py) that may  *)
(* be lost, and by its own timer.  The export of an upload                   *)
(* (recantor/upload_results.py) pages through it in the order of the         *)
(* recording, while replayed jobs still insert segments.  What writes it is  *)
(* commit_transcript_segment (recantor/transcript.py).                       *)
(***************************************************************************)
EXTENDS Integers, Sequences, FiniteSets

CONSTANTS
  Utterances,    \* the session's utterances, numbered in the order of the recording
  PageSize,      \* 200 for the panel, _EXPORT_PAGE_SIZE for an export
  Capacity,      \* max_pending of the notifier
  MaxReplays,    \* bound on replayed jobs
  MaxReloads     \* bound on reloads of the page

ASSUME ReadingAssumption ==
  /\ Utterances \subseteq Nat \ {0}
  /\ IsFiniteSet(Utterances)
  /\ {PageSize, Capacity} \subseteq Nat \ {0}
  /\ {MaxReplays, MaxReloads} \subseteq Nat

VARIABLES
  kind,       \* of the session: live or upload
  stt,        \* of each utterance: absent, or the state of its job: open, silent, text
  sequence,   \* of the segment committed for each utterance, 0 without one
  writing,    \* the transactions of commit_transcript_segment under way
  queue,      \* notices in the notifier's queue; what they say is never used
  panel,
  export,
  replays, reloads

vars == <<kind, stt, sequence, writing, queue, panel, export, replays, reloads>>

\* The sequences a statement can see.
Committed == {sequence[u] : u \in Utterances} \ {0}
Highest(S) == IF S = {} THEN 0 ELSE CHOOSE n \in S : \A m \in S : m <= n

\* The rows of a page, of those a query finds in the order of their numbers, and
\* whether there are more behind it.
PageOf(S) == {n \in S : Cardinality({m \in S : m <= n}) <= PageSize}
HasMore(S) == PageOf(S) # S

\* "hint": a ready or transcript_available message is on its way; "request": the
\* fetch under way, none, asked or answered with "page".
Mounted == [socket |-> "down", hint |-> FALSE, cursor |-> 0, shown |-> {},
            again |-> FALSE, request |-> "asked", after |-> 0,
            page |-> {}, more |-> FALSE]
NoExport == [at |-> "preparing", after |-> 0, out |-> <<>>, seen |-> {}]

Init ==
  /\ kind \in {"live", "upload"}
  /\ stt = [u \in Utterances |-> IF kind = "live" THEN "absent" ELSE "open"]
  /\ sequence = [u \in Utterances |-> 0]
  /\ writing = {}
  /\ queue = 0
  /\ panel = Mounted
  /\ export = NoExport
  /\ replays = 0
  /\ reloads = 0

-----------------------------------------------------------------------------
(* The transcript.                                                         *)

\* commit_utterance_work for a live session: the next utterance, with its job.
Arrive(u) ==
  /\ kind = "live"
  /\ \A v \in Utterances : stt[v] = "absent" <=> v >= u
  /\ stt' = [stt EXCEPT ![u] = "open"]
  /\ UNCHANGED <<kind, sequence, writing, queue, panel, export, replays, reloads>>

\* The provider's text is blank.
FindSilence(u) ==
  /\ stt[u] = "open"
  /\ stt' = [stt EXCEPT ![u] = "silent"]
  /\ writing' = {t \in writing : t.on # u}
  /\ UNCHANGED <<kind, sequence, queue, panel, export, replays, reloads>>

\* An operator replays a job without text.
Replay(u) ==
  /\ stt[u] = "silent"
  /\ replays < MaxReplays
  /\ stt' = [stt EXCEPT ![u] = "open"]
  /\ replays' = replays + 1
  /\ UNCHANGED <<kind, sequence, writing, queue, panel, export, reloads>>

\* Faulty variant: numbers are drawn without the lock, as from a generator.
DrawsNumber(number) == number = Highest(Committed \cup {t.number : t \in writing}) + 1

\* The row lock of the session is free, and the next number is the highest one + 1.
AllocatesNumber(number) == writing = {} /\ number = Highest(Committed) + 1

\* commit_transcript_segment up to the flush of the row.
Write(u) ==
  /\ stt[u] = "open"
  /\ \A t \in writing : t.on # u
  /\ \E number \in 1..(Cardinality(Utterances) + 1) :
       /\ AllocatesNumber(number)
       /\ writing' = writing \cup {[on |-> u, number |-> number]}
  /\ UNCHANGED <<kind, stt, sequence, queue, panel, export, replays, reloads>>

\* Faulty variant: the queue has no limit.
QueueGrows == queue + 1

\* publish_transcript_available puts the notice in the queue, or drops it.
Queued == IF queue < Capacity THEN queue + 1 ELSE queue

\* The commit, and the notice, unless the process dies before it is queued.
Commit ==
  \E t \in writing :
    /\ writing' = writing \ {t}
    /\ sequence' = [sequence EXCEPT ![t.on] = t.number]
    /\ stt' = [stt EXCEPT ![t.on] = "text"]
    /\ queue' \in {queue, Queued}
    /\ UNCHANGED <<kind, panel, export, replays, reloads>>

\* The commit guard rejects the claim, or the worker dies.
Rollback ==
  \E t \in writing :
    /\ writing' = writing \ {t}
    /\ UNCHANGED <<kind, stt, sequence, queue, panel, export, replays, reloads>>

\* The notifier's thread publishes; only a subscribed socket hears it, and Redis
\* may fail.
Publish ==
  /\ queue > 0
  /\ queue' = queue - 1
  /\ panel' \in {panel, [panel EXCEPT !.hint = @ \/ panel.socket = "open"]}
  /\ UNCHANGED <<kind, stt, sequence, writing, export, replays, reloads>>

\* The notifier's process is restarted.
QueueLost ==
  /\ queue > 0
  /\ queue' = 0
  /\ UNCHANGED <<kind, stt, sequence, writing, panel, export, replays, reloads>>

-----------------------------------------------------------------------------
(* The live panel.                                                         *)

PanelOnly ==
  /\ kind = "live"
  /\ UNCHANGED <<kind, stt, sequence, writing, queue, export, replays>>

\* The panel is fetching.
Syncing == panel.request # "none"

\* The panel after a call of syncCanonical.
Synced(p) ==
  IF Syncing THEN [p EXCEPT !.again = TRUE]
  ELSE [p EXCEPT !.again = FALSE, !.request = "asked", !.after = p.cursor]

\* The fallback timer.
Poll ==
  /\ PanelOnly
  /\ panel' = Synced(panel)
  /\ UNCHANGED reloads

\* The server has subscribed and says that it is ready.
Connect ==
  /\ PanelOnly
  /\ panel.socket = "down"
  /\ panel' = [panel EXCEPT !.socket = "open", !.hint = TRUE]
  /\ UNCHANGED reloads

\* Redis fails (delivery_degraded), or the connection breaks.
Disconnect ==
  /\ PanelOnly
  /\ panel.socket = "open"
  /\ panel' = [panel EXCEPT !.socket = "down", !.hint = FALSE]
  /\ UNCHANGED reloads

\* onmessage for ready and transcript_available.
ReceiveHint ==
  /\ PanelOnly
  /\ panel.hint
  /\ panel' = Synced([panel EXCEPT !.hint = FALSE])
  /\ UNCHANGED reloads

\* read_transcript_segments answers the fetch, in one statement.
AnswerFetch ==
  LET later == {n \in Committed : n > panel.after}
  IN /\ PanelOnly
     /\ panel.request = "asked"
     /\ panel' = [panel EXCEPT !.request = "answered", !.page = PageOf(later),
                               !.more = HasMore(later)]
     /\ UNCHANGED reloads

\* Faulty variant: the cursor goes to the latest sequence the server knows.
SkipsAhead(p) == Highest(Committed)

\* next_after_sequence of the page, or the cursor it was asked with.
NextAfter(p) == Highest({p.after} \cup p.page)

\* syncCanonical from the answer to the next fetch, or to its end.
ReceivePage ==
  LET next == NextAfter(panel)
      cursor == Highest({panel.cursor, next})
      pages == panel.more /\ next > panel.after
      got == [panel EXCEPT !.shown = @ \cup panel.page, !.cursor = cursor,
                           !.page = {}, !.more = FALSE]
  IN /\ PanelOnly
     /\ panel.request = "answered"
     /\ panel' = IF pages THEN [got EXCEPT !.request = "asked", !.after = next]
                 ELSE IF panel.again
                 THEN [got EXCEPT !.request = "asked", !.after = cursor, !.again = FALSE]
                 ELSE [got EXCEPT !.request = "none", !.after = 0]
     /\ UNCHANGED reloads

\* Faulty variant: syncing is not reset.
StaysBusy == [panel EXCEPT !.request = "lost", !.page = {}]

\* catch and finally of syncCanonical.
GivesUp == [panel EXCEPT !.request = "none", !.page = {}, !.more = FALSE, !.after = 0]

\* The fetch fails; a call that came meanwhile is lost with it.
FetchFails ==
  /\ PanelOnly
  /\ Syncing
  /\ panel' = GivesUp
  /\ UNCHANGED reloads

\* The page is reloaded: the panel is mounted anew.
Reload ==
  /\ PanelOnly
  /\ reloads < MaxReloads
  /\ reloads' = reloads + 1
  /\ panel' = Mounted

-----------------------------------------------------------------------------
(* The export of an upload.                                                *)

\* Utterances with a segment.
Segments == {u \in Utterances : sequence[u] > 0}

ExportOnly ==
  /\ kind = "upload"
  /\ UNCHANGED <<kind, stt, sequence, writing, queue, panel, replays, reloads>>

\* Each job has settled: the upload succeeds, for good, and can be exported.
BecomeReady ==
  /\ ExportOnly
  /\ export.at = "preparing"
  /\ \A u \in Utterances : stt[u] # "open"
  /\ export' = [export EXCEPT !.at = "ready"]

BeginExport ==
  /\ ExportOnly
  /\ export.at = "ready"
  /\ export' = [export EXCEPT !.at = "exporting", !.seen = Segments]

\* Faulty variant: the cursor of the panel in the order of the recording.
BehindSequence(after) == {u \in Segments : sequence[u] > after}

\* The segments behind the one with the sequence "after" in the order of the
\* recording: start_ms and end_ms order the segments of an upload as their
\* utterances are numbered.
Behind(after) ==
  IF after = 0 THEN Segments
  ELSE LET anchor == CHOOSE u \in Segments : sequence[u] = after
       IN {u \in Segments : u > anchor}

\* read_upload_transcript_segments for the next page of iter_upload_export.
ReadPage ==
  LET later == Behind(export.after)
      page == PageOf(later)
  IN /\ ExportOnly
     /\ export.at = "exporting"
     /\ export' = [export EXCEPT
          !.at = IF HasMore(later) THEN "exporting" ELSE "exported",
          !.after = IF HasMore(later) THEN sequence[Highest(page)] ELSE 0,
          !.out = Append(@, page)]

\* The client goes away, or begins another export.
EndExport ==
  /\ ExportOnly
  /\ export.at \in {"exporting", "exported"}
  /\ export' = [NoExport EXCEPT !.at = "ready"]

-----------------------------------------------------------------------------
WriteStep ==
  \/ \E u \in Utterances : Arrive(u) \/ FindSilence(u) \/ Replay(u) \/ Write(u)
  \/ Commit \/ Rollback \/ Publish \/ QueueLost

PanelStep ==
  \/ Poll \/ Connect \/ Disconnect \/ ReceiveHint
  \/ AnswerFetch \/ ReceivePage \/ FetchFails \/ Reload

ExportStep == BecomeReady \/ BeginExport \/ ReadPage \/ EndExport

Next == WriteStep \/ PanelStep \/ ExportStep

Spec == Init /\ [][Next]_vars

\* The timer fires, and not every fetch fails.  Nothing is assumed of sockets,
\* notices and Redis.
Fairness == WF_vars(Poll) /\ SF_vars(AnswerFetch) /\ SF_vars(ReceivePage)
FairSpec == Spec /\ Fairness

-----------------------------------------------------------------------------
\* Every variable keeps its shape.
TypeOK ==
  /\ kind \in {"live", "upload"}
  /\ stt \in [Utterances -> {"absent", "open", "silent", "text"}]
  /\ sequence \in [Utterances -> Nat]
  /\ writing \subseteq [on : Utterances, number : Nat]
  /\ queue \in 0..Capacity
  /\ panel \in [socket : {"down", "open"}, hint : BOOLEAN, cursor : Nat,
                shown : SUBSET Nat, again : BOOLEAN,
                request : {"none", "asked", "answered"}, after : Nat,
                page : SUBSET Nat, more : BOOLEAN]
  /\ export \in [at : {"preparing", "ready", "exporting", "exported"}, after : Nat,
                 out : Seq(SUBSET Utterances), seen : SUBSET Utterances]
  /\ replays \in 0..MaxReplays
  /\ reloads \in 0..MaxReloads

\* The segments of a session are numbered from 1 without a gap, and no number is given
\* twice, whatever the workers of its utterances do meanwhile: begin a commit, finish
\* it, or roll it back and draw a number anew.
SequencesGapless ==
  /\ \A u, v \in Utterances : sequence[u] = sequence[v] /\ sequence[u] # 0 => u = v
  /\ \A u \in Utterances : \A n \in 1..sequence[u] : n \in Committed

\* The panel shows the transcript without a hole: whatever is committed between its
\* fetches, by whichever workers, the cursor never passes a segment it does not show.
PanelHasNoHole ==
  /\ panel.shown = 1..panel.cursor
  /\ panel.shown \subseteq Committed

\* An export has each segment once, in the order of the recording, and none of those
\* that existed when it began is missing, although segments are inserted before or
\* behind the cursor between two pages.
ExportFaithful ==
  /\ \A i, j \in DOMAIN export.out :
       i < j => \A u \in export.out[i], v \in export.out[j] : u < v
  /\ export.at = "exported" =>
       \A u \in export.seen : \E i \in DOMAIN export.out : u \in export.out[i]

\* Every committed segment of a live session appears in the panel in the end, also
\* when all notices are lost, the socket is down and fetches fail.
PanelCatchesUp ==
  \A u \in Utterances :
    kind = "live" /\ sequence[u] > 0 ~> sequence[u] \in panel.shown
=============================================================================
