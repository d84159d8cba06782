------------------------ MODULE BrowserRecorderProofs ------------------------
(***************************************************************************)
(* Proofs about BrowserRecorder for any number of tabs: its steps are steps  *)
(* of the server, so that what RecordingSessionProofs proves holds of the    *)
(* composition, one tab acts at a time, and no audio is lost as long as a    *)
(* tab that takes up a session again holds the row as it is and capture does *)
(* not break during the transaction of a chunk.                            *)
(***************************************************************************)
EXTENDS BrowserRecorder, WellFoundedInduction, TLAPS

ServerProofs == INSTANCE RecordingSessionProofs WITH
  Writers <- 1..MaxWriters, Tokens <- {Capability}, Payloads <- 1..MaxChunks,
  Sequences <- 1..MaxChunks, Boundaries <- 0..MaxChunks,
  EndTimes <- 0..MaxChunks, NoToken <- "none", NoPayload <- 0

-----------------------------------------------------------------------------
(* Any number of tabs: types, and who holds the lock.                      *)

\* A request the browser may send.
Sensible(r) ==
  /\ r.kind \in {"create", "claim", "chunk", "gap", "finalize"}
  /\ r.kind \in {"claim", "gap", "finalize"} =>
       r.writer \in 1..MaxWriters /\ r.epoch \in 1..MaxEpoch
  /\ r.kind = "chunk" => r.chunk \in Server!Chunk
  /\ r.kind = "gap" => r.id \in GapIds
  /\ r.kind = "finalize" => r.final \in 0..MaxChunks

\* A tab that has no lock, or none any more, and yet adds audio.
Poised == {"locking", "broken"}

\* What a tab is doing fits what it holds.
TabOK(t) ==
  /\ phase[t] \in Active => mem[t] # NoRow /\ lock = t
  /\ phase[t] \in Poised => mem[t] # NoRow
  /\ phase[t] = "claiming" => mem[t].pendingWriter # NoWriter
  /\ mem[t].last <= captured

Rows == Row \cup {NoRow}

ClientTypes ==
  /\ row \in Rows /\ row.last <= captured
  /\ spool \in SUBSET Server!Chunk
  /\ started \in BOOLEAN
  /\ drawn \in 0..MaxWriters /\ captured \in 0..MaxChunks
  /\ phase \in [Tabs -> Phases]
  /\ mem \in [Tabs -> Rows]
  /\ pending \in [Tabs -> SUBSET Server!Chunk]
  /\ fenced \in SUBSET Tabs
  /\ lock \in Tabs \cup {NoTab}
  /\ epoch \in 0..MaxEpoch

ClientOK ==
  /\ ClientTypes
  /\ \A r \in late : Sensible(r)
  /\ \A t \in Tabs : TabOK(t)

LEMMA Bounds ==
  /\ MaxChunks \in Nat /\ MaxWriters \in Nat /\ MaxEpoch \in Nat /\ MaxLate \in Nat
  /\ MaxChunks >= 1 /\ MaxWriters >= 1 /\ MaxEpoch >= 1
BY BrowserAssumption

LEMMA RowFields ==
  /\ \A r \in Rows : /\ r.writer \in 0..MaxWriters /\ r.epoch \in 0..MaxEpoch
                     /\ r.pendingWriter \in 0..MaxWriters /\ r.last \in 0..MaxChunks
                     /\ r # NoRow => r.writer # 0 /\ r.epoch # 0
                     /\ r = NoRow => r.writer = 0 /\ r.epoch = 0 /\ r.last = 0
  /\ NoRow \in Rows
<1>1. NoRow \in Rows /\ NoRow.writer = 0 /\ NoRow.epoch = 0 /\ NoRow.pendingWriter = 0
      /\ NoRow.last = 0
  BY DEF Rows, NoRow, NoWriter
<1>2. \A r \in Row : /\ r.writer \in 1..MaxWriters /\ r.epoch \in 1..MaxEpoch
                     /\ r.pendingWriter \in 0..MaxWriters /\ r.last \in 0..MaxChunks
  BY DEF Row
<1>3. 0 \in 0..MaxWriters /\ 0 \in 0..MaxEpoch /\ 0 \in 0..MaxChunks
  BY BrowserAssumption
<1>4. (1..MaxWriters) \subseteq 0..MaxWriters /\ (1..MaxEpoch) \subseteq 0..MaxEpoch
      /\ 0 \notin 1..MaxWriters /\ 0 \notin 1..MaxEpoch
  BY BrowserAssumption
<1> QED
  BY <1>1, <1>2, <1>3, <1>4 DEF Rows

LEMMA InitClientOK == Init => ClientOK /\ Server!Init
<1> SUFFICES ASSUME Init PROVE ClientOK
  BY DEF Init
<1>1. ClientTypes
  <2>1. row \in Rows /\ row.last = 0 /\ mem \in [Tabs -> Rows]
    BY RowFields DEF Init
  <2>2. phase \in [Tabs -> Phases] /\ pending \in [Tabs -> SUBSET Server!Chunk]
    BY DEF Init, Phases
  <2>3. spool \in SUBSET Server!Chunk /\ started \in BOOLEAN /\ fenced \in SUBSET Tabs
        /\ lock \in Tabs \cup {NoTab}
    BY DEF Init
  <2>4. drawn = 0 /\ captured = 0 /\ epoch = 0
    BY DEF Init, Server!Init
  <2> QED
    BY <2>1, <2>2, <2>3, <2>4, Bounds DEF ClientTypes
<1>2. ASSUME NEW t \in Tabs PROVE TabOK(t)
  BY DEF Init, TabOK, Active, Poised, NoRow
<1> QED
  BY <1>1, <1>2 DEF Init, ClientOK

-----------------------------------------------------------------------------
(* What a request makes of the server.                                     *)

ServerSteps == [Server!Next]_server

LEMMA HandleIsServerStep ==
  ASSUME NEW r, Sensible(r), Handle(r), epoch \in 0..MaxEpoch
  PROVE  ServerSteps /\ epoch' \in 0..MaxEpoch
<1> USE BrowserAssumption
<1>1. CASE r.kind = "create"
  <2>1. Server!CreateSession(1, Capability)
    BY <1>1 DEF Handle
  <2>2. epoch' = 1
    BY <2>1 DEF Server!CreateSession
  <2> QED
    BY <2>1, <2>2 DEF ServerSteps, Server!Next
<1>2. CASE r.kind = "claim"
  <2>1. Server!ClaimCapture(r.writer, Capability, r.epoch)
    BY <1>2 DEF Handle
  <2>2. r.writer \in 1..MaxWriters /\ r.epoch \in 1..MaxEpoch
    BY <1>2 DEF Sensible
  <2>3. epoch' \in 0..MaxEpoch
    BY <2>1, <2>2 DEF Server!ClaimCapture
  <2> QED
    BY <2>1, <2>2, <2>3 DEF ServerSteps, Server!Next
<1>3. CASE r.kind = "chunk"
  <2>1. Server!AcceptChunk(r.chunk) /\ r.chunk \in Server!Chunk
    BY <1>3 DEF Handle, Sensible
  <2>2. epoch' = epoch
    BY <2>1 DEF Server!AcceptChunk, Server!ownership
  <2> QED
    BY <2>1, <2>2 DEF ServerSteps, Server!Next
<1>4. CASE r.kind = "gap"
  <2>1. Server!DeclareGap(r.id, r.writer, r.epoch, {})
    BY <1>4 DEF Handle
  <2>2. r.writer \in 1..MaxWriters /\ r.epoch \in 1..MaxEpoch /\ r.id \in GapIds
    BY <1>4 DEF Sensible
  <2>3. epoch' = epoch
    BY <2>1 DEF Server!DeclareGap, Server!ownership
  <2>4. 1 \in (0..MaxChunks) \ {0} /\ 0 \in 0..MaxChunks /\ 1..0 = {}
    OBVIOUS
  <2> QED
    BY <2>1, <2>2, <2>3, <2>4 DEF ServerSteps, Server!Next
<1>5. CASE r.kind = "finalize"
  <2>1. Server!Finalize(r.writer, r.epoch, r.final, r.final, {})
    BY <1>5 DEF Handle
  <2>2. r.writer \in 1..MaxWriters /\ r.epoch \in 1..MaxEpoch /\ r.final \in 0..MaxChunks
    BY <1>5 DEF Sensible
  <2>3. epoch' = epoch
    BY <2>1 DEF Server!Finalize
  <2>4. {} \in SUBSET ((0..MaxChunks) \ {0})
    OBVIOUS
  <2> QED
    BY <2>1, <2>2, <2>3, <2>4 DEF ServerSteps, Server!Next
<1> QED
  BY <1>1, <1>2, <1>3, <1>4, <1>5 DEF Sensible

\* The server's side of a step: it is a step of the server or none, and whatever is
\* still under way was sensible to send.
ServerOK ==
  /\ ServerSteps
  /\ epoch' \in 0..MaxEpoch
  /\ \A r \in late' : Sensible(r)

LEMMA UnchangedOK ==
  ASSUME ClientOK, UNCHANGED <<server, late>>
  PROVE  ServerOK
BY DEF ClientOK, ClientTypes, ServerOK, ServerSteps, server

LEMMA UnansweredOK ==
  ASSUME ClientOK, NEW r, Sensible(r), Unanswered(r)
  PROVE  ServerOK
<1>1. CASE Handle(r) /\ UNCHANGED late
  BY <1>1, HandleIsServerStep DEF ClientOK, ClientTypes, ServerOK
<1>2. CASE late' = late \cup {r} /\ UNCHANGED server
  BY <1>2 DEF ClientOK, ClientTypes, ServerOK, ServerSteps, server
<1>3. CASE UNCHANGED <<server, late>>
  BY <1>3, UnchangedOK
<1> QED
  BY <1>1, <1>2, <1>3 DEF Unanswered

LEMMA HandledOK ==
  ASSUME ClientOK, NEW r, Sensible(r), Handle(r), UNCHANGED late
  PROVE  ServerOK
BY HandleIsServerStep DEF ClientOK, ClientTypes, ServerOK

-----------------------------------------------------------------------------
(* What a tab's step leaves of the others.                                 *)

LockMoves(t) == lock' = lock \/ (LockFree(t) /\ lock' = t) \/ (lock = t /\ lock' = NoTab)
OthersStay(t) == \A u \in Tabs : u # t => phase'[u] = phase[u] /\ mem'[u] = mem[u]

StorageTypes ==
  /\ row \in Rows /\ row.last <= captured
  /\ spool \in SUBSET Server!Chunk
  /\ started \in BOOLEAN
  /\ drawn \in 0..MaxWriters /\ captured \in 0..MaxChunks
TabTypes ==
  /\ phase \in [Tabs -> Phases]
  /\ mem \in [Tabs -> Rows]
  /\ pending \in [Tabs -> SUBSET Server!Chunk]
  /\ fenced \in SUBSET Tabs

LEMMA TabStepOK ==
  ASSUME ClientOK, ServerOK, NEW t \in Tabs, StorageTypes', TabTypes',
         captured <= captured', OthersStay(t), LockMoves(t), TabOK(t)'
  PROVE  ClientOK'
<1>1. ClientTypes'
  BY DEF ClientOK, ClientTypes, ServerOK, StorageTypes, TabTypes, LockMoves
<1>2. ASSUME NEW u \in Tabs, u # t PROVE TabOK(u)'
  <2>1. TabOK(u) /\ phase'[u] = phase[u] /\ mem'[u] = mem[u]
    BY <1>2 DEF ClientOK, OthersStay
  <2>2. phase[u] \in Active => lock = u /\ lock' = lock
    BY <1>2, <2>1, BrowserAssumption DEF TabOK, LockMoves, LockFree
  <2>3. mem[u].last <= captured'
    <3>1. mem[u] \in Rows /\ captured \in 0..MaxChunks /\ captured' \in 0..MaxChunks
      BY DEF ClientOK, ClientTypes, StorageTypes
    <3> QED
      BY <2>1, <3>1, RowFields DEF TabOK
  <2> QED
    BY <2>1, <2>2, <2>3 DEF TabOK
<1> QED
  BY <1>1, <1>2 DEF ClientOK, ServerOK

LEMMA Typed ==
  ASSUME ClientOK, NEW t \in Tabs
  PROVE  /\ StorageTypes /\ TabTypes /\ TabOK(t)
         /\ phase[t] \in Phases /\ mem[t] \in Rows
         /\ pending[t] \in SUBSET Server!Chunk
         /\ lock \in Tabs \cup {NoTab} /\ t # NoTab
         /\ mem[t].last \in Nat /\ mem[t].last <= captured
         /\ epoch \in 0..MaxEpoch
BY RowFields, BrowserAssumption DEF ClientOK, ClientTypes, StorageTypes, TabTypes, TabOK

\* A step that enters a phase, and changes storage, memory and lock as named.
LEMMA EnterOK ==
  ASSUME ClientOK, ServerOK, NEW t \in Tabs, NEW p \in Phases, Enter(t, p),
         StorageTypes', captured <= captured',
         mem' \in [Tabs -> Rows], \A u \in Tabs : u # t => mem'[u] = mem[u],
         pending' \in [Tabs -> SUBSET Server!Chunk], fenced' \in SUBSET Tabs,
         LockMoves(t), mem'[t].last <= captured',
         p \in Active => mem'[t] # NoRow /\ lock' = t,
         p \in Poised => mem'[t] # NoRow,
         p = "claiming" => mem'[t].pendingWriter # NoWriter
  PROVE  ClientOK'
<1>1. phase' \in [Tabs -> Phases] /\ phase'[t] = p
      /\ \A u \in Tabs : u # t => phase'[u] = phase[u]
  BY Typed DEF Enter, TabTypes
<1>2. TabOK(t)'
  BY <1>1 DEF TabOK
<1>3. TabTypes' /\ OthersStay(t)
  BY <1>1 DEF TabTypes, OthersStay
<1> QED
  BY <1>2, <1>3, TabStepOK

\* The steps the operations share.
LEMMA DeletedOK ==
  ASSUME ClientOK, ServerOK, NEW t \in Tabs, NEW p \in {"idle", "complete"},
         DeleteLocalSession(t, p), UNCHANGED counters
  PROVE  ClientOK'
<1>1. StorageTypes' /\ captured <= captured'
  BY Typed, RowFields, Bounds DEF StorageTypes, DeleteLocalSession, counters
<1>2. mem' = [mem EXCEPT ![t] = NoRow] /\ pending' = [pending EXCEPT ![t] = {}]
      /\ UNCHANGED fenced /\ Enter(t, p) /\ Unlock(t)
  BY DEF DeleteLocalSession, Remember
<1>3. mem' \in [Tabs -> Rows] /\ (\A u \in Tabs : u # t => mem'[u] = mem[u])
      /\ mem'[t] = NoRow
  BY <1>2, Typed, RowFields DEF TabTypes
<1>4. pending' \in [Tabs -> SUBSET Server!Chunk]
  BY <1>2, Typed DEF TabTypes
<1>5. mem'[t].last <= captured' /\ LockMoves(t) /\ fenced' \in SUBSET Tabs
  BY <1>1, <1>2, <1>3, Typed, RowFields, Bounds
     DEF TabTypes, StorageTypes, Unlock, LockMoves
<1>6. p \in Phases /\ p # "claiming" /\ p \notin Active /\ p \notin Poised
  BY DEF Phases, Active, Poised
<1> QED
  BY <1>1, <1>2, <1>3, <1>4, <1>5, <1>6, EnterOK

\* A tab leaves its operation, with its session in memory; the row stays or gets it.
LEMMA StoppedOK ==
  ASSUME ClientOK, ServerOK, NEW t \in Tabs, Enter(t, "recoverable"), Unlock(t),
         row' \in {row, mem[t]}, fenced' \in SUBSET Tabs,
         pending' = pending \/ pending' = [pending EXCEPT ![t] = {}],
         UNCHANGED <<spool, started, mem, counters>>
  PROVE  ClientOK'
<1>1. StorageTypes' /\ captured <= captured'
  BY Typed, Bounds DEF StorageTypes, counters
<1>2. pending' \in [Tabs -> SUBSET Server!Chunk]
  BY Typed DEF TabTypes
<1>3. LockMoves(t) /\ mem'[t].last <= captured'
  BY Typed DEF Unlock, LockMoves, counters
<1>4. mem' \in [Tabs -> Rows] /\ (\A u \in Tabs : u # t => mem'[u] = mem[u])
  BY Typed DEF TabTypes
<1>5. "recoverable" \in Phases /\ "recoverable" \notin Active /\ "recoverable" # "claiming"
      /\ "recoverable" \notin Poised
  BY DEF Phases, Active, Poised
<1> QED
  BY <1>1, <1>2, <1>3, <1>4, <1>5, EnterOK

\* A tab goes on to another phase of its operation.
LEMMA GoOnOK ==
  ASSUME ClientOK, ServerOK, NEW t \in Tabs, NEW p \in Phases, Enter(t, p),
         row' \in Rows, NEW r \in Rows, mem' = [mem EXCEPT ![t] = r], r # NoRow,
         row'.last <= captured, r.last <= captured,
         spool' \in SUBSET spool, started' \in BOOLEAN, drawn' \in 0..MaxWriters,
         captured' = captured, UNCHANGED fenced,
         pending' = pending \/ pending' = [pending EXCEPT ![t] = {}],
         lock' = t /\ LockFree(t),
         p = "claiming" => r.pendingWriter # NoWriter
  PROVE  ClientOK'
<1>1. StorageTypes' /\ captured <= captured'
  BY Typed, Bounds DEF StorageTypes
<1>2. pending' \in [Tabs -> SUBSET Server!Chunk] /\ fenced' \in SUBSET Tabs
  BY Typed DEF TabTypes
<1>3. mem' \in [Tabs -> Rows] /\ (\A u \in Tabs : u # t => mem'[u] = mem[u])
      /\ mem'[t] = r
  BY Typed DEF TabTypes
<1>4. LockMoves(t)
  BY DEF LockMoves
<1> QED
  BY <1>1, <1>2, <1>3, <1>4, EnterOK

-----------------------------------------------------------------------------
(* What the tabs send is sensible.                                         *)

LEMMA CreateSensible == Sensible(CreateRequest)
BY DEF Sensible, CreateRequest

LEMMA OwnerSensible ==
  ASSUME NEW r \in Rows, r # NoRow
  PROVE  /\ Sensible(FinalizeRequest(r))
         /\ \A id \in GapIds : Sensible(GapRequest(r, id))
         /\ r.pendingWriter # NoWriter => Sensible(ClaimRequest(r.pendingWriter, r.epoch))
<1>1. r.writer \in 1..MaxWriters /\ r.epoch \in 1..MaxEpoch /\ r.last \in 0..MaxChunks
      /\ r.pendingWriter \in 0..MaxWriters
  BY DEF Rows, Row
<1>2. r.pendingWriter # NoWriter => r.pendingWriter \in 1..MaxWriters
  BY <1>1, Bounds DEF NoWriter
<1> QED
  BY <1>1, <1>2 DEF Sensible, FinalizeRequest, GapRequest, ClaimRequest

LEMMA ChunkSensible ==
  ASSUME NEW c \in Server!Chunk
  PROVE  Sensible(ChunkRequest(c))
BY DEF Sensible, ChunkRequest

LEMMA UploadingIs ==
  ASSUME NEW t \in Tabs, pending[t] \in SUBSET Server!Chunk, pending[t] # {}
  PROVE  Uploading(t) \in pending[t]
<1> DEFINE S == {c.seq : c \in pending[t]}
<1>1. S \in SUBSET Nat /\ S # {}
  BY Bounds DEF Server!Chunk
<1>2. PICK n \in S : \A m \in S : <<m, n>> \notin OpToRel(<, Nat)
  <2> HIDE DEF S
  <2> QED
    BY <1>1, NatLessThanWellFounded, WFMin, Zenon
<1>3. \A m \in S : n <= m
  <2>1. \A m \in S : ~ (m < n)
    <3> HIDE DEF S
    <3> QED
      BY <1>1, <1>2, Zenon DEF OpToRel
  <2> HIDE DEF S
  <2> QED
    BY <1>1, <2>1
<1>4. \E c \in pending[t] : \A d \in pending[t] : c.seq <= d.seq
  BY <1>3
<1> QED
  BY <1>4 DEF Uploading

LEMMA MemSame ==
  ASSUME ClientOK, NEW t \in Tabs
  PROVE  mem = [mem EXCEPT ![t] = mem[t]]
BY Typed DEF TabTypes

-----------------------------------------------------------------------------
(* Each step of a tab.                                                     *)

LEMMA OpeningOK ==
  ASSUME ClientOK, NEW t \in Tabs,
         OpenFresh(t) \/ OpenFenced(t) \/ OpenComplete(t) \/ OpenRecoverable(t) \/ Close(t)
  PROVE  ClientOK' /\ ServerOK
<1>1. ServerOK
  BY UnchangedOK DEF OpenFresh, OpenFenced, OpenComplete, OpenRecoverable, Close
<1>2. CASE OpenFresh(t) \/ OpenFenced(t)
  <2>1. PICK p \in {"idle", "recoverable"} : Enter(t, p)
    BY <1>2 DEF OpenFresh, OpenFenced
  <2>2. UNCHANGED <<storage, counters, mem, pending, lock>> /\ fenced' \in SUBSET Tabs
    BY <1>2, Typed DEF OpenFresh, OpenFenced, TabTypes
  <2>3. StorageTypes' /\ captured <= captured' /\ LockMoves(t) /\ mem'[t].last <= captured'
    BY <2>2, Typed, Bounds DEF StorageTypes, storage, counters, LockMoves
  <2>4. p \in Phases \ Active /\ p # "claiming" /\ p \notin Poised
    BY DEF Phases, Active, Poised
  <2>5. mem' \in [Tabs -> Rows] /\ pending' \in [Tabs -> SUBSET Server!Chunk] /\ mem' = mem
    BY <2>2, Typed DEF TabTypes
  <2> QED
    BY <1>1, <2>1, <2>2, <2>3, <2>4, <2>5, EnterOK
<1>3. CASE OpenComplete(t)
  BY <1>1, <1>3, DeletedOK DEF OpenComplete
<1>4. CASE OpenRecoverable(t)
  <2>1. Enter(t, "recoverable") /\ mem' = [mem EXCEPT ![t] = row]
        /\ spool' \in SUBSET spool /\ UNCHANGED <<row, started, counters, pending, lock>>
    BY <1>4 DEF OpenRecoverable, Remember, Reconciled
  <2>2. fenced' \in SUBSET Tabs
    BY <1>4, Typed DEF OpenRecoverable, FenceIf, TabTypes
  <2>3. StorageTypes' /\ captured <= captured' /\ LockMoves(t)
    BY <2>1, Typed, Bounds DEF StorageTypes, counters, LockMoves
  <2>4. mem' \in [Tabs -> Rows] /\ (\A u \in Tabs : u # t => mem'[u] = mem[u])
        /\ mem'[t].last <= captured' /\ pending' \in [Tabs -> SUBSET Server!Chunk]
    BY <2>1, Typed DEF TabTypes, StorageTypes, counters
  <2>5. "recoverable" \in Phases \ Active /\ "recoverable" # "claiming"
        /\ "recoverable" \notin Poised
    BY DEF Phases, Active, Poised
  <2> QED
    BY <1>1, <2>1, <2>2, <2>3, <2>4, <2>5, EnterOK
<1>5. CASE Close(t)
  <2>1. Enter(t, "closed") /\ mem' = [mem EXCEPT ![t] = NoRow] /\ Unlock(t)
        /\ pending' = [pending EXCEPT ![t] = {}] /\ UNCHANGED <<storage, counters>>
        /\ fenced' = fenced \ {t}
    BY <1>5 DEF Close, Remember
  <2>2. StorageTypes' /\ captured <= captured' /\ LockMoves(t)
    BY <2>1, Typed, Bounds DEF StorageTypes, storage, counters, LockMoves, Unlock
  <2>3. mem' \in [Tabs -> Rows] /\ (\A u \in Tabs : u # t => mem'[u] = mem[u])
        /\ mem'[t].last <= captured' /\ pending' \in [Tabs -> SUBSET Server!Chunk]
    BY <2>1, <2>2, Typed, RowFields, Bounds DEF TabTypes, StorageTypes
  <2>4. "closed" \in Phases \ Active /\ "closed" # "claiming" /\ fenced' \in SUBSET Tabs
        /\ "closed" \notin Poised
    BY <2>1, Typed DEF Phases, Active, Poised, TabTypes
  <2> QED
    BY <1>1, <2>1, <2>2, <2>3, <2>4, EnterOK
<1> QED
  BY <1>1, <1>2, <1>3, <1>4, <1>5

LEMMA StartingOK ==
  ASSUME ClientOK, NEW t \in Tabs,
         \/ BeginStart(t) \/ Started(t) \/ StartFails(t)
         \/ StartLocked(t) \/ StartRefused(t)
  PROVE  ClientOK' /\ ServerOK
<1>1. ServerOK
  <2>1. CASE BeginStart(t)
    BY <2>1, UnchangedOK DEF BeginStart
  <2>2. CASE Started(t)
    BY <2>2, UnchangedOK, HandledOK, CreateSensible DEF Started
  <2>3. CASE StartFails(t)
    BY <2>3, UnchangedOK, UnansweredOK, CreateSensible DEF StartFails
  <2>4. CASE StartLocked(t) \/ StartRefused(t)
    BY <2>4, UnchangedOK DEF StartLocked, StartRefused
  <2> QED
    BY <2>1, <2>2, <2>3, <2>4
<1>2. CASE BeginStart(t) \/ StartFails(t)
  <2>1. PICK p \in {"starting", "error"} : Enter(t, p)
    BY <1>2 DEF BeginStart, StartFails
  <2>2. UNCHANGED <<storage, captured, mem, pending, fenced, lock>> /\ drawn' \in {drawn, 1}
    BY <1>2 DEF BeginStart, StartFails, counters
  <2>3. StorageTypes' /\ captured <= captured' /\ LockMoves(t) /\ mem'[t].last <= captured'
    BY <2>2, Typed, Bounds DEF StorageTypes, storage, LockMoves
  <2>4. p \in Phases \ Active /\ p # "claiming" /\ p \notin Poised
    BY DEF Phases, Active, Poised
  <2>5. mem' \in [Tabs -> Rows] /\ pending' \in [Tabs -> SUBSET Server!Chunk] /\ mem' = mem
        /\ fenced' \in SUBSET Tabs
    BY <2>2, Typed DEF TabTypes
  <2> QED
    BY <1>1, <2>1, <2>2, <2>3, <2>4, <2>5, EnterOK
<1>3. CASE Started(t)
  <2> DEFINE new == [writer |-> 1, epoch |-> 1, pendingWriter |-> NoWriter, last |-> 0]
  <2>1. new \in Rows /\ new # NoRow /\ new.last = 0
    BY Bounds DEF Rows, Row, NoRow, NoWriter
  <2>2. Enter(t, "locking") /\ row' = new /\ mem' = [mem EXCEPT ![t] = new]
        /\ started' = TRUE /\ UNCHANGED <<spool, counters, pending, fenced, lock>>
    BY <1>3 DEF Started, Remember, PutLocalSession
  <2> HIDE DEF new
  <2>3. "locking" \in Phases /\ "locking" # "claiming" /\ "locking" \notin Active
    BY DEF Phases, Active
  <2>4. StorageTypes' /\ captured <= captured'
    BY <2>1, <2>2, Typed, Bounds DEF StorageTypes, counters
  <2>5. mem' \in [Tabs -> Rows] /\ (\A u \in Tabs : u # t => mem'[u] = mem[u])
        /\ mem'[t] = new /\ LockMoves(t)
    BY <2>1, <2>2, Typed DEF TabTypes, LockMoves
  <2>6. pending' \in [Tabs -> SUBSET Server!Chunk] /\ fenced' \in SUBSET Tabs
        /\ mem'[t].last <= captured'
    BY <2>1, <2>2, <2>4, <2>5, Typed, Bounds DEF TabTypes, StorageTypes
  <2> QED
    BY <1>1, <2>1, <2>2, <2>3, <2>4, <2>5, <2>6, EnterOK
<1>4. CASE StartLocked(t)
  <2>1. phase[t] = "locking" /\ LockFree(t) /\ lock' = t /\ Enter(t, "recording")
        /\ UNCHANGED <<row, spool, started, drawn, captured, mem, pending, fenced>>
    BY <1>4 DEF StartLocked, storage, counters
  <2>2. mem[t] # NoRow
    BY <2>1, Typed DEF TabOK, Poised
  <2>3. mem' = [mem EXCEPT ![t] = mem[t]]
    BY <2>1, MemSame
  <2>4. row' \in Rows /\ row'.last <= captured /\ spool' \in SUBSET spool
        /\ started' \in BOOLEAN /\ drawn' \in 0..MaxWriters
    BY <2>1, Typed DEF StorageTypes
  <2>5. "recording" \in Phases /\ "recording" # "claiming"
    BY DEF Phases
  <2> QED
    BY <1>1, <2>1, <2>2, <2>3, <2>4, <2>5, Typed, GoOnOK
<1>5. CASE StartRefused(t)
  BY <1>1, <1>5, StoppedOK, Typed DEF StartRefused, KeepRecoverable, PutLocalSession, TabTypes
<1> QED
  BY <1>1, <1>2, <1>3, <1>4, <1>5

\* The next chunk of a tab that has a session.
LEMMA NextChunkIs ==
  ASSUME ClientOK, NEW t \in Tabs, mem[t] # NoRow, SpoolNext(t)
  PROVE  /\ spool' = spool \cup {NextChunk(t)} /\ NextChunk(t) \in Server!Chunk
         /\ captured' = captured + 1 /\ captured' \in 0..MaxChunks
         /\ mem[t] \in Row /\ mem[t].last + 1 \in 1..MaxChunks
         /\ mem[t].last <= captured'
         /\ Advanced(mem[t]) \in Rows /\ Advanced(mem[t]) # NoRow
         /\ Advanced(mem[t]).last = mem[t].last + 1 /\ Advanced(mem[t]).last <= captured'
         /\ Advanced(mem[t]).writer = mem[t].writer /\ Advanced(mem[t]).epoch = mem[t].epoch
         /\ Advanced(mem[t]).pendingWriter = mem[t].pendingWriter
<1> DEFINE c == NextChunk(t)
           r == Advanced(mem[t])
<1>1. captured < MaxChunks /\ captured' = captured + 1 /\ spool' = spool \cup {c}
  BY DEF SpoolNext
<1>2. mem[t] \in Row
  BY Typed DEF Rows
<1>3. mem[t].last + 1 \in 1..MaxChunks /\ captured + 1 \in 1..MaxChunks
      /\ mem[t].last + 1 <= captured + 1 /\ mem[t].last <= captured + 1
      /\ captured + 1 \in 0..MaxChunks
  BY <1>1, Typed, Bounds DEF StorageTypes
<1>4. c \in Server!Chunk
  BY <1>2, <1>3 DEF NextChunk, Server!Chunk, Row
<1>5. r \in Row /\ r.last = mem[t].last + 1 /\ r.writer = mem[t].writer
      /\ r.epoch = mem[t].epoch /\ r.pendingWriter = mem[t].pendingWriter
  BY <1>2, <1>3, Bounds DEF Row, Advanced
<1> HIDE DEF c, r
<1>6. r \in Rows /\ r # NoRow
  BY <1>5, Bounds DEF Rows, NoRow, NoWriter, Row
<1> QED
  BY <1>1, <1>2, <1>3, <1>4, <1>5, <1>6 DEF c, r

LEMMA AppendOK ==
  ASSUME ClientOK, ServerOK, NEW t \in Tabs, mem[t] # NoRow, AppendCapturedChunk(t),
         UNCHANGED <<started, drawn, pending, fenced, lock>>,
         phase' = phase \/ Enter(t, "recoverable")
  PROVE  ClientOK'
<1>1. SpoolNext(t) /\ mem' = [mem EXCEPT ![t] = Advanced(mem[t])]
      /\ row' = Advanced(mem[t])
  BY DEF AppendCapturedChunk, Remember, PutLocalSession
<1>2. StorageTypes' /\ captured <= captured'
  BY <1>1, NextChunkIs, Typed, Bounds DEF StorageTypes
<1>3. mem' \in [Tabs -> Rows] /\ (\A u \in Tabs : u # t => mem'[u] = mem[u])
      /\ mem'[t] = Advanced(mem[t])
  BY <1>1, NextChunkIs, Typed DEF TabTypes
<1>4. "recoverable" \in Phases /\ "recoverable" \notin Active /\ "recoverable" \notin Poised
  BY DEF Phases, Active, Poised
<1>5. phase' \in [Tabs -> Phases] /\ phase'[t] \in {phase[t], "recoverable"}
      /\ \A u \in Tabs : u # t => phase'[u] = phase[u]
  BY <1>4, Typed DEF Enter, TabTypes
<1>6. TabTypes' /\ OthersStay(t) /\ LockMoves(t)
  BY <1>3, <1>5, Typed DEF TabTypes, OthersStay, LockMoves
<1>7. TabOK(t)'
  BY <1>1, <1>3, <1>4, <1>5, NextChunkIs, Typed DEF TabOK, Active
<1> QED
  BY <1>2, <1>6, <1>7, TabStepOK

LEMMA RecordingOK ==
  ASSUME ClientOK, NEW t \in Tabs,
         \/ Capture(t) \/ CaptureBreaks(t) \/ CaptureBreaksOver(t) \/ CaptureBreaksOff(t)
         \/ TailStored(t) \/ TailRefused(t) \/ Stop(t) \/ StopSynced(t)
  PROVE  ClientOK' /\ ServerOK
<1>1. ServerOK
  BY UnchangedOK
     DEF Capture, CaptureBreaks, CaptureBreaksOver, CaptureBreaksOff, TailStored, TailRefused,
         Stop, StopSynced
<1>2. CASE Capture(t) \/ TailStored(t)
  <2>1. mem[t] # NoRow
    BY <1>2, Typed DEF TabOK, Active, Poised, Capture, TailStored
  <2> QED
    BY <1>1, <1>2, <2>1, AppendOK DEF Capture, TailStored
<1>7. CASE TailRefused(t)
  BY <1>1, <1>7, StoppedOK, Typed DEF TailRefused, KeepRecoverable, PutLocalSession, TabTypes
<1>8. CASE CaptureBreaksOver(t) \/ CaptureBreaksOff(t)
  <2>1. /\ phase[t] = "recording" /\ row' = mem[t] /\ Unlock(t)
        /\ UNCHANGED <<started, drawn, mem, pending, fenced>>
        /\ SpoolNext(t) \/ UNCHANGED <<spool, captured>>
    BY <1>8 DEF CaptureBreaksOver, CaptureBreaksOff, PutLocalSession, counters
  <2>2. PICK p \in {"recoverable", "broken"} : Enter(t, p)
    BY <1>8 DEF CaptureBreaksOver, CaptureBreaksOff
  <2>3. mem[t] # NoRow
    BY <2>1, Typed DEF TabOK, Active
  <2>4. StorageTypes' /\ captured <= captured' /\ mem'[t].last <= captured'
    <3>1. CASE SpoolNext(t)
      BY <2>1, <2>3, <3>1, NextChunkIs, Typed, Bounds DEF StorageTypes
    <3>2. CASE UNCHANGED <<spool, captured>>
      BY <2>1, <3>2, Typed, Bounds DEF StorageTypes
    <3> QED
      BY <2>1, <3>1, <3>2
  <2>5. mem' \in [Tabs -> Rows] /\ pending' \in [Tabs -> SUBSET Server!Chunk]
        /\ fenced' \in SUBSET Tabs /\ LockMoves(t)
    BY <2>1, Typed DEF TabTypes, Unlock, LockMoves
  <2>6. p \in Phases /\ p \notin Active /\ p # "claiming"
    BY DEF Phases, Active
  <2> QED
    BY <1>1, <2>1, <2>2, <2>3, <2>4, <2>5, <2>6, EnterOK
<1>3. CASE CaptureBreaks(t)
  BY <1>1, <1>3, StoppedOK, Typed DEF CaptureBreaks, KeepRecoverable, PutLocalSession, TabTypes
<1>4. CASE Stop(t)
  <2>1. phase[t] = "recording" /\ Enter(t, "stopping") /\ pending' = [pending EXCEPT ![t] = {}]
        /\ UNCHANGED <<row, spool, started, drawn, captured, mem, fenced, lock>>
    BY <1>4 DEF Stop, storage, counters
  <2>2. mem[t] # NoRow /\ lock' = t /\ LockFree(t)
    BY <2>1, Typed DEF TabOK, Active, LockFree
  <2>3. mem' = [mem EXCEPT ![t] = mem[t]]
    BY <2>1, MemSame
  <2>4. row' \in Rows /\ row'.last <= captured /\ spool' \in SUBSET spool
        /\ started' \in BOOLEAN /\ drawn' \in 0..MaxWriters
    BY <2>1, Typed DEF StorageTypes
  <2>5. "stopping" \in Phases /\ "stopping" # "claiming"
    BY DEF Phases
  <2> QED
    BY <1>1, <2>1, <2>2, <2>3, <2>4, <2>5, Typed, GoOnOK
<1>5. CASE StopSynced(t) /\ SpoolAcked
  <2>1. phase[t] = "stopping" /\ Enter(t, "finalizing") /\ row' = mem[t]
        /\ mem' = [mem EXCEPT ![t] = mem[t]]
        /\ UNCHANGED <<spool, started, drawn, captured, fenced, pending, lock>>
    BY <1>5 DEF StopSynced, BeginFinalize, Remember, PutLocalSession, counters
  <2>2. mem[t] # NoRow /\ lock' = t /\ LockFree(t)
    BY <2>1, Typed DEF TabOK, Active, LockFree
  <2>4. row' \in Rows /\ row'.last <= captured /\ spool' \in SUBSET spool
        /\ started' \in BOOLEAN /\ drawn' \in 0..MaxWriters
    BY <2>1, Typed DEF StorageTypes
  <2>5. "finalizing" \in Phases /\ "finalizing" # "claiming"
    BY DEF Phases
  <2> QED
    BY <1>1, <2>1, <2>2, <2>4, <2>5, Typed, GoOnOK
<1>6. CASE StopSynced(t) /\ ~ SpoolAcked
  BY <1>1, <1>6, StoppedOK, Typed DEF StopSynced, KeepRecoverable, PutLocalSession, TabTypes
<1> QED
  BY <1>1, <1>2, <1>3, <1>4, <1>5, <1>6, <1>7, <1>8

\* A step of a sync leaves phase, memory and lock alone.
LEMMA SyncStepOK ==
  ASSUME ClientOK, ServerOK, NEW t \in Tabs, spool' \in SUBSET spool,
         NEW s \in SUBSET Server!Chunk, pending' = [pending EXCEPT ![t] = s],
         fenced' \in SUBSET Tabs, UNCHANGED <<row, started, counters, phase, mem, lock>>
  PROVE  ClientOK'
<1>1. StorageTypes' /\ captured <= captured'
  BY Typed, Bounds DEF StorageTypes, counters
<1>2. TabTypes' /\ OthersStay(t)
  BY Typed DEF TabTypes, OthersStay
<1>3. TabOK(t)' /\ LockMoves(t)
  BY Typed DEF TabOK, LockMoves, counters
<1> QED
  BY <1>1, <1>2, <1>3, TabStepOK

LEMMA SyncOK ==
  ASSUME ClientOK, NEW t \in Tabs, SyncStart(t) \/ UploadAcked(t) \/ UploadFails(t)
  PROVE  ClientOK' /\ ServerOK
<1>1. CASE SyncStart(t)
  <2>1. Reconciled \in SUBSET spool /\ Reconciled \in SUBSET Server!Chunk
    BY Typed DEF Reconciled, StorageTypes
  <2>2. ServerOK
    BY <1>1, UnchangedOK DEF SyncStart
  <2>3. fenced' \in SUBSET Tabs
    BY <1>1, Typed DEF SyncStart, TabTypes
  <2> QED
    BY <1>1, <2>1, <2>2, <2>3, SyncStepOK DEF SyncStart
<1> DEFINE c == Uploading(t)
<1>2. ASSUME pending[t] # {}
      PROVE  c \in pending[t] /\ c \in Server!Chunk
  BY <1>2, UploadingIs, Typed
<1> HIDE DEF c
<1>3. CASE UploadAcked(t)
  <2>1. /\ pending[t] # {}
        /\ Server!AcceptChunk(c) \/ UNCHANGED server
        /\ spool' = {d \in spool : d.seq # c.seq}
        /\ pending' = [pending EXCEPT ![t] = pending[t] \ {c}]
        /\ UNCHANGED <<row, started, counters, phase, mem, fenced, lock, late>>
    BY <1>3 DEF UploadAcked, c
  <2>2. Server!AcceptChunk(c) => Handle(ChunkRequest(c))
    BY DEF Handle, ChunkRequest
  <2>3. ServerOK
    BY <1>2, <2>1, <2>2, ChunkSensible, UnchangedOK, HandledOK
  <2>4. pending[t] \ {c} \in SUBSET Server!Chunk /\ spool' \in SUBSET spool
        /\ fenced' \in SUBSET Tabs
    BY <2>1, Typed DEF TabTypes
  <2> QED
    BY <2>1, <2>3, <2>4, SyncStepOK
<1>4. CASE UploadFails(t)
  <2>1. /\ pending[t] # {}
        /\ Unanswered(ChunkRequest(c)) \/ (Server!AcceptChunkCrash(c) /\ UNCHANGED late)
        /\ pending' = [pending EXCEPT ![t] = {}]
        /\ UNCHANGED <<storage, counters, phase, mem, lock>>
    BY <1>4 DEF UploadFails, c
  <2>2. fenced' \in SUBSET Tabs
    BY <1>4, Typed DEF UploadFails, FenceIf, TabTypes
  <2>3. ASSUME Server!AcceptChunkCrash(c) /\ UNCHANGED late
        PROVE  ServerOK
    <3>1. epoch' = epoch
      BY <2>3 DEF Server!AcceptChunkCrash, Server!ownership
    <3>2. ServerSteps
      BY <1>2, <2>1, <2>3 DEF ServerSteps, Server!Next
    <3> QED
      BY <2>3, <3>1, <3>2 DEF ServerOK, ClientOK, ClientTypes
  <2>4. ServerOK
    BY <1>2, <2>1, <2>3, ChunkSensible, UnansweredOK
  <2> QED
    BY <2>1, <2>2, <2>4, SyncStepOK DEF storage
<1> QED
  BY <1>1, <1>3, <1>4

\* A tab that acts goes on: it has the lock and a session, which it may replace.
LEMMA ActsOn ==
  ASSUME ClientOK, ServerOK, NEW t \in Tabs, phase[t] \in Active,
         NEW p \in Phases, Enter(t, p), NEW r \in Rows, mem' = [mem EXCEPT ![t] = r],
         r # NoRow, r.last <= captured, row' \in {row, r}, drawn' \in 0..MaxWriters,
         p = "claiming" => r.pendingWriter # NoWriter,
         UNCHANGED <<spool, started, captured, pending, fenced, lock>>
  PROVE  ClientOK'
<1>1. lock' = t /\ LockFree(t)
  BY Typed DEF TabOK, LockFree
<1>2. row' \in Rows /\ row'.last <= captured /\ started' \in BOOLEAN
  BY Typed DEF StorageTypes
<1> QED
  BY <1>1, <1>2, GoOnOK

LEMMA RecoverOK ==
  ASSUME ClientOK, NEW t \in Tabs, AdoptCompletion(t) \/ Resume(t) \/ Finish(t)
  PROVE  ClientOK' /\ ServerOK
<1>1. ServerOK
  BY UnchangedOK DEF AdoptCompletion, Resume, Finish, Recover
<1>2. CASE AdoptCompletion(t)
  BY <1>1, <1>2, DeletedOK DEF AdoptCompletion
<1>3. CASE Resume(t) \/ Finish(t)
  <2>1. PICK p \in {"resuming", "finishing"} : Recover(t, p)
    BY <1>3 DEF Resume, Finish
  <2>2. Enter(t, p) /\ mem[t] # NoRow /\ LockFree(t) /\ lock' = t
        /\ UNCHANGED <<row, started, counters, mem, pending, fenced>>
        /\ spool' \in SUBSET spool
    BY <2>1 DEF Recover, MayRecover, Reconciled
  <2>3. p \in Phases /\ p # "claiming"
    BY DEF Phases
  <2>4. mem' = [mem EXCEPT ![t] = mem[t]]
    BY <2>2, MemSame
  <2>5. row' \in Rows /\ row'.last <= captured /\ started' \in BOOLEAN
        /\ drawn' \in 0..MaxWriters /\ captured' = captured
    BY <2>2, Typed DEF StorageTypes, counters
  <2> QED
    BY <1>1, <2>2, <2>3, <2>4, <2>5, Typed, GoOnOK
<1> QED
  BY <1>1, <1>2, <1>3

\* The row after a claim that was answered, or found to have been handled.
LEMMA ResumedIs ==
  ASSUME NEW r \in Rows, r # NoRow, r.pendingWriter # NoWriter, r.epoch + 1 \in 0..MaxEpoch
  PROVE  /\ Resumed(r) \in Rows /\ Resumed(r) # NoRow
         /\ Resumed(r).last = r.last /\ Resumed(r).writer = r.pendingWriter
         /\ Resumed(r).epoch = r.epoch + 1 /\ Resumed(r).pendingWriter = NoWriter
<1>1. r \in Row /\ r.pendingWriter \in 1..MaxWriters /\ r.epoch + 1 \in 1..MaxEpoch
  BY Bounds DEF Rows, Row, NoWriter
<1>2. Resumed(r) = [writer |-> r.pendingWriter, epoch |-> r.epoch + 1,
                    pendingWriter |-> 0, last |-> r.last]
  <2> DEFINE f == Resumed(r)
  <2>1. DOMAIN f = {"writer", "epoch", "pendingWriter", "last"}
    BY <1>1 DEF Resumed, Row
  <2>2. f = [x \in DOMAIN f |-> f[x]]
    BY DEF Resumed
  <2>3. f.writer = r.pendingWriter /\ f.epoch = r.epoch + 1 /\ f.pendingWriter = 0
        /\ f.last = r.last
    BY <1>1 DEF Resumed, NoWriter, Row
  <2> HIDE DEF f
  <2>4. f = [writer |-> f.writer, epoch |-> f.epoch, pendingWriter |-> f.pendingWriter,
             last |-> f.last]
    BY <2>1, <2>2
  <2>5. f = Resumed(r)
    BY DEF f
  <2> QED
    BY <2>3, <2>4, <2>5
<1>3. Resumed(r) \in Row /\ Resumed(r).last = r.last /\ Resumed(r).writer = r.pendingWriter
      /\ Resumed(r).epoch = r.epoch + 1 /\ Resumed(r).pendingWriter = 0
  <2>1. r.last \in 0..MaxChunks /\ 0 \in 0..MaxWriters
    BY <1>1, Bounds DEF Row
  <2> QED
    BY <1>1, <1>2, <2>1 DEF Row
<1>4. Resumed(r) # NoRow
  BY <1>1, <1>3, RowFields DEF Rows
<1> QED
  BY <1>3, <1>4 DEF Rows, NoWriter

LEMMA PhaseFacts ==
  /\ {"claiming", "resumeGap", "recording", "finishGap", "finalizing"} \subseteq Phases
  /\ \A p \in {"resumeGap", "recording", "finishGap", "finalizing"} : p # "claiming"
BY DEF Phases

LEMMA ResumingOK ==
  ASSUME ClientOK, NEW t \in Tabs, ResumeSynced(t) \/ ResumeBlocked(t)
  PROVE  ClientOK' /\ ServerOK
<1>1. ServerOK
  BY UnchangedOK DEF ResumeSynced, ResumeBlocked
<1>2. CASE ResumeBlocked(t)
  BY <1>1, <1>2, StoppedOK, Typed DEF ResumeBlocked, GiveUpResuming, storage, TabTypes
<1>3. CASE ResumeSynced(t) /\ mem[t].pendingWriter # NoWriter
  <2>1. phase[t] = "resuming" /\ Enter(t, "claiming")
        /\ UNCHANGED <<row, drawn, mem, spool, started, captured, pending, fenced, lock>>
    BY <1>3 DEF ResumeSynced
  <2>2. mem' = [mem EXCEPT ![t] = mem[t]]
    BY <2>1, MemSame
  <2>3. phase[t] \in Active /\ mem[t] # NoRow /\ drawn' \in 0..MaxWriters
    BY <2>1, Typed DEF TabOK, Active, StorageTypes
  <2> QED
    BY <1>1, <1>3, <2>1, <2>2, <2>3, Typed, PhaseFacts, ActsOn
<1>4. CASE ResumeSynced(t) /\ mem[t].pendingWriter = NoWriter
  <2> DEFINE r == [mem[t] EXCEPT !.pendingWriter = drawn + 1]
  <2>1. phase[t] = "resuming" /\ Enter(t, "claiming") /\ drawn < MaxWriters
        /\ drawn' = drawn + 1 /\ mem' = [mem EXCEPT ![t] = r] /\ row' = r
        /\ UNCHANGED <<spool, started, captured, pending, fenced, lock>>
    BY <1>4 DEF ResumeSynced, PersistIntent, Remember, PutLocalSession
  <2>2. phase[t] \in Active /\ mem[t] # NoRow
    BY <2>1, Typed DEF TabOK, Active
  <2>3. mem[t] \in Row /\ drawn + 1 \in 1..MaxWriters
    BY <2>1, <2>2, Typed, Bounds DEF Rows, StorageTypes
  <2>4. r \in Row /\ r.last = mem[t].last /\ r.pendingWriter = drawn + 1
        /\ r.epoch = mem[t].epoch
    BY <2>3, Bounds DEF Row
  <2>5. r \in Rows /\ r # NoRow /\ r.pendingWriter # NoWriter /\ r.last <= captured
    BY <2>3, <2>4, Typed, RowFields, Bounds DEF Rows, NoWriter, Row, NoRow
  <2>6. drawn' \in 0..MaxWriters
    BY <2>1, <2>3, Bounds
  <2> HIDE DEF r
  <2> QED
    BY <1>1, <2>1, <2>2, <2>5, <2>6, PhaseFacts, ActsOn
<1> QED
  BY <1>1, <1>2, <1>3, <1>4

LEMMA ClaimingOK ==
  ASSUME ClientOK, NEW t \in Tabs, ClaimAnswered(t) \/ ClaimFails(t)
  PROVE  ClientOK' /\ ServerOK
<1> DEFINE r == mem[t]
<1>1. phase[t] = "claiming" /\ phase[t] \in Active
  BY DEF ClaimAnswered, ClaimFails, Active
<1>2. r \in Rows /\ r # NoRow /\ r.pendingWriter # NoWriter /\ r.last <= captured
      /\ r.epoch \in 1..MaxEpoch /\ r.pendingWriter \in 1..MaxWriters
  <2>1. r \in Row /\ r # NoRow /\ r.pendingWriter # NoWriter /\ r.last <= captured
    BY <1>1, Typed DEF TabOK, Rows
  <2> QED
    BY <2>1, Bounds DEF Rows, Row, NoWriter
<1>3. Sensible(ClaimRequest(r.pendingWriter, r.epoch))
  BY <1>2, OwnerSensible
<1> HIDE DEF r
<1>4. CASE ClaimFails(t)
  <2>1. ServerOK
    BY <1>3, <1>4, UnansweredOK DEF ClaimFails, r
  <2> QED
    BY <1>4, <2>1, StoppedOK, Typed DEF ClaimFails, GiveUpResuming, storage, TabTypes
<1>5. CASE ClaimAnswered(t)
  <2>1. /\ \/ Server!ClaimCapture(r.pendingWriter, Capability, r.epoch)
           \/ Server!RetryClaim(r.pendingWriter, Capability, r.epoch)
        /\ row' = Resumed(r) /\ mem' = [mem EXCEPT ![t] = Resumed(r)]
        /\ Enter(t, "resumeGap")
        /\ UNCHANGED <<spool, started, counters, pending, fenced, lock, late>>
    BY <1>5 DEF ClaimAnswered, Remember, PutLocalSession, r
  <2>2. ServerOK /\ r.epoch + 1 \in 0..MaxEpoch
    <3>1. CASE Server!ClaimCapture(r.pendingWriter, Capability, r.epoch)
      <4>1. Handle(ClaimRequest(r.pendingWriter, r.epoch))
        BY <3>1 DEF Handle, ClaimRequest
      <4>2. r.epoch + 1 \in 0..MaxEpoch
        BY <1>2, <3>1, Bounds DEF Server!ClaimCapture
      <4> QED
        BY <1>3, <2>1, <4>1, <4>2, HandledOK
    <3>2. CASE Server!RetryClaim(r.pendingWriter, Capability, r.epoch)
      <4>1. epoch = r.epoch + 1 /\ epoch' = epoch
        BY <3>2 DEF Server!RetryClaim, Server!ownership
      <4>2. ServerSteps
        BY <1>2, <3>2 DEF ServerSteps, Server!Next
      <4> QED
        BY <2>1, <4>1, <4>2 DEF ServerOK, ClientOK, ClientTypes
    <3> QED
      BY <2>1, <3>1, <3>2
  <2>3. Resumed(r) \in Rows /\ Resumed(r) # NoRow /\ Resumed(r).last <= captured
    BY <1>2, <2>2, ResumedIs
  <2>4. drawn' \in 0..MaxWriters /\ captured' = captured
    BY <2>1, Typed DEF StorageTypes, counters
  <2> QED
    BY <1>1, <2>1, <2>2, <2>3, <2>4, PhaseFacts, ActsOn
<1> QED
  BY <1>4, <1>5, <1>1 DEF ClaimAnswered, ClaimFails

LEMMA GapSensible ==
  ASSUME ClientOK, NEW t \in Tabs, phase[t] \in Active
  PROVE  /\ mem[t] # NoRow /\ mem[t] \in Rows /\ mem[t].last <= captured
         /\ \A id \in GapIds : Sensible(GapRequest(mem[t], id))
         /\ Sensible(FinalizeRequest(mem[t]))
BY Typed, OwnerSensible DEF TabOK

LEMMA GapLostOK ==
  ASSUME ClientOK, NEW t \in Tabs, phase[t] \in Active, GapLost(t)
  PROVE  ServerOK /\ fenced' \in SUBSET Tabs
<1>1. PICK id \in GapIds : Unanswered(GapRequest(mem[t], id))
  BY DEF GapLost
<1>2. ServerOK
  BY <1>1, GapSensible, UnansweredOK
<1> QED
  BY <1>2, Typed DEF GapLost, FenceIf, TabTypes

LEMMA FreshGapOK ==
  ASSUME ClientOK, NEW t \in Tabs, phase[t] \in Active, FreshGap(t) \/ UNCHANGED server,
         UNCHANGED late
  PROVE  ServerOK
<1>1. CASE FreshGap(t)
  <2>1. PICK id \in GapIds : Server!DeclareGap(id, mem[t].writer, mem[t].epoch, {})
    BY <1>1 DEF FreshGap
  <2>2. Handle(GapRequest(mem[t], id))
    BY <2>1 DEF Handle, GapRequest
  <2> QED
    BY <2>2, GapSensible, HandledOK
<1> QED
  BY <1>1, UnchangedOK

LEMMA GapsOK ==
  ASSUME ClientOK, NEW t \in Tabs,
         \/ ResumeGapAnswered(t) \/ ResumeGapFails(t)
         \/ FinishGapAnswered(t) \/ FinishGapFails(t)
  PROVE  ClientOK' /\ ServerOK
<1>1. phase[t] \in {"resumeGap", "finishGap"} /\ phase[t] \in Active
  BY DEF ResumeGapAnswered, ResumeGapFails, FinishGapAnswered, FinishGapFails, Active
<1>2. CASE ResumeGapFails(t) \/ FinishGapFails(t)
  <2>1. ServerOK /\ fenced' \in SUBSET Tabs
    BY <1>1, <1>2, GapLostOK DEF ResumeGapFails, FinishGapFails
  <2> QED
    BY <1>2, <2>1, StoppedOK
       DEF ResumeGapFails, FinishGapFails, GiveUpResuming, KeepRecoverable,
           PutLocalSession, storage
<1>3. CASE ResumeGapAnswered(t) \/ FinishGapAnswered(t)
  <2>1. ServerOK
    BY <1>1, <1>3, FreshGapOK DEF ResumeGapAnswered, FinishGapAnswered
  <2>2. PICK p \in {"recording", "finalizing"} : Enter(t, p)
    BY <1>3 DEF ResumeGapAnswered, FinishGapAnswered, BeginFinalize
  <2>3. row' \in {row, mem[t]} /\ (mem' = mem \/ mem' = [mem EXCEPT ![t] = mem[t]])
        /\ UNCHANGED <<spool, started, drawn, captured, pending, fenced, lock>>
    BY <1>3 DEF ResumeGapAnswered, FinishGapAnswered, BeginFinalize, PutLocalSession,
       Remember, storage, counters
  <2>4. mem' = [mem EXCEPT ![t] = mem[t]]
    BY <2>3, MemSame
  <2>5. drawn' \in 0..MaxWriters
    BY <2>3, Typed DEF StorageTypes
  <2> QED
    BY <1>1, <2>1, <2>2, <2>3, <2>4, <2>5, GapSensible, PhaseFacts, ActsOn
<1> QED
  BY <1>2, <1>3

\* The row finish goes on with.
LEMMA ResolvedIs ==
  ASSUME ClientOK, NEW r \in Rows, r # NoRow,
         r.pendingWriter # NoWriter => epoch \in {r.epoch, r.epoch + 1}
  PROVE  /\ Resolved(r) \in Rows /\ Resolved(r) # NoRow /\ Resolved(r).last = r.last
         /\ r.pendingWriter = NoWriter => Resolved(r) = r
         /\ r.pendingWriter # NoWriter /\ ClaimWon(r) =>
              Resolved(r).writer = r.pendingWriter /\ Resolved(r).epoch = r.epoch + 1
         /\ ~ (r.pendingWriter # NoWriter /\ ClaimWon(r)) =>
              Resolved(r).writer = r.writer /\ Resolved(r).epoch = r.epoch
<1>1. CASE r.pendingWriter # NoWriter /\ ClaimWon(r)
  <2>1. r.epoch + 1 \in 0..MaxEpoch
    BY <1>1 DEF ClaimWon, ClientOK, ClientTypes
  <2>2. Resolved(r) = Resumed(r)
    BY <1>1 DEF Resolved
  <2> QED
    BY <1>1, <2>1, <2>2, ResumedIs
<1>2. CASE ~ (r.pendingWriter # NoWriter /\ ClaimWon(r))
  <2> DEFINE f == [r EXCEPT !.pendingWriter = 0]
  <2>1. Resolved(r) = f
    BY <1>2 DEF Resolved, NoWriter
  <2>2. r \in Row
    BY DEF Rows
  <2>3. f \in Row /\ f.last = r.last /\ f.writer = r.writer /\ f.epoch = r.epoch
    BY <2>2, Bounds DEF Row
  <2>4. r.pendingWriter = NoWriter => f = r
    BY <2>2 DEF Row, NoWriter
  <2>5. f # NoRow
    BY <2>2, <2>3, Bounds DEF Row, NoRow, NoWriter
  <2> HIDE DEF f
  <2> QED
    BY <1>2, <2>1, <2>3, <2>4, <2>5 DEF Rows
<1> QED
  BY <1>1, <1>2

LEMMA FinishingOK ==
  ASSUME ClientOK, NEW t \in Tabs,
         FinishRefused(t) \/ FinishSynced(t) \/ FinishAdopts(t) \/ FinishBlocked(t)
  PROVE  ClientOK' /\ ServerOK
<1>1. ServerOK
  BY UnchangedOK DEF FinishRefused, FinishSynced, FinishAdopts, FinishBlocked
<1>2. CASE FinishRefused(t) \/ FinishBlocked(t)
  BY <1>1, <1>2, StoppedOK, Typed
     DEF FinishRefused, FinishBlocked, KeepRecoverable, PutLocalSession, TabTypes
<1>3. CASE FinishAdopts(t)
  BY <1>1, <1>3, DeletedOK DEF FinishAdopts
<1>4. CASE FinishSynced(t)
  <2> DEFINE r == mem[t]
  <2>1. phase[t] \in Active
    BY <1>4 DEF FinishSynced, Active
  <2>2. r \in Rows /\ r # NoRow /\ r.last <= captured
    BY <2>1, Typed DEF TabOK
  <2>3. r.pendingWriter # NoWriter => epoch \in {r.epoch, r.epoch + 1}
    BY <1>4 DEF FinishSynced, ClaimNotSeen, ClaimWon
  <2>4. Resolved(r) \in Rows /\ Resolved(r) # NoRow /\ Resolved(r).last <= captured
    BY <2>2, <2>3, ResolvedIs
  <2>5. PICK p \in {"finishGap", "finalizing"} : Enter(t, p)
    BY <1>4 DEF FinishSynced, BeginFinalize
  <2>6. row' \in {row, Resolved(r)} /\ mem' = [mem EXCEPT ![t] = Resolved(r)]
        /\ UNCHANGED <<spool, started, drawn, captured, pending, fenced, lock>>
    BY <1>4 DEF FinishSynced, BeginFinalize, Remember, PutLocalSession, counters
  <2>7. drawn' \in 0..MaxWriters
    BY <2>6, Typed DEF StorageTypes
  <2> HIDE DEF r
  <2> QED
    BY <1>1, <2>1, <2>4, <2>5, <2>6, <2>7, PhaseFacts, ActsOn
<1> QED
  BY <1>1, <1>2, <1>3, <1>4

LEMMA FinalizingOK ==
  ASSUME ClientOK, NEW t \in Tabs, Complete(t) \/ FinalizeFails(t)
  PROVE  ClientOK' /\ ServerOK
<1>1. phase[t] \in Active
  BY DEF Complete, FinalizeFails, Active
<1>2. CASE Complete(t)
  <2>1. Server!Finalize(mem[t].writer, mem[t].epoch, mem[t].last, mem[t].last, {})
          => Handle(FinalizeRequest(mem[t]))
    BY DEF Handle, FinalizeRequest
  <2>2. ServerOK
    BY <1>1, <1>2, <2>1, GapSensible, HandledOK, UnchangedOK DEF Complete
  <2> QED
    BY <1>2, <2>2, DeletedOK DEF Complete
<1>3. CASE FinalizeFails(t)
  <2>1. ServerOK
    BY <1>1, <1>3, GapSensible, UnansweredOK DEF FinalizeFails
  <2>2. fenced' \in SUBSET Tabs
    BY <1>3, Typed DEF FinalizeFails, FenceIf, TabTypes
  <2> QED
    BY <1>3, <2>1, <2>2, StoppedOK DEF FinalizeFails, KeepRecoverable, PutLocalSession
<1> QED
  BY <1>2, <1>3

LEMMA LateOK ==
  ASSUME ClientOK, LateArrival
  PROVE  ClientOK' /\ ServerOK
<1>1. PICK r \in late : late' = late \ {r} /\ (Handle(r) \/ UNCHANGED server)
  BY DEF LateArrival
<1>2. Sensible(r) /\ epoch \in 0..MaxEpoch /\ \A q \in late' : Sensible(q)
  BY <1>1 DEF ClientOK, ClientTypes
<1>3. ServerSteps /\ epoch' \in 0..MaxEpoch
  BY <1>1, <1>2, HandleIsServerStep DEF ServerSteps, server
<1>4. UNCHANGED <<storage, counters, tabs>>
  BY DEF LateArrival
<1>5. ClientTypes'
  BY <1>3, <1>4 DEF ClientOK, ClientTypes, storage, counters, tabs
<1>6. \A t \in Tabs : TabOK(t)'
  BY <1>4 DEF ClientOK, TabOK, counters, tabs
<1> QED
  BY <1>2, <1>3, <1>5, <1>6 DEF ClientOK, ServerOK

LEMMA NextClientOK ==
  ASSUME ClientOK, [Next]_vars
  PROVE  ClientOK' /\ ServerSteps
<1>1. CASE LateArrival
  BY <1>1, LateOK DEF ServerOK
<1>2. ASSUME NEW t \in Tabs, Step(t) \/ TakesUp(t) \/ CaptureBreaksOver(t)
      PROVE  ClientOK' /\ ServerSteps
  BY <1>2, OpeningOK, StartingOK, RecordingOK, SyncOK, RecoverOK, ResumingOK, ClaimingOK,
     GapsOK, FinishingOK, FinalizingOK DEF ServerOK, Step, TakesUp
<1>3. CASE UNCHANGED vars
  <2>1. UNCHANGED <<server, storage, counters, tabs, late>>
    BY <1>3 DEF vars
  <2>2. ServerSteps /\ epoch' = epoch
    BY <2>1 DEF ServerSteps, server
  <2>3. ClientTypes'
    BY <2>1, <2>2 DEF ClientOK, ClientTypes, storage, counters, tabs
  <2>4. \A t \in Tabs : TabOK(t)'
    BY <2>1 DEF ClientOK, TabOK, counters, tabs
  <2> QED
    BY <2>1, <2>2, <2>3, <2>4 DEF ClientOK
<1> QED
  BY <1>1, <1>2, <1>3 DEF Next

LEMMA ClientOKHolds == Spec => []ClientOK
BY InitClientOK, NextClientOK, PTL DEF Spec

\* A browser, with any number of tabs, is a client of RecordingSession: all its steps,
\* with what it sends late or never gets an answer to, are steps of the server or leave
\* it alone.
THEOREM ComposesWithServer == Spec => Server!Spec
<1>1. Init => Server!Init
  BY InitClientOK
<1>2. ClientOK /\ [Next]_vars => [Server!Next]_Server!vars
  BY NextClientOK DEF ServerSteps, server, Server!vars
<1> QED
  BY <1>1, <1>2, ClientOKHolds, PTL DEF Spec, Server!Spec

\* The tabs of one browser never record, resume or finish at the same time: whoever does
\* holds the Web Lock of the session, and a tab that stops, crashes or is refused lets
\* go of it for itself only.
THEOREM TabsTakeTurns == Spec => []OneActiveTab
<1>1. ClientOK => OneActiveTab
  BY DEF ClientOK, TabOK, OneActiveTab
<1> QED
  BY <1>1, ClientOKHolds, PTL

-----------------------------------------------------------------------------
(* The theorems of RecordingSessionProofs hold of the composition.          *)

LEMMA ServerConstants == ServerProofs!RecordingAssumption
BY BrowserAssumption DEF ServerProofs!RecordingAssumption, NoWriter, Capability

\* The instance of the proofs speaks of the same server as BrowserRecorder does.
LEMMA SameNext == [Server!Next]_Server!vars => [ServerProofs!Next]_ServerProofs!vars
BY Zenon
   DEF Server!Next, ServerProofs!Next, Server!vars, ServerProofs!vars,
       Server!CreateSession, ServerProofs!CreateSession,
       Server!HeartbeatExpires, ServerProofs!HeartbeatExpires,
       Server!ReadSession, ServerProofs!ReadSession,
       Server!ClaimCapture, ServerProofs!ClaimCapture,
       Server!RetryClaim, ServerProofs!RetryClaim,
       Server!Heartbeat, ServerProofs!Heartbeat,
       Server!AcceptChunk, ServerProofs!AcceptChunk,
       Server!AcceptChunkCrash, ServerProofs!AcceptChunkCrash,
       Server!DeclareGap, ServerProofs!DeclareGap,
       Server!Finalize, ServerProofs!Finalize,
       Server!ownership, ServerProofs!ownership, Server!boundary, ServerProofs!boundary,
       Server!outcome, ServerProofs!outcome,
       Server!StateAfterStaleCheck, ServerProofs!StateAfterStaleCheck,
       Server!Claimable, ServerProofs!Claimable,
       Server!ValidWriter, ServerProofs!ValidWriter,
       Server!MayStoreChunk, ServerProofs!MayStoreChunk,
       Server!Accepted, ServerProofs!Accepted,
       Server!CanAcceptChunks, ServerProofs!CanAcceptChunks,
       Server!WithinBoundary, ServerProofs!WithinBoundary,
       Server!NoBoundary, ServerProofs!NoBoundary,
       Server!CommitBytes, ServerProofs!CommitBytes, Server!Chunk, ServerProofs!Chunk,
       Server!CoveredBy, ServerProofs!CoveredBy, Server!Expected, ServerProofs!Expected,
       Server!Missing, ServerProofs!Missing,
       Server!BoundaryAdmissible, ServerProofs!BoundaryAdmissible,
       Server!FinalizeGap, ServerProofs!FinalizeGap,
       Server!NothingMissing, ServerProofs!NothingMissing,
       Server!Classify, ServerProofs!Classify

LEMMA SameSpec == Server!Spec => ServerProofs!Spec
<1>1. Server!Init => ServerProofs!Init
  BY DEF Server!Init, ServerProofs!Init, Server!NoBoundary, ServerProofs!NoBoundary,
     Server!NoFinalizer, ServerProofs!NoFinalizer
<1> QED
  BY <1>1, SameNext, PTL DEF Server!Spec, ServerProofs!Spec

LEMMA ServerTypes == Spec => []Server!TypeOK
<1>1. ServerProofs!TypeOK => Server!TypeOK
  BY DEF Server!TypeOK, ServerProofs!TypeOK, Server!States, ServerProofs!States,
     Server!Chunk, ServerProofs!Chunk, Server!Gap, ServerProofs!Gap,
     Server!FinalizeGap, ServerProofs!FinalizeGap,
     Server!NoBoundary, ServerProofs!NoBoundary,
     Server!NoFinalizer, ServerProofs!NoFinalizer
<1>2. ServerProofs!Spec => []ServerProofs!TypeOK
  BY ServerConstants, ServerProofs!TypeCorrect
<1> QED
  BY <1>1, <1>2, ComposesWithServer, SameSpec, PTL

\* Types, of the server and of what browsers store and hold, for any tabs and bounds.
THEOREM TypeCorrect == Spec => []TypeOK
<1>1. ClientOK /\ Server!TypeOK => TypeOK
  BY DEF ClientOK, ClientTypes, TypeOK, Rows
<1> QED
  BY <1>1, ClientOKHolds, ServerTypes, PTL

-----------------------------------------------------------------------------
(* No audio is lost, stranded or left out of a completed recording, and only *)
(* a late claim takes a session out of the browser's hands, for every number *)
(* of tabs, chunks, writers, generations and late requests, in the behaviors *)
(* of CarefulSpec: a tab that takes up a session again holds the row as it   *)
(* is, and capture does not break during the transaction of a chunk.  In     *)
(* others audio can be lost (browser_broken_capture).                        *)

\* The session as the tab that holds the lock has it, or else the row.  They differ when
\* a tab that finds the recording complete deletes the row behind the other's back.
Session == IF lock = NoTab THEN row ELSE mem[lock]

\* Phases in which a tab may still add audio to the session's generation, and phases in
\* which it is about to end it.
Capturing == {"resumeGap", "recording", "stopping", "locking", "broken"}
Settling == {"claiming", "finishGap", "finalizing"}

\* Nothing awaits its ACK and nothing is captured.
Quiet == spool = {} /\ \A t \in Tabs : phase[t] \notin Capturing

\* All chunks there are, in the browser, on the server and between them.
Held == spool \cup chunks \cup {r.chunk : r \in {q \in late : q.kind = "chunk"}}

\* A request that fits: it carries a chunk there is, or ends a generation in which no
\* more audio can come, at the high-water mark.
Apt(r) ==
  /\ r.kind # "create" => started
  /\ r.kind = "chunk" => r.chunk \in Held
  /\ r.kind \in {"claim", "finalize"} /\ Session # NoRow =>
       /\ r.epoch <= Session.epoch
       /\ r.epoch = Session.epoch => Quiet /\ (r.kind = "finalize" => r.final = captured)

\* Whoever holds the lock acts, on the session as the row has it; the session counts all
\* chunks; without a row the recording has not begun or is complete.
RowOK ==
  /\ lock # NoTab => phase[lock] \in Active /\ row \in {NoRow, mem[lock]}
  /\ Session # NoRow => Session.last = captured
  /\ \A t \in Tabs : mem[t] # NoRow => started
  /\ row # NoRow => started
  /\ ~ started => captured = 0
  /\ ~ started => state = "none" \/ (state = "recording" /\ epoch = 1 /\ writer = 1)
  /\ started /\ row = NoRow => state = "complete"

\* Sequence numbers identify chunks, and audio in the spool is of the session's generation.
AudioOK ==
  /\ \A c \in Held : c.seq = c.payload /\ c.seq <= captured
  /\ \A c, d \in Held : c.seq = d.seq => c = d
  /\ \A t \in Tabs : pending[t] \subseteq spool \cup chunks
  /\ \A c \in spool : Session # NoRow /\ c.epoch = Session.epoch /\ c.writer = Session.writer

\* The server is at the session's generation, or no more audio comes.
GenerationOK ==
  /\ Session # NoRow =>
       /\ epoch \in {Session.epoch, Session.epoch + 1}
       /\ epoch = Session.epoch /\ state # "complete" => writer = Session.writer
       /\ epoch # Session.epoch \/ state \in {"finalizing", "complete"} => Quiet
  /\ \A t \in Tabs : phase[t] \in Settling => spool = {}

\* A boundary is the high-water mark, and completion means each sequence was accepted.
EndOK ==
  /\ finalSequence # Server!NoBoundary => finalSequence = captured
  /\ state = "complete" => \A n \in 1..finalSequence : \E c \in chunks : c.seq = n
  /\ \A g \in gaps : g.covers = {}

\* A tab that adds audio without the lock holds the row, and nobody else adds any.
PoisedOK ==
  \A t \in Tabs : phase[t] \in Poised =>
    /\ lock = NoTab /\ row # NoRow /\ mem[t] = row
    /\ \A u \in Tabs : phase[u] \in Poised => u = t

AudioInv ==
  RowOK /\ AudioOK /\ GenerationOK /\ EndOK /\ PoisedOK /\ \A r \in late : Apt(r)
Types == ClientOK /\ Server!TypeOK

LEMMA InitAudioInv == Init => AudioInv
<1> SUFFICES ASSUME Init PROVE AudioInv
  OBVIOUS
<1>1. Held = {}
  BY DEF Init, Held, Server!Init
<1>2. RowOK
  BY DEF Init, RowOK, Session, Server!Init
<1>3. AudioOK
  BY <1>1 DEF Init, AudioOK
<1>4. GenerationOK /\ EndOK
  BY DEF Init, GenerationOK, EndOK, Session, Settling, Server!Init
<1>5. PoisedOK
  BY DEF Init, PoisedOK, Poised
<1> QED
  BY <1>2, <1>3, <1>4, <1>5 DEF Init, AudioInv

-----------------------------------------------------------------------------
(* What a step of the server leaves true of it and the browser as it was.   *)

ServerFits ==
  /\ Session # NoRow =>
       /\ epoch' \in {Session.epoch, Session.epoch + 1}
       /\ epoch' = Session.epoch /\ state' # "complete" => writer' = Session.writer
       /\ epoch' # Session.epoch \/ state' \in {"finalizing", "complete"} => Quiet
  /\ ~ started => state' = "none" \/ (state' = "recording" /\ epoch' = 1 /\ writer' = 1)
  /\ started /\ row = NoRow => state' = "complete"
  /\ chunks \subseteq chunks' /\ chunks' \subseteq Held
  /\ finalSequence' # Server!NoBoundary => finalSequence' = captured
  /\ state' = "complete" => \A n \in 1..finalSequence' : \E c \in chunks' : c.seq = n
  /\ \A g \in gaps' : g.covers = {}

LEMMA CalmFits ==
  ASSUME AudioInv, UNCHANGED <<state, writer, epoch, chunks, gaps, finalSequence>>
  PROVE  ServerFits
BY DEF AudioInv, RowOK, GenerationOK, EndOK, Held, ServerFits

LEMMA SessionIs ==
  ASSUME Types, AudioInv
  PROVE  /\ row # NoRow => Session = row
         /\ Session \in Rows
         /\ Session # NoRow => /\ Session \in Row /\ Session.epoch \in 1..MaxEpoch
                              /\ Session.last = captured /\ started
         /\ Session = NoRow => row = NoRow
<1>1. Session \in Rows
  BY DEF Session, Types, ClientOK, ClientTypes
<1>2. Session # NoRow => Session \in Row /\ Session.epoch \in 1..MaxEpoch
  BY <1>1 DEF Rows, Row
<1>3. Session # NoRow => started
  BY DEF Session, AudioInv, RowOK, Types, ClientOK, ClientTypes
<1>4. row # NoRow => Session = row
  BY DEF Session, AudioInv, RowOK
<1> QED
  BY <1>1, <1>2, <1>3, <1>4 DEF AudioInv, RowOK

LEMMA StartedNotNone ==
  ASSUME Types, AudioInv, started
  PROVE  state # "none"
<1>1. CASE row = NoRow
  BY <1>1 DEF AudioInv, RowOK
<1>2. CASE row # NoRow
  <2>1. Session # NoRow /\ Session.epoch \in 1..MaxEpoch
    BY <1>2, SessionIs
  <2>2. epoch # 0
    BY <2>1, Bounds DEF AudioInv, GenerationOK
  <2> QED
    BY <2>2 DEF Types, Server!TypeOK
<1> QED
  BY <1>1, <1>2

LEMMA HandleFits ==
  ASSUME Types, AudioInv, NEW r, Sensible(r), Apt(r), Handle(r)
  PROVE  ServerFits
<1>1. CASE r.kind = "create"
  <2>1. Server!CreateSession(1, Capability)
    BY <1>1 DEF Handle
  <2>2. state = "none" /\ state' = "recording" /\ writer' = 1 /\ epoch' = 1
        /\ UNCHANGED <<chunks, gaps, finalSequence>>
    BY <2>1 DEF Server!CreateSession, Server!boundary
  <2>3. ~ started /\ Session = NoRow
    BY <2>2, StartedNotNone, SessionIs
  <2> QED
    BY <2>2, <2>3 DEF AudioInv, EndOK, Held, ServerFits
<1>2. CASE r.kind = "claim"
  <2>1. Server!ClaimCapture(r.writer, Capability, r.epoch)
    BY <1>2 DEF Handle
  <2>2. state \notin {"none", "finalizing", "complete"} /\ epoch = r.epoch
        /\ epoch' = r.epoch + 1 /\ state' = "recording"
        /\ UNCHANGED <<chunks, gaps, finalSequence>>
    BY <2>1 DEF Server!ClaimCapture, Server!Claimable, Server!StateAfterStaleCheck,
       Server!boundary
  <2>3. started /\ row # NoRow /\ Session # NoRow
    BY <1>2, <2>2, SessionIs DEF Apt, AudioInv, RowOK
  <2>4. Session.epoch \in Nat /\ r.epoch \in Nat
    BY <1>2, <2>3, Bounds, SessionIs DEF Sensible
  <2>5. r.epoch = Session.epoch /\ Quiet
    BY <1>2, <2>2, <2>3, <2>4 DEF Apt, AudioInv, GenerationOK
  <2> QED
    BY <2>2, <2>3, <2>4, <2>5 DEF AudioInv, EndOK, Held, ServerFits
<1>3. CASE r.kind = "chunk"
  <2>1. Server!AcceptChunk(r.chunk) /\ r.chunk \in Held
    BY <1>3 DEF Handle, Apt
  <2>2. chunks' = chunks \cup {r.chunk} /\ UNCHANGED <<state, writer, epoch, gaps, finalSequence>>
    BY <2>1 DEF Server!AcceptChunk, Server!ownership, Server!boundary
  <2>3. chunks \subseteq chunks' /\ chunks' \subseteq Held
    BY <2>1, <2>2 DEF Held
  <2> QED
    BY <2>2, <2>3 DEF AudioInv, RowOK, GenerationOK, EndOK, ServerFits
<1>4. CASE r.kind = "gap"
  <2>1. Server!DeclareGap(r.id, r.writer, r.epoch, {})
    BY <1>4 DEF Handle
  <2> DEFINE g == [id |-> r.id, writer |-> r.writer, epoch |-> r.epoch, covers |-> {}]
  <2>2. gaps' = gaps \cup {g} /\ UNCHANGED <<state, writer, epoch, chunks, finalSequence>>
    BY <2>1 DEF Server!DeclareGap, Server!ownership, Server!boundary
  <2>3. g.covers = {}
    OBVIOUS
  <2> HIDE DEF g
  <2>4. \A h \in gaps' : h.covers = {}
    BY <2>2, <2>3 DEF AudioInv, EndOK
  <2> QED
    BY <2>2, <2>4 DEF AudioInv, RowOK, GenerationOK, EndOK, Held, ServerFits
<1>5. CASE r.kind = "finalize"
  <2> DEFINE before == Server!CoveredBy(gaps, r.final)
             declared == Server!Missing(r.final, before) \cap {}
  <2>1. Server!Finalize(r.writer, r.epoch, r.final, r.final, {})
    BY <1>5 DEF Handle
  <2>2. before = {} /\ declared = {}
    BY DEF AudioInv, EndOK, Server!CoveredBy
  <2>3. /\ state # "complete" /\ state # "none" /\ writer = r.writer /\ epoch = r.epoch
        /\ finalSequence' = r.final /\ UNCHANGED <<gaps, epoch, chunks>>
    BY <2>1, <2>2 DEF Server!Finalize, Server!ValidWriter
  <2>4. \/ state' = "complete" /\ Server!NothingMissing(r.final, {})
        \/ state' = "finalizing" /\ writer' = writer
    BY <2>1, <2>2 DEF Server!Finalize
  <2>5. Server!NothingMissing(r.final, {}) =>
          \A n \in 1..r.final : \E c \in chunks : c.seq = n
    BY DEF Server!NothingMissing, Server!Missing, Server!Expected, Server!Accepted
  <2>6. started /\ row # NoRow /\ Session # NoRow
    BY <1>5, <2>3, SessionIs DEF Apt, AudioInv, RowOK
  <2>7. Session.epoch \in Nat /\ r.epoch \in Nat
    BY <1>5, <2>6, Bounds, SessionIs DEF Sensible
  <2>8. r.epoch = Session.epoch /\ Quiet /\ r.final = captured
    BY <1>5, <2>3, <2>6, <2>7 DEF Apt, AudioInv, GenerationOK
  <2> HIDE DEF before, declared
  <2> QED
    BY <2>3, <2>4, <2>5, <2>6, <2>7, <2>8 DEF AudioInv, GenerationOK, EndOK, Held, ServerFits
<1> QED
  BY <1>1, <1>2, <1>3, <1>4, <1>5 DEF Sensible

LEMMA UnansweredFits ==
  ASSUME Types, AudioInv, NEW r, Sensible(r), Apt(r), Unanswered(r)
  PROVE  ServerFits /\ \A q \in late' : Apt(q)
<1>1. CASE Handle(r) /\ UNCHANGED late
  BY <1>1, HandleFits DEF AudioInv
<1>2. CASE late' = late \cup {r} /\ UNCHANGED server
  BY <1>2, CalmFits DEF AudioInv, server
<1>3. CASE UNCHANGED <<server, late>>
  BY <1>3, CalmFits DEF AudioInv, server
<1> QED
  BY <1>1, <1>2, <1>3 DEF Unanswered

-----------------------------------------------------------------------------
(* What a step of the tab leaves true.                                     *)

\* What leaves the spool is on the server.
Kept == \A c \in spool : c \in spool' \/ c \in chunks'

\* The session goes on, with the same writer, generation and end, or it is over.
SameGeneration ==
  \/ Session' = NoRow /\ (Session = NoRow \/ state' = "complete")
  \/ /\ Session # NoRow /\ Session' # NoRow
     /\ Session'.writer = Session.writer /\ Session'.epoch = Session.epoch
     /\ Session'.last = Session.last

HolderActs == lock # NoTab => phase[lock] \in Active /\ row \in {NoRow, mem[lock]}

\* What happens to the lock, the row and the session.
Orderly ==
  /\ SameGeneration
  /\ HolderActs'
  /\ PoisedOK'
  /\ row' # NoRow => started
  /\ row' = NoRow => row = NoRow \/ state' = "complete"

\* What happens to a tab that captures nothing.
TabKeeps(t) ==
  /\ pending'[t] \subseteq pending[t] \cup spool
  /\ mem'[t] # NoRow => started
  /\ phase'[t] \in Capturing => phase[t] \in Capturing
  /\ phase'[t] \in Settling => spool' = {}

OthersKeep(t) ==
  \A u \in Tabs \ {t} : phase'[u] = phase[u] /\ mem'[u] = mem[u] /\ pending'[u] = pending[u]

LEMMA HeldShrinks ==
  ASSUME ServerFits, \A q \in late' : q \in late \/ Apt(q), spool' \subseteq spool
  PROVE  Held' \subseteq Held /\ \A q \in late' : q.kind = "chunk" => q.chunk \in Held'
BY DEF ServerFits, Apt, Held

\* Nothing is left in the browser of a recording that is complete or has no session.
LEMMA NothingLeft ==
  ASSUME AudioInv, ServerFits, Session = NoRow \/ state' = "complete"
  PROVE  spool = {}
BY DEF AudioInv, AudioOK, ServerFits, Quiet

\* A step that captures nothing and stays with the session's generation.
LEMMA StepsKeep ==
  ASSUME AudioInv, ServerFits, \A q \in late' : q \in late \/ Apt(q),
         Orderly, UNCHANGED <<started, captured>>,
         spool' \subseteq spool, spool \subseteq spool' \cup chunks',
         \A t \in Tabs : TabKeeps(t)
  PROVE  AudioInv' /\ Kept
<1>1. Held' \subseteq Held /\ \A q \in late' : q.kind = "chunk" => q.chunk \in Held'
  BY HeldShrinks
<1>2. Quiet => Quiet'
  BY DEF Quiet, TabKeeps
<1>3. \A q \in late' : Apt(q)
  BY DEF AudioInv
<1>4. \A q \in late' : Apt(q)'
  BY <1>1, <1>2, <1>3 DEF Apt, Orderly, SameGeneration
<1>5. RowOK'
  <2>1. Session' # NoRow => Session'.last = captured'
    BY DEF AudioInv, RowOK, Orderly, SameGeneration
  <2>2. started' /\ row' = NoRow => state' = "complete"
    BY DEF ServerFits, Orderly
  <2>3. HolderActs' /\ (row' # NoRow => started') /\ \A t \in Tabs : mem'[t] # NoRow => started'
    BY DEF Orderly, TabKeeps
  <2>4. ~ started' => /\ captured' = 0
                      /\ state' = "none" \/ (state' = "recording" /\ epoch' = 1 /\ writer' = 1)
    BY DEF AudioInv, RowOK, ServerFits
  <2> QED
    BY <2>1, <2>2, <2>3, <2>4 DEF RowOK, HolderActs
<1>6. \A t \in Tabs : pending'[t] \subseteq spool' \cup chunks'
  BY DEF AudioInv, AudioOK, ServerFits, TabKeeps
<1>7. \A c \in spool' : Session' # NoRow /\ c.epoch = Session'.epoch /\ c.writer = Session'.writer
  BY NothingLeft DEF AudioInv, AudioOK, Orderly, SameGeneration
<1>8. AudioOK'
  BY <1>1, <1>6, <1>7 DEF AudioInv, AudioOK
<1>9. GenerationOK'
  BY <1>2 DEF ServerFits, Orderly, SameGeneration, GenerationOK, TabKeeps
<1>10. EndOK'
  BY DEF ServerFits, EndOK
<1> QED
  BY <1>4, <1>5, <1>8, <1>9, <1>10 DEF AudioInv, Kept, Orderly

LEMMA StepKeeps ==
  ASSUME Types, AudioInv, ServerFits, \A q \in late' : q \in late \/ Apt(q),
         NEW t \in Tabs, OthersKeep(t), Orderly, UNCHANGED <<started, captured>>,
         spool' \subseteq spool, spool \subseteq spool' \cup chunks',
         TabKeeps(t)
  PROVE  AudioInv' /\ Kept
<1>1. ASSUME NEW u \in Tabs, u # t PROVE TabKeeps(u)
  <2>1. phase'[u] = phase[u] /\ mem'[u] = mem[u] /\ pending'[u] = pending[u]
    BY <1>1 DEF OthersKeep
  <2>2. (phase[u] \in Settling => spool = {}) /\ (mem[u] # NoRow => started)
    BY DEF AudioInv, GenerationOK, RowOK
  <2> QED
    BY <2>1, <2>2 DEF TabKeeps
<1> QED
  BY <1>1, StepsKeep

-----------------------------------------------------------------------------
(* What a step makes of the lock, the row and the session.                 *)

LEMMA Holder ==
  ASSUME Types, AudioInv, NEW t \in Tabs
  PROVE  /\ phase[t] \in Active => /\ lock = t /\ Session = mem[t] /\ mem[t] # NoRow
                                   /\ row \in {NoRow, mem[t]}
         /\ phase[t] \notin Active => lock # t
         /\ t # NoTab /\ (mem[t] # NoRow => started) /\ (row # NoRow => started)
BY BrowserAssumption DEF Types, ClientOK, TabOK, AudioInv, RowOK, Session

\* Nobody else is poised while a tab acts, or when the recording is complete.
LEMMA NobodyPoised ==
  ASSUME Types, AudioInv, NEW t \in Tabs,
         phase[t] \in Active \/ (ServerFits /\ state' = "complete")
  PROVE  \A u \in Tabs : phase[u] \notin Poised
<1> SUFFICES ASSUME NEW u \in Tabs, phase[u] \in Poised PROVE FALSE
  OBVIOUS
<1>1. lock = NoTab /\ row # NoRow
  BY DEF AudioInv, PoisedOK
<1>2. Session # NoRow /\ ~ Quiet
  BY <1>1, SessionIs DEF Quiet, Capturing, Poised
<1> QED
  BY <1>1, <1>2, Holder DEF ServerFits

\* A step after which nobody else is poised, or nothing changes for one who is.
LEMMA PoisedKept ==
  ASSUME Types, AudioInv, NEW t \in Tabs, OthersKeep(t),
         UNCHANGED <<lock, row>> \/ \A u \in Tabs \ {t} : phase[u] \notin Poised,
         phase'[t] \in Poised =>
           lock' = NoTab /\ row' # NoRow /\ mem'[t] = row'
           /\ \A u \in Tabs \ {t} : phase[u] \notin Poised
  PROVE  PoisedOK'
<1>1. \A u \in Tabs : u # t => phase'[u] = phase[u] /\ mem'[u] = mem[u]
  BY DEF OthersKeep
<1> SUFFICES ASSUME NEW u \in Tabs, phase'[u] \in Poised
             PROVE  /\ lock' = NoTab /\ row' # NoRow /\ mem'[u] = row'
                    /\ \A v \in Tabs : phase'[v] \in Poised => v = u
  BY DEF PoisedOK
<1>2. CASE u = t
  BY <1>1, <1>2
<1>3. CASE u # t
  <2>1. phase[u] \in Poised /\ phase'[t] \notin Poised /\ UNCHANGED <<lock, row>>
    BY <1>1, <1>3
  <2> QED
    BY <1>1, <1>3, <2>1 DEF AudioInv, PoisedOK
<1> QED
  BY <1>2, <1>3

\* A step that leaves lock and row alone, and what the holder of the lock works on.
LEMMA LockKept ==
  ASSUME Types, AudioInv, NEW t \in Tabs, OthersKeep(t), UNCHANGED <<lock, row>>,
         phase[t] \notin Active \/ (phase'[t] \in Active /\ mem'[t] = mem[t]),
         phase'[t] \in Poised => phase[t] \in Poised /\ mem'[t] = mem[t]
  PROVE  Orderly
<1>1. lock # NoTab => lock \in Tabs /\ mem'[lock] = mem[lock] /\ phase'[lock] \in Active
  BY Holder DEF OthersKeep, AudioInv, RowOK, Types, ClientOK, ClientTypes
<1>2. Session' = Session
  BY <1>1 DEF Session
<1>3. HolderActs'
  BY <1>1 DEF HolderActs, AudioInv, RowOK
<1>4. PoisedOK'
  <2>1. phase'[t] \in Poised =>
          lock' = NoTab /\ row' # NoRow /\ mem'[t] = row'
          /\ \A u \in Tabs \ {t} : phase[u] \notin Poised
    BY DEF AudioInv, PoisedOK
  <2> QED
    BY <2>1, PoisedKept
<1> QED
  BY <1>2, <1>3, <1>4, Holder DEF Orderly, SameGeneration

\* The holder of the lock goes on, and what it puts in the row is what it holds.
LEMMA LockHeld ==
  ASSUME Types, AudioInv, NEW t \in Tabs, phase[t] \in Active, phase'[t] \in Active,
         OthersKeep(t), lock' = lock, row' = mem'[t] \/ (row' = row /\ mem'[t] = mem[t])
  PROVE  /\ Session' = mem'[t] /\ HolderActs' /\ PoisedOK'
         /\ row' # NoRow => started
         /\ row' = NoRow /\ mem'[t] # NoRow => row = NoRow
<1>1. lock' = t /\ t # NoTab /\ row \in {NoRow, mem[t]} /\ started
  BY Holder
<1>2. PoisedOK'
  <2>1. phase'[t] \notin Poised
    BY DEF Active, Poised
  <2> QED
    BY <2>1, NobodyPoised, PoisedKept
<1> QED
  BY <1>1, <1>2 DEF Session, HolderActs

\* The holder of the lock lets go of it.
LEMMA LockReleased ==
  ASSUME Types, AudioInv, ServerFits, NEW t \in Tabs, phase[t] \in Active, Unlock(t),
         OthersKeep(t), row' \in {row, mem[t]},
         phase'[t] \in Poised => row' = mem[t] /\ mem'[t] = mem[t]
  PROVE  Orderly
<1>1. lock' = NoTab /\ Session = mem[t] /\ mem[t] # NoRow /\ row \in {NoRow, mem[t]} /\ started
  BY Holder DEF Unlock
<1>2. Session' = row' /\ HolderActs'
  BY <1>1 DEF Session, HolderActs
<1>3. row' = NoRow => row = NoRow /\ state' = "complete"
  BY <1>1 DEF ServerFits
<1>4. PoisedOK'
  BY <1>1, NobodyPoised, PoisedKept
<1> QED
  BY <1>1, <1>2, <1>3, <1>4 DEF Orderly, SameGeneration

\* A tab that holds the row takes the lock.
LEMMA LockTaken ==
  ASSUME Types, AudioInv, NEW t \in Tabs, phase[t] \notin Active, LockFree(t), lock' = t,
         OthersKeep(t), UNCHANGED <<row, mem>>, Fresh(t), phase'[t] \in Active
  PROVE  Orderly
<1>1. lock = NoTab /\ t # NoTab /\ mem[t] = row
  BY Holder DEF LockFree, Fresh
<1>2. Session' = Session /\ HolderActs'
  BY <1>1 DEF Session, HolderActs
<1>3. PoisedOK'
  <2>1. phase'[t] \notin Poised
    BY DEF Active, Poised
  <2>2. \A u \in Tabs \ {t} : phase[u] \notin Poised
    BY DEF Fresh, Poised
  <2> QED
    BY <2>1, <2>2, PoisedKept
<1> QED
  BY <1>2, <1>3, Holder DEF Orderly, SameGeneration

\* A tab deletes the session of a recording that is complete.
LEMMA SessionDeleted ==
  ASSUME Types, AudioInv, NEW t \in Tabs, OthersKeep(t), row' = NoRow, state' = "complete",
         ServerFits, Unlock(t), phase'[t] \notin Active, phase'[t] \notin Poised
  PROVE  Orderly
<1>1. lock' = NoTab \/ (lock' = lock /\ lock \in Tabs \ {t})
  BY DEF Unlock, Types, ClientOK, ClientTypes
<1>2. Session' \in {NoRow, Session} /\ HolderActs'
  <2>1. CASE lock' = NoTab
    BY <2>1 DEF Session, HolderActs
  <2>2. CASE lock' = lock /\ lock \in Tabs \ {t} /\ lock # NoTab
    <3>1. mem'[lock] = mem[lock] /\ phase'[lock] \in Active
      BY <2>2 DEF OthersKeep, AudioInv, RowOK
    <3> QED
      BY <2>2, <3>1 DEF Session, HolderActs
  <2> QED
    BY <1>1, <2>1, <2>2
<1>3. PoisedOK'
  BY NobodyPoised, PoisedKept
<1> QED
  BY <1>2, <1>3 DEF Orderly, SameGeneration

\* The holder of the lock takes over the generation of a claim that was handled.
LEMMA TakeoverKeeps ==
  ASSUME Types, AudioInv, NEW t \in Tabs, phase[t] \in Active, phase'[t] \in Active,
         OthersKeep(t), lock' = lock,
         spool = {}, UNCHANGED <<spool, started, captured, pending, late>>,
         UNCHANGED <<chunks, gaps, finalSequence>>,
         row' # NoRow, row' = mem'[t],
         row'.epoch = Session.epoch + 1, row'.last = Session.last,
         epoch' = row'.epoch, writer' = row'.writer,
         state' \notin {"finalizing", "complete"}
  PROVE  AudioInv' /\ Kept
<1>1. Held' = Held
  BY DEF Held
<1>2. Session # NoRow /\ Session.epoch \in Nat /\ started /\ Session.last = captured
  BY Holder, SessionIs, Bounds
<1>3. Session' = row' /\ HolderActs' /\ PoisedOK'
  BY LockHeld
<1>4. \A q \in late : Apt(q)'
  <2> TAKE q \in late
  <2>1. Apt(q) /\ Sensible(q)
    BY DEF AudioInv, Types, ClientOK
  <2>2. q.kind \in {"claim", "finalize"} => q.epoch <= Session.epoch /\ q.epoch \in Nat
    BY <1>2, <2>1, Bounds DEF Apt, Sensible
  <2> QED
    BY <1>1, <1>2, <1>3, <2>1, <2>2 DEF Apt
<1>5. RowOK'
  BY <1>2, <1>3 DEF RowOK, HolderActs
<1>6. AudioOK'
  BY <1>1 DEF AudioInv, AudioOK
<1>7. GenerationOK'
  BY <1>3 DEF GenerationOK
<1>8. EndOK'
  BY DEF AudioInv, EndOK
<1> QED
  BY <1>3, <1>4, <1>5, <1>6, <1>7, <1>8 DEF AudioInv, Kept

-----------------------------------------------------------------------------
(* What the tab's requests carry fits.                                     *)

LEMMA Holding ==
  ASSUME Types, AudioInv, NEW t \in Tabs, phase[t] \in Active
  PROVE  /\ mem[t] = Session /\ mem[t] # NoRow /\ mem[t] \in Row /\ mem[t] \in Rows
         /\ mem[t].last = captured /\ started
         /\ mem[t].epoch \in 1..MaxEpoch /\ captured \in Nat
BY Holder, SessionIs, Bounds DEF Types, ClientOK, ClientTypes

LEMMA CreateApt == Apt(CreateRequest)
BY DEF Apt, CreateRequest

LEMMA GapApt ==
  ASSUME Types, AudioInv, NEW t \in Tabs, phase[t] \in Active, NEW id
  PROVE  Apt(GapRequest(mem[t], id))
BY Holding DEF Apt, GapRequest

LEMMA EndingApt ==
  ASSUME Types, AudioInv, NEW t \in Tabs, phase[t] \in Settling
  PROVE  /\ Apt(FinalizeRequest(mem[t]))
         /\ Apt(ClaimRequest(mem[t].pendingWriter, mem[t].epoch))
<1>1. phase[t] \in Active
  BY DEF Settling, Active
<1>2. Quiet
  <2>1. spool = {}
    BY DEF AudioInv, GenerationOK
  <2>2. ASSUME NEW u \in Tabs, phase[u] \in Capturing PROVE FALSE
    <3>1. u = t
      BY <1>1, <2>2, Holder, NobodyPoised DEF Capturing, Active, Poised
    <3> QED
      BY <2>2, <3>1 DEF Capturing, Settling
  <2> QED
    BY <2>1, <2>2 DEF Quiet
<1>3. mem[t] = Session /\ mem[t].last = captured /\ started /\ mem[t].epoch \in Int
  BY <1>1, Holding, Bounds
<1> QED
  BY <1>2, <1>3 DEF Apt, FinalizeRequest, ClaimRequest

LEMMA ChunkApt ==
  ASSUME Types, AudioInv, NEW t \in Tabs, pending[t] # {}
  PROVE  /\ Uploading(t) \in pending[t] /\ Uploading(t) \in Held
         /\ Uploading(t) \in Server!Chunk /\ started
         /\ Apt(ChunkRequest(Uploading(t)))
<1>1. Uploading(t) \in pending[t] /\ Uploading(t) \in Server!Chunk
  BY UploadingIs, Typed DEF Types
<1>2. Uploading(t) \in Held
  BY <1>1 DEF AudioInv, AudioOK, Held
<1>3. started
  BY <1>1, <1>2, Bounds DEF AudioInv, RowOK, AudioOK, Server!Chunk
<1> QED
  BY <1>1, <1>2, <1>3 DEF Apt, ChunkRequest

\* Reconciliation takes from the spool what the server has.
LEMMA ReconcileKeeps ==
  ASSUME AudioInv
  PROVE  Reconciled \subseteq spool /\ spool \subseteq Reconciled \cup chunks
<1>1. ASSUME NEW c \in spool, c.seq \in Server!Accepted
      PROVE  c \in chunks
  <2>1. PICK d \in chunks : d.seq = c.seq
    BY <1>1 DEF Server!Accepted
  <2> QED
    BY <2>1 DEF AudioInv, AudioOK, Held
<1> QED
  BY <1>1 DEF Reconciled

LEMMA UnchangedFits ==
  ASSUME AudioInv, UNCHANGED server
  PROVE  ServerFits /\ chunks' = chunks
BY CalmFits DEF server

-----------------------------------------------------------------------------
(* Each step.                                                              *)

LEMMA PhaseKinds ==
  /\ {"closed", "idle", "starting", "error", "recoverable", "complete", "resuming",
      "finishing"} \cap (Capturing \cup Settling) = {}
  /\ "stopping" \in Capturing /\ "recording" \in Capturing /\ "resumeGap" \in Capturing
  /\ "claiming" \in Settling /\ "finishGap" \in Settling /\ "finalizing" \in Settling
  /\ Capturing \cap Settling = {} /\ Capturing \cup Settling \subseteq Active \cup Poised
  /\ {"closed", "idle", "starting", "error", "recoverable", "complete"}
       \cap (Active \cup Poised) = {}
  /\ "resuming" \in Active /\ "finishing" \in Active /\ "recording" \in Active
  /\ Settling \subseteq Active /\ Active \cap Poised = {} /\ Poised \subseteq Capturing
  /\ Poised = {"locking", "broken"}
BY DEF Capturing, Settling, Active, Poised

LEMMA EnterIs ==
  ASSUME Types, NEW t \in Tabs, NEW p, Enter(t, p)
  PROVE  phase'[t] = p /\ \A u \in Tabs \ {t} : phase'[u] = phase[u]
BY Typed DEF Types, Enter, TabTypes

LEMMA RememberIs ==
  ASSUME Types, NEW t \in Tabs, NEW r, Remember(t, r)
  PROVE  mem'[t] = r /\ \A u \in Tabs \ {t} : mem'[u] = mem[u]
BY Typed DEF Types, Remember, TabTypes

LEMMA PendingIs ==
  ASSUME Types, NEW t \in Tabs, NEW s, pending' = [pending EXCEPT ![t] = s]
  PROVE  pending'[t] = s /\ \A u \in Tabs \ {t} : pending'[u] = pending[u]
BY Typed DEF Types, TabTypes

LEMMA OpeningKeeps ==
  ASSUME Types, AudioInv, NEW t \in Tabs,
         OpenFresh(t) \/ OpenFenced(t) \/ OpenRecoverable(t) \/ BeginStart(t) \/ StartFails(t)
  PROVE  AudioInv' /\ Kept
<1>1. ServerFits /\ \A q \in late' : q \in late \/ Apt(q)
  <2>1. CASE StartFails(t) /\ ~ started
    BY <2>1, CreateApt, CreateSensible, UnansweredFits DEF StartFails
  <2>2. CASE UNCHANGED <<server, late>>
    BY <2>2, UnchangedFits
  <2> QED
    BY <2>1, <2>2
       DEF OpenFresh, OpenFenced, OpenRecoverable, BeginStart, StartFails
<1>2. PICK p \in {"idle", "recoverable", "starting", "error"} : Enter(t, p)
  BY DEF OpenFresh, OpenFenced, OpenRecoverable, BeginStart, StartFails
<1>3. phase'[t] \notin Capturing /\ phase'[t] \notin Settling /\ phase'[t] \notin Poised
      /\ \A u \in Tabs \ {t} : phase'[u] = phase[u]
  BY <1>2, EnterIs, PhaseKinds
<1>4. UNCHANGED <<row, started, captured, lock, pending>>
      /\ (spool' = spool \/ spool' = Reconciled)
      /\ (mem' = mem \/ Remember(t, row))
  BY DEF OpenFresh, OpenFenced, OpenRecoverable, BeginStart, StartFails, storage, counters
<1>5. spool' \subseteq spool /\ spool \subseteq spool' \cup chunks'
  BY <1>1, <1>4, ReconcileKeeps DEF ServerFits
<1>6. mem'[t] \in {mem[t], row} /\ \A u \in Tabs \ {t} : mem'[u] = mem[u]
  BY <1>4, RememberIs
<1>7. OthersKeep(t) /\ TabKeeps(t)
  BY <1>3, <1>4, <1>6, Holder DEF OthersKeep, TabKeeps
<1>8. phase[t] \notin Active
  BY DEF OpenFresh, OpenFenced, OpenRecoverable, BeginStart, StartFails, Active
<1>9. Orderly
  BY <1>3, <1>4, <1>7, <1>8, LockKept
<1> QED
  BY <1>1, <1>4, <1>5, <1>7, <1>9, StepKeeps

\* What a tab deletes is the session of a complete recording.
LEMMA DeletingKeeps ==
  ASSUME Types, AudioInv, NEW t \in Tabs,
         OpenComplete(t) \/ AdoptCompletion(t) \/ FinishAdopts(t) \/ Complete(t)
  PROVE  AudioInv' /\ Kept
<1>1. PICK p \in {"idle", "complete"} : DeleteLocalSession(t, p)
  BY DEF OpenComplete, AdoptCompletion, FinishAdopts, Complete
<1>2. UNCHANGED <<captured, late>> /\ started' = started
  BY <1>1 DEF OpenComplete, AdoptCompletion, FinishAdopts, Complete, DeleteLocalSession,
     counters
<1>3. row' = NoRow /\ spool' = {} /\ mem'[t] = NoRow /\ pending'[t] = {} /\ Unlock(t)
      /\ phase'[t] = p /\ OthersKeep(t)
  BY <1>1, RememberIs, PendingIs, EnterIs DEF DeleteLocalSession, OthersKeep
<1>4. ServerFits /\ state' = "complete"
  <2>1. CASE Complete(t) /\ ~ UNCHANGED server
    <3>1. phase[t] \in Settling /\ phase[t] \in Active
      BY <2>1 DEF Complete, Settling, Active
    <3>2. Handle(FinalizeRequest(mem[t])) /\ state' = "complete"
      BY <2>1 DEF Complete, Handle, FinalizeRequest
    <3>3. Sensible(FinalizeRequest(mem[t]))
      BY <3>1, GapSensible DEF Types
    <3> QED
      BY <3>1, <3>2, <3>3, EndingApt, HandleFits
  <2>2. CASE UNCHANGED server
    <3>1. state = "complete"
      BY <2>2 DEF OpenComplete, AdoptCompletion, FinishAdopts, Complete, MatchingCompletion,
         server
    <3> QED
      BY <2>2, <3>1, UnchangedFits DEF server
  <2> QED
    BY <2>1, <2>2 DEF OpenComplete, AdoptCompletion, FinishAdopts
<1>5. phase'[t] \notin Active /\ phase'[t] \notin Capturing /\ phase'[t] \notin Settling
      /\ phase'[t] \notin Poised
  BY <1>3, PhaseKinds
<1>6. Orderly
  BY <1>3, <1>4, <1>5, SessionDeleted
<1>7. spool = {} /\ TabKeeps(t)
  BY <1>3, <1>4, <1>5, NothingLeft DEF TabKeeps
<1> QED
  BY <1>2, <1>3, <1>4, <1>6, <1>7, StepKeeps

\* A tab is closed, the holder of the lock or another one.
LEMMA CloseKeeps ==
  ASSUME Types, AudioInv, NEW t \in Tabs, Close(t)
  PROVE  AudioInv' /\ Kept
<1>1. /\ UNCHANGED <<server, row, spool, started, captured, late>> /\ Unlock(t)
      /\ phase'[t] = "closed" /\ mem'[t] = NoRow /\ pending'[t] = {} /\ OthersKeep(t)
  BY EnterIs, RememberIs, PendingIs DEF Close, storage, counters, OthersKeep
<1>2. ServerFits
  BY <1>1, UnchangedFits
<1>3. Orderly
  <2> "closed" \notin Poised
    BY PhaseKinds
  <2>1. CASE phase[t] \in Active
    BY <1>1, <1>2, <2>1, LockReleased
  <2>2. CASE phase[t] \notin Active
    BY <1>1, <2>2, Holder, LockKept DEF Unlock
  <2> QED
    BY <2>1, <2>2
<1>4. TabKeeps(t)
  BY <1>1, PhaseKinds DEF TabKeeps
<1> QED
  BY <1>1, <1>2, <1>3, <1>4, StepKeeps

LEMMA StartedKeeps ==
  ASSUME Types, AudioInv, NEW t \in Tabs, Started(t)
  PROVE  AudioInv' /\ Kept
<1> DEFINE new == [writer |-> 1, epoch |-> 1, pendingWriter |-> NoWriter, last |-> 0]
<1>1. row' = new /\ Remember(t, new) /\ Enter(t, "locking") /\ started' = TRUE
      /\ lock' = lock /\ ~ started /\ UNCHANGED <<spool, counters, pending, fenced, late>>
      /\ (Handle(CreateRequest) \/ (state # "none" /\ UNCHANGED server))
  BY DEF Started, PutLocalSession
<1>2. new.writer = 1 /\ new.epoch = 1 /\ new.last = 0 /\ new # NoRow
  BY DEF NoRow, NoWriter
<1>3. captured = 0 /\ Session = NoRow /\ UNCHANGED <<spool, pending, late, captured>>
  BY <1>1, SessionIs DEF AudioInv, RowOK, counters
<1>4. /\ mem'[t] = new /\ phase'[t] = "locking" /\ OthersKeep(t)
      /\ lock = NoTab /\ \A u \in Tabs : phase[u] \notin Poised
  <2>1. lock = NoTab
    BY <1>1, Holder DEF AudioInv, RowOK, Types, ClientOK, ClientTypes
  <2>2. \A u \in Tabs : phase[u] \notin Poised
    BY <1>1 DEF AudioInv, PoisedOK, RowOK
  <2> QED
    BY <1>1, <2>1, <2>2, RememberIs, EnterIs DEF OthersKeep
<1> HIDE DEF new
<1>5. ServerFits /\ state' # "none"
  <2>1. CASE Handle(CreateRequest)
    <3>1. Server!CreateSession(1, Capability)
      BY <2>1 DEF Handle, CreateRequest
    <3>2. state' = "recording"
      BY <3>1 DEF Server!CreateSession
    <3> QED
      BY <2>1, <3>2, CreateApt, CreateSensible, HandleFits
  <2> QED
    BY <1>1, <2>1, UnchangedFits DEF server
<1>6. state' = "recording" /\ epoch' = 1 /\ writer' = 1
  BY <1>1, <1>5 DEF ServerFits
<1>7. Held' \subseteq Held /\ \A q \in late' : q.kind = "chunk" => q.chunk \in Held'
  BY <1>3, <1>5, HeldShrinks DEF AudioInv
<1>8. \A q \in late : Apt(q) /\ q.kind = "create"
  BY <1>1 DEF AudioInv, Apt
<1>9. \A q \in late' : Apt(q)'
  BY <1>1, <1>3, <1>8 DEF Apt
<1>10. \A c \in Held : FALSE
  <2>1. \A c \in Held : c \in Server!Chunk
    BY <1>8 DEF Types, ClientOK, ClientTypes, Server!TypeOK, Held
  <2>2. \A c \in Held : c.seq \in 1..MaxChunks /\ c.seq <= 0
    BY <1>3, <2>1 DEF AudioInv, AudioOK, Server!Chunk
  <2> QED
    BY <2>2, Bounds
<1>11. Held' = {} /\ spool = {} /\ \A u \in Tabs : pending[u] = {}
  BY <1>7, <1>10 DEF AudioInv, AudioOK, Held
<1>12. Session' = new /\ HolderActs' /\ PoisedOK'
  BY <1>1, <1>2, <1>4, PoisedKept DEF Session, HolderActs
<1>13. RowOK'
  BY <1>1, <1>2, <1>3, <1>12 DEF RowOK, HolderActs
<1>14. AudioOK'
  BY <1>3, <1>11 DEF AudioOK
<1>15. GenerationOK' /\ EndOK'
  BY <1>1, <1>2, <1>3, <1>5, <1>6, <1>11, <1>12 DEF GenerationOK, EndOK, ServerFits
<1> QED
  BY <1>9, <1>11, <1>12, <1>13, <1>14, <1>15 DEF AudioInv, Kept

\* The tab that locks, or that captured, takes the lock, or hands it on.
LEMMA StartLockedKeeps ==
  ASSUME Types, AudioInv, NEW t \in Tabs, StartLocked(t), Fresh(t)
  PROVE  AudioInv' /\ Kept
<1>1. /\ UNCHANGED <<server, row, spool, started, captured, mem, pending, late>>
      /\ phase[t] = "locking" /\ LockFree(t) /\ lock' = t /\ Enter(t, "recording")
  BY DEF StartLocked, storage, counters
<1>2. phase[t] \notin Active /\ phase'[t] \in Active /\ phase[t] \in Capturing
      /\ phase'[t] \notin Settling /\ OthersKeep(t)
  BY <1>1, EnterIs, PhaseKinds DEF OthersKeep
<1>3. Orderly
  BY <1>1, <1>2, LockTaken
<1>4. TabKeeps(t)
  BY <1>1, <1>2, Holder DEF TabKeeps
<1> QED
  BY <1>1, <1>2, <1>3, <1>4, UnchangedFits, StepKeeps

LEMMA BreaksOffKeeps ==
  ASSUME Types, AudioInv, NEW t \in Tabs, CaptureBreaksOff(t)
  PROVE  AudioInv' /\ Kept
<1>1. /\ UNCHANGED <<server, spool, started, captured, mem, pending, late>>
      /\ phase[t] = "recording" /\ Unlock(t) /\ row' = mem[t] /\ Enter(t, "broken")
  BY DEF CaptureBreaksOff, counters, PutLocalSession
<1>2. phase[t] \in Active /\ phase[t] \in Capturing
      /\ phase'[t] \notin Settling /\ OthersKeep(t)
  BY <1>1, EnterIs, PhaseKinds DEF OthersKeep
<1>3. Orderly
  BY <1>1, <1>2, LockReleased, UnchangedFits
<1>4. TabKeeps(t)
  BY <1>1, <1>2, Holder DEF TabKeeps
<1> QED
  BY <1>1, <1>2, <1>3, <1>4, UnchangedFits, StepKeeps

\* A tab that adds audio without the lock adds it to the session.
LEMMA Poising ==
  ASSUME Types, AudioInv, NEW t \in Tabs, phase[t] \in Poised
  PROVE  /\ mem[t] = Session /\ mem[t] = row /\ mem[t] # NoRow /\ mem[t] \in Row
         /\ lock = NoTab /\ \A u \in Tabs : phase[u] \in Active \cup Poised => u = t
<1>1. lock = NoTab /\ row # NoRow /\ mem[t] = row
  BY DEF AudioInv, PoisedOK
<1>2. ASSUME NEW u \in Tabs, phase[u] \in Active PROVE FALSE
  BY <1>1, <1>2, Holder
<1> QED
  BY <1>1, <1>2, SessionIs DEF AudioInv, PoisedOK

\* What the tab that captures works on, and what it leaves when a chunk is stored.
LEMMA Appending ==
  ASSUME Types, AudioInv, NEW t \in Tabs, Capture(t) \/ TailStored(t)
  PROVE  /\ AppendCapturedChunk(t) /\ phase[t] \in Capturing
         /\ UNCHANGED <<server, started, pending, lock, late>>
         /\ mem[t] = Session /\ mem[t] # NoRow /\ OthersKeep(t)
         /\ \A u \in Tabs : phase'[u] \notin Settling
         /\ Session' = Advanced(mem[t]) /\ HolderActs' /\ PoisedOK'
<1>1. /\ AppendCapturedChunk(t) /\ UNCHANGED <<server, started, pending, lock, late>>
      /\ row' = Advanced(mem[t]) /\ Remember(t, Advanced(mem[t]))
  BY DEF Capture, TailStored, AppendCapturedChunk, PutLocalSession
<1>2. mem'[t] = Advanced(mem[t]) /\ \A u \in Tabs \ {t} : mem'[u] = mem[u]
  BY <1>1, RememberIs
<1>3. CASE Capture(t)
  <2>1. phase' = phase /\ phase[t] = "recording"
    BY <1>3 DEF Capture
  <2>2. phase[t] \in Active /\ phase[t] \in Capturing /\ OthersKeep(t)
    BY <1>1, <1>2, <2>1, PhaseKinds DEF OthersKeep
  <2>3. ASSUME NEW u \in Tabs, phase'[u] \in Settling PROVE FALSE
    <3>1. u = t
      BY <2>1, <2>2, <2>3, Holder, PhaseKinds
    <3> QED
      BY <2>1, <2>3, <3>1, PhaseKinds
  <2> QED
    BY <1>1, <1>2, <2>1, <2>2, <2>3, Holder, LockHeld
<1>4. CASE TailStored(t)
  <2>1. phase[t] = "broken" /\ phase'[t] = "recoverable" /\ OthersKeep(t)
    BY <1>1, <1>2, <1>4, EnterIs DEF TailStored, OthersKeep
  <2>2. phase[t] \in Poised /\ phase[t] \in Capturing /\ phase'[t] \notin Poised
        /\ phase'[t] \notin Settling
    BY <2>1, PhaseKinds
  <2>3. /\ mem[t] = Session /\ mem[t] # NoRow /\ lock = NoTab
        /\ \A u \in Tabs : phase[u] \in Active \cup Poised => u = t
    BY <2>2, Poising
  <2>4. Session' = Advanced(mem[t]) /\ HolderActs'
    BY <1>1, <2>3 DEF Session, HolderActs
  <2>5. PoisedOK'
    BY <2>1, <2>2, <2>3, PoisedKept
  <2>6. ASSUME NEW u \in Tabs, phase'[u] \in Settling PROVE FALSE
    BY <2>1, <2>2, <2>3, <2>6, PhaseKinds DEF OthersKeep
  <2> QED
    BY <1>1, <2>1, <2>2, <2>3, <2>4, <2>5, <2>6
<1> QED
  BY <1>3, <1>4

LEMMA CaptureKeeps ==
  ASSUME Types, AudioInv, NEW t \in Tabs, Capture(t) \/ TailStored(t)
  PROVE  AudioInv' /\ Kept
<1> DEFINE c == NextChunk(t)
           r == Advanced(mem[t])
<1>1. /\ phase[t] \in Capturing /\ captured' = captured + 1 /\ row' = r
      /\ spool' = spool \cup {c} /\ OthersKeep(t) /\ mem'[t] = r
      /\ UNCHANGED <<server, started, pending, lock, late>>
  BY Appending, RememberIs DEF AppendCapturedChunk, SpoolNext, PutLocalSession
<1>2. /\ mem[t] = Session /\ Session # NoRow /\ Session \in Row /\ Session.last = captured
      /\ started /\ captured \in Nat
  BY Appending, SessionIs, Bounds DEF Types, ClientOK, ClientTypes
<1>3. c.seq = captured + 1 /\ c.payload = captured + 1 /\ c.writer = Session.writer
      /\ c.epoch = Session.epoch
  BY <1>2 DEF NextChunk
<1>4. r.writer = Session.writer /\ r.epoch = Session.epoch /\ r.last = captured + 1
      /\ r # NoRow
  <2>1. r.writer = Session.writer /\ r.epoch = Session.epoch /\ r.last = captured + 1
    BY <1>2 DEF Row, Advanced
  <2>2. r.epoch # 0
    BY <1>2, <2>1, Bounds DEF Row
  <2> QED
    BY <2>1, <2>2 DEF NoRow
<1>6. Session' = r /\ HolderActs' /\ PoisedOK'
  BY Appending
<1>5. \A u \in Tabs : phase'[u] \notin Settling
  BY Appending
<1> HIDE DEF c, r
<1>7. ~ Quiet
  BY <1>1 DEF Quiet
<1>8. epoch = Session.epoch /\ state \notin {"finalizing", "complete"}
  BY <1>2, <1>7 DEF AudioInv, GenerationOK
<1>9. finalSequence = Server!NoBoundary
  BY <1>8 DEF Types, Server!TypeOK
<1>10. Held' = Held \cup {c} /\ UNCHANGED <<state, epoch, writer, chunks, gaps, finalSequence>>
  BY <1>1 DEF Held, server
<1>11. \A q \in late : Apt(q)'
  BY <1>1, <1>2, <1>4, <1>6, <1>7, <1>10 DEF AudioInv, Apt
<1>12. RowOK'
  <2>1. \A u \in Tabs : mem'[u] # NoRow => started'
    BY <1>1, <1>2 DEF AudioInv, RowOK, OthersKeep
  <2> QED
    BY <1>1, <1>2, <1>4, <1>6, <2>1 DEF RowOK, HolderActs
<1>13. \A d \in Held : d.seq \in Int /\ d.seq <= captured
  <2>1. \A d \in Held : d \in Server!Chunk
    BY DEF Types, ClientOK, ClientTypes, Server!TypeOK, Held, Sensible
  <2> QED
    BY <2>1, Bounds DEF AudioInv, AudioOK, Server!Chunk
<1>14. \A d \in Held' : d.seq = d.payload /\ d.seq <= captured'
  BY <1>1, <1>2, <1>3, <1>10, <1>13 DEF AudioInv, AudioOK
<1>15. \A d, e \in Held' : d.seq = e.seq => d = e
  BY <1>2, <1>3, <1>10, <1>13 DEF AudioInv, AudioOK
<1>16. AudioOK'
  BY <1>1, <1>2, <1>3, <1>4, <1>6, <1>10, <1>14, <1>15 DEF AudioInv, AudioOK
<1>17. GenerationOK'
  <2>2. writer = Session.writer
    BY <1>2, <1>8 DEF AudioInv, GenerationOK
  <2> QED
    BY <1>1, <1>4, <1>5, <1>6, <1>8, <1>10, <2>2 DEF GenerationOK
<1>18. EndOK'
  BY <1>8, <1>9, <1>10 DEF AudioInv, EndOK
<1> QED
  BY <1>1, <1>6, <1>11, <1>12, <1>16, <1>17, <1>18 DEF AudioInv, Kept

\* A tab lets go of the lock; what it puts in the row is the session.
LEMMA StoppingKeeps ==
  ASSUME Types, AudioInv, NEW t \in Tabs, phase[t] \in Active,
         ServerFits, \A q \in late' : q \in late \/ Apt(q),
         KeepRecoverable(t) \/ GiveUpResuming(t), captured' = captured,
         pending' = pending \/ pending' = [pending EXCEPT ![t] = {}]
  PROVE  AudioInv' /\ Kept
<1>1. /\ Enter(t, "recoverable") /\ Unlock(t) /\ row' \in {row, mem[t]}
      /\ UNCHANGED <<spool, started, mem>>
  BY DEF KeepRecoverable, GiveUpResuming, PutLocalSession, storage
<1>3. phase'[t] = "recoverable" /\ OthersKeep(t) /\ pending'[t] \subseteq pending[t]
  BY <1>1, EnterIs, PendingIs DEF OthersKeep
<1>2. Orderly
  BY <1>1, <1>3, PhaseKinds, LockReleased
<1>4. TabKeeps(t)
  BY <1>1, <1>3, PhaseKinds, Holder DEF TabKeeps
<1> QED
  BY <1>1, <1>2, <1>3, <1>4, StepKeeps

LEMMA HaltingKeeps ==
  ASSUME Types, AudioInv, NEW t \in Tabs,
         CaptureBreaks(t) \/ ResumeBlocked(t) \/ FinishBlocked(t)
  PROVE  AudioInv' /\ Kept
<1>1. /\ KeepRecoverable(t) \/ GiveUpResuming(t)
      /\ UNCHANGED <<server, late, pending, captured>> /\ phase[t] \in Active
  BY DEF CaptureBreaks, ResumeBlocked, FinishBlocked, counters, Active
<1> QED
  BY <1>1, UnchangedFits, StoppingKeeps

LEMMA StopKeeps ==
  ASSUME Types, AudioInv, NEW t \in Tabs, Stop(t) \/ StopSynced(t)
  PROVE  AudioInv' /\ Kept
<1>1. phase[t] \in Capturing /\ phase[t] \in Active /\ mem[t] # NoRow
      /\ UNCHANGED <<server, late, captured>>
  BY Holder DEF Stop, StopSynced, Capturing, Active, counters
<1>2. CASE StopSynced(t) /\ KeepRecoverable(t)
  BY <1>1, <1>2, UnchangedFits, StoppingKeeps DEF StopSynced
<1>3. CASE Stop(t)
  <2>1. /\ UNCHANGED <<row, spool, started, mem, lock>> /\ phase'[t] = "stopping"
        /\ OthersKeep(t) /\ pending'[t] = {}
    BY <1>3, EnterIs, PendingIs DEF Stop, storage, OthersKeep
  <2>2. Orderly
    BY <2>1, PhaseKinds, LockKept
  <2>3. TabKeeps(t)
    BY <1>1, <2>1, PhaseKinds, Holder DEF TabKeeps
  <2> QED
    BY <1>1, <2>1, <2>2, <2>3, UnchangedFits, StepKeeps
<1>4. CASE StopSynced(t) /\ SpoolAcked
  <2>1. /\ BeginFinalize(t, mem[t]) /\ spool = {}
        /\ UNCHANGED <<spool, started, lock, pending>>
    BY <1>4 DEF StopSynced, SpoolAcked
  <2>2. /\ row' = mem[t] /\ mem'[t] = mem[t] /\ phase'[t] = "finalizing" /\ OthersKeep(t)
    BY <2>1, EnterIs, RememberIs DEF BeginFinalize, PutLocalSession, OthersKeep
  <2>3. Session' = Session /\ Orderly
    BY <1>1, <2>1, <2>2, PhaseKinds, LockHeld, Holder DEF Orderly, SameGeneration
  <2>4. TabKeeps(t)
    BY <2>1, <2>2, PhaseKinds, Holder DEF TabKeeps
  <2> QED
    BY <1>1, <2>1, <2>2, <2>3, <2>4, UnchangedFits, StepKeeps
<1> QED
  BY <1>2, <1>3, <1>4 DEF StopSynced

\* A tab that cannot start, finish or store its last chunk puts the row back as it is.
LEMMA RefusedKeeps ==
  ASSUME Types, AudioInv, NEW t \in Tabs,
         StartRefused(t) \/ FinishRefused(t) \/ TailRefused(t), mem[t] = row
  PROVE  AudioInv' /\ Kept
<1>1. /\ UNCHANGED <<server, late, row, spool, started, captured, mem, pending>>
      /\ phase[t] \in {"recoverable", "locking", "broken"}
      /\ Unlock(t) /\ Enter(t, "recoverable")
  BY DEF StartRefused, FinishRefused, TailRefused, KeepRecoverable, PutLocalSession,
     MayRecover, counters
<1>2. lock' = lock /\ phase[t] \notin Active /\ phase'[t] = "recoverable" /\ OthersKeep(t)
  BY <1>1, PhaseKinds, Holder, EnterIs DEF Unlock, OthersKeep
<1>3. Orderly
  BY <1>1, <1>2, PhaseKinds, LockKept
<1>4. TabKeeps(t)
  BY <1>1, <1>2, PhaseKinds, Holder DEF TabKeeps
<1> QED
  BY <1>1, <1>2, <1>3, <1>4, UnchangedFits, StepKeeps

LEMMA TailRefusedKeeps ==
  ASSUME Types, AudioInv, NEW t \in Tabs, TailRefused(t)
  PROVE  AudioInv' /\ Kept
<1>1. phase[t] \in Poised
  BY PhaseKinds DEF TailRefused
<1> QED
  BY <1>1, Poising, RefusedKeeps

LEMMA SyncsKeep ==
  ASSUME Types, AudioInv, NEW t \in Tabs, NEW s,
         ServerFits, \A q \in late' : q \in late \/ Apt(q),
         UNCHANGED <<row, started, captured, phase, mem, lock>>,
         spool' \subseteq spool, spool \subseteq spool' \cup chunks',
         pending' = [pending EXCEPT ![t] = s], s \subseteq pending[t] \cup spool
  PROVE  AudioInv' /\ Kept
<1>1. OthersKeep(t) /\ pending'[t] = s
  BY PendingIs DEF OthersKeep
<1>2. Orderly
  BY <1>1, LockKept
<1>3. TabKeeps(t)
  BY <1>1, Holder DEF TabKeeps, AudioInv, GenerationOK
<1> QED
  BY <1>1, <1>2, <1>3, StepKeeps

LEMMA SyncKeeps ==
  ASSUME Types, AudioInv, NEW t \in Tabs,
         SyncStart(t) \/ UploadAcked(t) \/ UploadFails(t)
  PROVE  AudioInv' /\ Kept
<1>1. UNCHANGED <<row, started, captured, phase, mem, lock>>
  BY DEF SyncStart, UploadAcked, UploadFails, storage, counters
<1>2. CASE SyncStart(t)
  <2>1. UNCHANGED <<server, late>> /\ spool' = Reconciled
        /\ pending' = [pending EXCEPT ![t] = Reconciled]
    BY <1>2 DEF SyncStart
  <2>2. Reconciled \subseteq spool /\ spool \subseteq Reconciled \cup chunks'
    BY <2>1, ReconcileKeeps, UnchangedFits
  <2> QED
    BY <1>1, <2>1, <2>2, UnchangedFits, SyncsKeep
<1>3. CASE UploadAcked(t)
  <2> DEFINE c == Uploading(t)
  <2>1. /\ pending[t] # {} /\ (Server!AcceptChunk(c) \/ (c \in chunks /\ UNCHANGED server))
        /\ spool' = {d \in spool : d.seq # c.seq} /\ UNCHANGED late
        /\ pending' = [pending EXCEPT ![t] = pending[t] \ {c}]
    BY <1>3 DEF UploadAcked
  <2>2. c \in Held /\ Apt(ChunkRequest(c)) /\ Sensible(ChunkRequest(c))
    <3>1. pending[t] # {}
      BY <2>1
    <3>2. c \in Held /\ c \in Server!Chunk /\ Apt(ChunkRequest(c))
      BY <3>1, ChunkApt
    <3> QED
      BY <3>2, ChunkSensible
  <2> HIDE DEF c
  <2>3. ServerFits /\ c \in chunks'
    <3>1. CASE Server!AcceptChunk(c)
      <4>1. Handle(ChunkRequest(c))
        BY <3>1 DEF Handle, ChunkRequest
      <4>2. c \in chunks'
        BY <3>1 DEF Server!AcceptChunk
      <4> QED
        BY <2>2, <4>1, <4>2, HandleFits
    <3> QED
      BY <2>1, <3>1, UnchangedFits
  <2>4. \A d \in spool : d.seq = c.seq => d = c
    BY <2>2 DEF AudioInv, AudioOK, Held
  <2>5. spool' \subseteq spool /\ spool \subseteq spool' \cup chunks'
    BY <2>1, <2>3, <2>4
  <2> QED
    BY <1>1, <2>1, <2>3, <2>5, SyncsKeep
<1>4. CASE UploadFails(t)
  <2> DEFINE c == Uploading(t)
  <2>1. /\ pending[t] # {} /\ UNCHANGED spool /\ pending' = [pending EXCEPT ![t] = {}]
        /\ Unanswered(ChunkRequest(c)) \/ (Server!AcceptChunkCrash(c) /\ UNCHANGED late)
    BY <1>4 DEF UploadFails, storage
  <2>2. Apt(ChunkRequest(c)) /\ Sensible(ChunkRequest(c))
    BY <2>1, ChunkApt, ChunkSensible
  <2> HIDE DEF c
  <2>3. Server!AcceptChunkCrash(c) =>
          UNCHANGED <<state, writer, epoch, chunks, gaps, finalSequence>>
    BY DEF Server!AcceptChunkCrash, Server!ownership, Server!boundary
  <2>4. ServerFits /\ \A q \in late' : q \in late \/ Apt(q)
    BY <2>1, <2>2, <2>3, UnansweredFits, CalmFits
  <2> QED
    BY <1>1, <2>1, <2>4, SyncsKeep
<1> QED
  BY <1>2, <1>3, <1>4

LEMMA RecoverKeeps ==
  ASSUME Types, AudioInv, NEW t \in Tabs, Resume(t) \/ Finish(t), Fresh(t)
  PROVE  AudioInv' /\ Kept
<1>1. PICK p \in {"resuming", "finishing"} : Recover(t, p)
  BY DEF Resume, Finish
<1>2. /\ UNCHANGED <<server, row, started, captured, mem, pending, late>>
      /\ spool' = Reconciled /\ phase'[t] = p /\ OthersKeep(t)
      /\ phase[t] = "recoverable" /\ LockFree(t) /\ lock' = t
  BY <1>1, EnterIs DEF Recover, MayRecover, counters, OthersKeep
<1>3. phase[t] \notin Active /\ phase'[t] \in Active
      /\ phase'[t] \notin Capturing /\ phase'[t] \notin Settling
  BY <1>2, PhaseKinds
<1>4. Orderly
  BY <1>2, <1>3, LockTaken
<1>5. TabKeeps(t)
  BY <1>2, <1>3, Holder DEF TabKeeps
<1> QED
  BY <1>2, <1>4, <1>5, ReconcileKeeps, UnchangedFits, StepKeeps

\* The holder of the lock goes on to the next phase with the session it has.
LEMMA GoingOnKeeps ==
  ASSUME Types, AudioInv, NEW t \in Tabs, phase[t] \in Active, phase'[t] \in Active,
         ServerFits, \A q \in late' : q \in late \/ Apt(q), OthersKeep(t),
         UNCHANGED <<spool, started, captured, pending, lock>>,
         mem'[t] # NoRow, row' = mem'[t] \/ (row' = row /\ mem'[t] = mem[t]),
         mem'[t].writer = mem[t].writer, mem'[t].epoch = mem[t].epoch,
         mem'[t].last = mem[t].last,
         phase'[t] \in Capturing => phase[t] \in Capturing,
         phase'[t] \in Settling => spool = {}
  PROVE  AudioInv' /\ Kept
<1>1. Session' = mem'[t] /\ Session = mem[t] /\ Session # NoRow /\ started
  BY LockHeld, Holder
<1>2. Orderly
  BY <1>1, LockHeld DEF Orderly, SameGeneration, ServerFits
<1>3. TabKeeps(t)
  BY <1>1 DEF TabKeeps
<1> QED
  BY <1>2, <1>3, StepKeeps DEF ServerFits

LEMMA ResumeSyncedKeeps ==
  ASSUME Types, AudioInv, NEW t \in Tabs, ResumeSynced(t)
  PROVE  AudioInv' /\ Kept
<1>1. /\ UNCHANGED <<server, spool, started, captured, pending, lock, late>>
      /\ spool = {} /\ phase'[t] = "claiming" /\ phase[t] \in Active
  BY EnterIs DEF ResumeSynced, SpoolAcked, Active
<1>2. phase'[t] \notin Capturing /\ phase'[t] \in Active
  BY <1>1, PhaseKinds
<1>3. mem[t] # NoRow /\ mem[t] \in Row
  BY <1>1, Holding
<1> DEFINE r == [mem[t] EXCEPT !.pendingWriter = drawn + 1]
<1>4. r.writer = mem[t].writer /\ r.epoch = mem[t].epoch /\ r.last = mem[t].last /\ r # NoRow
  <2>1. r.writer = mem[t].writer /\ r.epoch = mem[t].epoch /\ r.last = mem[t].last
    BY <1>3 DEF Row
  <2> QED
    BY <1>3, <2>1, Bounds DEF Row, NoRow
<1>5. UNCHANGED <<row, mem>> \/ (Remember(t, r) /\ row' = r)
  BY DEF ResumeSynced, PersistIntent, PutLocalSession
<1> HIDE DEF r
<1>6. (row' = row /\ mem'[t] = mem[t]) \/ (row' = r /\ mem'[t] = r)
  BY <1>5, RememberIs
<1>7. OthersKeep(t)
  BY <1>1, <1>5, RememberIs, EnterIs DEF OthersKeep, ResumeSynced
<1> QED
  BY <1>1, <1>2, <1>3, <1>4, <1>6, <1>7, UnchangedFits, GoingOnKeeps

LEMMA ClaimAnsweredIs ==
  ASSUME Types, AudioInv, NEW t \in Tabs, ClaimAnswered(t)
  PROVE  /\ UNCHANGED <<spool, started, captured, pending, late, chunks, gaps, finalSequence>>
         /\ phase[t] \in Active /\ phase'[t] \in Active /\ OthersKeep(t) /\ lock' = lock
         /\ row' # NoRow /\ row' = mem'[t] /\ spool = {}
         /\ row'.epoch = Session.epoch + 1 /\ row'.last = Session.last
         /\ epoch' = row'.epoch /\ writer' = row'.writer
         /\ state' \notin {"finalizing", "complete"}
<1> DEFINE r == mem[t]
<1>1. /\ phase[t] = "claiming" /\ row' = Resumed(r) /\ Remember(t, Resumed(r))
      /\ Enter(t, "resumeGap")
      /\ UNCHANGED <<spool, started, captured, pending, lock, late>>
  BY DEF ClaimAnswered, PutLocalSession, counters
<1>2. Server!ClaimCapture(r.pendingWriter, Capability, r.epoch)
      \/ Server!RetryClaim(r.pendingWriter, Capability, r.epoch)
  BY DEF ClaimAnswered
<1>3. r = Session /\ r # NoRow /\ r \in Row /\ r.pendingWriter # NoWriter
  <2>1. phase[t] \in Active
    BY <1>1 DEF Active
  <2> QED
    BY <1>1, <2>1, Holding DEF Types, ClientOK, TabOK
<1>4. /\ mem'[t] = row' /\ spool = {} /\ phase[t] \in Active /\ phase'[t] \in Active
      /\ OthersKeep(t)
  <2>1. phase[t] \in Settling /\ phase[t] \in Active /\ "resumeGap" \in Active
    BY <1>1, PhaseKinds
  <2> QED
    BY <1>1, <2>1, RememberIs, EnterIs DEF AudioInv, GenerationOK, OthersKeep
<1> HIDE DEF r
<1>5. /\ UNCHANGED <<chunks, gaps, finalSequence>>
      /\ epoch' = r.epoch + 1 /\ writer' = r.pendingWriter
      /\ state' \notin {"finalizing", "complete"} /\ r.epoch + 1 <= MaxEpoch
  <2>1. CASE Server!ClaimCapture(r.pendingWriter, Capability, r.epoch)
    BY <2>1, Bounds
       DEF Server!ClaimCapture, Server!boundary, Types, ClientOK, ClientTypes
  <2>2. CASE Server!RetryClaim(r.pendingWriter, Capability, r.epoch)
    BY <2>2, Bounds
       DEF Server!RetryClaim, Server!Claimable, Server!ownership, Server!boundary,
           Types, ClientOK, ClientTypes
  <2> QED
    BY <1>2, <2>1, <2>2
<1>6. /\ row'.epoch = r.epoch + 1 /\ row'.writer = r.pendingWriter
      /\ row'.last = r.last /\ row' # NoRow
  <2>1. r.epoch + 1 \in 0..MaxEpoch
    BY <1>3, <1>5, Bounds DEF Row
  <2> QED
    BY <1>1, <1>3, <2>1, ResumedIs DEF Rows
<1> QED
  BY <1>1, <1>3, <1>4, <1>5, <1>6

LEMMA ClaimAnsweredKeeps ==
  ASSUME Types, AudioInv, NEW t \in Tabs, ClaimAnswered(t)
  PROVE  AudioInv' /\ Kept
BY ClaimAnsweredIs, TakeoverKeeps

LEMMA ClaimFailsKeeps ==
  ASSUME Types, AudioInv, NEW t \in Tabs, ClaimFails(t)
  PROVE  AudioInv' /\ Kept
<1>1. GiveUpResuming(t) /\ UNCHANGED <<captured, pending>>
  BY DEF ClaimFails, counters
<1>2. phase[t] \in Settling /\ phase[t] \in Active /\ phase[t] = "claiming"
  BY PhaseKinds DEF ClaimFails
<1>3. mem[t] # NoRow /\ mem[t] \in Rows /\ mem[t].pendingWriter # NoWriter
  BY <1>2, GapSensible DEF Types, ClientOK, TabOK
<1>4. ServerFits /\ \A q \in late' : q \in late \/ Apt(q)
  BY <1>2, <1>3, EndingApt, OwnerSensible, UnansweredFits DEF ClaimFails
<1> QED
  BY <1>1, <1>2, <1>4, StoppingKeeps

LEMMA GapsKeep ==
  ASSUME Types, AudioInv, NEW t \in Tabs,
         \/ ResumeGapAnswered(t) \/ ResumeGapFails(t)
         \/ FinishGapAnswered(t) \/ FinishGapFails(t)
  PROVE  AudioInv' /\ Kept
<1>1. phase[t] \in {"resumeGap", "finishGap"} /\ phase[t] \in Active
  BY DEF ResumeGapAnswered, ResumeGapFails, FinishGapAnswered, FinishGapFails, Active
<1>2. mem[t] # NoRow
  BY <1>1, Holding
<1>3. ServerFits /\ \A q \in late' : q \in late \/ Apt(q)
  <2>1. ASSUME NEW id \in GapIds
        PROVE  Sensible(GapRequest(mem[t], id)) /\ Apt(GapRequest(mem[t], id))
    BY <1>1, <1>2, GapSensible, GapApt DEF Types
  <2>2. CASE GapLost(t)
    <3>1. PICK id \in GapIds : Unanswered(GapRequest(mem[t], id))
      BY <2>2 DEF GapLost
    <3> QED
      BY <2>1, <3>1, UnansweredFits
  <2>3. CASE FreshGap(t) /\ UNCHANGED late
    <3>1. PICK id \in GapIds : Server!DeclareGap(id, mem[t].writer, mem[t].epoch, {})
      BY <2>3 DEF FreshGap
    <3>2. Handle(GapRequest(mem[t], id))
      BY <3>1 DEF Handle, GapRequest
    <3> QED
      BY <2>1, <2>3, <3>2, HandleFits
  <2>4. CASE UNCHANGED <<server, late>>
    BY <2>4, UnchangedFits
  <2> QED
    BY <2>2, <2>3, <2>4
       DEF ResumeGapAnswered, ResumeGapFails, FinishGapAnswered, FinishGapFails
<1>4. CASE ResumeGapFails(t) \/ FinishGapFails(t)
  BY <1>1, <1>3, <1>4, StoppingKeeps DEF ResumeGapFails, FinishGapFails, counters
<1>5. CASE ResumeGapAnswered(t) \/ FinishGapAnswered(t)
  <2>1. /\ UNCHANGED <<spool, started, captured, pending, lock>>
        /\ (UNCHANGED <<row, mem>> \/ (row' = mem[t] /\ Remember(t, mem[t])))
    BY <1>5 DEF ResumeGapAnswered, FinishGapAnswered, BeginFinalize, PutLocalSession,
       storage, counters
  <2>2. mem'[t] = mem[t] /\ row' \in {row, mem'[t]} /\ \A u \in Tabs \ {t} : mem'[u] = mem[u]
    BY <2>1, RememberIs
  <2>3. \/ Enter(t, "recording") /\ phase[t] = "resumeGap"
        \/ Enter(t, "finalizing") /\ phase[t] = "finishGap"
    BY <1>5 DEF ResumeGapAnswered, FinishGapAnswered, BeginFinalize
  <2>4. /\ phase'[t] \in Active /\ (phase'[t] \in Capturing => phase[t] \in Capturing)
        /\ (phase'[t] \in Settling => spool = {})
    BY <2>3, EnterIs, PhaseKinds DEF AudioInv, GenerationOK
  <2>5. OthersKeep(t)
    BY <2>1, <2>2, <2>3, EnterIs DEF OthersKeep
  <2> QED
    BY <1>1, <1>2, <1>3, <2>1, <2>2, <2>4, <2>5, GoingOnKeeps
<1> QED
  BY <1>4, <1>5

LEMMA FinishSyncedKeeps ==
  ASSUME Types, AudioInv, NEW t \in Tabs, FinishSynced(t)
  PROVE  AudioInv' /\ Kept
<1> DEFINE r == mem[t]
           won == r.pendingWriter # NoWriter /\ ClaimWon(r)
<1>1. r = Session /\ r # NoRow /\ r \in Rows /\ phase[t] \in Active
  <2>1. phase[t] \in Active
    BY DEF FinishSynced, Active
  <2> QED
    BY <2>1, Holding
<1>2. /\ spool = {} /\ Remember(t, Resolved(r))
      /\ row' = Resolved(r) \/ (row' = row /\ r.pendingWriter = NoWriter)
      /\ UNCHANGED <<server, spool, started, captured, pending, lock, late>>
  BY DEF FinishSynced, SpoolAcked, BeginFinalize, PutLocalSession, counters
<1>3. r.pendingWriter # NoWriter => epoch \in {r.epoch, r.epoch + 1}
  BY DEF FinishSynced, ClaimNotSeen, ClaimWon
<1>4. Resolved(r) # NoRow /\ Resolved(r).last = r.last
      /\ (r.pendingWriter = NoWriter => Resolved(r) = r)
      /\ (won => Resolved(r).writer = r.pendingWriter /\ Resolved(r).epoch = r.epoch + 1)
      /\ (~ won => Resolved(r).writer = r.writer /\ Resolved(r).epoch = r.epoch)
  BY <1>1, <1>3, ResolvedIs DEF Types
<1>5. mem'[t] = Resolved(r) /\ \A u \in Tabs \ {t} : mem'[u] = mem[u]
  BY <1>2, RememberIs
<1>6. phase'[t] \in Settling /\ phase'[t] \in Active /\ phase'[t] \notin Capturing
      /\ OthersKeep(t)
  <2>1. Enter(t, "finalizing") \/ Enter(t, "finishGap")
    BY DEF FinishSynced, BeginFinalize
  <2> QED
    BY <1>2, <1>5, <2>1, EnterIs, PhaseKinds DEF OthersKeep
<1>7. CASE won
  <2>1. Server!RetryClaim(r.pendingWriter, Capability, r.epoch)
    <3>1. ~ ClaimNotSeen(r)
      BY <1>1, <1>7, RowFields, Bounds DEF ClaimWon, ClaimNotSeen
    <3> QED
      BY <1>7, <3>1 DEF FinishSynced
  <2>2. state' \notin {"finalizing", "complete"}
    BY <2>1 DEF Server!RetryClaim, Server!Claimable
  <2>3. epoch' = r.epoch + 1 /\ writer' = r.pendingWriter
        /\ UNCHANGED <<chunks, gaps, finalSequence>>
    BY <1>1, <1>2, <1>7 DEF ClaimWon, server
  <2>4. row' = Resolved(r)
    BY <1>2, <1>7
  <2> HIDE DEF r, won
  <2> QED
    BY <1>1, <1>2, <1>4, <1>5, <1>6, <1>7, <2>2, <2>3, <2>4, TakeoverKeeps
<1>8. CASE ~ won
  <2>1. mem'[t] # NoRow /\ mem'[t].writer = r.writer /\ mem'[t].epoch = r.epoch
        /\ mem'[t].last = r.last
    BY <1>4, <1>5, <1>8
  <2>2. row' = mem'[t] \/ (row' = row /\ mem'[t] = r)
    BY <1>2, <1>4, <1>5
  <2>3. ServerFits
    BY <1>2, UnchangedFits
  <2> HIDE DEF won
  <2> QED
    BY <1>1, <1>2, <1>6, <2>1, <2>2, <2>3, GoingOnKeeps
<1> QED
  BY <1>7, <1>8

LEMMA FinalizeFailsKeeps ==
  ASSUME Types, AudioInv, NEW t \in Tabs, FinalizeFails(t)
  PROVE  AudioInv' /\ Kept
<1>1. /\ phase[t] = "finalizing" /\ Unanswered(FinalizeRequest(mem[t]))
      /\ UNCHANGED <<captured, pending>> /\ KeepRecoverable(t)
  BY DEF FinalizeFails, counters
<1>2. phase[t] \in Settling /\ phase[t] \in Active
  BY <1>1, PhaseKinds
<1>3. Sensible(FinalizeRequest(mem[t]))
  BY <1>2, GapSensible DEF Types
<1>4. ServerFits /\ \A q \in late' : q \in late \/ Apt(q)
  BY <1>1, <1>2, <1>3, EndingApt, UnansweredFits
<1> QED
  BY <1>1, <1>2, <1>4, StoppingKeeps

LEMMA CalmKeeps ==
  ASSUME Types, AudioInv, ServerFits, \A q \in late' : q \in late \/ Apt(q),
         UNCHANGED <<row, spool, started, captured, phase, mem, pending, lock>>
  PROVE  AudioInv' /\ Kept
<1>1. Session' = Session
  BY DEF Session
<1>2. Orderly
  BY <1>1, SessionIs DEF Orderly, SameGeneration, HolderActs, AudioInv, RowOK, PoisedOK
<1>3. \A t \in Tabs : TabKeeps(t)
  BY DEF TabKeeps, AudioInv, RowOK, GenerationOK
<1> QED
  BY <1>2, <1>3, StepsKeep DEF ServerFits

LEMMA LateKeeps ==
  ASSUME Types, AudioInv, LateArrival
  PROVE  AudioInv' /\ Kept
<1>1. PICK r \in late : late' = late \ {r} /\ (Handle(r) \/ UNCHANGED server)
  BY DEF LateArrival
<1>2. Sensible(r) /\ Apt(r)
  BY DEF Types, ClientOK, AudioInv
<1>3. ServerFits
  BY <1>1, <1>2, HandleFits, UnchangedFits
<1>4. UNCHANGED <<row, spool, started, captured, phase, mem, pending, lock>>
  BY DEF LateArrival, storage, counters, tabs
<1> QED
  BY <1>1, <1>3, <1>4, CalmKeeps

LEMMA NextKeeps ==
  ASSUME Types, AudioInv, [CarefulNext]_vars
  PROVE  AudioInv' /\ Kept
<1>1. CASE LateArrival
  BY <1>1, LateKeeps
<1>2. CASE UNCHANGED vars
  <2>1. UNCHANGED <<server, row, spool, started, captured, phase, mem, pending, lock, late>>
    BY <1>2 DEF vars, storage, counters, tabs
  <2> QED
    BY <2>1, UnchangedFits, CalmKeeps
<1>3. ASSUME NEW t \in Tabs, Step(t)
      PROVE  AudioInv' /\ Kept
  BY <1>3, OpeningKeeps, CloseKeeps, DeletingKeeps, StartedKeeps, CaptureKeeps, HaltingKeeps,
     BreaksOffKeeps, TailRefusedKeeps, SyncKeeps, StopKeeps, ResumeSyncedKeeps,
     ClaimAnsweredKeeps, ClaimFailsKeeps, GapsKeep, FinishSyncedKeeps, FinalizeFailsKeeps
     DEF Step
<1>4. ASSUME NEW t \in Tabs, TakesUp(t), Fresh(t)
      PROVE  AudioInv' /\ Kept
  BY <1>4, StartLockedKeeps, RecoverKeeps, RefusedKeeps DEF Fresh, TakesUp
<1> QED
  BY <1>1, <1>2, <1>3, <1>4 DEF CarefulNext

-----------------------------------------------------------------------------
(* Who may still resume or finish.                                         *)

\* While the server is a generation ahead of the row, the row names the claim that won.
AheadOK ==
  row # NoRow /\ state # "complete" /\ epoch # row.epoch => row.pendingWriter = writer

LEMMA RecoverableIs == Types /\ AudioInv => (SessionStaysRecoverable <=> AheadOK)
<1> SUFFICES ASSUME Types, AudioInv PROVE SessionStaysRecoverable <=> AheadOK
  OBVIOUS
<1>1. row # NoRow => Session = row /\ row.epoch \in Nat
  BY SessionIs, Bounds
<1> QED
  BY <1>1 DEF AudioInv, GenerationOK, SessionStaysRecoverable, AheadOK

\* The server's owner changes by claims and completion only.
LEMMA OwnerStays ==
  ASSUME NEW r, Sensible(r), Handle(r), r.kind \notin {"create", "claim"}
  PROVE  state' = "complete" \/ (state # "complete" /\ UNCHANGED <<writer, epoch>>)
         \/ UNCHANGED <<state, writer, epoch>>
BY DEF Sensible, Handle, Server!AcceptChunk, Server!DeclareGap, Server!Finalize,
   Server!ownership

OwnerSame == state' = "complete" \/ (state # "complete" /\ UNCHANGED <<writer, epoch>>)
             \/ UNCHANGED <<state, writer, epoch>>
RowSame == row' = NoRow \/ row' = row \/ state = "complete"
           \/ (row # NoRow /\ row'.epoch = row.epoch /\ row'.pendingWriter = row.pendingWriter)

LEMMA StepStaysAhead ==
  ASSUME AheadOK, OwnerSame, RowSame
  PROVE  AheadOK'
BY DEF AheadOK, OwnerSame, RowSame

\* The holder of the lock writes nothing new in the row.
LEMMA HolderWrites ==
  ASSUME Types, AudioInv, NEW t \in Tabs, phase[t] \in Active, row' \in {row, mem[t], NoRow}
  PROVE  RowSame
<1>1. mem[t] = row \/ state = "complete"
  BY Holder DEF AudioInv, RowOK
<1> QED
  BY <1>1 DEF RowSame

LEMMA UnansweredOwner ==
  ASSUME NEW r, Sensible(r), Unanswered(r), r.kind \notin {"create", "claim"}
  PROVE  OwnerSame
BY OwnerStays DEF Unanswered, OwnerSame, server

LEMMA ResumingStaysAhead ==
  ASSUME Types, AudioInv, AheadOK, NEW t \in Tabs, ResumeSynced(t) \/ ClaimFails(t)
  PROVE  AheadOK'
<1>1. mem[t] = Session /\ mem[t] # NoRow /\ mem[t] \in Row /\ phase[t] \in Active
      /\ row \in {NoRow, mem[t]} /\ (row = NoRow => state = "complete")
  <2>1. phase[t] \in Active
    BY DEF ResumeSynced, ClaimFails, Active
  <2> QED
    BY <2>1, Holding, Holder DEF AudioInv, RowOK
<1>2. CASE ResumeSynced(t) /\ row = NoRow
  <2>1. state' = "complete"
    BY <1>1, <1>2 DEF ResumeSynced, server
  <2> QED
    BY <2>1 DEF AheadOK
<1>3. CASE ResumeSynced(t) /\ row = mem[t] /\ mem[t].pendingWriter # NoWriter
  BY <1>3, StepStaysAhead DEF ResumeSynced, OwnerSame, RowSame, server
<1>4. CASE ResumeSynced(t) /\ row = mem[t] /\ mem[t].pendingWriter = NoWriter
  <2>1. row' = [row EXCEPT !.pendingWriter = drawn + 1] /\ UNCHANGED server
    BY <1>4 DEF ResumeSynced, PersistIntent, PutLocalSession
  <2>2. row'.epoch = row.epoch
    BY <1>1, <1>4, <2>1 DEF Row
  <2>3. state \notin {"none", "complete"} => writer # NoWriter
    BY Bounds DEF Types, Server!TypeOK, NoWriter
  <2>4. state # "none"
    BY <1>1, <1>4, StartedNotNone, Holder
  <2> QED
    BY <1>1, <1>4, <2>1, <2>2, <2>3, <2>4 DEF AheadOK, server
<1>5. CASE ClaimFails(t)
  <2>1. row' = row /\ Unanswered(ClaimRequest(mem[t].pendingWriter, mem[t].epoch))
    BY <1>5 DEF ClaimFails, GiveUpResuming, storage
  <2>2. CASE Handle(ClaimRequest(mem[t].pendingWriter, mem[t].epoch))
    <3>1. Server!ClaimCapture(mem[t].pendingWriter, Capability, mem[t].epoch)
      BY <2>2 DEF Handle, ClaimRequest
    <3>2. writer' = mem[t].pendingWriter
      BY <3>1 DEF Server!ClaimCapture
    <3> QED
      BY <1>1, <2>1, <3>2 DEF AheadOK
  <2>3. CASE UNCHANGED server
    BY <2>1, <2>3, StepStaysAhead DEF OwnerSame, RowSame, server
  <2> QED
    BY <2>1, <2>2, <2>3 DEF Unanswered
<1> QED
  BY <1>1, <1>2, <1>3, <1>4, <1>5

LEMMA FinishStaysAhead ==
  ASSUME Types, AudioInv, AheadOK, NEW t \in Tabs, FinishSynced(t)
  PROVE  AheadOK'
<1> DEFINE r == mem[t]
<1>1. r # NoRow /\ r \in Rows /\ UNCHANGED server
      /\ row \in {NoRow, r} /\ (row = NoRow => state = "complete")
  <2>1. phase[t] \in Active
    BY DEF FinishSynced, Active
  <2> QED
    BY <2>1, Holding, Holder DEF AudioInv, RowOK, FinishSynced
<1>2. CASE row = NoRow
  BY <1>1, <1>2 DEF AheadOK, server
<1>3. CASE row = r /\ r.pendingWriter = NoWriter
  <2>1. row' \in {row, Resolved(r)}
    BY DEF FinishSynced, BeginFinalize, PutLocalSession
  <2>2. row' = row
    BY <1>1, <1>3, <2>1, ResolvedIs DEF Types
  <2> QED
    BY <1>1, <2>2, StepStaysAhead DEF OwnerSame, RowSame, server
<1>4. CASE row = r /\ r.pendingWriter # NoWriter
  <2>1. row' = Resolved(r) /\ (ClaimNotSeen(r) \/ ClaimWon(r))
    BY <1>4 DEF FinishSynced, BeginFinalize, PutLocalSession
  <2>2. epoch \in {r.epoch, r.epoch + 1}
    BY <2>1 DEF ClaimNotSeen, ClaimWon
  <2>3. row'.epoch = epoch
    BY <1>1, <1>4, <2>1, <2>2, ResolvedIs DEF Types, ClaimNotSeen, ClaimWon
  <2> QED
    BY <1>1, <2>3 DEF AheadOK, server
<1> QED
  BY <1>1, <1>2, <1>3, <1>4

LEMMA NextStaysAhead ==
  ASSUME Types, AudioInv, AheadOK, [CarefulNext]_vars
  PROVE  AheadOK' \/ LateClaimHandled
<1>1. CASE LateArrival
  <2>1. PICK r \in late : late' = late \ {r} /\ (Handle(r) \/ UNCHANGED server)
    BY <1>1 DEF LateArrival
  <2>2. Sensible(r) /\ row' = row
    BY <1>1 DEF Types, ClientOK, LateArrival, storage
  <2>3. CASE r.kind = "claim"
    BY <2>1, <2>3 DEF LateClaimHandled
  <2>4. CASE r.kind = "create" /\ Handle(r)
    <3>1. Server!CreateSession(1, Capability)
      BY <2>4 DEF Handle
    <3>2. state = "none"
      BY <3>1 DEF Server!CreateSession
    <3>3. row = NoRow
      BY <3>2, StartedNotNone DEF AudioInv, RowOK
    <3> QED
      BY <2>2, <3>3 DEF AheadOK
  <2>5. CASE r.kind \notin {"create", "claim"} \/ UNCHANGED server
    <3>1. OwnerSame
      BY <2>1, <2>2, <2>5, OwnerStays DEF OwnerSame, server
    <3> QED
      BY <2>2, <3>1, StepStaysAhead DEF RowSame
  <2> QED
    BY <2>1, <2>3, <2>4, <2>5
<1>2. ASSUME NEW t \in Tabs,
             \/ OpenFresh(t) \/ OpenFenced(t) \/ OpenComplete(t) \/ OpenRecoverable(t)
             \/ Close(t) \/ BeginStart(t) \/ AdoptCompletion(t) \/ FinishAdopts(t)
             \/ Resume(t) \/ Finish(t) \/ SyncStart(t) \/ StartLocked(t)
      PROVE  AheadOK'
  <2>1. UNCHANGED server /\ (row' = row \/ row' = NoRow)
    BY <1>2 DEF OpenFresh, OpenFenced, OpenComplete, OpenRecoverable, Close, BeginStart,
       AdoptCompletion, FinishAdopts, Resume, Finish, Recover, SyncStart, StartLocked,
       storage, DeleteLocalSession
  <2> QED
    BY <2>1, StepStaysAhead DEF OwnerSame, RowSame, server
<1>3. ASSUME NEW t \in Tabs,
             \/ CaptureBreaks(t) \/ CaptureBreaksOff(t) \/ Stop(t) \/ StopSynced(t)
             \/ ResumeBlocked(t) \/ FinishBlocked(t)
      PROVE  AheadOK'
  <2>1. UNCHANGED server /\ row' \in {row, mem[t]} /\ phase[t] \in Active
    BY <1>3 DEF CaptureBreaks, CaptureBreaksOff, Stop, StopSynced, ResumeBlocked, FinishBlocked,
       BeginFinalize, KeepRecoverable, PutLocalSession, GiveUpResuming, storage, Active
  <2>2. RowSame
    BY <2>1, HolderWrites
  <2> QED
    BY <2>1, <2>2, StepStaysAhead DEF OwnerSame, server
<1>4. ASSUME NEW t \in Tabs, UploadAcked(t) \/ UploadFails(t)
      PROVE  AheadOK'
  <2>1. pending[t] # {} /\ row' = row
    BY <1>4 DEF UploadAcked, UploadFails, storage
  <2>2. Sensible(ChunkRequest(Uploading(t)))
    BY <2>1, ChunkApt, ChunkSensible
  <2>3. \/ Unanswered(ChunkRequest(Uploading(t))) \/ UNCHANGED server
        \/ Server!AcceptChunkCrash(Uploading(t)) \/ Server!AcceptChunk(Uploading(t))
    BY <1>4 DEF UploadAcked, UploadFails
  <2>4. ChunkRequest(Uploading(t)).kind = "chunk"
    BY DEF ChunkRequest
  <2>5. OwnerSame
    BY <2>2, <2>3, <2>4, UnansweredOwner
       DEF OwnerSame, server, Server!AcceptChunkCrash, Server!AcceptChunk, Server!ownership
  <2> QED
    BY <2>1, <2>5, StepStaysAhead DEF RowSame
<1>5. ASSUME NEW t \in Tabs, Started(t) \/ ClaimAnswered(t)
      PROVE  AheadOK'
  <2>1. CASE Started(t)
    <3>1. row'.epoch = 1 /\ row'.pendingWriter = NoWriter /\ ~ started
          /\ (Handle(CreateRequest) \/ (state # "none" /\ UNCHANGED server))
      BY <2>1 DEF Started, PutLocalSession
    <3>2. Handle(CreateRequest) => epoch' = 1
      BY DEF Handle, CreateRequest, Server!CreateSession
    <3>3. UNCHANGED server /\ state # "none" => epoch' = 1
      BY <3>1 DEF AudioInv, RowOK, server
    <3> QED
      BY <3>1, <3>2, <3>3 DEF AheadOK
  <2> QED
    BY <1>5, <2>1, ClaimAnsweredIs DEF AheadOK
<1>6. ASSUME NEW t \in Tabs, StartFails(t)
      PROVE  AheadOK'
  <2>1. CASE started
    BY <1>6, <2>1, StepStaysAhead DEF StartFails, storage, OwnerSame, RowSame, server
  <2>2. CASE ~ started
    BY <1>6, <2>2 DEF StartFails, storage, AudioInv, RowOK, AheadOK
  <2> QED
    BY <2>1, <2>2
<1>7. ASSUME NEW t \in Tabs, Capture(t) \/ TailStored(t)
      PROVE  AheadOK'
  <2>1. row \in {NoRow, mem[t]} /\ mem[t] \in Row /\ (row = NoRow => state = "complete")
    <3>1. CASE Capture(t)
      <4>1. phase[t] \in Active
        BY <3>1 DEF Capture, Active
      <4> QED
        BY <4>1, Holder, Holding DEF AudioInv, RowOK
    <3>2. CASE TailStored(t)
      <4>1. phase[t] \in Poised
        BY <3>2, PhaseKinds DEF TailStored
      <4> QED
        BY <4>1, Poising
    <3> QED
      BY <1>7, <3>1, <3>2
  <2>2. UNCHANGED server /\ row' = Advanced(mem[t])
    BY <1>7 DEF Capture, TailStored, AppendCapturedChunk, PutLocalSession
  <2>3. row'.epoch = mem[t].epoch /\ row'.pendingWriter = mem[t].pendingWriter
    BY <2>1, <2>2 DEF Row, Advanced
  <2>4. RowSame
    BY <2>1, <2>3 DEF RowSame
  <2> QED
    BY <2>2, <2>4, StepStaysAhead DEF OwnerSame, server
<1>8. ASSUME NEW t \in Tabs, ResumeSynced(t) \/ ClaimFails(t) \/ FinishSynced(t)
      PROVE  AheadOK'
  BY <1>8, ResumingStaysAhead, FinishStaysAhead
<1>9. ASSUME NEW t \in Tabs,
             \/ TailRefused(t)
             \/ (StartRefused(t) \/ FinishRefused(t)) /\ Fresh(t)
      PROVE  AheadOK'
  <2>1. UNCHANGED server /\ row' = mem[t]
    BY <1>9 DEF TailRefused, StartRefused, FinishRefused, KeepRecoverable, PutLocalSession
  <2>2. mem[t] = row
    <3>1. CASE TailRefused(t)
      BY <3>1, Poising, PhaseKinds DEF TailRefused
    <3> QED
      BY <1>9, <3>1 DEF Fresh
  <2> QED
    BY <2>1, <2>2, StepStaysAhead DEF OwnerSame, RowSame, server
<1>10. ASSUME NEW t \in Tabs,
              \/ ResumeGapAnswered(t) \/ ResumeGapFails(t)
              \/ FinishGapAnswered(t) \/ FinishGapFails(t)
              \/ Complete(t) \/ FinalizeFails(t)
       PROVE  AheadOK'
  <2>1. phase[t] \in Active
    BY <1>10 DEF ResumeGapAnswered, ResumeGapFails, FinishGapAnswered, FinishGapFails,
       Complete, FinalizeFails, Active
  <2>2. row' \in {row, mem[t], NoRow}
    BY <1>10 DEF ResumeGapAnswered, ResumeGapFails, FinishGapAnswered, FinishGapFails,
       Complete, FinalizeFails, GiveUpResuming, KeepRecoverable, BeginFinalize,
       DeleteLocalSession, PutLocalSession, storage
  <2>3. RowSame
    BY <2>1, <2>2, HolderWrites
  <2>4. \/ FreshGap(t) \/ GapLost(t) \/ UNCHANGED server \/ state' = "complete"
        \/ Unanswered(FinalizeRequest(mem[t]))
    BY <1>10 DEF ResumeGapAnswered, ResumeGapFails, FinishGapAnswered, FinishGapFails,
       Complete, FinalizeFails
  <2>5. OwnerSame
    <3>1. \A id \in GapIds : Unanswered(GapRequest(mem[t], id)) => OwnerSame
      BY <2>1, GapSensible, UnansweredOwner DEF GapRequest, Types
    <3>2. Unanswered(FinalizeRequest(mem[t])) => OwnerSame
      BY <2>1, GapSensible, UnansweredOwner DEF FinalizeRequest, Types
    <3>3. FreshGap(t) => OwnerSame
      BY DEF FreshGap, Server!DeclareGap, Server!ownership, OwnerSame
    <3> QED
      BY <2>4, <3>1, <3>2, <3>3 DEF GapLost, OwnerSame, server
  <2> QED
    BY <2>3, <2>5, StepStaysAhead
<1>11. CASE UNCHANGED vars
  BY <1>11 DEF vars, server, storage, AheadOK
<1>12. ASSUME NEW t \in Tabs, Step(t)
       PROVE  AheadOK'
  BY <1>12, <1>2, <1>3, <1>4, <1>5, <1>6, <1>7, <1>8, <1>9, <1>10 DEF Step
<1>13. ASSUME NEW t \in Tabs, Fresh(t), TakesUp(t)
       PROVE  AheadOK'
  BY <1>13, <1>2, <1>9 DEF TakesUp
<1> QED
  BY <1>1, <1>11, <1>12, <1>13 DEF CarefulNext

-----------------------------------------------------------------------------
(* The theorems.                                                           *)

LEMMA TypesHold == Spec => []Types
BY ClientOKHolds, ServerTypes, PTL DEF Types

LEMMA CarefulIsSpec == CarefulSpec => Spec
<1>1. CarefulNext => Next
  BY DEF CarefulNext, Next
<1> QED
  BY <1>1, PTL DEF CarefulSpec, Spec

LEMMA AudioInvHolds == CarefulSpec => [](Types /\ AudioInv)
<1>1. Types /\ AudioInv /\ [CarefulNext]_vars => AudioInv'
  BY NextKeeps
<1> QED
  BY <1>1, InitAudioInv, TypesHold, CarefulIsSpec, PTL DEF CarefulSpec

\* The row's high-water mark covers every sequence number ever used, whatever crashed
\* or was answered too late, while no tab takes up the session with an old snapshot of
\* the row and capture does not break during the transaction of a chunk (CarefulSpec).
THEOREM HighWaterCovers == CarefulSpec => []HighWaterCoversAudio
<1>1. Types /\ AudioInv => HighWaterCoversAudio
  BY SessionIs DEF AudioInv, AudioOK, Held, HighWaterCoversAudio
<1> QED
  BY <1>1, AudioInvHolds, PTL

\* A session the server calls complete holds every chunk that was ever captured: no end
\* is declared before the last ACK, not even by a request that arrives late, under the
\* same two conditions.
THEOREM CompleteHoldsAll == CarefulSpec => []CompleteHoldsAllAudio
<1>1. ASSUME Types, AudioInv PROVE CompleteHoldsAllAudio
  <2> SUFFICES ASSUME state = "complete" PROVE {c.payload : c \in chunks} = 1..captured
    BY DEF CompleteHoldsAllAudio
  <2>1. finalSequence = captured
    BY <1>1 DEF Types, Server!TypeOK, AudioInv, EndOK
  <2>2. ASSUME NEW n \in 1..captured PROVE n \in {c.payload : c \in chunks}
    <3>1. PICK c \in chunks : c.seq = n
      BY <1>1, <2>1 DEF AudioInv, EndOK
    <3>2. c.payload = n
      BY <1>1, <3>1 DEF AudioInv, AudioOK, Held
    <3> QED
      BY <3>1, <3>2
  <2>3. ASSUME NEW c \in chunks PROVE c.payload \in 1..captured
    <3>1. c.seq = c.payload /\ c.seq <= captured
      BY <1>1 DEF AudioInv, AudioOK, Held
    <3>2. c.seq \in 1..MaxChunks /\ captured \in 0..MaxChunks
      BY <1>1 DEF Types, ClientOK, ClientTypes, Server!TypeOK, Server!Chunk
    <3> QED
      BY <3>1, <3>2, Bounds
  <2> QED
    BY <2>2, <2>3
<1> QED
  BY <1>1, AudioInvHolds, PTL

\* Audio that still awaits its ACK can be uploaded: no other writer has taken over, and
\* no end before it is declared, under the same two conditions.
THEOREM AudioIsNeverStranded == CarefulSpec => []AudioNeverStranded
<1>1. ASSUME Types, AudioInv, NEW c \in spool \ chunks
      PROVE  /\ Server!ValidWriter(c.writer, c.epoch)
             /\ Server!CanAcceptChunks
             /\ Server!WithinBoundary(c.seq)
  <2>1. Session # NoRow /\ c.epoch = Session.epoch /\ c.writer = Session.writer /\ ~ Quiet
    BY <1>1 DEF AudioInv, AudioOK, Quiet
  <2>2. epoch = Session.epoch /\ writer = Session.writer
        /\ state \notin {"finalizing", "complete"}
    BY <1>1, <2>1 DEF AudioInv, GenerationOK
  <2>3. state # "none"
    BY <1>1, <2>1, StartedNotNone, SessionIs
  <2>4. state \in {"recording", "interrupted"}
    BY <1>1, <2>2, <2>3 DEF Types, Server!TypeOK, Server!States
  <2> QED
    BY <2>1, <2>2, <2>4 DEF Server!ValidWriter, Server!CanAcceptChunks, Server!WithinBoundary
<1>2. Types /\ AudioInv => AudioNeverStranded
  BY <1>1 DEF AudioNeverStranded
<1> QED
  BY <1>2, AudioInvHolds, PTL

\* A chunk leaves the browser's storage only when the server has accepted that chunk,
\* under the same two conditions.
THEOREM AudioIsKept == CarefulSpec => AudioKeptUntilAcked
<1>1. Types /\ AudioInv /\ [CarefulNext]_vars =>
        [\A c \in spool : c \in spool' \/ c \in chunks']_vars
  BY NextKeeps DEF Kept
<1> QED
  BY <1>1, AudioInvHolds, PTL DEF CarefulSpec, AudioKeptUntilAcked

\* Only a claim the server handles after the browser gave up on it takes a session out of
\* the browser's hands, under the same two conditions.
THEOREM OnlyALateClaimStrands == CarefulSpec => OnlyLateClaimsStrand
<1>1. Types /\ AudioInv /\ Types' /\ AudioInv' /\ [CarefulNext]_vars =>
        [SessionStaysRecoverable => SessionStaysRecoverable' \/ LateClaimHandled]_vars
  <2> SUFFICES ASSUME Types, AudioInv, Types', AudioInv', [CarefulNext]_vars,
                      SessionStaysRecoverable
               PROVE  SessionStaysRecoverable' \/ LateClaimHandled
    OBVIOUS
  <2>1. AheadOK
    BY RecoverableIs
  <2>2. AheadOK' \/ LateClaimHandled
    BY <2>1, NextStaysAhead
  <2>3. SessionStaysRecoverable' <=> AheadOK'
    BY RecoverableIs, PTL
  <2> QED
    BY <2>2, <2>3
<1> QED
  BY <1>1, AudioInvHolds, PTL DEF CarefulSpec, OnlyLateClaimsStrand

-----------------------------------------------------------------------------
(* One tab has no old snapshot, so that only the second condition is left.    *)

OneTab == \A t, u \in Tabs : t = u
HoldsTheRow == \A t \in Tabs : mem[t] \in {NoRow, row}

LEMMA RowFollows ==
  ASSUME OneTab, Types, HoldsTheRow, [Next]_vars
  PROVE  HoldsTheRow'
<1> SUFFICES ASSUME NEW u \in Tabs PROVE mem'[u] \in {NoRow, row'}
  BY DEF HoldsTheRow
<1>1. CASE LateArrival \/ UNCHANGED vars
  BY <1>1 DEF HoldsTheRow, LateArrival, vars, storage, tabs
<1>2. ASSUME NEW t \in Tabs,
             \/ OpenFresh(t) \/ OpenFenced(t) \/ OpenRecoverable(t)
             \/ Close(t) \/ BeginStart(t) \/ StartFails(t) \/ StartLocked(t)
             \/ SyncStart(t) \/ UploadAcked(t) \/ UploadFails(t) \/ Stop(t)
             \/ Resume(t) \/ Finish(t) \/ ResumeBlocked(t) \/ ClaimFails(t)
             \/ ResumeGapAnswered(t) \/ ResumeGapFails(t)
      PROVE  mem'[u] \in {NoRow, row'}
  <2>1. row' = row /\ (mem' = mem \/ Remember(t, row) \/ Remember(t, NoRow))
    BY <1>2 DEF OpenFresh, OpenFenced, OpenRecoverable, Close, BeginStart, StartFails,
       StartLocked, SyncStart, UploadAcked, UploadFails, Stop, Resume, Finish, Recover, ResumeBlocked,
       ClaimFails, ResumeGapAnswered, ResumeGapFails, GiveUpResuming, storage
  <2> QED
    BY <2>1, RememberIs DEF HoldsTheRow, OneTab
<1>3. ASSUME NEW t \in Tabs,
             OpenComplete(t) \/ AdoptCompletion(t) \/ FinishAdopts(t) \/ Complete(t)
      PROVE  mem'[u] \in {NoRow, row'}
  <2>1. Remember(t, NoRow)
    BY <1>3 DEF OpenComplete, AdoptCompletion, FinishAdopts, Complete, DeleteLocalSession
  <2> QED
    BY <2>1, RememberIs DEF OneTab
<1>4. ASSUME NEW t \in Tabs,
             \/ CaptureBreaks(t) \/ CaptureBreaksOver(t) \/ CaptureBreaksOff(t)
             \/ TailRefused(t) \/ StartRefused(t)
             \/ StopSynced(t) \/ FinishRefused(t) \/ FinishBlocked(t)
             \/ FinishGapAnswered(t) \/ FinishGapFails(t) \/ FinalizeFails(t)
      PROVE  mem'[u] \in {NoRow, row'}
  <2>1. row' = mem[t] /\ (mem' = mem \/ Remember(t, mem[t]))
    BY <1>4 DEF CaptureBreaks, CaptureBreaksOver, CaptureBreaksOff, TailRefused,
       StartRefused, StopSynced, FinishRefused, FinishBlocked, FinishGapAnswered,
       FinishGapFails, FinalizeFails, KeepRecoverable, BeginFinalize, PutLocalSession
  <2> QED
    BY <2>1, RememberIs DEF OneTab
<1>5. ASSUME NEW t \in Tabs,
             \/ Started(t) \/ Capture(t) \/ TailStored(t) \/ ResumeSynced(t) \/ ClaimAnswered(t)
      PROVE  mem'[u] \in {NoRow, row'}
  <2>1. UNCHANGED <<row, mem>> \/ Remember(t, row')
    BY <1>5 DEF Started, Capture, TailStored, AppendCapturedChunk, ResumeSynced, PersistIntent,
       ClaimAnswered, PutLocalSession
  <2> QED
    BY <2>1, RememberIs DEF HoldsTheRow, OneTab
<1>6. ASSUME NEW t \in Tabs, FinishSynced(t)
      PROVE  mem'[u] \in {NoRow, row'}
  <2> DEFINE r == mem[t]
  <2>1. r \in Rows /\ r # NoRow /\ r = row
    <3>1. phase[t] \in Active
      BY <1>6 DEF FinishSynced, Active
    <3> QED
      BY <3>1, GapSensible DEF Types, HoldsTheRow
  <2>2. r.pendingWriter = NoWriter => Resolved(r) = r
    BY <2>1, ResolvedIs DEF Types
  <2>3. Remember(t, Resolved(r)) /\ row' \in {row, Resolved(r)}
        /\ (r.pendingWriter # NoWriter => row' = Resolved(r))
    BY <1>6 DEF FinishSynced, BeginFinalize, PutLocalSession
  <2>4. Remember(t, row')
    BY <2>1, <2>2, <2>3
  <2> QED
    BY <2>4, RememberIs DEF OneTab
<1> QED
  BY <1>1, <1>2, <1>3, <1>4, <1>5, <1>6 DEF Next, Step, TakesUp

\* With one tab the theorems above hold of every behavior in which capture does not break
\* during the transaction of a chunk, crashes, lost answers and late requests included.
BreaksOver == \E t \in Tabs : CaptureBreaksOver(t)

COROLLARY OneTabLosesNothing ==
  ASSUME OneTab
  PROVE  Spec /\ [][~ BreaksOver]_vars =>
           /\ [](HighWaterCoversAudio /\ CompleteHoldsAllAudio /\ AudioNeverStranded)
           /\ AudioKeptUntilAcked /\ OnlyLateClaimsStrand
<1>1. Init => HoldsTheRow
  BY DEF Init, HoldsTheRow
<1>2. Types /\ HoldsTheRow /\ [Next]_vars => HoldsTheRow'
  BY RowFollows
<1>3. Types /\ HoldsTheRow /\ [Next]_vars /\ [~ BreaksOver]_vars => [CarefulNext]_vars
  <2> SUFFICES ASSUME Types, HoldsTheRow, ~ UNCHANGED vars, Next, ~ BreaksOver
               PROVE  CarefulNext
    OBVIOUS
  <2>1. ASSUME NEW t \in Tabs, TakesUp(t) PROVE Fresh(t)
    <3>1. mem[t] # NoRow
      BY <2>1 DEF TakesUp, StartLocked, StartRefused, Resume, Finish, Recover,
         FinishRefused, MayRecover, Types, ClientOK, TabOK, Poised
    <3> QED
      BY <3>1 DEF HoldsTheRow, Fresh, OneTab
  <2> QED
    BY <2>1 DEF Next, CarefulNext, BreaksOver
<1>4. Spec /\ [][~ BreaksOver]_vars => CarefulSpec
  BY <1>1, <1>2, <1>3, TypesHold, PTL DEF Spec, CarefulSpec
<1> QED
  BY <1>4, HighWaterCovers, CompleteHoldsAll, AudioIsNeverStranded, AudioIsKept,
     OnlyALateClaimStrands, PTL
=============================================================================
