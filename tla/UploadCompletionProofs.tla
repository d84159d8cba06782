------------------------ MODULE UploadCompletionProofs ------------------------
(***************************************************************************)
(* Proofs about UploadCompletion for all sets of tus uploads and finish     *)
(* hooks, every declared length and every number of changes of a file.      *)
(***************************************************************************)
EXTENDS UploadCompletion, TLAPS

\* What a finish hook under way may rely on, though it holds no lock: the session
\* is bound to its tus upload, whose bytes are all there, and once hashed, the
\* evidence is of one version of the file.
CallsBound ==
  \A h \in Calls :
    /\ call[h].at # "idle" => /\ call[h].on \in TusIds
                              /\ record.tus = call[h].on
                              /\ record.received = Declared
                              /\ tusd[call[h].on].offset = Declared
    /\ call[h].at = "hashed" => call[h].content = call[h].version

Inv == TypeOK /\ CompletionConsistent /\ ProgressTruthful /\ CallsBound

\* The null identity is not the identity of any file.
LEMMA IdentityIsReal == NoIdentity \notin Identities
BY UploadAssumption DEF Identities, Versions

LEMMA InitInv == Init => Inv
BY UploadAssumption, IdentityIsReal
   DEF Init, Inv, TypeOK, CompletionConsistent, ProgressTruthful, CallsBound,
       NoRecord, NoCall, Completed, Records, TusUploads, Files, CallRow, CallSteps,
       Versions

\* Steps that bind the session or move its progress, within the offset of the tus
\* upload they bind: a completed record keeps all, and calls keep what they rely on.
LEMMA ProgressKeepsInv ==
  ASSUME Inv, NEW id \in TusIds, NEW r \in 0..Declared,
         r >= record.received, r <= tusd[id].offset, Binds(id),
         record' = [record EXCEPT !.tus = id, !.received = r],
         UNCHANGED <<processing, tusd, file>>
  PROVE  /\ record' \in Records
         /\ CompletionConsistent'
         /\ ProgressTruthful'
         /\ \A h \in Calls : call[h].at # "idle" =>
              record'.tus = call[h].on /\ record'.received = Declared
<1> USE UploadAssumption DEF Inv, TypeOK, Records, Binds, Valid
<1>1. /\ record' \in Records
      /\ record'.tus = id
      /\ record'.received = r
      /\ record'.identity = record.identity
      /\ record'.state = record.state
  OBVIOUS
<1>2. record.received <= Declared
  OBVIOUS
<1>3. record.received = Declared => r = Declared
  OBVIOUS
<1>4. Completed => record.identity \in Identities
  BY DEF Completed
<1>5. Completed => record.tus \in TusIds
  BY <1>4 DEF Completed, CompletionConsistent, Identities
<1>6. CompletionConsistent'
  BY <1>1, <1>3, <1>5 DEF Completed, CompletionConsistent
<1>7. ProgressTruthful'
  BY <1>1 DEF ProgressTruthful
<1>8. \A h \in Calls : call[h].at # "idle" => record.tus \in TusIds
  BY DEF CallsBound
<1>9. \A h \in Calls : call[h].at # "idle" =>
        record'.tus = call[h].on /\ record'.received = Declared
  BY <1>1, <1>3, <1>8 DEF CallsBound
<1> QED
  BY <1>1, <1>6, <1>7, <1>9

\* Steps that leave the rows alone, and take no byte from tusd's files.
LEMMA RowsKept ==
  ASSUME Inv, UNCHANGED <<record, processing>>, tusd' \in [TusIds -> TusUploads],
         \A id \in TusIds : tusd'[id].offset >= tusd[id].offset
  PROVE  /\ CompletionConsistent'
         /\ ProgressTruthful'
         /\ \A h \in Calls : call[h].at # "idle" => tusd'[call[h].on].offset = Declared
<1> USE UploadAssumption DEF Inv, TypeOK, Records, TusUploads
<1>1. \A id \in TusIds : /\ tusd[id].offset \in 0..Declared
                         /\ tusd'[id].offset \in 0..Declared
  OBVIOUS
<1>2. \A id \in TusIds : tusd[id].offset = Declared => tusd'[id].offset = Declared
  BY <1>1
<1>3. Completed => record.tus \in TusIds
  BY DEF Completed, CompletionConsistent, Identities
<1>4. CompletionConsistent'
  BY <1>2, <1>3 DEF CompletionConsistent, Completed
<1>5. ProgressTruthful'
  BY <1>1 DEF ProgressTruthful
<1>6. \A h \in Calls : call[h].at # "idle" => tusd'[call[h].on].offset = Declared
  BY <1>2 DEF CallsBound
<1> QED
  BY <1>4, <1>5, <1>6

\* Inv is inductive: one step per action.
LEMMA NextInv == Inv /\ [Next]_vars => Inv'
<1> SUFFICES ASSUME Inv, [Next]_vars PROVE Inv'
  OBVIOUS
<1> USE UploadAssumption
<1>0. TypeOK /\ CompletionConsistent /\ ProgressTruthful /\ CallsBound
  BY DEF Inv
<1>1. CASE CreateUploadSession
  <2>1. record' \in Records /\ UNCHANGED <<processing, tusd, file, call>>
    BY <1>0, <1>1 DEF CreateUploadSession, TypeOK, Records
  <2>2. /\ record'.tus = record.tus
        /\ record'.received = record.received
        /\ record'.identity = record.identity
        /\ record.state = "absent" /\ record'.state = "uploading"
    BY <1>0, <1>1 DEF CreateUploadSession, TypeOK, Records
  <2>3. TypeOK' /\ CallsBound'
    BY <1>0, <2>1, <2>2 DEF TypeOK, CallsBound
  <2>4. CompletionConsistent' /\ ProgressTruthful'
    BY <1>0, <2>1, <2>2 DEF CompletionConsistent, ProgressTruthful, Completed
  <2> QED
    BY <2>3, <2>4 DEF Inv
<1>2. CASE Expire
  <2>1. record' \in Records /\ UNCHANGED <<processing, tusd, file, call>>
    BY <1>0, <1>2 DEF Expire, TypeOK, Records
  <2>2. /\ record'.tus = record.tus
        /\ record'.received = record.received
        /\ record'.identity = record.identity
        /\ record'.state = record.state
    BY <1>0, <1>2 DEF Expire, TypeOK, Records
  <2>3. TypeOK' /\ CallsBound'
    BY <1>0, <2>1, <2>2 DEF TypeOK, CallsBound
  <2>4. CompletionConsistent' /\ ProgressTruthful'
    BY <1>0, <2>1, <2>2 DEF CompletionConsistent, ProgressTruthful, Completed
  <2> QED
    BY <2>3, <2>4 DEF Inv
<1>3. ASSUME NEW id \in TusIds, PreCreate(id) \/ TusCreate(id) \/ TusAppend(id)
      PROVE  Inv'
  <2>1. UNCHANGED <<record, processing, call>>
    BY <1>3 DEF PreCreate, TusCreate, TusAppend
  <2>2. tusd' \in [TusIds -> TusUploads]
    BY <1>0, <1>3 DEF PreCreate, TusCreate, TusAppend, TypeOK, TusUploads
  <2>3. \A i \in TusIds : tusd'[i].offset >= tusd[i].offset
    BY <1>0, <1>3 DEF PreCreate, TusCreate, TusAppend, TypeOK, TusUploads
  <2>4. file' \in [TusIds -> Files]
    <3>1. file' = file \/ \E w \in BOOLEAN : file' = [file EXCEPT ![id].whole = w]
      BY <1>3 DEF PreCreate, TusCreate, TusAppend
    <3> QED
      BY <1>0, <3>1 DEF TypeOK, Files
  <2>5. /\ CompletionConsistent'
        /\ ProgressTruthful'
        /\ \A h \in Calls : call[h].at # "idle" => tusd'[call[h].on].offset = Declared
    BY <2>1, <2>2, <2>3, RowsKept
  <2>6. TypeOK'
    BY <1>0, <2>1, <2>2, <2>4 DEF TypeOK
  <2>7. CallsBound'
    BY <1>0, <2>1, <2>5 DEF CallsBound
  <2> QED
    BY <2>5, <2>6, <2>7 DEF Inv
<1>4. ASSUME NEW id \in TusIds, ChangeFile(id) PROVE Inv'
  <2>1. UNCHANGED <<record, processing, tusd, call>>
    BY <1>4 DEF ChangeFile
  <2>2. file' \in [TusIds -> Files]
    BY <1>0, <1>4 DEF ChangeFile, TypeOK, Files, Versions
  <2> QED
    BY <1>0, <2>1, <2>2
       DEF Inv, TypeOK, CompletionConsistent, ProgressTruthful, CallsBound, Completed
<1>5. ASSUME NEW id \in TusIds, NEW offset \in 0..Declared, ReportProgress(id, offset)
      PROVE  Inv'
  <2> DEFINE r == Received(offset)
  <2>1. UNCHANGED <<processing, tusd, file, call>>
    BY <1>5 DEF ReportProgress
  <2>2. record.received \in 0..Declared /\ tusd[id].offset \in 0..Declared
    BY <1>0 DEF TypeOK, Records, TusUploads
  <2>3. r \in 0..Declared /\ r >= record.received
    BY <2>2 DEF Received
  <2>4. Binds(id) /\ record' = [record EXCEPT !.tus = id, !.received = r]
    BY <1>5 DEF ReportProgress
  <2>5. record.received <= tusd[id].offset
    BY <1>0, <2>2, <2>4 DEF ProgressTruthful, Binds
  <2>6. r <= tusd[id].offset
    BY <1>5, <2>5 DEF ReportProgress, Received
  <2> HIDE DEF r
  <2>7. /\ record' \in Records
        /\ CompletionConsistent'
        /\ ProgressTruthful'
        /\ \A h \in Calls : call[h].at # "idle" =>
             record'.tus = call[h].on /\ record'.received = Declared
    BY <1>5, <2>1, <2>3, <2>4, <2>6, ProgressKeepsInv
  <2>8. TypeOK' /\ CallsBound'
    BY <1>0, <2>1, <2>7 DEF TypeOK, CallsBound
  <2> QED
    BY <2>7, <2>8 DEF Inv
<1>6. ASSUME NEW h \in Calls, NEW id \in TusIds, PrepareCompletion(h, id) PROVE Inv'
  <2>1. UNCHANGED <<processing, tusd, file>> /\ tusd[id].offset = Declared
    BY <1>6 DEF PrepareCompletion
  <2>2. /\ Declared \in 0..Declared
        /\ Declared >= record.received
        /\ Declared <= tusd[id].offset
    BY <1>0, <2>1 DEF TypeOK, Records
  <2>3. Binds(id) /\ record' = [record EXCEPT !.tus = id, !.received = Declared]
    BY <1>6 DEF PrepareCompletion
  <2>4. /\ record' \in Records
        /\ CompletionConsistent'
        /\ ProgressTruthful'
        /\ \A g \in Calls : call[g].at # "idle" =>
             record'.tus = call[g].on /\ record'.received = Declared
    BY <1>6, <2>1, <2>2, <2>3, ProgressKeepsInv
  <2>5. call' = [call EXCEPT ![h] =
                   [at |-> "bound", on |-> id, content |-> 0, version |-> 0]]
    BY <1>6 DEF PrepareCompletion, Bound
  <2>6. call' \in [Calls -> CallRow]
    BY <1>0, <2>5 DEF TypeOK, CallRow, CallSteps, Versions
  <2>7. record'.tus = id /\ record'.received = Declared
    BY <1>0, <2>3 DEF TypeOK, Records
  <2>8. TypeOK'
    BY <1>0, <2>1, <2>4, <2>6 DEF TypeOK
  <2>9. CallsBound'
    BY <1>0, <2>1, <2>4, <2>5, <2>7 DEF CallsBound, TypeOK
  <2> QED
    BY <2>4, <2>8, <2>9 DEF Inv
<1>7. ASSUME NEW h \in Calls, OpenFile(h) \/ HashFile(h) \/ AbandonCompletion(h)
      PROVE  Inv'
  <2>1. UNCHANGED <<record, processing, tusd, file>>
    BY <1>7 DEF OpenFile, HashFile, AbandonCompletion
  <2>2. call[h].on \in TusIds /\ file[call[h].on].version \in Versions
    BY <1>0, <1>7 DEF OpenFile, HashFile, AbandonCompletion, CallsBound, TypeOK, Files
  <2>3. call' \in [Calls -> CallRow]
    BY <1>0, <1>7, <2>2
       DEF OpenFile, HashFile, AbandonCompletion, TypeOK, CallRow, CallSteps, NoCall,
           Versions
  <2>4. CallsBound'
    BY <1>0, <1>7, <2>1
       DEF OpenFile, HashFile, UnchangedFile, AbandonCompletion, CallsBound, TypeOK,
           CallRow, NoCall
  <2> QED
    BY <1>0, <2>1, <2>3, <2>4
       DEF Inv, TypeOK, CompletionConsistent, ProgressTruthful, Completed
<1>8. ASSUME NEW h \in Calls, PublishCompletion(h) PROVE Inv'
  <2>1. /\ call[h].at = "hashed" /\ record.tus = call[h].on /\ call[h].on \in TusIds
        /\ record.received = Declared /\ tusd[call[h].on].offset = Declared
    BY <1>0, <1>8 DEF PublishCompletion, StillBound, CallsBound
  <2>2. Evidence(h) \in Identities
    BY <1>0, <2>1 DEF Evidence, Identities, TypeOK, CallRow
  <2>3. /\ record' = [record EXCEPT !.identity = Evidence(h), !.received = Declared,
                                    !.state = "uploaded"]
        /\ processing' = Evidence(h)
        /\ call' = [call EXCEPT ![h] = NoCall]
        /\ UNCHANGED <<tusd, file>>
    BY <1>8 DEF PublishCompletion, FirstOrSame
  <2>4. /\ record' \in Records
        /\ record'.identity = Evidence(h) /\ record'.received = Declared
        /\ record'.state = "uploaded" /\ record'.tus = record.tus
    <3>1. record' = [state |-> "uploaded", expired |-> record.expired, tus |-> record.tus,
                     received |-> Declared, identity |-> Evidence(h)]
      BY <1>0, <2>3 DEF TypeOK, Records
    <3> QED
      BY <1>0, <2>2, <3>1 DEF TypeOK, Records
  <2>5. call' \in [Calls -> CallRow]
    BY <1>0, <2>3 DEF TypeOK, CallRow, CallSteps, NoCall, Versions
  <2>6. TypeOK'
    BY <1>0, <2>2, <2>3, <2>4, <2>5 DEF TypeOK
  <2>7. CompletionConsistent'
    BY <2>1, <2>2, <2>3, <2>4, IdentityIsReal
       DEF CompletionConsistent, Completed, Evidence
  <2>8. ProgressTruthful'
    BY <2>1, <2>3, <2>4 DEF ProgressTruthful
  <2>9. CallsBound'
    BY <1>0, <2>1, <2>3, <2>4 DEF CallsBound, TypeOK, NoCall
  <2> QED
    BY <2>6, <2>7, <2>8, <2>9 DEF Inv
<1>9. CASE UNCHANGED vars
  BY <1>0, <1>9
     DEF vars, Inv, TypeOK, CompletionConsistent, ProgressTruthful, CallsBound, Completed
<1> QED
  BY <1>1, <1>2, <1>3, <1>4, <1>5, <1>6, <1>7, <1>8, <1>9
     DEF Next, TusStep, CompletionStep

LEMMA AlwaysInv == Spec => []Inv
BY InitInv, NextInv, PTL DEF Spec

\* Every variable keeps its shape.
THEOREM TypeCorrect == Spec => []TypeOK
<1>1. Inv => TypeOK
  BY DEF Inv
<1> QED
  BY <1>1, AlwaysInv, PTL

\* Session state, evidence and processing row agree.
THEOREM CompletionIsConsistent == Spec => []CompletionConsistent
<1>1. Inv => CompletionConsistent
  BY DEF Inv
<1> QED
  BY <1>1, AlwaysInv, PTL

\* received_bytes is bounded by what tusd holds of the bound upload.
THEOREM ProgressIsTruthful == Spec => []ProgressTruthful
<1>1. Inv => ProgressTruthful
  BY DEF Inv
<1> QED
  BY <1>1, AlwaysInv, PTL

\* The rows change by these steps only.
LEMMA RowSteps ==
  ASSUME Inv, [Next]_vars
  PROVE  \/ UNCHANGED <<record, processing>>
         \/ /\ record.state = "absent" \/ ~record.expired
            /\ processing' = processing
            /\ record'.identity = record.identity
            /\ record'.tus = record.tus /\ record'.received = record.received
            /\ record'.state \in {record.state, "uploading"}
            /\ record.state # "absent" => record'.state = record.state
         \/ /\ processing' = processing
            /\ record'.identity = record.identity /\ record'.state = record.state
            /\ record.tus \in {NoTus, record'.tus}
            /\ record'.received >= record.received
         \/ \E h \in Calls : PublishCompletion(h)
<1> USE UploadAssumption DEF Inv, TypeOK, Records
<1>1. CASE CreateUploadSession
  BY <1>1 DEF CreateUploadSession
<1>2. CASE Expire
  BY <1>2 DEF Expire
<1>3. ASSUME NEW id \in TusIds, NEW offset \in 0..Declared, ReportProgress(id, offset)
      PROVE  /\ processing' = processing
             /\ record'.identity = record.identity /\ record'.state = record.state
             /\ record.tus \in {NoTus, record'.tus}
             /\ record'.received >= record.received
  BY <1>3 DEF ReportProgress, Binds, Received
<1>4. ASSUME NEW h \in Calls, NEW id \in TusIds, PrepareCompletion(h, id)
      PROVE  /\ processing' = processing
             /\ record'.identity = record.identity /\ record'.state = record.state
             /\ record.tus \in {NoTus, record'.tus}
             /\ record'.received >= record.received
  BY <1>4 DEF PrepareCompletion, Binds
<1>5. ASSUME NEW id \in TusIds,
             PreCreate(id) \/ TusCreate(id) \/ TusAppend(id) \/ ChangeFile(id)
      PROVE  UNCHANGED <<record, processing>>
  BY <1>5 DEF PreCreate, TusCreate, TusAppend, ChangeFile
<1>6. ASSUME NEW h \in Calls, OpenFile(h) \/ HashFile(h) \/ AbandonCompletion(h)
      PROVE  UNCHANGED <<record, processing>>
  BY <1>6 DEF OpenFile, HashFile, AbandonCompletion
<1>7. CASE UNCHANGED vars
  BY <1>7 DEF vars
<1> QED
  BY <1>1, <1>2, <1>3, <1>4, <1>5, <1>6, <1>7 DEF Next, TusStep, CompletionStep

\* What PublishCompletion does, under Inv.
LEMMA PublishEffect ==
  ASSUME Inv, NEW h \in Calls, PublishCompletion(h)
  PROVE  /\ record'.tus = record.tus /\ record.tus = call[h].on /\ record.tus \in TusIds
         /\ record'.identity = Evidence(h) /\ processing' = Evidence(h)
         /\ record'.identity.content = file[record.tus].version
         /\ file[record.tus].whole
         /\ ~record.expired
         /\ record'.received = Declared /\ record.received = Declared
         /\ record'.state = "uploaded"
         /\ Completed => record.identity = Evidence(h)
<1>1. /\ record.tus = call[h].on /\ call[h].on \in TusIds /\ record.received = Declared
      /\ call[h].content = call[h].version
  BY DEF Inv, CallsBound, PublishCompletion, StillBound
<1>2. /\ record' = [record EXCEPT !.identity = Evidence(h), !.received = Declared,
                                  !.state = "uploaded"]
      /\ processing' = Evidence(h)
      /\ Completed => record.identity = Evidence(h)
  BY DEF PublishCompletion, FirstOrSame
<1>3. /\ record'.identity = Evidence(h) /\ record'.received = Declared
      /\ record'.state = "uploaded" /\ record'.tus = record.tus
  BY <1>2 DEF Inv, TypeOK, Records
<1>4. /\ file[call[h].on].whole /\ file[call[h].on].version = call[h].version
      /\ ~record.expired
  BY DEF PublishCompletion, Revalidated, StillBound, Valid
<1> QED
  BY <1>1, <1>2, <1>3, <1>4 DEF Evidence

\* Progress and binding never go back.
THEOREM ProgressNeverGoesBack == Spec => ProgressMonotone
<1>1. ASSUME Inv, [Next]_vars
      PROVE  /\ record'.received >= record.received
             /\ record.tus # NoTus => record'.tus = record.tus
  <2>1. record.received \in Int
    BY <1>1, UploadAssumption DEF Inv, TypeOK, Records
  <2>2. CASE \E h \in Calls : PublishCompletion(h)
    BY <1>1, <2>1, <2>2, PublishEffect, UploadAssumption
  <2> QED
    BY <1>1, <2>1, <2>2, RowSteps
<1> QED
  BY <1>1, AlwaysInv, PTL DEF Spec, ProgressMonotone

\* What is published is what the bound file holds, whole and in time.
THEOREM PublishedIsStored == Spec => PublishedAsStored
<1>1. ASSUME Inv, [Next]_vars, record'.identity # record.identity
      PROVE  /\ record'.identity.content = file[record'.tus].version
             /\ file[record'.tus].whole
             /\ ~record.expired
  <2>1. PICK h \in Calls : PublishCompletion(h)
    BY <1>1, RowSteps
  <2> QED
    BY <1>1, <2>1, PublishEffect
<1> QED
  BY <1>1, AlwaysInv, PTL DEF Spec, PublishedAsStored

\* A published completion is final.
THEOREM CompletionIsFinal == Spec => CompletionFinal
<1>1. ASSUME Inv, [Next]_vars, Completed
      PROVE  /\ record'.identity = record.identity
             /\ record'.state = record.state
             /\ processing' = processing
  <2>1. processing = record.identity /\ record.state = "uploaded"
    BY <1>1 DEF Inv, CompletionConsistent
  <2>2. CASE \E h \in Calls : PublishCompletion(h)
    BY <1>1, <2>1, <2>2, PublishEffect
  <2> QED
    BY <1>1, <2>1, <2>2, RowSteps
<1> QED
  BY <1>1, AlwaysInv, PTL DEF Spec, CompletionFinal
=============================================================================
