-------------------------- MODULE UploadClientProofs --------------------------
(***************************************************************************)
(* Proofs about UploadClient for every number of tus uploads, finish hooks,  *)
(* tries and faults.  What is proved of the server in UploadCompletionProofs *)
(* holds under this client as well, whose steps are steps of the server.     *)
(***************************************************************************)
EXTENDS UploadClient, UploadCompletionProofs

\* tusd's hooks: one that is handled is due, one that is due has a try left, and none
\* has been called before the last byte.
HooksOK ==
  \A id \in TusIds :
    /\ finish[id].handler # NoHook => finish[id].result = "due"
    /\ finish[id].result = "due" => finish[id].left >= 1
    /\ tusd[id].offset < Declared =>
         finish[id] = [result |-> "none", left |-> HookTries, handler |-> NoHook]

\* The tus client sends to an upload it knows.
SendsToKnown == client.at \in {"sending", "finishing"} => url # NoTus

ClientInv == Inv /\ ClientTypeOK /\ HooksOK /\ SendsToKnown /\ DurableClaimTrue

Clients == [at : Phases, post : TusIds \cup {NoTus}]
RecoveryRecords == [session : BOOLEAN, complete : BOOLEAN]

LEMMA ClientInitInv == ClientInit => ClientInv
<1> SUFFICES ASSUME ClientInit
             PROVE  ClientInv
  OBVIOUS
<1>1. Inv /\ TypeOK
  BY InitInv DEF ClientInit, Inv
<1>2. ClientTypeOK
  BY <1>1, ClientAssumption DEF ClientInit, ClientTypeOK, Phases, HookRow
<1>3. HooksOK
  BY ClientAssumption DEF ClientInit, HooksOK
<1>4. SendsToKnown /\ DurableClaimTrue
  BY DEF ClientInit, SendsToKnown, DurableClaimTrue
<1> QED
  BY <1>1, <1>2, <1>3, <1>4 DEF ClientInv

-----------------------------------------------------------------------------
(* What every step of the server keeps.                                    *)

LEMMA CompletedStays ==
  ASSUME Inv, [Next]_vars, Completed
  PROVE  Completed' /\ processing' = record'.identity
<1>1. Inv'
  BY NextInv
<1>2. record'.identity = record.identity
  <2>1. CASE \E h \in Calls : PublishCompletion(h)
    BY <2>1, PublishEffect
  <2> QED
    BY <2>1, RowSteps
<1> QED
  BY <1>1, <1>2 DEF Completed, Inv, CompletionConsistent

LEMMA BytesStay ==
  ASSUME Inv, [Next]_vars, NEW id \in TusIds, tusd'[id].offset < Declared
  PROVE  tusd[id].offset < Declared
<1>1. tusd \in [TusIds -> TusUploads]
  BY DEF Inv, TypeOK
<1>2. CASE \E i \in TusIds : TusAppend(i)
  <2>1. PICK i \in TusIds : TusAppend(i)
    BY <1>2
  <2>2. tusd[i].offset < Declared /\ tusd' = [tusd EXCEPT ![i].offset = @ + 1]
    BY <2>1 DEF TusAppend
  <2>3. id # i => tusd'[id] = tusd[id]
    BY <1>1, <2>2
  <2> QED
    BY <2>2, <2>3
<1>3. CASE \E i \in TusIds : PreCreate(i) \/ TusCreate(i)
  <2>1. \E i \in TusIds, s \in {"admitted", "created"} : tusd' = [tusd EXCEPT ![i].made = s]
    BY <1>3 DEF PreCreate, TusCreate
  <2>2. tusd'[id].offset = tusd[id].offset
    BY <1>1, <2>1 DEF TusUploads
  <2> QED
    BY <2>2
<1>4. CASE UNCHANGED tusd
  BY <1>4
<1> QED
  BY <1>2, <1>3, <1>4
     DEF Next, vars, TusStep, CompletionStep, CreateUploadSession, Expire, ChangeFile,
         ReportProgress, PrepareCompletion, OpenFile, HashFile, PublishCompletion,
         AbandonCompletion

\* A step of the server, and whatever the client and tusd make of it.
LEMMA StepKeeps ==
  ASSUME ClientInv, [Next]_vars,
         client' \in Clients, saved' \in RecoveryRecords, url' \in TusIds \cup {NoTus},
         finish' \in [TusIds -> HookRow], faults' \in 0..MaxFaults,
         HooksOK', SendsToKnown',
         client'.at = "done" \/ saved'.complete => Completed
  PROVE  ClientInv'
<1>1. Inv'
  BY NextInv DEF ClientInv
<1>2. DurableClaimTrue'
  BY CompletedStays DEF DurableClaimTrue, ClientInv
<1>3. ClientTypeOK'
  BY <1>1 DEF ClientTypeOK, Clients, RecoveryRecords, Inv
<1> QED
  BY <1>1, <1>2, <1>3 DEF ClientInv

LEMMA HooksKept ==
  ASSUME ClientInv, [Next]_vars, UNCHANGED finish
  PROVE  HooksOK'
BY BytesStay DEF ClientInv, HooksOK

LEMMA Typed ==
  ASSUME ClientInv
  PROVE  /\ Inv /\ client \in Clients /\ saved \in RecoveryRecords /\ url \in TusIds \cup {NoTus}
         /\ finish \in [TusIds -> HookRow] /\ faults \in 0..MaxFaults /\ HooksOK
         /\ SendsToKnown
         /\ client.at = "done" \/ saved.complete => Completed
BY DEF ClientInv, ClientTypeOK, Clients, RecoveryRecords, DurableClaimTrue

-----------------------------------------------------------------------------
(* The page.                                                               *)

\* The page goes to another phase, and the server may take a step.
LEMMA PageStep ==
  ASSUME ClientInv, [Next]_vars, UNCHANGED <<url, finish>>,
         faults' = faults \/ Fault, NEW p \in Phases, GoTo(p),
         p \in {"sending", "finishing"} => url # NoTus,
         saved' \in RecoveryRecords, p = "done" \/ saved'.complete => Completed
  PROVE  ClientInv'
<1>1. client' = [at |-> p, post |-> NoTus]
  BY DEF GoTo
<1>2. client' \in Clients /\ client'.at = p
  BY <1>1 DEF Clients
<1>3. faults' \in 0..MaxFaults
  BY Typed, ClientAssumption DEF Fault
<1>4. SendsToKnown'
  BY <1>2 DEF SendsToKnown
<1> QED
  BY <1>2, <1>3, <1>4, HooksKept, StepKeeps, Typed

LEMMA TransferPhase ==
  Transfer \in Phases /\ (Transfer \in {"sending", "finishing"} => url # NoTus)
    /\ Transfer # "done"
BY DEF Transfer, Phases

\* The steps that leave tusd's hooks alone but for a POST.
LEMMA PageKeepsInv ==
  ASSUME ClientInv,
         \/ Start \/ RetryAll \/ CreateAnswered \/ SessionRead \/ Verified
         \/ VerifyGivesUp \/ ReadExpired \/ PostRefused \/ HeadWhole \/ PatchAnswered
         \/ ReadUnanswered \/ Reload \/ PostUnanswered \/ PatchBreaks
  PROVE  ClientInv' /\ [Next]_vars
<1> USE DEF ClientOnly
<1>1. /\ saved \in RecoveryRecords
      /\ client.at = "done" \/ saved.complete => Completed
      /\ client.at \in {"sending", "finishing"} => url # NoTus
  BY Typed DEF SendsToKnown
<1>2. CASE Start
  BY <1>1, <1>2, PageStep DEF Start, Phases
<1>3. CASE RetryAll
  BY <1>1, <1>3, TransferPhase, PageStep DEF RetryAll
<1>4. CASE CreateAnswered
  <2>1. [Next]_vars /\ UNCHANGED <<url, finish, faults>> /\ GoTo(Transfer)
    BY <1>4 DEF CreateAnswered, SessionCreated, Next
  <2>2. saved' \in RecoveryRecords /\ saved'.complete = saved.complete
    BY <1>1, <1>4 DEF CreateAnswered, RecoveryRecords
  <2> QED
    BY <1>1, <2>1, <2>2, TransferPhase, PageStep
<1>5. CASE SessionRead \/ Verified
  <2>1. UNCHANGED <<vars, url, finish, faults>>
    BY <1>5 DEF SessionRead, Verified
  <2>2. CASE DurablyUploaded
    <3>1. saved' = [saved EXCEPT !.complete = TRUE] /\ GoTo("done")
      BY <1>5, <2>2 DEF SessionRead, Verified, MarkComplete
    <3>2. saved' \in RecoveryRecords /\ Completed
      BY <1>1, <2>2, <3>1 DEF RecoveryRecords, DurablyUploaded
    <3> QED
      BY <2>1, <3>1, <3>2, PageStep DEF Phases
  <2>3. CASE ~ DurablyUploaded
    <3>1. GoTo(Transfer) /\ UNCHANGED saved
      BY <1>5, <2>3 DEF SessionRead, Verified
    <3> QED
      BY <1>1, <2>1, <3>1, TransferPhase, PageStep
  <2> QED
    BY <2>2, <2>3
<1>6. CASE VerifyGivesUp \/ PostRefused
  <2>1. GoTo("error") /\ UNCHANGED <<vars, saved, url, finish, faults>>
    BY <1>6 DEF VerifyGivesUp, PostRefused
  <2> QED
    BY <1>1, <2>1, PageStep DEF Phases
<1>7. CASE ReadExpired
  <2>1. /\ GoTo("expired") /\ UNCHANGED <<vars, url, finish, faults>>
        /\ saved' = [session |-> FALSE, complete |-> FALSE]
    BY <1>7 DEF ReadExpired
  <2>2. saved' \in RecoveryRecords /\ ~ saved'.complete
    BY <2>1 DEF RecoveryRecords
  <2> QED
    BY <2>1, <2>2, PageStep DEF Phases
<1>8. CASE HeadWhole
  <2>1. GoTo("verifying") /\ UNCHANGED <<vars, saved, url, finish, faults>>
    BY <1>8 DEF HeadWhole
  <2> QED
    BY <1>1, <2>1, PageStep DEF Phases
<1>9. CASE PatchAnswered
  <2>1. /\ \E p \in {"verifying", "error"} : GoTo(p)
        /\ UNCHANGED <<vars, saved, url, finish, faults>>
    BY <1>9 DEF PatchAnswered
  <2> QED
    BY <1>1, <2>1, PageStep DEF Phases
<1>10. CASE ReadUnanswered \/ Reload \/ PostUnanswered \/ PatchBreaks
  <2>1. /\ \E p \in {"error", "idle"} : GoTo(p)
        /\ Fault /\ [Next]_vars /\ UNCHANGED <<saved, url, finish>>
    BY <1>10 DEF ReadUnanswered, Reload, PostUnanswered, PatchBreaks, Next
  <2> QED
    BY <1>1, <2>1, PageStep DEF Phases
<1>11. [Next]_vars
  BY DEF Start, RetryAll, CreateAnswered, SessionCreated, SessionRead, Verified,
         VerifyGivesUp, ReadExpired, PostRefused, HeadWhole, PatchAnswered,
         ReadUnanswered, Reload, PostUnanswered, PatchBreaks, Next
<1> QED
  BY <1>2, <1>3, <1>4, <1>5, <1>6, <1>7, <1>8, <1>9, <1>10, <1>11

-----------------------------------------------------------------------------
(* POST and PATCH, and what tusd and others do on their own.               *)

LEMMA PostKeepsInv ==
  ASSUME ClientInv, PostAnswered \/ \E id \in TusIds : PostAdmitted(id)
  PROVE  ClientInv' /\ [Next]_vars
<1>1. CASE PostAnswered
  <2>1. UNCHANGED <<vars, saved, finish, faults>> /\ url' = client.post
    BY <1>1 DEF PostAnswered, ClientOnly
  <2>2. client.post \in TusIds /\ client' = [at |-> "sending", post |-> NoTus]
    BY <1>1, Typed DEF PostAnswered, GoTo, Clients
  <2>3. client' \in Clients /\ client'.at = "sending" /\ url' \in TusIds
    BY <2>1, <2>2 DEF Clients, Phases
  <2>4. SendsToKnown'
    BY <2>3, UploadAssumption DEF SendsToKnown
  <2>5. client'.at = "done" \/ saved'.complete => Completed
    BY <2>1, <2>3, Typed
  <2>6. [Next]_vars
    BY <2>1
  <2> QED
    BY <2>1, <2>3, <2>4, <2>5, <2>6, HooksKept, StepKeeps, Typed
<1>2. ASSUME NEW id \in TusIds, PostAdmitted(id)
      PROVE  ClientInv' /\ [Next]_vars
  <2>1. [Next]_vars /\ UNCHANGED <<saved, url, finish, faults>>
    BY <1>2 DEF PostAdmitted, Next, TusStep
  <2>2. client.at = "posting" /\ client' = [client EXCEPT !.post = id]
    BY <1>2 DEF PostAdmitted
  <2>3. client' \in Clients /\ client'.at = "posting"
    BY <2>2, Typed DEF Clients
  <2>4. SendsToKnown'
    BY <2>3 DEF SendsToKnown
  <2>5. client'.at = "done" \/ saved'.complete => Completed
    BY <2>1, <2>3, Typed
  <2> QED
    BY <2>1, <2>3, <2>4, <2>5, HooksKept, StepKeeps, Typed
<1> QED
  BY <1>1, <1>2

\* The client, and the record it keeps, are left alone.
LEMMA BehindThePage ==
  ASSUME ClientInv, [Next]_vars, UNCHANGED <<client, saved, url>>,
         finish' \in [TusIds -> HookRow], faults' \in 0..MaxFaults, HooksOK'
  PROVE  ClientInv'
<1>1. SendsToKnown'
  BY Typed DEF SendsToKnown
<1> QED
  BY <1>1, StepKeeps, Typed

LEMMA PatchKeepsInv ==
  ASSUME ClientInv, Patch
  PROVE  ClientInv' /\ [Next]_vars
<1>1. /\ TusAppend(url) /\ client.at = "sending" /\ UNCHANGED <<saved, url, faults>>
      /\ finish \in [TusIds -> HookRow] /\ HooksOK /\ Inv
  BY Typed DEF Patch
<1>2. url \in TusIds
  BY <1>1, Typed DEF SendsToKnown
<1>3. [Next]_vars
  BY <1>1, <1>2 DEF Next, TusStep
<1>4. CASE tusd'[url].offset = Declared
  <2>1. GoTo("finishing") /\ finish' = [finish EXCEPT ![url].result = "due"]
    BY <1>4 DEF Patch
  <2>2. client' = [at |-> "finishing", post |-> NoTus]
    BY <2>1 DEF GoTo
  <2>3. client' \in Clients /\ client'.at = "finishing"
    BY <2>2 DEF Clients, Phases
  <2>4. SendsToKnown'
    BY <1>1, <1>2, UploadAssumption DEF SendsToKnown
  <2>5. finish[url] = [result |-> "none", left |-> HookTries, handler |-> NoHook]
    BY <1>1, <1>2 DEF TusAppend, HooksOK
  <2>6. /\ finish'[url] = [result |-> "due", left |-> HookTries, handler |-> NoHook]
        /\ \A id \in TusIds \ {url} : finish'[id] = finish[id]
    BY <1>1, <1>2, <2>1, <2>5
  <2>7. finish' \in [TusIds -> HookRow]
    BY <1>1, <1>2, <2>1, <2>6, ClientAssumption DEF HookRow
  <2>8. HooksOK'
    <3>1. \A id \in TusIds : tusd'[id].offset < Declared => tusd[id].offset < Declared
      BY <1>1, <1>3, BytesStay
    <3>2. ~ (tusd'[url].offset < Declared)
      BY <1>4, UploadAssumption
    <3>3. HookTries >= 1
      BY ClientAssumption
    <3> QED
      BY <1>1, <1>2, <2>6, <3>1, <3>2, <3>3 DEF HooksOK
  <2>9. client'.at = "done" \/ saved'.complete => Completed
    BY <1>1, <2>3, Typed
  <2> QED
    BY <1>1, <1>3, <2>3, <2>4, <2>7, <2>8, <2>9, StepKeeps, Typed
<1>5. CASE tusd'[url].offset # Declared
  <2>1. UNCHANGED <<client, finish>>
    BY <1>5 DEF Patch
  <2> QED
    BY <1>1, <1>3, <2>1, HooksKept, BehindThePage, Typed
<1> QED
  BY <1>3, <1>4, <1>5

LEMMA QuietKeepsInv ==
  ASSUME ClientInv, [Next]_vars, UNCHANGED clientVars
  PROVE  ClientInv'
BY HooksKept, BehindThePage, Typed DEF clientVars

-----------------------------------------------------------------------------
(* The finish hooks.                                                       *)

\* The hook of one tus upload changes, which has all its bytes.
LEMMA OneHook ==
  ASSUME ClientInv, [Next]_vars, UNCHANGED <<client, saved, url>>, faults' \in 0..MaxFaults,
         NEW id \in TusIds, finish[id].result = "due", NEW row \in HookRow,
         finish' = [finish EXCEPT ![id] = row],
         row.handler # NoHook => row.result = "due",
         row.result = "due" => row.left >= 1
  PROVE  ClientInv'
<1>1. finish \in [TusIds -> HookRow] /\ HooksOK /\ Inv
  BY Typed
<1>2. finish' \in [TusIds -> HookRow]
  BY <1>1
<1>3. ~ (tusd[id].offset < Declared)
  BY <1>1 DEF HooksOK
<1>4. HooksOK'
  <2>1. finish'[id] = row /\ \A i \in TusIds \ {id} : finish'[i] = finish[i]
    BY <1>1
  <2>2. \A i \in TusIds : tusd'[i].offset < Declared => tusd[i].offset < Declared
    BY <1>1, BytesStay
  <2> QED
    BY <1>1, <1>3, <2>1, <2>2 DEF HooksOK
<1> QED
  BY <1>2, <1>4, BehindThePage

LEMMA DueHook ==
  ASSUME ClientInv, NEW id \in TusIds, finish[id].result = "due"
  PROVE  /\ finish[id] \in HookRow /\ finish[id].left \in 1..HookTries
BY Typed, ClientAssumption DEF HooksOK, HookRow

LEMMA TryFailedKeepsInv ==
  ASSUME ClientInv, [Next]_vars, UNCHANGED <<client, saved, url>>, faults' \in 0..MaxFaults,
         NEW id \in TusIds, finish[id].result = "due", TryFailed(id)
  PROVE  ClientInv'
<1> DEFINE left == finish[id].left
           result == IF left = 1 THEN "failed" ELSE "due"
           row == [finish[id] EXCEPT !.left = left - 1, !.handler = NoHook,
                                     !.result = result]
<1>1. finish[id] \in HookRow /\ left \in 1..HookTries /\ HookTries \in Nat
  BY DueHook, ClientAssumption
<1>2. finish' = [finish EXCEPT ![id] = row]
  BY DEF TryFailed
<1>3. row.handler = NoHook /\ row.left = left - 1 /\ row.result = result
  BY <1>1 DEF HookRow
<1>4. row \in HookRow /\ (row.result = "due" => row.left >= 1)
  <2>1. left - 1 \in 0..HookTries /\ result \in {"failed", "due"}
    BY <1>1
  <2>2. row \in HookRow
    <3> HIDE DEF left, result
    <3> QED
      BY <1>1, <2>1 DEF HookRow
  <2>3. result = "due" => left - 1 >= 1
    BY <1>1
  <2> QED
    BY <1>3, <2>2, <2>3
<1> HIDE DEF row
<1> QED
  BY <1>2, <1>3, <1>4, OneHook

LEMMA AnswerKeepsInv ==
  ASSUME ClientInv, [Next]_vars, UNCHANGED <<client, saved, url, faults>>,
         NEW h \in Calls, NEW result \in {"passed", "refused"}, Answer(h, result)
  PROVE  ClientInv'
<1>1. finish \in [TusIds -> HookRow] /\ HooksOK /\ Inv
  BY Typed
<1>2. h # NoHook
  BY ClientAssumption
<1>3. \A id \in TusIds :
        finish'[id] = IF finish[id].handler = h
                      THEN [finish[id] EXCEPT !.handler = NoHook, !.result = result]
                      ELSE finish[id]
  BY DEF Answer, AnsweredBy
<1>4. ASSUME NEW id \in TusIds, finish[id].handler = h
      PROVE  /\ finish'[id] \in HookRow /\ finish'[id].handler = NoHook
             /\ finish'[id].result = result /\ ~ (tusd[id].offset < Declared)
  <2>1. finish[id].result = "due" /\ finish[id] \in HookRow
    BY <1>1, <1>2, <1>4 DEF HooksOK
  <2>2. finish'[id] = [finish[id] EXCEPT !.handler = NoHook, !.result = result]
    BY <1>3, <1>4
  <2>3. ~ (tusd[id].offset < Declared)
    BY <1>1, <2>1 DEF HooksOK
  <2> QED
    BY <2>1, <2>2, <2>3 DEF HookRow
<1>5. finish' \in [TusIds -> HookRow]
  <2>1. \A id \in TusIds : finish'[id] \in HookRow
    BY <1>1, <1>3, <1>4
  <2>2. DOMAIN finish' = TusIds /\ finish' = [id \in TusIds |-> finish'[id]]
    BY DEF Answer
  <2> QED
    BY <2>1, <2>2
<1>6. HooksOK'
  <2>1. \A i \in TusIds : tusd'[i].offset < Declared => tusd[i].offset < Declared
    BY <1>1, BytesStay
  <2>2. ASSUME NEW id \in TusIds
        PROVE  /\ finish'[id].handler # NoHook => finish'[id].result = "due"
               /\ finish'[id].result = "due" => finish'[id].left >= 1
               /\ tusd'[id].offset < Declared =>
                    finish'[id] = [result |-> "none", left |-> HookTries, handler |-> NoHook]
    <3>1. CASE finish[id].handler = h
      BY <1>4, <2>1, <3>1
    <3>2. CASE finish[id].handler # h
      BY <1>1, <1>3, <2>1, <3>2 DEF HooksOK
    <3> QED
      BY <3>1, <3>2
  <2> QED
    BY <2>2 DEF HooksOK
<1> QED
  BY <1>5, <1>6, BehindThePage, Typed

LEMMA FinishCallKeepsInv ==
  ASSUME ClientInv, NEW h \in Calls, NEW id \in TusIds, FinishCall(h, id)
  PROVE  ClientInv' /\ [Next]_vars
<1> DEFINE row == [finish[id] EXCEPT !.handler = h]
<1>1. /\ finish[id].result = "due" /\ [Next]_vars
      /\ finish' = [finish EXCEPT ![id].handler = h]
      /\ UNCHANGED <<client, saved, url, faults>>
  BY DEF FinishCall, Awaited, Next, CompletionStep
<1>2. finish[id] \in HookRow /\ finish[id].left \in 1..HookTries
  BY <1>1, DueHook
<1>3. row \in HookRow /\ row.result = "due" /\ row.left >= 1
  BY <1>1, <1>2, ClientAssumption DEF HookRow
<1>4. finish' = [finish EXCEPT ![id] = row]
  BY <1>1
<1> HIDE DEF row
<1> QED
  BY <1>1, <1>3, <1>4, OneHook, Typed

LEMMA LostHookKeepsInv ==
  ASSUME ClientInv, NEW id \in TusIds, FinishRefused(id) \/ TusdRestarts(id)
  PROVE  ClientInv' /\ [Next]_vars
<1>1. /\ finish[id].result = "due" /\ UNCHANGED <<vars, client, saved, url>>
      /\ \E r \in {"refused", "failed"} :
           finish' = [finish EXCEPT ![id].result = r, ![id].handler = NoHook]
  <2> finish \in [TusIds -> HookRow]
    BY Typed
  <2>1. CASE FinishRefused(id)
    <3>1. finish[id].handler = NoHook /\ finish[id].result = "due"
      BY <2>1 DEF FinishRefused, Awaited
    <3>2. finish' = [finish EXCEPT ![id].result = "refused"]
      BY <2>1 DEF FinishRefused
    <3>3. finish[id] \in HookRow
      BY <3>1, DueHook
    <3>4. [finish[id] EXCEPT !.result = "refused"]
            = [finish[id] EXCEPT !.result = "refused", !.handler = NoHook]
      BY <3>1, <3>3 DEF HookRow
    <3>5. finish' = [finish EXCEPT ![id].result = "refused", ![id].handler = NoHook]
      BY <3>2, <3>4
    <3> QED
      BY <2>1, <3>1, <3>5 DEF FinishRefused
  <2>2. CASE TusdRestarts(id)
    <3>1. finish' = [finish EXCEPT ![id].result = "failed", ![id].handler = NoHook]
      BY <2>2 DEF TusdRestarts
    <3> QED
      BY <2>2, <3>1, Zenon DEF TusdRestarts
  <2> QED
    BY <2>1, <2>2
<1>2. PICK r \in {"refused", "failed"} :
        finish' = [finish EXCEPT ![id].result = r, ![id].handler = NoHook]
  BY <1>1
<1> DEFINE row == [finish[id] EXCEPT !.result = r, !.handler = NoHook]
<1>3. row \in HookRow /\ row.handler = NoHook /\ row.result # "due"
  <2>1. finish[id] \in HookRow
    BY <1>1, DueHook
  <2> QED
    BY <2>1 DEF HookRow
<1>4. finish' = [finish EXCEPT ![id] = row]
  BY <1>2
<1>5. faults' \in 0..MaxFaults
  BY Typed, ClientAssumption DEF FinishRefused, TusdRestarts, Fault
<1>6. [Next]_vars
  BY <1>1
<1> HIDE DEF row
<1> QED
  BY <1>1, <1>3, <1>4, <1>5, <1>6, OneHook

LEMMA HandlerKeepsInv ==
  ASSUME ClientInv, NEW h \in Calls, Publish(h) \/ PublishRefused(h) \/ StorageFails(h)
  PROVE  ClientInv' /\ [Next]_vars
<1>1. [Next]_vars /\ UNCHANGED <<client, saved, url, faults>>
  BY DEF Publish, PublishRefused, StorageFails, Next, CompletionStep
<1>2. CASE Publish(h) \/ PublishRefused(h)
  BY <1>1, <1>2, AnswerKeepsInv DEF Publish, PublishRefused
<1>3. CASE StorageFails(h)
  <2>1. CASE UNCHANGED finish
    BY <1>1, <2>1, HooksKept, BehindThePage, Typed
  <2>2. CASE \E id \in AnsweredBy(h) : TryFailed(id)
    <3>1. PICK id \in TusIds : finish[id].handler = h /\ TryFailed(id)
      BY <2>2 DEF AnsweredBy
    <3>2. finish[id].result = "due"
      BY <3>1, Typed, ClientAssumption DEF HooksOK
    <3>3. faults' \in 0..MaxFaults
      BY <1>1, Typed
    <3> QED
      BY <1>1, <3>1, <3>2, <3>3, TryFailedKeepsInv
  <2> QED
    BY <1>3, <2>1, <2>2 DEF StorageFails
<1> QED
  BY <1>1, <1>2, <1>3

LEMMA TryFailsKeepsInv ==
  ASSUME ClientInv, NEW id \in TusIds, TryFails(id)
  PROVE  ClientInv' /\ [Next]_vars
<1>1. /\ finish[id].result = "due" /\ Fault /\ TryFailed(id)
      /\ UNCHANGED <<client, saved, url>>
  BY DEF TryFails
<1>2. finish[id].handler \in Calls \cup {NoHook}
  BY <1>1, DueHook DEF HookRow
<1>3. [Next]_vars
  BY <1>2 DEF TryFails, Next, CompletionStep
<1>4. faults' \in 0..MaxFaults
  BY <1>1, Typed, ClientAssumption DEF Fault
<1> QED
  BY <1>1, <1>3, <1>4, TryFailedKeepsInv

-----------------------------------------------------------------------------
(* All steps.                                                              *)

LEMMA ComposedKeepsInv ==
  ASSUME ClientInv, ComposedNext
  PROVE  ClientInv' /\ [Next]_vars
<1>1. CASE ClientStep
  BY <1>1, PageKeepsInv, PostKeepsInv, PatchKeepsInv DEF ClientStep
<1>2. CASE HookStep
  <2>1. ASSUME NEW id \in TusIds, TusCreates(id)
        PROVE  ClientInv' /\ [Next]_vars
    BY <2>1, QuietKeepsInv DEF TusCreates, Next, TusStep
  <2>2. ASSUME NEW h \in Calls, Inspect(h)
        PROVE  ClientInv' /\ [Next]_vars
    BY <2>2, QuietKeepsInv DEF Inspect, Next, CompletionStep
  <2> QED
    BY <1>2, <2>1, <2>2, LostHookKeepsInv, FinishCallKeepsInv, HandlerKeepsInv DEF HookStep
<1>3. CASE FaultStep
  BY <1>3, PageKeepsInv, LostHookKeepsInv, TryFailsKeepsInv DEF FaultStep
<1>4. CASE OtherStep
  <2>1. [Next]_vars /\ UNCHANGED clientVars
    BY <1>4 DEF OtherStep, Expires, ProgressHook, PostFinishCall, FileChanges, Next,
                TusStep, CompletionStep
  <2> QED
    BY <2>1, QuietKeepsInv
<1> QED
  BY <1>1, <1>2, <1>3, <1>4 DEF ComposedNext

LEMMA StepsOfServer ==
  ASSUME ClientInv, [ComposedNext]_allVars
  PROVE  ClientInv' /\ [Next]_vars
<1>1. CASE UNCHANGED allVars
  BY <1>1, QuietKeepsInv DEF allVars
<1> QED
  BY <1>1, ComposedKeepsInv

LEMMA ClientInvAlways == ComposedSpec => []ClientInv
BY ClientInitInv, StepsOfServer, PTL DEF ComposedSpec

-----------------------------------------------------------------------------
\* The page, its tus client and tusd's hooks use the server (uploads.py) as
\* UploadCompletion has it, so that its theorems hold of the composition.
THEOREM ComposesWithServer == ComposedSpec => Spec
<1>1. ClientInit => Init
  BY DEF ClientInit
<1> QED
  BY <1>1, StepsOfServer, ClientInvAlways, PTL DEF ComposedSpec, Spec

\* Every variable keeps its shape; no try of a hook is counted that tusd has not left.
THEOREM ClientTypeCorrect == ComposedSpec => []ClientTypeOK
<1>1. ClientInv => ClientTypeOK
  BY DEF ClientInv
<1> QED
  BY <1>1, ClientInvAlways, PTL

\* The page (UploadPanel.tsx) claims a durable upload, now or after a reload, only if
\* the server has published the completion and its row for media processing, whatever
\* tusd answered, and however often hooks were lost, repeated or overtaken.
THEOREM DurableClaimIsTrue == ComposedSpec => []DurableClaimTrue
<1>1. ClientInv => DurableClaimTrue
  BY DEF ClientInv
<1> QED
  BY <1>1, ClientInvAlways, PTL
=============================================================================
