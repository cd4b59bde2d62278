--------------------------- MODULE OutboundProofs ---------------------------
(***************************************************************************)
(* Proofs about Outbound, for any sets of requests and servers, any maximum   *)
(* of attempts and any faults.                                                *)
(***************************************************************************)
EXTENDS Outbound, TLAPS

\* The row of an upload and its object follow the upload's progress.
UploadInv(r) ==
    /\ up[r] \in {"new", "valid", "stored", "inserting"} => status[r] = "NONE"
    /\ up[r] \in {"inserted", "created"} => status[r] # "NONE"
    /\ up[r] \in {"stored", "inserting"} => r \in objects
    /\ status[r] # "NONE" => r \in objects

\* A row waits only while it has attempts left, and its end is justified.
RowInv(r) ==
    /\ status[r] = "NONE" => attempts[r] = 0
    /\ attempts[r] <= AttemptBound
    /\ status[r] \in {"PROCESSING", "SENT", "FAILED"} => attempts[r] >= 1
    /\ status[r] = "PENDING" => attempts[r] < AttemptBound
    /\ status[r] = "SENT" => \E a \in 1..attempts[r] : <<r, a>> \in accepted
    /\ status[r] = "FAILED" => attempts[r] >= MaxAttempts

\* What a worker holds is what it believes to hold.
WorkerInv(s) ==
    /\ pc[s] = "selected" => status[cur[s]] = "PENDING"
    /\ pc[s] \in Working =>
          status[cur[s]] = "PROCESSING" /\ attempts[cur[s]] = tries[s]
    /\ pc[s] = "sendOk" => <<cur[s], tries[s]>> \in accepted
    /\ pc[s] = "backoff" => tries[s] < MaxAttempts

Exclusive ==
    \A s, t \in Servers : s # t /\ cur[s] # NoRow => cur[s] # cur[t]

NetworkInv ==
    \A m \in inFlight \cup accepted : m[2] \in 1..attempts[m[1]]

IInv ==
    /\ TypeOK
    /\ \A r \in Requests : UploadInv(r)
    /\ \A r \in Requests : RowInv(r)
    /\ \A s \in Servers : WorkerInv(s)
    /\ Exclusive
    /\ NetworkInv

-----------------------------------------------------------------------------
(* Type correctness.                                                          *)

\* The initial state has the type.
LEMMA InitType == Init => TypeOK
  BY NoRowAssumption DEF Init, TypeOK, UploadStates, Statuses, WorkerStates

\* The upload handler keeps the type.
LEMMA UploadType ==
    ASSUME TypeOK, NEW r \in Requests, UploadStep(r)
    PROVE  TypeOK'
<1> USE DEF TypeOK, UploadStates, Statuses, WorkerStates, uploadVars, workerVars, networkVars
<1>1. CASE UploadReceive(r)
  BY <1>1 DEF UploadReceive
<1>2. CASE UploadPut(r)
  BY <1>2 DEF UploadPut
<1>3. CASE UploadInsert(r)
  BY <1>3 DEF UploadInsert
<1>4. CASE UploadCommit(r)
  BY <1>4 DEF UploadCommit
<1>5. CASE UploadReply(r)
  BY <1>5 DEF UploadReply
<1>6. CASE UploadFail(r)
  BY <1>6 DEF UploadFail
<1>. QED
  BY <1>1, <1>2, <1>3, <1>4, <1>5, <1>6 DEF UploadStep

\* A worker that is not idle holds a request.
LEMMA HeldRow ==
    ASSUME TypeOK, NEW s \in Servers, pc[s] # "idle"
    PROVE  cur[s] \in Requests /\ cur[s] # NoRow
  BY DEF TypeOK

\* A worker keeps the type.
LEMMA WorkerType ==
    ASSUME TypeOK, NEW s \in Servers, WorkerStep(s)
    PROVE  TypeOK'
<1> USE DEF TypeOK, Statuses, WorkerStates, uploadVars, workerVars, networkVars, Goto, Release, SetStatus
<1>1. CASE ClaimSelect(s)
  BY <1>1, NoRowAssumption DEF ClaimSelect, Oldest, Claimable
<1>2. CASE ClaimCommit(s)
  BY <1>2, HeldRow DEF ClaimCommit, MarkProcessing
<1>3. CASE PrepareFail(s)
  BY <1>3 DEF PrepareFail
<1>4. CASE SendAudio(s)
  <2>1. inFlight' \subseteq Requests \X Nat
    BY <1>4, HeldRow DEF SendAudio
  <2>. QED
    BY <1>4, <2>1 DEF SendAudio
<1>5. CASE SendOk(s)
  BY <1>5 DEF SendOk
<1>6. CASE SendError(s)
  BY <1>6 DEF SendError
<1>7. CASE MarkSent(s)
  BY <1>7, HeldRow DEF MarkSent
<1>8. CASE MarkFailed(s)
  BY <1>8, HeldRow DEF MarkFailed
<1>9. CASE Backoff(s)
  BY <1>9, HeldRow DEF Backoff
<1>10. CASE RequeuePending(s)
  BY <1>10, HeldRow DEF RequeuePending
<1>. QED
  BY <1>1, <1>2, <1>3, <1>4, <1>5, <1>6, <1>7, <1>8, <1>9, <1>10 DEF WorkerStep

\* A fault keeps the type.
LEMMA FaultType ==
    ASSUME TypeOK, NEW s \in Servers, FaultStep(s)
    PROVE  TypeOK'
<1> USE DEF TypeOK, Statuses, WorkerStates, uploadVars, workerVars, networkVars, Release
<1>1. CASE ClaimRollback(s)
  BY <1>1 DEF ClaimRollback
<1>2. CASE ClaimCommitLost(s)
  BY <1>2, HeldRow DEF ClaimCommitLost, MarkProcessing
<1>3. CASE UpdateLost(s)
  BY <1>3 DEF UpdateLost
<1>4. CASE Crash(s)
  BY <1>4 DEF Crash
<1>. QED
  BY <1>1, <1>2, <1>3, <1>4 DEF FaultStep

\* The provider keeps the type.
LEMMA ProviderType ==
    ASSUME TypeOK, NEW m \in inFlight, ProviderAccept(m)
    PROVE  TypeOK'
  BY DEF TypeOK, ProviderAccept, uploadVars, workerVars

\* Every step keeps the type.
LEMMA NextType == TypeOK /\ [Next]_vars => TypeOK'
<1> SUFFICES ASSUME TypeOK, [Next]_vars
             PROVE  TypeOK'
  OBVIOUS
<1>1. CASE UNCHANGED vars
  BY <1>1 DEF TypeOK, vars
<1>. QED
  BY <1>1, UploadType, WorkerType, FaultType, ProviderType DEF Next

\* Every variable keeps its type, and an idle worker holds no row.
THEOREM TypeCorrect == Spec => []TypeOK
  BY InitType, NextType, PTL DEF Spec

-----------------------------------------------------------------------------
(* The inductive invariant: what each action does to IInv.                     *)

\* The invariant holds initially.
LEMMA InitInv == Init => IInv
<1> SUFFICES ASSUME Init PROVE IInv
  OBVIOUS
<1>1. \A r \in Requests : UploadInv(r) /\ RowInv(r)
  <2> SUFFICES ASSUME NEW r \in Requests
               PROVE  UploadInv(r) /\ RowInv(r)
    OBVIOUS
  <2>1. UploadInv(r)
    BY DEF Init, UploadInv
  <2>2. RowInv(r)
    BY MaxAttemptsAssumption DEF Init, RowInv, AttemptBound
  <2>. QED
    BY <2>1, <2>2
<1>2. \A s \in Servers : WorkerInv(s)
  BY DEF Init, WorkerInv, Working
<1>. QED
  BY <1>1, <1>2, InitType DEF IInv, Init, Exclusive, NetworkInv

\* The upload steps touch no row a worker holds: it is past NONE.
LEMMA UploadStepInv ==
    ASSUME IInv, NEW r \in Requests, UploadStep(r)
    PROVE  IInv'
<1>1. TypeOK'
  BY UploadType DEF IInv
<1>2. UNCHANGED <<attempts, workerVars, networkVars>>
  BY DEF UploadStep, UploadReceive, UploadPut, UploadInsert, UploadCommit, UploadReply, UploadFail
<1>3. status' = status \/ (up[r] = "inserting" /\ status' = [status EXCEPT ![r] = "PENDING"])
  BY DEF UploadStep, UploadReceive, UploadPut, UploadInsert, UploadCommit, UploadReply, UploadFail
<1>4. \A q \in Requests : UploadInv(q)'
  BY DEF IInv, TypeOK, UploadInv, UploadStep, UploadReceive, UploadPut, UploadInsert,
         UploadCommit, UploadReply, UploadFail
<1>5. \A q \in Requests : RowInv(q)'
  BY <1>2, <1>3, MaxAttemptsAssumption
     DEF IInv, TypeOK, UploadInv, RowInv, AttemptBound, networkVars
<1>6. \A s \in Servers : WorkerInv(s)'
  BY <1>2, <1>3, HeldRow
     DEF IInv, TypeOK, UploadInv, WorkerInv, Working, workerVars, networkVars
<1>7. Exclusive' /\ NetworkInv'
  BY <1>2 DEF IInv, Exclusive, NetworkInv, workerVars, networkVars
<1>. QED
  BY <1>1, <1>4, <1>5, <1>6, <1>7 DEF IInv

\* Between the claim and its end, a worker moves on without touching the table.
LEMMA SilentInv ==
    ASSUME IInv, TypeOK', NEW s \in Servers,
           UNCHANGED <<uploadVars, status, attempts, cur, tries, accepted>>,
           pc[s] # "idle",
           \A t \in Servers : t # s => pc'[t] = pc[t],
           pc[s] \in Working, pc'[s] \in Working,
           pc'[s] = "sendOk" => <<cur[s], tries[s]>> \in accepted,
           pc'[s] = "backoff" => tries[s] < MaxAttempts,
           inFlight' \subseteq inFlight \cup {<<cur[s], tries[s]>>}
    PROVE  IInv'
<1>1. \A r \in Requests : UploadInv(r)' /\ RowInv(r)'
  BY DEF IInv, UploadInv, RowInv, uploadVars
<1>2. \A t \in Servers : WorkerInv(t)'
  BY DEF IInv, WorkerInv, Working
<1>3. Exclusive'
  BY DEF IInv, Exclusive
<1>4. NetworkInv'
  <2>1. attempts[cur[s]] = tries[s] /\ tries[s] \in Nat /\ cur[s] \in Requests
    BY HeldRow DEF IInv, WorkerInv, TypeOK
  <2>2. tries[s] >= 1
    BY <2>1 DEF IInv, WorkerInv, RowInv
  <2>. QED
    BY <2>1, <2>2 DEF IInv, NetworkInv
<1>. QED
  BY <1>1, <1>2, <1>3, <1>4 DEF IInv

\* processOne returns or dies, having closed the row it held or not.
LEMMA ReleaseInv ==
    ASSUME IInv, TypeOK', NEW s \in Servers, pc[s] # "idle", Release(s),
           UNCHANGED <<uploadVars, attempts, networkVars>>,
           \/ UNCHANGED status
           \/ /\ pc[s] = "sendOk"
              /\ SetStatus(cur[s], "SENT")
           \/ /\ pc[s] = "sendErr" /\ tries[s] >= MaxAttempts
              /\ SetStatus(cur[s], "FAILED")
           \/ /\ pc[s] = "backoff" /\ tries[s] < MaxAttempts
              /\ SetStatus(cur[s], "PENDING")
    PROVE  IInv'
<1>0. cur[s] \in Requests /\ cur[s] # NoRow
  BY HeldRow DEF IInv
<1>1. \/ UNCHANGED status
      \/ /\ pc[s] \in Working
         /\ \E new \in {"SENT", "FAILED", "PENDING"} :
               status' = [status EXCEPT ![cur[s]] = new]
  BY DEF SetStatus, Working
<1>2. pc[s] \in Working => /\ status[cur[s]] = "PROCESSING"
                           /\ attempts[cur[s]] = tries[s]
  BY DEF IInv, WorkerInv
<1>3. \A r \in Requests : UploadInv(r)'
  BY <1>0, <1>1, <1>2 DEF IInv, TypeOK, UploadInv, uploadVars
<1>4. \A r \in Requests : RowInv(r)'
  <2> SUFFICES ASSUME NEW r \in Requests
               PROVE  RowInv(r)'
    OBVIOUS
  <2>1. CASE status'[r] = status[r]
    BY <2>1 DEF IInv, RowInv, networkVars
  <2>2. CASE r = cur[s] /\ status'[r] # status[r]
    <3>1. attempts[r] = tries[s] /\ attempts[r] >= 1 /\ attempts[r] <= AttemptBound /\ attempts[r] \in Nat
      BY <1>1, <1>2, <2>2 DEF IInv, RowInv, TypeOK
    <3>2. pc[s] = "sendOk" => \E a \in 1..attempts[r] : <<r, a>> \in accepted
      BY <3>1, <2>2 DEF IInv, WorkerInv
    <3>3. status'[r] = "PENDING" => attempts[r] < AttemptBound
      BY <3>1, <1>0, <2>2, MaxAttemptsAssumption DEF SetStatus, AttemptBound, IInv, TypeOK
    <3>4. status'[r] = "FAILED" => attempts[r] >= MaxAttempts
      BY <3>1, <1>0, <2>2 DEF SetStatus, IInv, TypeOK
    <3>5. status'[r] = "SENT" => pc[s] = "sendOk"
      BY <1>0, <2>2 DEF SetStatus, IInv, TypeOK
    <3>6. status'[r] \in {"SENT", "FAILED", "PENDING"}
      BY <1>0, <1>1, <2>2 DEF IInv, TypeOK
    <3>. QED
      BY <3>1, <3>2, <3>3, <3>4, <3>5, <3>6 DEF RowInv, networkVars
  <2>. QED
    BY <1>0, <1>1, <2>1, <2>2 DEF IInv, TypeOK
<1>5. \A t \in Servers : WorkerInv(t)'
  <2> SUFFICES ASSUME NEW t \in Servers
               PROVE  WorkerInv(t)'
    OBVIOUS
  <2>1. CASE t = s
    BY <2>1 DEF Release, WorkerInv, Working, IInv, TypeOK
  <2>2. CASE t # s
    <3>1. pc'[t] = pc[t] /\ cur'[t] = cur[t] /\ tries'[t] = tries[t]
      BY <2>2 DEF Release, IInv, TypeOK
    <3>2. pc[t] # "idle" => cur[t] \in Requests /\ cur[t] # cur[s] /\ status'[cur[t]] = status[cur[t]]
      BY <2>2, <1>0, <1>1, HeldRow DEF IInv, Exclusive, TypeOK
    <3>. QED
      BY <3>1, <3>2 DEF IInv, WorkerInv, Working, networkVars
  <2>. QED
    BY <2>1, <2>2
<1>6. Exclusive' /\ NetworkInv'
  BY DEF IInv, TypeOK, Exclusive, NetworkInv, Release, networkVars
<1>. QED
  BY <1>3, <1>4, <1>5, <1>6 DEF IInv

\* The row a claim locks is PENDING and held by no other worker.
LEMMA ClaimSelectInv ==
    ASSUME IInv, NEW s \in Servers, ClaimSelect(s)
    PROVE  IInv'
<1>1. TypeOK'
  BY WorkerType DEF IInv, WorkerStep
<1>2. PICK r \in Oldest(Claimable) : cur' = [cur EXCEPT ![s] = r]
  BY DEF ClaimSelect
<1>3. /\ r \in Requests /\ r # NoRow /\ status[r] = "PENDING"
      /\ \A t \in Servers : ~(pc[t] = "selected" /\ cur[t] = r)
  BY <1>2, NoRowAssumption DEF Oldest, Claimable
<1>4. \A t \in Servers : cur[t] # r
  <2> SUFFICES ASSUME NEW t \in Servers, cur[t] = r
               PROVE  FALSE
    OBVIOUS
  <2>1. pc[t] \in Working \cup {"selected"}
    BY <1>3 DEF IInv, TypeOK, WorkerStates, Working
  <2>. QED
    BY <1>3, <2>1 DEF IInv, WorkerInv
<1>5. \A q \in Requests : UploadInv(q)' /\ RowInv(q)'
  BY DEF ClaimSelect, IInv, UploadInv, RowInv, uploadVars, networkVars
<1>6. \A t \in Servers : WorkerInv(t)'
  BY <1>2, <1>3 DEF ClaimSelect, Goto, IInv, TypeOK, WorkerInv, Working, networkVars
<1>7. Exclusive' /\ NetworkInv'
  BY <1>2, <1>3, <1>4 DEF ClaimSelect, IInv, TypeOK, Exclusive, NetworkInv, networkVars
<1>. QED
  BY <1>1, <1>5, <1>6, <1>7 DEF IInv

\* The commit of a claim, seen by the worker or not, counts one attempt on a row
\* that has one left.
LEMMA ClaimCommitInv ==
    ASSUME IInv, NEW s \in Servers, ClaimCommit(s) \/ ClaimCommitLost(s)
    PROVE  IInv'
<1>0. TypeOK'
  BY WorkerType, FaultType DEF IInv, WorkerStep, FaultStep
<1>1. /\ pc[s] = "selected" /\ cur[s] \in Requests /\ cur[s] # NoRow
      /\ status[cur[s]] = "PENDING"
      /\ attempts[cur[s]] \in Nat /\ attempts[cur[s]] < AttemptBound
  BY HeldRow DEF ClaimCommit, ClaimCommitLost, IInv, WorkerInv, RowInv, TypeOK
<1>2. /\ status' = [status EXCEPT ![cur[s]] = "PROCESSING"]
      /\ attempts' = [attempts EXCEPT ![cur[s]] = attempts[cur[s]] + 1]
      /\ UNCHANGED <<uploadVars, networkVars>>
  BY DEF ClaimCommit, ClaimCommitLost, MarkProcessing
<1>3. \/ /\ cur' = cur /\ pc' = [pc EXCEPT ![s] = "claimed"]
         /\ tries' = [tries EXCEPT ![s] = attempts[cur[s]] + 1]
      \/ Release(s)
  BY DEF ClaimCommit, ClaimCommitLost, Goto
<1>4. \A q \in Requests : UploadInv(q)'
  BY <1>1, <1>2 DEF IInv, TypeOK, UploadInv, uploadVars
<1>5. \A q \in Requests : RowInv(q)'
  <2> SUFFICES ASSUME NEW q \in Requests
               PROVE  RowInv(q)'
    OBVIOUS
  <2>1. CASE q = cur[s]
    BY <1>1, <1>2, <2>1, MaxAttemptsAssumption DEF IInv, TypeOK, RowInv, AttemptBound
  <2>2. CASE q # cur[s]
    BY <1>2, <2>2 DEF IInv, TypeOK, RowInv, networkVars
  <2>. QED
    BY <2>1, <2>2
<1>6. \A t \in Servers : WorkerInv(t)'
  <2> SUFFICES ASSUME NEW t \in Servers
               PROVE  WorkerInv(t)'
    OBVIOUS
  <2>1. CASE t = s
    BY <1>1, <1>2, <1>3, <2>1 DEF IInv, TypeOK, WorkerInv, Working, Release
  <2>2. CASE t # s
    <3>1. pc'[t] = pc[t] /\ cur'[t] = cur[t] /\ tries'[t] = tries[t]
      BY <1>3, <2>2 DEF Release, IInv, TypeOK
    <3>2. pc[t] # "idle" => /\ cur[t] \in Requests /\ cur[t] # cur[s]
                           /\ status'[cur[t]] = status[cur[t]]
                           /\ attempts'[cur[t]] = attempts[cur[t]]
      BY <2>2, <1>1, <1>2, HeldRow DEF IInv, Exclusive, TypeOK
    <3>. QED
      BY <1>2, <3>1, <3>2 DEF IInv, WorkerInv, Working, networkVars
  <2>. QED
    BY <2>1, <2>2
<1>7. Exclusive'
  BY <1>3 DEF IInv, TypeOK, Exclusive, Release
<1>8. NetworkInv'
  BY <1>1, <1>2 DEF IInv, TypeOK, NetworkInv, networkVars
<1>. QED
  BY <1>0, <1>4, <1>5, <1>6, <1>7, <1>8 DEF IInv

\* Every step of a worker keeps the invariant.
LEMMA WorkerStepInv ==
    ASSUME IInv, NEW s \in Servers, WorkerStep(s)
    PROVE  IInv'
<1>0. TypeOK' /\ TypeOK
  BY WorkerType DEF IInv
<1>1. CASE ClaimSelect(s)
  BY <1>1, ClaimSelectInv
<1>2. CASE ClaimCommit(s)
  BY <1>2, ClaimCommitInv
<1>3. CASE PrepareFail(s) \/ SendAudio(s) \/ SendOk(s) \/ SendError(s) \/ Backoff(s)
  <2>1. UNCHANGED <<uploadVars, status, attempts, cur, tries, accepted>>
    BY <1>3 DEF PrepareFail, SendAudio, SendOk, SendError, Backoff, networkVars
  <2>2. \E state \in Working :
          /\ pc[s] \in Working /\ pc' = [pc EXCEPT ![s] = state]
          /\ state = "sendOk" => <<cur[s], tries[s]>> \in accepted
          /\ state = "backoff" => tries[s] < MaxAttempts
    BY <1>3 DEF PrepareFail, SendAudio, SendOk, SendError, Backoff, Goto, Working
  <2>3. /\ pc[s] # "idle" /\ pc[s] \in Working /\ pc'[s] \in Working
        /\ pc'[s] = "sendOk" => <<cur[s], tries[s]>> \in accepted
        /\ pc'[s] = "backoff" => tries[s] < MaxAttempts
        /\ \A t \in Servers : t # s => pc'[t] = pc[t]
    BY <1>0, <2>2 DEF TypeOK, Working
  <2>4. inFlight' \subseteq inFlight \cup {<<cur[s], tries[s]>>}
    BY <1>3 DEF PrepareFail, SendAudio, SendOk, SendError, Backoff, networkVars
  <2>. QED
    BY <1>0, <2>1, <2>3, <2>4, SilentInv
<1>4. CASE MarkSent(s) \/ MarkFailed(s) \/ RequeuePending(s)
  <2>1. pc[s] = "backoff" => tries[s] < MaxAttempts
    BY DEF IInv, WorkerInv
  <2>. QED
    BY <1>0, <1>4, <2>1, ReleaseInv DEF MarkSent, MarkFailed, RequeuePending
<1>. QED
  BY <1>1, <1>2, <1>3, <1>4 DEF WorkerStep

\* Every fault keeps the invariant.
LEMMA FaultStepInv ==
    ASSUME IInv, NEW s \in Servers, FaultStep(s)
    PROVE  IInv'
<1>0. TypeOK'
  BY FaultType DEF IInv
<1>1. CASE ClaimCommitLost(s)
  BY <1>1, ClaimCommitInv
<1>2. CASE ClaimRollback(s) \/ UpdateLost(s) \/ Crash(s)
  BY <1>0, <1>2, ReleaseInv DEF ClaimRollback, UpdateLost, Crash
<1>. QED
  BY <1>1, <1>2 DEF FaultStep

\* An acceptance, however late, keeps the invariant.
LEMMA ProviderInv ==
    ASSUME IInv, NEW m \in inFlight, ProviderAccept(m)
    PROVE  IInv'
<1>1. TypeOK'
  BY ProviderType DEF IInv
<1>2. \A r \in Requests : UploadInv(r)' /\ RowInv(r)'
  BY DEF ProviderAccept, IInv, UploadInv, RowInv, uploadVars
<1>3. \A s \in Servers : WorkerInv(s)'
  BY DEF ProviderAccept, IInv, WorkerInv, workerVars
<1>4. Exclusive' /\ NetworkInv'
  BY DEF ProviderAccept, IInv, Exclusive, NetworkInv, workerVars
<1>. QED
  BY <1>1, <1>2, <1>3, <1>4 DEF IInv

\* The invariant is inductive.
LEMMA NextInv == IInv /\ [Next]_vars => IInv'
<1> SUFFICES ASSUME IInv, [Next]_vars
             PROVE  IInv'
  OBVIOUS
<1>1. CASE UNCHANGED vars
  <2>1. TypeOK'
    BY <1>1, NextType DEF IInv
  <2>2. \A r \in Requests : UploadInv(r)' /\ RowInv(r)'
    BY <1>1 DEF vars, IInv, UploadInv, RowInv
  <2>3. \A s \in Servers : WorkerInv(s)'
    BY <1>1 DEF vars, IInv, WorkerInv
  <2>4. Exclusive' /\ NetworkInv'
    BY <1>1 DEF vars, IInv, Exclusive, NetworkInv
  <2>. QED
    BY <2>1, <2>2, <2>3, <2>4 DEF IInv
<1>. QED
  BY <1>1, UploadStepInv, WorkerStepInv, FaultStepInv, ProviderInv DEF Next

\* The invariant holds in every reachable state.
THEOREM Invariance == Spec => []IInv
  BY InitInv, NextInv, PTL DEF Spec

-----------------------------------------------------------------------------
(* What follows for the rows and the copies.                                   *)

\* No two workers hold a row; a held row is as the worker left it.
THEOREM ClaimTheorem == Spec => []ClaimIsExclusive
<1>1. IInv => ClaimIsExclusive
  BY DEF IInv, Exclusive, WorkerInv, ClaimIsExclusive
<1>. QED
  BY <1>1, Invariance, PTL

\* At most AttemptBound copies of a recording ever reach the parent.
THEOREM BudgetTheorem == Spec => []DeliveryBudget
<1>1. IInv => DeliveryBudget
  BY DEF IInv, RowInv, NetworkInv, DeliveryBudget
<1>. QED
  BY <1>1, Invariance, PTL

\* SENT rows were delivered, FAILED rows have no attempt left.
THEOREM TerminalTheorem == Spec => []TerminalStatusIsTrue
<1>1. IInv => TerminalStatusIsTrue
  BY DEF IInv, RowInv, TerminalStatusIsTrue
<1>. QED
  BY <1>1, Invariance, PTL

\* A 201 answer means a row, a row means its audio, a copy means a row.
THEOREM DurableTheorem == Spec => []CreatedIsDurable
<1>1. ASSUME IInv
      PROVE  CreatedIsDurable
  <2>1. \A r \in Requests : up[r] = "created" => status[r] # "NONE"
    BY <1>1 DEF IInv, UploadInv
  <2>2. \A r \in Requests : status[r] # "NONE" => r \in objects
    BY <1>1 DEF IInv, UploadInv
  <2>3. ASSUME NEW m \in inFlight \cup accepted
        PROVE  status[m[1]] # "NONE"
    <3>1. m[1] \in Requests /\ m[2] \in 1..attempts[m[1]]
      BY <1>1 DEF IInv, TypeOK, NetworkInv
    <3>2. attempts[m[1]] # 0
      BY <3>1, <1>1 DEF IInv, TypeOK
    <3>. QED
      BY <1>1, <3>1, <3>2 DEF IInv, RowInv
  <2>. QED
    BY <2>1, <2>2, <2>3 DEF CreatedIsDurable
<1>. QED
  BY <1>1, Invariance, PTL

\* What one step does to the status and the attempts of every row.
LEMMA StepFollowsGraph ==
    ASSUME IInv, [Next]_vars
    PROVE  \A r \in Requests : StatusStep(r)
<1> SUFFICES ASSUME NEW r \in Requests
             PROVE  StatusStep(r)
  OBVIOUS
<1>1. CASE UNCHANGED vars
  BY <1>1 DEF vars, StatusStep
<1>2. CASE \E q \in Requests : UploadStep(q)
  BY <1>2 DEF UploadStep, UploadReceive, UploadPut, UploadInsert, UploadCommit, UploadReply,
              UploadFail, StatusStep, IInv, TypeOK, UploadInv
<1>3. CASE \E s \in Servers : WorkerStep(s) \/ FaultStep(s)
  <2> PICK s \in Servers : WorkerStep(s) \/ FaultStep(s)
    BY <1>3
  <2>1. CASE UNCHANGED <<status, attempts>>
    BY <2>1 DEF StatusStep
  <2>2. CASE ClaimCommit(s) \/ ClaimCommitLost(s)
    <3>1. pc[s] = "selected" /\ MarkProcessing(cur[s])
      BY <2>2 DEF ClaimCommit, ClaimCommitLost
    <3>2. status[cur[s]] = "PENDING"
      BY <3>1 DEF IInv, WorkerInv
    <3>3. status \in [Requests -> Statuses] /\ attempts \in [Requests -> Nat]
      BY DEF IInv, TypeOK
    <3>. QED
      BY <3>1, <3>2, <3>3 DEF MarkProcessing, StatusStep
  <2>3. CASE MarkSent(s) \/ MarkFailed(s) \/ RequeuePending(s)
    BY <2>3 DEF MarkSent, MarkFailed, RequeuePending, SetStatus, StatusStep,
                IInv, TypeOK, WorkerInv, Working
  <2>. QED
    BY <2>1, <2>2, <2>3
       DEF WorkerStep, FaultStep, ClaimSelect, PrepareFail, SendAudio, SendOk, SendError,
           Backoff, ClaimRollback, UpdateLost, Crash
<1>4. CASE \E m \in inFlight : ProviderAccept(m)
  BY <1>4 DEF ProviderAccept, StatusStep
<1>. QED
  BY <1>1, <1>2, <1>3, <1>4 DEF Next

\* SENT and FAILED are final; every way out of PENDING counts an attempt.
THEOREM GraphTheorem == Spec => StatusFollowsGraph
<1>1. IInv /\ [Next]_vars => [\A r \in Requests : StatusStep(r)]_vars
  BY StepFollowsGraph
<1>. QED
  BY <1>1, Invariance, PTL DEF Spec, StatusFollowsGraph

-----------------------------------------------------------------------------
(* The refinement of Delivery.                                                 *)

\* The initial states are initial states of Delivery.
LEMMA AbstractInit == Init => Abstract!Init
  BY DEF Init, Abstract!Init, Phase, CopiesOf

\* A step that leaves accepted and the phase of every row is a stutter.
LEMMA AbstractStutter ==
    ASSUME accepted' = accepted,
           \A r \in Requests : Phase(status'[r]) = Phase(status[r])
    PROVE  UNCHANGED Abstract!vars
  BY DEF Abstract!vars, CopiesOf

\* A step that moves the status of row q alone moves its phase alone.
LEMMA AbstractMove ==
    ASSUME TypeOK, NEW q \in Requests, NEW new, accepted' = accepted,
           status' = [status EXCEPT ![q] = new]
    PROVE  /\ [r \in Requests |-> Phase(status[r])]'
                = [[r \in Requests |-> Phase(status[r])] EXCEPT ![q] = Phase(new)]
           /\ [r \in Requests |-> CopiesOf(r)]' = [r \in Requests |-> CopiesOf(r)]
  BY DEF TypeOK, CopiesOf

\* Every step is a step of Delivery or a stutter.
LEMMA AbstractStep == IInv /\ [Next]_vars => [Abstract!Next]_(Abstract!vars)
<1> SUFFICES ASSUME IInv, [Next]_vars
             PROVE  Abstract!Next \/ UNCHANGED Abstract!vars
  OBVIOUS
<1>0. TypeOK
  BY DEF IInv
<1>1. CASE UNCHANGED <<status, accepted>>
  BY <1>1, AbstractStutter
<1>2. CASE \E q \in Requests : UploadCommit(q)
  <2> PICK q \in Requests : UploadCommit(q)
    BY <1>2
  <2>1. status[q] = "NONE"
    BY DEF UploadCommit, IInv, UploadInv
  <2>2. status' = [status EXCEPT ![q] = "PENDING"] /\ accepted' = accepted
    BY DEF UploadCommit, networkVars
  <2>3. Abstract!Enqueue(q)
    BY <1>0, <2>1, <2>2, AbstractMove DEF Abstract!Enqueue, Phase
  <2>. QED
    BY <2>3 DEF Abstract!Next
<1>3. CASE \E s \in Servers : \/ ClaimCommit(s) \/ ClaimCommitLost(s) \/ RequeuePending(s)
  <2> PICK s \in Servers : \/ ClaimCommit(s) \/ ClaimCommitLost(s) \/ RequeuePending(s)
    BY <1>3
  <2>1. cur[s] \in Requests /\ status[cur[s]] \in {"PENDING", "PROCESSING"}
    BY <1>0, HeldRow
       DEF ClaimCommit, ClaimCommitLost, RequeuePending, IInv, WorkerInv, Working
  <2>2. \E new \in {"PENDING", "PROCESSING"} : status' = [status EXCEPT ![cur[s]] = new]
    BY DEF ClaimCommit, ClaimCommitLost, RequeuePending, MarkProcessing, SetStatus
  <2>3. accepted' = accepted
    BY DEF ClaimCommit, ClaimCommitLost, RequeuePending, networkVars
  <2>4. \A r \in Requests : Phase(status'[r]) = Phase(status[r])
    BY <1>0, <2>1, <2>2 DEF TypeOK, Phase
  <2>. QED
    BY <2>3, <2>4, AbstractStutter
<1>4. CASE \E s \in Servers : MarkSent(s)
  <2> PICK s \in Servers : MarkSent(s)
    BY <1>4
  <2>1. /\ cur[s] \in Requests /\ status[cur[s]] = "PROCESSING"
        /\ <<cur[s], tries[s]>> \in accepted
    BY <1>0, HeldRow DEF MarkSent, IInv, WorkerInv, Working
  <2>2. CopiesOf(cur[s]) # {}
    BY <2>1 DEF CopiesOf
  <2>3. status' = [status EXCEPT ![cur[s]] = "SENT"] /\ accepted' = accepted
    BY DEF MarkSent, SetStatus, networkVars
  <2>4. Abstract!ReportSent(cur[s])
    BY <1>0, <2>1, <2>2, <2>3, AbstractMove DEF Abstract!ReportSent, Phase
  <2>. QED
    BY <2>1, <2>4 DEF Abstract!Next
<1>5. CASE \E s \in Servers : MarkFailed(s)
  <2> PICK s \in Servers : MarkFailed(s)
    BY <1>5
  <2>1. cur[s] \in Requests /\ status[cur[s]] = "PROCESSING"
    BY <1>0, HeldRow DEF MarkFailed, IInv, WorkerInv, Working
  <2>2. status' = [status EXCEPT ![cur[s]] = "FAILED"] /\ accepted' = accepted
    BY DEF MarkFailed, SetStatus, networkVars
  <2>3. Abstract!ReportFailed(cur[s])
    BY <1>0, <2>1, <2>2, AbstractMove DEF Abstract!ReportFailed, Phase
  <2>. QED
    BY <2>1, <2>3 DEF Abstract!Next
<1>6. CASE \E m \in inFlight : ProviderAccept(m)
  <2> PICK m \in inFlight : ProviderAccept(m)
    BY <1>6
  <2> DEFINE q == m[1]
  <2>1. q \in Requests /\ m[2] \in 1..attempts[q] /\ attempts[q] \in Nat
    BY <1>0 DEF TypeOK, IInv, NetworkInv
  <2>2. m[2] \in 1..AttemptBound
    BY <2>1, MaxAttemptsAssumption DEF IInv, RowInv, AttemptBound
  <2>3. status[q] # "NONE"
    BY <2>1 DEF IInv, RowInv
  <2>4. accepted' = accepted \cup {m} /\ status' = status
    BY DEF ProviderAccept
  <2>5. \A r \in Requests : CopiesOf(r)' = IF r = q THEN CopiesOf(r) \cup {m[2]} ELSE CopiesOf(r)
    BY <2>4 DEF CopiesOf
  <2>6. CASE m[2] \in CopiesOf(q)
    BY <2>4, <2>5, <2>6 DEF Abstract!vars
  <2>7. CASE m[2] \notin CopiesOf(q)
    <3>1. Phase(status[q]) # "absent"
      BY <1>0, <2>1, <2>3 DEF Phase, TypeOK, Statuses
    <3>2. [r \in Requests |-> CopiesOf(r)]'
            = [[r \in Requests |-> CopiesOf(r)] EXCEPT ![q] = @ \cup {m[2]}]
      BY <2>1, <2>5
    <3>3. Abstract!Deliver(q)
      BY <2>1, <2>2, <2>4, <2>7, <3>1, <3>2 DEF Abstract!Deliver
    <3>. QED
      BY <2>1, <3>3 DEF Abstract!Next
  <2>. QED
    BY <2>6, <2>7
<1>. QED
  BY <1>1, <1>2, <1>3, <1>4, <1>5, <1>6
     DEF Next, vars, UploadStep, UploadReceive, UploadPut, UploadInsert, UploadReply, UploadFail,
         WorkerStep, FaultStep, ClaimSelect, PrepareFail, SendAudio, SendOk, SendError, Backoff,
         ClaimRollback, UpdateLost, Crash, networkVars

\* The backend with its workers, faults and late answers implements Delivery.
THEOREM Refinement == Spec => ImplementsDelivery
  BY AbstractInit, AbstractStep, Invariance, PTL DEF Spec, ImplementsDelivery, Abstract!Spec

-----------------------------------------------------------------------------
(* Order, when one server runs: a recording is taken up only when no earlier   *)
(* one waits, and none goes back to waiting while a later one is taken up,     *)
(* because the worker that would requeue it is the one that would take.        *)

Taken == {"PROCESSING", "SENT", "FAILED"}

\* An earlier upload is answered, hence has its row and the smaller created_at.
BeforeInv ==
    /\ \A r \in Requests : createdAt[r] <= clock
    /\ \A r \in Requests : up[r] = "new" => before[r] = {}
    /\ \A r \in Requests : \A q \in before[r] : up[q] = "created"
    /\ \A r \in Requests : \A q \in before[r] :
          up[r] \in {"inserting", "inserted", "created"} \/ status[r] # "NONE"
              => createdAt[q] < createdAt[r]

\* While a row is held, none that came after it has been taken up; while one is
\* being claimed, none that came before it waits.
HeldInOrder ==
    \A s \in Servers :
        /\ cur[s] # NoRow =>
              \A r \in Requests : cur[s] \in before[r] => status[r] \notin Taken
        /\ pc[s] = "selected" =>
              \A q \in before[cur[s]] : status[q] # "PENDING"

OInv == IInv /\ BeforeInv /\ HeldInOrder /\ SentInUploadOrder

\* The recordings answered before one arrived stay answered, and stay older.
LEMMA BeforeStep == IInv /\ BeforeInv /\ [Next]_vars => BeforeInv'
<1> SUFFICES ASSUME IInv, BeforeInv, [Next]_vars
             PROVE  BeforeInv'
  OBVIOUS
<1>0. TypeOK /\ TypeOK'
  BY NextType DEF IInv
<1>1. CASE UNCHANGED vars
  BY <1>1 DEF vars, BeforeInv
<1>2. CASE \E u \in Requests : UploadStep(u)
  <2> PICK u \in Requests : UploadStep(u)
    BY <1>2
  <2>1. CASE UploadReceive(u)
    BY <1>0, <2>1 DEF UploadReceive, BeforeInv, TypeOK, IInv, UploadInv
  <2>2. CASE UploadInsert(u)
    <3>1. /\ up[u] = "stored" /\ up' = [up EXCEPT ![u] = "inserting"]
          /\ clock' = clock + 1 /\ createdAt' = [createdAt EXCEPT ![u] = clock + 1]
          /\ before' = before /\ status' = status
      BY <2>2 DEF UploadInsert
    <3>2. \A r \in Requests : \A q \in before[r] : q # u /\ q \in Requests
      BY <1>0, <3>1 DEF BeforeInv, TypeOK
    <3>3. \A r \in Requests : createdAt'[r] <= clock' /\ (up'[r] = "new" => before'[r] = {})
      BY <1>0, <3>1 DEF BeforeInv, TypeOK
    <3>4. \A r \in Requests : \A q \in before'[r] : up'[q] = "created"
      BY <1>0, <3>1, <3>2 DEF BeforeInv, TypeOK
    <3>5. ASSUME NEW r \in Requests, NEW q \in before'[r],
                 up'[r] \in {"inserting", "inserted", "created"} \/ status'[r] # "NONE"
          PROVE  createdAt'[q] < createdAt'[r]
      <4>1. q \in Requests /\ q # u /\ createdAt'[q] = createdAt[q] /\ createdAt[q] <= clock
        BY <1>0, <3>1, <3>2, <3>5 DEF BeforeInv, TypeOK
      <4>2. CASE r = u
        BY <1>0, <3>1, <4>1, <4>2 DEF TypeOK
      <4>3. CASE r # u
        BY <1>0, <3>1, <3>5, <4>1, <4>3 DEF BeforeInv, TypeOK
      <4>. QED
        BY <4>2, <4>3
    <3>. QED
      BY <3>3, <3>4, <3>5 DEF BeforeInv
  <2>3. CASE UploadPut(u) \/ UploadCommit(u) \/ UploadReply(u) \/ UploadFail(u)
    <3>1. /\ UNCHANGED <<before, clock, createdAt>>
          /\ up[u] \notin {"new", "created"}
          /\ \E st \in UploadStates \ {"new"} : up' = [up EXCEPT ![u] = st]
      BY <2>3 DEF UploadPut, UploadCommit, UploadReply, UploadFail, UploadStates
    <3>2. \A r \in Requests :
            up'[r] \in {"inserting", "inserted", "created"} \/ status'[r] # "NONE"
              => up[r] \in {"inserting", "inserted", "created"} \/ status[r] # "NONE"
      BY <1>0, <2>3 DEF UploadPut, UploadCommit, UploadReply, UploadFail, TypeOK
    <3>. QED
      BY <1>0, <3>1, <3>2 DEF BeforeInv, TypeOK
  <2>. QED
    BY <2>1, <2>2, <2>3 DEF UploadStep
<1>3. CASE \/ \E s \in Servers : WorkerStep(s) \/ FaultStep(s)
           \/ \E m \in inFlight : ProviderAccept(m)
  <2>1. UNCHANGED uploadVars
    BY <1>3 DEF WorkerStep, FaultStep, ClaimSelect, ClaimCommit, PrepareFail, SendAudio, SendOk,
                SendError, MarkSent, MarkFailed, Backoff, RequeuePending, ClaimRollback,
                ClaimCommitLost, UpdateLost, Crash, ProviderAccept
  <2>2. \A r \in Requests : status[r] = "NONE" => status'[r] = "NONE"
    <3>1. \/ UNCHANGED status
          \/ \E s \in Servers, st \in Statuses \ {"NONE"} :
                /\ cur[s] \in Requests /\ status[cur[s]] # "NONE"
                /\ status' = [status EXCEPT ![cur[s]] = st]
      BY <1>3, <1>0, HeldRow
         DEF WorkerStep, FaultStep, ClaimSelect, ClaimCommit, PrepareFail, SendAudio, SendOk,
             SendError, MarkSent, MarkFailed, Backoff, RequeuePending, ClaimRollback,
             ClaimCommitLost, UpdateLost, Crash, ProviderAccept, MarkProcessing, SetStatus, Statuses,
             IInv, WorkerInv, Working
    <3>. QED
      BY <1>0, <3>1 DEF TypeOK
  <2>. QED
    BY <1>0, <2>1, <2>2 DEF BeforeInv, uploadVars, TypeOK
<1>. QED
  BY <1>1, <1>2, <1>3 DEF Next

\* The status step of a worker, by what it does to the row it holds.
LEMMA HeldStep ==
    ASSUME IInv, NEW s \in Servers, WorkerStep(s) \/ FaultStep(s)
    PROVE  /\ UNCHANGED uploadVars
           /\ \/ UNCHANGED status
              \/ /\ cur[s] \in Requests /\ cur[s] # NoRow
                 /\ \/ /\ pc[s] = "selected"
                       /\ status' = [status EXCEPT ![cur[s]] = "PROCESSING"]
                    \/ /\ pc[s] \in Working /\ cur'[s] = NoRow /\ pc'[s] = "idle"
                       /\ \E st \in {"PENDING", "SENT", "FAILED"} :
                             status' = [status EXCEPT ![cur[s]] = st]
           /\ \/ ClaimSelect(s)
              \/ cur'[s] = cur[s] /\ pc'[s] # "selected" /\ cur[s] # NoRow
              \/ cur'[s] = NoRow /\ pc'[s] = "idle"
<1>1. TypeOK
  BY DEF IInv
<1>2. CASE ClaimSelect(s)
  BY <1>2 DEF ClaimSelect
<1>3. CASE WorkerStep(s) /\ ~ClaimSelect(s)
  BY <1>1, <1>3, HeldRow
     DEF WorkerStep, ClaimCommit, PrepareFail, SendAudio, SendOk, SendError, MarkSent, MarkFailed,
         Backoff, RequeuePending, MarkProcessing, SetStatus, Goto, Release, Working, TypeOK
<1>4. CASE FaultStep(s)
  BY <1>1, <1>4, HeldRow
     DEF FaultStep, ClaimRollback, ClaimCommitLost, UpdateLost, Crash, MarkProcessing, Release,
         Working, TypeOK
<1>. QED
  BY <1>2, <1>3, <1>4

\* With one server, every step keeps the order.
LEMMA OrderStep ==
    ASSUME \A s, t \in Servers : s = t, OInv, [Next]_vars
    PROVE  HeldInOrder' /\ SentInUploadOrder'
<1>0. /\ IInv /\ IInv' /\ TypeOK /\ TypeOK'
      /\ BeforeInv /\ HeldInOrder /\ SentInUploadOrder
  BY NextInv, NextType DEF OInv, IInv
<1>1. CASE UNCHANGED vars
  BY <1>0, <1>1 DEF vars, HeldInOrder, SentInUploadOrder
<1>2. CASE \E u \in Requests : UploadStep(u)
  <2> PICK u \in Requests : UploadStep(u)
    BY <1>2
  <2>1. UNCHANGED <<pc, cur>>
    BY DEF UploadStep, UploadReceive, UploadPut, UploadInsert, UploadCommit, UploadReply,
           UploadFail, workerVars
  <2>2. /\ \A r \in Requests : status'[r] # status[r] =>
              r = u /\ up[u] = "inserting" /\ status'[u] = "PENDING"
        /\ \A r \in Requests : before'[r] # before[r] =>
              r = u /\ up[u] = "new" /\ status'[u] = status[u] /\ status[u] = "NONE"
    BY <1>0 DEF UploadStep, UploadReceive, UploadPut, UploadInsert, UploadCommit, UploadReply,
                UploadFail, TypeOK, IInv, UploadInv
  <2>3. \A r \in Requests : \A q \in before[r] : q \in Requests /\ status'[q] = status[q]
    BY <1>0, <2>2 DEF BeforeInv, TypeOK
  <2>4. SentInUploadOrder'
    BY <1>0, <2>2, <2>3 DEF SentInUploadOrder, TypeOK
  <2>5. HeldInOrder'
    <3> SUFFICES ASSUME NEW s \in Servers
                 PROVE  /\ cur[s] # NoRow =>
                              \A r \in Requests : cur[s] \in before'[r] => status'[r] \notin Taken
                        /\ pc[s] = "selected" =>
                              \A q \in before'[cur[s]] : status'[q] # "PENDING"
      BY <2>1 DEF HeldInOrder
    <3>1. ASSUME cur[s] # NoRow, NEW r \in Requests, cur[s] \in before'[r]
          PROVE  status'[r] \notin Taken
      BY <1>0, <2>2, <3>1 DEF HeldInOrder, Taken
    <3>2. ASSUME pc[s] = "selected", NEW q \in before'[cur[s]]
          PROVE  status'[q] # "PENDING"
      <4>1. cur[s] \in Requests /\ status[cur[s]] = "PENDING"
        BY <1>0, <3>2, HeldRow DEF IInv, WorkerInv
      <4>2. before'[cur[s]] = before[cur[s]]
        BY <2>2, <4>1
      <4>. QED
        BY <1>0, <2>3, <3>2, <4>1, <4>2 DEF HeldInOrder
    <3>. QED
      BY <3>1, <3>2
  <2>. QED
    BY <2>4, <2>5
<1>3. CASE \E s \in Servers : WorkerStep(s) \/ FaultStep(s)
  <2> PICK s \in Servers : WorkerStep(s) \/ FaultStep(s)
    BY <1>3
  <2>0. Servers = {s}
    OBVIOUS
  <2>1. before' = before /\ createdAt' = createdAt
    BY <1>0, HeldStep DEF uploadVars
  <2>2. CASE ClaimSelect(s)
    <3>1. PICK r \in Oldest(Claimable) : cur' = [cur EXCEPT ![s] = r]
      BY <2>2 DEF ClaimSelect
    <3>2. pc[s] = "idle" /\ status' = status
      BY <2>2 DEF ClaimSelect
    <3>3. /\ r \in Requests /\ status[r] = "PENDING"
          /\ \A q \in Requests : status[q] = "PENDING" => createdAt[r] <= createdAt[q]
      BY <2>0, <3>1, <3>2 DEF Oldest, Claimable
    <3>4. \A q \in before[r] : status[q] # "PENDING"
      <4> SUFFICES ASSUME NEW q \in before[r], status[q] = "PENDING"
                   PROVE  FALSE
        OBVIOUS
      <4>1. q \in Requests /\ createdAt[q] < createdAt[r] /\ createdAt[r] <= createdAt[q]
        BY <1>0, <3>3 DEF BeforeInv, TypeOK
      <4>. QED
        BY <1>0, <3>3, <4>1 DEF TypeOK
    <3>5. \A q \in Requests : r \in before[q] => status[q] \notin Taken
      BY <1>0, <3>3 DEF SentInUploadOrder, Taken
    <3>6. cur'[s] = r
      BY <1>0, <3>1 DEF TypeOK
    <3>. QED
      BY <1>0, <2>0, <2>1, <3>2, <3>4, <3>5, <3>6 DEF HeldInOrder, SentInUploadOrder
  <2>3. CASE ~ClaimSelect(s) /\ UNCHANGED status
    <3>1. \/ cur'[s] = cur[s] /\ pc'[s] # "selected" /\ cur[s] # NoRow
          \/ cur'[s] = NoRow /\ pc'[s] = "idle"
      BY <1>0, <2>3, HeldStep
    <3>. QED
      BY <1>0, <2>0, <2>1, <2>3, <3>1 DEF HeldInOrder, SentInUploadOrder
  <2>4. CASE /\ ~ClaimSelect(s) /\ cur[s] \in Requests /\ cur[s] # NoRow
             /\ pc[s] = "selected"
             /\ status' = [status EXCEPT ![cur[s]] = "PROCESSING"]
    <3>1. \/ cur'[s] = cur[s] /\ pc'[s] # "selected"
          \/ cur'[s] = NoRow /\ pc'[s] = "idle"
      BY <1>0, <2>4, HeldStep
    <3>2. \A q \in before[cur[s]] : status'[q] # "PENDING"
      BY <1>0, <2>4 DEF HeldInOrder, TypeOK
    <3>3. cur[s] \notin before[cur[s]]
      <4>1. status[cur[s]] = "PENDING" /\ createdAt[cur[s]] \in Nat
        BY <1>0, <2>4 DEF TypeOK, IInv, WorkerInv
      <4>2. cur[s] \in before[cur[s]] => createdAt[cur[s]] < createdAt[cur[s]]
        BY <1>0, <2>4, <4>1 DEF BeforeInv
      <4>. QED
        BY <4>1, <4>2
    <3>4. \A r \in Requests : cur[s] \in before[r] => status'[r] \notin Taken
      BY <1>0, <2>4, <3>3 DEF HeldInOrder, TypeOK
    <3>5. SentInUploadOrder'
      BY <1>0, <2>1, <2>4, <3>2 DEF SentInUploadOrder, TypeOK
    <3>. QED
      BY <2>0, <2>1, <3>1, <3>4, <3>5 DEF HeldInOrder
  <2>5. CASE /\ ~ClaimSelect(s) /\ cur[s] \in Requests /\ cur[s] # NoRow
             /\ pc[s] \in Working /\ cur'[s] = NoRow /\ pc'[s] = "idle"
             /\ \E st \in {"PENDING", "SENT", "FAILED"} :
                   status' = [status EXCEPT ![cur[s]] = st]
    <3>1. HeldInOrder'
      BY <2>0, <2>5 DEF HeldInOrder
    <3>2. status[cur[s]] = "PROCESSING"
      BY <1>0, <2>5 DEF IInv, WorkerInv
    <3>3. SentInUploadOrder'
      <4> SUFFICES ASSUME NEW r \in Requests, NEW q \in before[r],
                          status'[r] \in Taken, status'[q] = "PENDING"
                   PROVE  FALSE
        BY <2>1 DEF SentInUploadOrder, Taken
      <4>1. q \in Requests
        BY <1>0 DEF TypeOK
      <4>2. status[r] \in Taken
        BY <1>0, <2>5, <3>2 DEF TypeOK, Taken
      <4>3. status[q] # "PENDING"
        BY <1>0, <4>2 DEF SentInUploadOrder, Taken
      <4>4. q = cur[s]
        BY <1>0, <2>5, <4>1, <4>3 DEF TypeOK
      <4>. QED
        BY <1>0, <2>5, <4>2, <4>4 DEF HeldInOrder
    <3>. QED
      BY <3>1, <3>3
  <2>. QED
    BY <1>0, <2>2, <2>3, <2>4, <2>5, HeldStep
<1>4. CASE \E m \in inFlight : ProviderAccept(m)
  BY <1>0, <1>4 DEF ProviderAccept, uploadVars, workerVars, HeldInOrder, SentInUploadOrder
<1>. QED
  BY <1>0, <1>1, <1>2, <1>3, <1>4 DEF Next, OInv

\* With one server, recordings are settled in the order they were made.
THEOREM OrderTheorem ==
    ASSUME \A s, t \in Servers : s = t
    PROVE  Spec => []SentInUploadOrder
<1>1. Init => OInv
  BY InitInv, NoRowAssumption DEF Init, OInv, BeforeInv, HeldInOrder, SentInUploadOrder
<1>2. OInv /\ [Next]_vars => OInv'
  BY NextInv, BeforeStep, OrderStep DEF OInv
<1>3. OInv => SentInUploadOrder
  BY DEF OInv
<1>. QED
  BY <1>1, <1>2, <1>3, PTL DEF Spec
=============================================================================
