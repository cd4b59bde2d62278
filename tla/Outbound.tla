------------------------------ MODULE Outbound ------------------------------
(***************************************************************************)
(* The outbound half of the backend: a recording uploaded by a device is    *)
(* stored in MinIO, inserted into the table `messages` as PENDING, claimed   *)
(* by the worker goroutine of a server process, converted and sent to the    *)
(* messaging provider, and marked SENT, requeued, or marked FAILED.           *)
(*                                                                         *)
(* One upload request makes at most one row and one object, so a request,    *)
(* its row and its object key share one identity, r \in Requests.  The       *)
(* provider tells the attempts of a row apart only by their number, so a     *)
(* delivery is a pair <<r, a>>: attempt a of row r.                           *)
(***************************************************************************)
EXTENDS Integers

CONSTANTS
    Requests,     \* upload requests, and the rows and objects they create
    Servers,      \* server processes: each runs one worker goroutine
    MaxAttempts,  \* WorkerMaxAttempts of the configuration
    Faults,       \* which of FaultKinds may strike a worker
    NoRow         \* what an idle worker holds

FaultKinds == {"crash", "db"}

ASSUME MaxAttemptsAssumption == MaxAttempts \in Nat
ASSUME FaultsAssumption == Faults \subseteq FaultKinds
ASSUME NoRowAssumption == NoRow \notin Requests

VARIABLES
    up,         \* where the upload handler of each request stands
    before,     \* the requests already answered 201 when this one arrived
    objects,    \* the object keys stored in MinIO
    clock,      \* NOW() of PostgreSQL
    createdAt,  \* messages.created_at
    status,     \* messages.status; NONE: no row is visible yet
    attempts,   \* messages.attempts
    pc,         \* where processOne stands in each worker
    cur,        \* the row a worker holds: msg.ID
    tries,      \* the worker's own copy of the counter: msg.Attempts
    inFlight,   \* attempts whose HTTP request the provider may still accept
    accepted    \* attempts the provider accepted: copies the parent receives

uploadVars == <<up, before, objects, clock, createdAt>>
workerVars == <<pc, cur, tries>>
networkVars == <<inFlight, accepted>>
vars == <<up, before, objects, clock, createdAt, status, attempts,
          pc, cur, tries, inFlight, accepted>>

UploadStates ==
    {"new", "valid", "stored", "inserting", "inserted", "created", "error"}
Statuses == {"NONE", "PENDING", "PROCESSING", "SENT", "FAILED"}
WorkerStates ==
    {"idle", "selected", "claimed", "sending", "sendOk", "sendErr", "backoff"}

\* A worker past the commit of its claim, until processOne returns.
Working == {"claimed", "sending", "sendOk", "sendErr", "backoff"}

\* The most attempts a row gets: processOne compares after the increment, so
\* a maximum of 0 still sends once.
AttemptBound == IF MaxAttempts = 0 THEN 1 ELSE MaxAttempts

Init ==
    /\ up = [r \in Requests |-> "new"]
    /\ before = [r \in Requests |-> {}]
    /\ objects = {}
    /\ clock = 0
    /\ createdAt = [r \in Requests |-> 0]
    /\ status = [r \in Requests |-> "NONE"]
    /\ attempts = [r \in Requests |-> 0]
    /\ pc = [s \in Servers |-> "idle"]
    /\ cur = [s \in Servers |-> NoRow]
    /\ tries = [s \in Servers |-> 0]
    /\ inFlight = {}
    /\ accepted = {}

-----------------------------------------------------------------------------
(* The upload handler.  Every stage may end in an error: validation, a       *)
(* missing binding, MinIO, PostgreSQL, a client that went away, the death of  *)
(* the process.  What was persisted by then stays.                            *)

\* The request has arrived, is authenticated and its WAV is valid.
UploadReceive(r) ==
    /\ up[r] = "new"
    /\ up' = [up EXCEPT ![r] = "valid"]
    /\ before' = [before EXCEPT ![r] = {q \in Requests : up[q] = "created"}]
    /\ UNCHANGED <<objects, clock, createdAt, status, attempts, workerVars, networkVars>>

\* storage.Put; the object may be stored although Put reports an error.
UploadPut(r) ==
    /\ up[r] = "valid"
    /\ objects' = objects \cup {r}
    /\ \E outcome \in {"stored", "error"} : up' = [up EXCEPT ![r] = outcome]
    /\ UNCHANGED <<before, clock, createdAt, status, attempts, workerVars, networkVars>>

\* Mutant: the row is inserted before the audio is stored.
UploadInsertFirst(r) ==
    /\ up[r] \in {"valid", "stored"}
    /\ up' = [up EXCEPT ![r] = "inserting"]
    /\ clock' = clock + 1
    /\ createdAt' = [createdAt EXCEPT ![r] = clock + 1]
    /\ UNCHANGED <<before, objects, status, attempts, workerVars, networkVars>>

\* The INSERT starts: created_at defaults to NOW(), the start of its transaction.
UploadInsert(r) ==
    /\ up[r] = "stored"
    /\ up' = [up EXCEPT ![r] = "inserting"]
    /\ clock' = clock + 1
    /\ createdAt' = [createdAt EXCEPT ![r] = clock + 1]
    /\ UNCHANGED <<before, objects, status, attempts, workerVars, networkVars>>

\* The INSERT commits: the worker can see the row.
UploadCommit(r) ==
    /\ up[r] = "inserting"
    /\ up' = [up EXCEPT ![r] = "inserted"]
    /\ status' = [status EXCEPT ![r] = "PENDING"]
    /\ UNCHANGED <<before, objects, clock, createdAt, attempts, workerVars, networkVars>>

\* The device gets 201 Created.
UploadReply(r) ==
    /\ up[r] = "inserted"
    /\ up' = [up EXCEPT ![r] = "created"]
    /\ UNCHANGED <<before, objects, clock, createdAt, status, attempts, workerVars, networkVars>>

\* The handler fails, or its 201 never reaches the device.
UploadFail(r) ==
    /\ up[r] \in {"valid", "stored", "inserting", "inserted"}
    /\ up' = [up EXCEPT ![r] = "error"]
    /\ UNCHANGED <<before, objects, clock, createdAt, status, attempts, workerVars, networkVars>>

-----------------------------------------------------------------------------
(* The worker: processOne of server s, one action per step another process   *)
(* can interleave with.                                                       *)

\* Mutant: a claim without FOR UPDATE SKIP LOCKED.
ClaimableUnlocked == {r \in Requests : status[r] = "PENDING"}

\* PENDING rows no claiming transaction has locked (FOR UPDATE SKIP LOCKED).
Claimable ==
    {r \in Requests : /\ status[r] = "PENDING"
                      /\ \A t \in Servers : ~(pc[t] = "selected" /\ cur[t] = r)}

\* Mutant: a claim without ORDER BY.
Unordered(rows) == rows

\* ORDER BY created_at ASC ... LIMIT 1
Oldest(rows) == {r \in rows : \A q \in rows : createdAt[r] <= createdAt[q]}

\* Mutant: the worker keeps the message of its last call.
ReleaseKeepsRow(s) ==
    /\ pc' = [pc EXCEPT ![s] = "idle"]
    /\ tries' = [tries EXCEPT ![s] = 0]
    /\ UNCHANGED cur

\* processOne returns, or its process dies: nothing of msg survives.
Release(s) ==
    /\ pc' = [pc EXCEPT ![s] = "idle"]
    /\ cur' = [cur EXCEPT ![s] = NoRow]
    /\ tries' = [tries EXCEPT ![s] = 0]

Goto(s, state) == pc' = [pc EXCEPT ![s] = state]

\* The ticker fires and the claim's SELECT locks a row.
ClaimSelect(s) ==
    /\ pc[s] = "idle"
    /\ \E r \in Oldest(Claimable) : cur' = [cur EXCEPT ![s] = r]
    /\ Goto(s, "selected")
    /\ UNCHANGED <<uploadVars, status, attempts, tries, networkVars>>

\* Mutant: a claim that does not count the attempt.
MarkProcessingUncounted(r) ==
    /\ status' = [status EXCEPT ![r] = "PROCESSING"]
    /\ UNCHANGED attempts

\* What the claim's UPDATE writes when its transaction commits.
MarkProcessing(r) ==
    /\ status' = [status EXCEPT ![r] = "PROCESSING"]
    /\ attempts' = [attempts EXCEPT ![r] = @ + 1]

ClaimCommit(s) ==
    /\ pc[s] = "selected"
    /\ MarkProcessing(cur[s])
    /\ tries' = [tries EXCEPT ![s] = attempts[cur[s]] + 1]
    /\ Goto(s, "claimed")
    /\ UNCHANGED <<uploadVars, cur, networkVars>>

\* The transaction fails and is rolled back.
ClaimRollback(s) ==
    /\ "db" \in Faults
    /\ pc[s] = "selected"
    /\ Release(s)
    /\ UNCHANGED <<uploadVars, status, attempts, networkVars>>

\* The transaction commits but Commit returns an error: processOne gives up.
ClaimCommitLost(s) ==
    /\ "db" \in Faults
    /\ pc[s] = "selected"
    /\ MarkProcessing(cur[s])
    /\ Release(s)
    /\ UNCHANGED <<uploadVars, networkVars>>

\* Any step of send before SendAudio fails: the queries, the download, the
\* temporary file, the conversion, or no provider for the channel.
PrepareFail(s) ==
    /\ pc[s] = "claimed"
    /\ Goto(s, "sendErr")
    /\ UNCHANGED <<uploadVars, status, attempts, cur, tries, networkVars>>

\* The audio was fetched and converted: SendAudio posts it to the provider.
SendAudio(s) ==
    /\ pc[s] = "claimed"
    /\ cur[s] \in objects
    /\ inFlight' = inFlight \cup {<<cur[s], tries[s]>>}
    /\ Goto(s, "sending")
    /\ UNCHANGED <<uploadVars, status, attempts, cur, tries, accepted>>

\* The provider accepts a request, perhaps long after the client gave up on it.
ProviderAccept(m) ==
    /\ m \in inFlight
    /\ inFlight' = inFlight \ {m}
    /\ accepted' = accepted \cup {m}
    /\ UNCHANGED <<uploadVars, status, attempts, workerVars>>

\* Mutant: any end of the request counts as success.
SendOkUnchecked(s) ==
    /\ pc[s] = "sending"
    /\ Goto(s, "sendOk")
    /\ UNCHANGED <<uploadVars, status, attempts, cur, tries, networkVars>>

\* SendAudio returns nil: the provider has answered 2xx.
SendOk(s) ==
    /\ pc[s] = "sending"
    /\ <<cur[s], tries[s]>> \in accepted
    /\ Goto(s, "sendOk")
    /\ UNCHANGED <<uploadVars, status, attempts, cur, tries, networkVars>>

\* SendAudio returns an error: refused, unreachable, timed out after 60 s, or
\* accepted with an answer that was lost or unreadable.
SendError(s) ==
    /\ pc[s] = "sending"
    /\ Goto(s, "sendErr")
    /\ UNCHANGED <<uploadVars, status, attempts, cur, tries, networkVars>>

\* UPDATE messages SET status = ... WHERE id = $1: no guard on the old status.
SetStatus(r, new) == status' = [status EXCEPT ![r] = new]

\* Mutant: the row is marked SENT while the request is still out.
MarkSentEarly(s) ==
    /\ pc[s] \in {"sending", "sendOk"}
    /\ SetStatus(cur[s], "SENT")
    /\ Release(s)
    /\ UNCHANGED <<uploadVars, attempts, networkVars>>

MarkSent(s) ==
    /\ pc[s] = "sendOk"
    /\ SetStatus(cur[s], "SENT")
    /\ Release(s)
    /\ UNCHANGED <<uploadVars, attempts, networkVars>>

MarkFailed(s) ==
    /\ pc[s] = "sendErr"
    /\ tries[s] >= MaxAttempts
    /\ SetStatus(cur[s], "FAILED")
    /\ Release(s)
    /\ UNCHANGED <<uploadVars, attempts, networkVars>>

\* Mutant: one retry too many.
BackoffOffByOne(s) ==
    /\ pc[s] = "sendErr"
    /\ tries[s] <= MaxAttempts
    /\ Goto(s, "backoff")
    /\ UNCHANGED <<uploadVars, status, attempts, cur, tries, networkVars>>

\* time.Sleep(msg.Attempts * 5 s) in the only goroutine of the worker.
Backoff(s) ==
    /\ pc[s] = "sendErr"
    /\ tries[s] < MaxAttempts
    /\ Goto(s, "backoff")
    /\ UNCHANGED <<uploadVars, status, attempts, cur, tries, networkVars>>

\* Mutant: the worker returns after its sleep without requeueing.
RequeueForgotten(s) ==
    /\ pc[s] = "backoff"
    /\ Release(s)
    /\ UNCHANGED <<uploadVars, status, attempts, networkVars>>

RequeuePending(s) ==
    /\ pc[s] = "backoff"
    /\ SetStatus(cur[s], "PENDING")
    /\ Release(s)
    /\ UNCHANGED <<uploadVars, attempts, networkVars>>

\* The closing UPDATE fails.  processOne ignores the error of MarkFailed and
\* RequeuePending, logs the one of MarkSent, and returns in all three cases.
UpdateLost(s) ==
    /\ "db" \in Faults
    /\ \/ pc[s] \in {"sendOk", "backoff"}
       \/ pc[s] = "sendErr" /\ tries[s] >= MaxAttempts
    /\ Release(s)
    /\ UNCHANGED <<uploadVars, status, attempts, networkVars>>

\* The process dies or is stopped (main does not wait for the worker); it starts
\* again with an idle worker, and nothing looks for rows left in PROCESSING.
Crash(s) ==
    /\ "crash" \in Faults
    /\ pc[s] # "idle"
    /\ Release(s)
    /\ UNCHANGED <<uploadVars, status, attempts, networkVars>>

-----------------------------------------------------------------------------
UploadStep(r) ==
    \/ UploadReceive(r) \/ UploadPut(r) \/ UploadInsert(r)
    \/ UploadCommit(r) \/ UploadReply(r) \/ UploadFail(r)

\* What a worker does in a process and a database that keep running.
WorkerStep(s) ==
    \/ ClaimSelect(s) \/ ClaimCommit(s)
    \/ PrepareFail(s) \/ SendAudio(s) \/ SendOk(s) \/ SendError(s)
    \/ MarkSent(s) \/ MarkFailed(s) \/ Backoff(s) \/ RequeuePending(s)

FaultStep(s) ==
    ClaimRollback(s) \/ ClaimCommitLost(s) \/ UpdateLost(s) \/ Crash(s)

Next ==
    \/ \E r \in Requests : UploadStep(r)
    \/ \E s \in Servers : WorkerStep(s) \/ FaultStep(s)
    \/ \E m \in inFlight : ProviderAccept(m)

\* The ticker, the sleep and the 60 s timeout of the HTTP clients bring every
\* worker forward; nothing obliges a device to upload or a provider to accept.
Fairness == \A s \in Servers : WF_vars(WorkerStep(s))

Spec == Init /\ [][Next]_vars
FairSpec == Spec /\ Fairness

-----------------------------------------------------------------------------
(* Properties.                                                                *)

\* Every variable keeps its type, and a worker that is idle holds no row: what
\* processOne knows of a message never outlives the call.
TypeOK ==
    /\ up \in [Requests -> UploadStates]
    /\ before \in [Requests -> SUBSET Requests]
    /\ objects \subseteq Requests
    /\ clock \in Nat
    /\ createdAt \in [Requests -> Nat]
    /\ status \in [Requests -> Statuses]
    /\ attempts \in [Requests -> Nat]
    /\ pc \in [Servers -> WorkerStates]
    /\ cur \in [Servers -> Requests \cup {NoRow}]
    /\ tries \in [Servers -> Nat]
    /\ inFlight \subseteq Requests \X Nat
    /\ accepted \subseteq Requests \X Nat
    /\ \A s \in Servers : pc[s] = "idle" <=> cur[s] = NoRow

\* Two workers never hold the same row, and the row a worker holds past its
\* claim is still PROCESSING with the attempt number the worker read: the three
\* closing UPDATEs, which test no status, never overwrite another's result.
ClaimIsExclusive ==
    /\ \A s, t \in Servers :
          s # t /\ cur[s] # NoRow => cur[s] # cur[t]
    /\ \A s \in Servers :
          pc[s] \in Working =>
              status[cur[s]] = "PROCESSING" /\ attempts[cur[s]] = tries[s]

\* The copies of a recording that can ever reach the parent are numbered by the
\* attempts on its row, and these stay within WorkerMaxAttempts, however many
\* answers are lost and however many workers, restarts and failed updates.
DeliveryBudget ==
    /\ \A r \in Requests : attempts[r] <= AttemptBound
    /\ \A m \in inFlight \cup accepted : m[2] \in 1..attempts[m[1]]

\* The status the table ends with is the truth: a SENT row was accepted by the
\* provider at least once, a FAILED row used up its attempts.
TerminalStatusIsTrue ==
    \A r \in Requests :
        /\ status[r] = "SENT" => \E a \in 1..attempts[r] : <<r, a>> \in accepted
        /\ status[r] = "FAILED" => attempts[r] >= MaxAttempts

\* A recording the device was told is stored (201) has its row; a row has its
\* audio, whatever failed around it; and nothing is sent that has no row.
CreatedIsDurable ==
    /\ \A r \in Requests : up[r] = "created" => status[r] # "NONE"
    /\ \A r \in Requests : status[r] # "NONE" => r \in objects
    /\ \A m \in inFlight \cup accepted : status[m[1]] # "NONE"

\* The status graph: SENT and FAILED are final, and a row leaves PENDING only
\* through a claim that counts an attempt.
StatusStep(r) ==
    \/ status'[r] = status[r] /\ attempts'[r] = attempts[r]
    \/ status[r] = "NONE" /\ status'[r] = "PENDING" /\ attempts'[r] = attempts[r]
    \/ /\ status[r] = "PENDING" /\ status'[r] = "PROCESSING"
       /\ attempts'[r] = attempts[r] + 1
    \/ /\ status[r] = "PROCESSING" /\ status'[r] \in {"PENDING", "SENT", "FAILED"}
       /\ attempts'[r] = attempts[r]
StatusFollowsGraph == [][\A r \in Requests : StatusStep(r)]_vars

\* With one server, recordings are settled in the order they were made: once a
\* recording has been taken up by the worker, none whose upload had been answered
\* before it arrived is still waiting, not even for a retry.
SentInUploadOrder ==
    \A r \in Requests : \A q \in before[r] :
        status[r] \in {"PROCESSING", "SENT", "FAILED"} => status[q] # "PENDING"

\* architecture.md: the worker "updates status to SENT or FAILED".  Every row
\* the worker can see is settled in the end.
EveryRowSettles ==
    \A r \in Requests :
        status[r] = "PENDING" ~> status[r] \in {"SENT", "FAILED"}

-----------------------------------------------------------------------------
(* The refinement: PENDING and PROCESSING are one phase of a delivery.        *)

Phase(st) ==
    CASE st = "NONE" -> "absent"
      [] st \in {"PENDING", "PROCESSING"} -> "queued"
      [] st = "SENT" -> "sent"
      [] st = "FAILED" -> "failed"

\* The attempts of a row that reached the parent.
CopiesOf(r) == {m[2] : m \in {p \in accepted : p[1] = r}}

Abstract == INSTANCE Delivery WITH
    Recordings <- Requests,
    CopyBound <- AttemptBound,
    phase <- [r \in Requests |-> Phase(status[r])],
    copies <- [r \in Requests |-> CopiesOf(r)]

\* Whatever fails, the backend delivers a recording at most AttemptBound times,
\* only once it is queued, and never reports a success that did not happen.
ImplementsDelivery == Abstract!Spec
=============================================================================
