------------------------------ MODULE MainLoop ------------------------------
(***************************************************************************)
(* The firmware: loop() of the Arduino task, the net worker task that runs *)
(* its background requests, the files they share on LittleFS, and the      *)
(* server as the device sees it.                                           *)
(*                                                                         *)
(* loop() reads what the worker and the Wi-Fi may change at several places *)
(* of a pass, and they may move between any two of them: a pass is one     *)
(* action per place, and pc says which comes next.  Times (poll interval,  *)
(* backoff, retry delay) are choices: a step that waits for one may also   *)
(* do nothing.  /queue stays empty (nothing calls queueUploadFile), so     *)
(* processQueue does nothing.                                              *)
(***************************************************************************)
EXTENDS Integers

CONSTANTS
    Messages,   \* inbound messages; their order is that of created_at
    Takes,      \* recordings the child can make
    Faults,     \* which of FaultKinds may strike
    None,       \* no message, no take
    Failed,     \* the result of a poll without a usable answer
    Partial     \* what an interrupted download leaves in /play.wav

FaultKinds == {"wifi", "reboot", "playback"}

ASSUME MessagesAssumption == Messages \subseteq Nat
ASSUME FaultsAssumption == Faults \subseteq FaultKinds
ASSUME NoneAssumption ==
    /\ None \notin Messages \cup Takes
    /\ Failed \notin Messages \cup {None}
    /\ Partial \notin Messages \cup {None}

VARIABLES
    wifi,            \* WiFi.status() == WL_CONNECTED
    button,          \* the debounced button: up, down, or held
    pc,              \* the place of loop() that runs next
    state,           \* StateMachine::_state
    hasPending,      \* StateMachine::_hasPendingMessage
    pendingId,       \* pendingMessageId
    playedId,        \* playedMessageId
    ready,           \* s_inboundReady
    cache,           \* the message in /play.wav
    job,             \* s_netJob; the worker is busy unless it is NONE
    ran,             \* the worker has run its job and not yet taken it off
    downloadId,      \* s_downloadMessageId
    downloadDone,    \* s_downloadTaskDone
    downloadOk,      \* s_downloadOk
    pollDone,        \* s_pollTaskDone
    pollResult,      \* s_pollOk and s_pollMsg
    take,            \* the recording in /rec/take.pcm
    flushed,         \* AudioRecorder::hasPendingRecording()
    recording,       \* AudioRecorder::_recording
    uploadRequested, \* s_uploadRequested
    uploadTake,      \* the take the header in s_uploadJob was built for
    used,            \* takes made so far
    row,             \* the status of each message on the server
    lateAcks,        \* played marks the device gave up on, still under way
    overtaken,       \* messages that an older one came after
    tried,           \* messages whose playback was started
    heard            \* messages played to their end since the box was switched on

envVars == <<wifi, row, lateAcks, overtaken>>
inboxVars == <<hasPending, pendingId, playedId, ready, cache, heard>>
workerVars == <<job, ran, downloadId, downloadDone, downloadOk, pollDone, pollResult>>
takeVars == <<take, flushed, recording, uploadRequested, uploadTake, used>>
vars == <<wifi, button, pc, state, hasPending, pendingId, playedId, ready, cache,
          job, ran, downloadId, downloadDone, downloadOk, pollDone, pollResult,
          take, flushed, recording, uploadRequested, uploadTake, used,
          row, lateAcks, overtaken, tried, heard>>

\* PROCESSING lasts for stop() alone, inside one step; CHECKING_MESSAGES is never
\* entered (nothing calls onPollStart); BOOT and CONNECTING_WIFI belong to setup().
DeviceStates == {"IDLE", "RECORDING", "UPLOADING", "DOWNLOADING", "PLAYING", "ERROR"}
NetJobs == {"NONE", "POLL", "DOWNLOAD", "MARK_PLAYED", "HEARTBEAT"}
Places == {"top", "playing", "record", "upload", "sending", "download", "poll",
           "request", "prefetch", "retry"}
Buttons == {"up", "down", "held"}
RowStates == {"absent", "AVAILABLE", "PLAYED"}

Init ==
    /\ wifi = TRUE
    /\ button = "up" /\ pc = "top" /\ state = "IDLE"
    /\ hasPending = FALSE /\ pendingId = None /\ playedId = None
    /\ ready = FALSE /\ cache = None
    /\ job = "NONE" /\ ran = FALSE
    /\ downloadId = None /\ downloadDone = FALSE /\ downloadOk = FALSE
    /\ pollDone = FALSE /\ pollResult = Failed
    /\ take = None /\ flushed = FALSE /\ recording = FALSE
    /\ uploadRequested = FALSE /\ uploadTake = None
    /\ used = {}
    /\ row = [m \in Messages |-> "absent"]
    /\ lateAcks = {}
    /\ overtaken = {}
    /\ tried = {} /\ heard = {}

-----------------------------------------------------------------------------
(* The start of a pass: Wi-Fi, button, and what a press asks for.              *)

\* ERROR is left when the Wi-Fi is back, and entered, from any state, when it is not.
Checked ==
    IF ~wifi THEN "ERROR"
    ELSE IF state = "ERROR" THEN "IDLE" ELSE state

\* One debounced edge, or the hold threshold, per pass.
Edges == [up |-> {"up", "down"}, down |-> {"down", "held", "up"}, held |-> {"held", "up"}]
ButtonLoop == button' \in Edges[button]

WasJustHeld == button = "down" /\ button' = "held"
WasShortPress == button = "down" /\ button' = "up"
PlayAsked == hasPending /\ (WasShortPress \/ WasJustHeld)

\* Mutant: a hold records while a download runs.
CanArmWhileFetching ==
    wifi /\ ~hasPending /\ ~recording /\ Checked \in {"IDLE", "DOWNLOADING"}

CanArmRecord == wifi /\ ~hasPending /\ ~recording /\ Checked = "IDLE"
HoldStarts == WasJustHeld /\ CanArmRecord /\ Takes \ used # {}

\* A press on a message that is ready: it plays, and loop() waits for the end.
PassPlay ==
    /\ pc = "top"
    /\ ButtonLoop /\ PlayAsked
    /\ ready /\ Checked = "IDLE"
    /\ state' = "PLAYING"
    /\ ready' = FALSE
    /\ tried' = tried \cup ({cache} \cap Messages)
    /\ pc' = "playing"
    /\ UNCHANGED <<envVars, hasPending, pendingId, playedId, cache, heard, workerVars,
                   takeVars>>

\* start() makes room, deleting the last take and /play.wav, before it can fail.
PassHold ==
    /\ pc = "top"
    /\ ButtonLoop /\ HoldStarts
    /\ cache' = None
    /\ \E t \in Takes \ used :
          /\ used' = used \cup {t}
          /\ \/ take' = t /\ recording' = TRUE /\ state' = "RECORDING"
             \/ take' = None /\ recording' = FALSE /\ state' = "IDLE"
    /\ flushed' = FALSE
    /\ pc' = "record"
    /\ UNCHANGED <<envVars, hasPending, pendingId, playedId, ready, heard, workerVars,
                   uploadRequested, uploadTake, tried>>

\* Nothing was asked for, or it is refused.
PassOn ==
    /\ pc = "top"
    /\ ButtonLoop
    /\ ~(PlayAsked /\ ready /\ Checked = "IDLE")
    /\ ~HoldStarts
    /\ state' = Checked
    /\ pc' = "record"
    /\ UNCHANGED <<envVars, inboxVars, workerVars, takeVars, tried>>

\* requestNetJob: refused while the worker is busy.
Requested(j) == IF job = "NONE" THEN j ELSE job

\* The end of playCachedInbound, whether the file played or not.
PlaybackEnd ==
    /\ pc = "playing"
    /\ \/ /\ cache \in Messages
          /\ playedId' = IF downloadId = None THEN playedId ELSE downloadId
          /\ heard' = heard \cup {cache}
       \/ /\ "playback" \in Faults \/ cache \notin Messages
          /\ UNCHANGED <<playedId, heard>>
    /\ cache' = None
    /\ pendingId' = None
    /\ hasPending' = FALSE
    /\ state' = "IDLE"
    /\ job' = Requested("MARK_PLAYED")
    /\ pc' = "record"
    /\ UNCHANGED <<envVars, button, ready, ran, downloadId, downloadDone, downloadOk,
                   pollDone, pollResult, takeVars, tried>>

-----------------------------------------------------------------------------
(* Recording and uploading.                                                    *)

Cleanup == take' = None /\ flushed' = FALSE

\* handleRecording while the button is down: a chunk may reach the flash, and the
\* recorder may stop by itself at its byte budget.
KeepRecording ==
    /\ pc = "record"
    /\ state = "RECORDING"
    /\ button # "up"
    /\ flushed' \in {flushed, TRUE}
    /\ recording' \in {recording, FALSE}
    /\ pc' = "upload"
    /\ UNCHANGED <<envVars, button, state, inboxVars, workerVars, take,
                   uploadRequested, uploadTake, used, tried>>

\* Mutant: the header of the last upload is used again.
StopKeepsHeader ==
    /\ pc = "record"
    /\ state = "RECORDING"
    /\ recording' = FALSE
    /\ flushed' = TRUE
    /\ uploadRequested' = TRUE
    /\ state' = "UPLOADING"
    /\ pc' = "upload"
    /\ UNCHANGED <<envVars, button, inboxVars, workerVars, take, uploadTake, used, tried>>

\* handleRecording at the release, the longest duration or the end of the flash.
StopRecording ==
    /\ pc = "record"
    /\ state = "RECORDING"
    /\ recording' = FALSE
    /\ \/ /\ flushed' \in {flushed, TRUE}
          /\ uploadRequested' = TRUE
          /\ uploadTake' = take
          /\ state' = "UPLOADING"
          /\ UNCHANGED take
       \/ /\ Cleanup
          /\ state' = "IDLE"
          /\ UNCHANGED <<uploadRequested, uploadTake>>
    /\ pc' = "upload"
    /\ UNCHANGED <<envVars, button, inboxVars, workerVars, used, tried>>

NotRecording ==
    /\ pc = "record"
    /\ state # "RECORDING"
    /\ pc' = "upload"
    /\ UNCHANGED <<envVars, button, state, inboxVars, workerVars, takeVars, tried>>

\* Mutant: the request is not cleared.
HandleUploadingKeepsRequest ==
    /\ pc = "upload"
    /\ pc' = IF state = "UPLOADING" /\ uploadRequested THEN "sending" ELSE "download"
    /\ UNCHANGED <<envVars, button, state, inboxVars, workerVars, takeVars, tried>>

\* handleUploading: runUploadJob waits up to 30 s for the worker and goes on.
HandleUploading ==
    /\ pc = "upload"
    /\ IF state = "UPLOADING" /\ uploadRequested
       THEN uploadRequested' = FALSE /\ pc' = "sending"
       ELSE pc' = "download" /\ UNCHANGED uploadRequested
    /\ UNCHANGED <<envVars, button, state, inboxVars, workerVars, take, flushed, recording,
                   uploadTake, used, tried>>

UploadOk ==
    /\ pc = "sending"
    /\ take # None
    /\ Cleanup
    /\ state' = "IDLE"
    /\ pc' = "download"
    /\ UNCHANGED <<envVars, button, inboxVars, workerVars, recording, uploadRequested,
                   uploadTake, used, tried>>

\* Both attempts failed, though the server may have stored the take (Exchange).
UploadFail ==
    /\ pc = "sending"
    /\ state' = "IDLE"
    /\ pc' = "download"
    /\ UNCHANGED <<envVars, button, inboxVars, workerVars, take, flushed, recording,
                   uploadRequested, uploadTake, used, tried>>

-----------------------------------------------------------------------------
(* The results of the worker.                                                  *)

\* Mutant: onDownloadFailed leaves DOWNLOADING.
AfterDownloadOkOnly == IF state = "DOWNLOADING" /\ downloadOk THEN "IDLE" ELSE state

\* onDownloadComplete and onDownloadFailed leave DOWNLOADING only.
AfterDownload == IF state = "DOWNLOADING" THEN "IDLE" ELSE state

\* Mutant: s_downloadOk is not looked at.
TakeDownloadAny ==
    /\ pc = "download"
    /\ IF downloadDone
       THEN ready' = TRUE /\ state' = AfterDownload
       ELSE UNCHANGED <<ready, state>>
    /\ downloadDone' = FALSE
    /\ pc' = "poll"
    /\ UNCHANGED <<envVars, button, hasPending, pendingId, playedId, cache, heard, job, ran,
                   downloadId, downloadOk, pollDone, pollResult, takeVars, tried>>

TakeDownload ==
    /\ pc = "download"
    /\ IF downloadDone
       THEN ready' = downloadOk /\ state' = AfterDownload
       ELSE UNCHANGED <<ready, state>>
    /\ downloadDone' = FALSE
    /\ pc' = "poll"
    /\ UNCHANGED <<envVars, button, hasPending, pendingId, playedId, cache, heard, job, ran,
                   downloadId, downloadOk, pollDone, pollResult, takeVars, tried>>

\* Mutant: any message polled is marked.
PollMarksAny ==
    /\ pollResult \in Messages
    /\ downloadId' = IF downloadId = None THEN pollResult ELSE downloadId
    /\ job' = Requested("MARK_PLAYED")
    /\ hasPending' = FALSE
    /\ UNCHANGED <<pendingId, ready, cache>>

\* The message was played before: its mark is sent again.
PollPlayed ==
    /\ pollResult \in Messages /\ pollResult = playedId
    /\ downloadId' = IF downloadId = None THEN pollResult ELSE downloadId
    /\ job' = Requested("MARK_PLAYED")
    /\ hasPending' = FALSE
    /\ UNCHANGED <<pendingId, ready, cache>>

\* Mutant: a message played before is fetched again.
PollMessageAny ==
    /\ pollResult \in Messages
    /\ pendingId' = pollResult
    /\ hasPending' = TRUE
    /\ IF pendingId # pollResult /\ ready
       THEN ready' = FALSE /\ cache' = None
       ELSE UNCHANGED <<ready, cache>>
    /\ UNCHANGED <<downloadId, job>>

\* A message to fetch; the cache of another one is dropped.
PollMessage ==
    /\ pollResult \in Messages /\ pollResult # playedId
    /\ pendingId' = pollResult
    /\ hasPending' = TRUE
    /\ IF pendingId # pollResult /\ ready
       THEN ready' = FALSE /\ cache' = None
       ELSE UNCHANGED <<ready, cache>>
    /\ UNCHANGED <<downloadId, job>>

PollNothing ==
    /\ pollResult = None
    /\ hasPending' = FALSE
    /\ pendingId' = None
    /\ ready' = FALSE
    /\ cache' = IF ready THEN None ELSE cache
    /\ UNCHANGED <<downloadId, job>>

\* Mutant: s_pollOk is not looked at.
PollFailedTaken ==
    /\ pollResult = Failed
    /\ pendingId' = pollResult
    /\ hasPending' = TRUE
    /\ UNCHANGED <<ready, cache, downloadId, job>>

PollFailed ==
    /\ pollResult = Failed
    /\ UNCHANGED <<hasPending, pendingId, ready, cache, downloadId, job>>

TakePoll ==
    /\ pc = "poll"
    /\ IF pollDone
       THEN PollPlayed \/ PollMessage \/ PollNothing \/ PollFailed
       ELSE UNCHANGED <<hasPending, pendingId, ready, cache, downloadId, job>>
    /\ pollDone' = FALSE
    /\ pc' = "request"
    /\ UNCHANGED <<envVars, button, state, playedId, heard, ran, downloadDone, downloadOk,
                   pollResult, takeVars, tried>>

-----------------------------------------------------------------------------
(* The end of a pass: what is asked of the worker, and the retry of an upload.  *)

Idle == button = "up" /\ wifi /\ state = "IDLE" /\ ~uploadRequested /\ job = "NONE"

RequestHeartbeat ==
    /\ pc = "request"
    /\ button = "up" /\ wifi /\ state \in {"IDLE", "ERROR"} /\ job = "NONE"
    /\ job' = "HEARTBEAT"
    /\ pc' = "prefetch"
    /\ UNCHANGED <<envVars, button, state, inboxVars, ran, downloadId, downloadDone,
                   downloadOk, pollDone, pollResult, takeVars, tried>>

RequestPoll ==
    /\ pc = "request"
    /\ Idle /\ ~ready
    /\ job' = "POLL"
    /\ pollDone' = FALSE
    /\ pc' = "prefetch"
    /\ UNCHANGED <<envVars, button, state, inboxVars, ran, downloadId, downloadDone,
                   downloadOk, pollResult, takeVars, tried>>

\* Not possible, not due, or backing off.
RequestNothing ==
    /\ pc = "request"
    /\ pc' = "prefetch"
    /\ UNCHANGED <<envVars, button, state, inboxVars, workerVars, takeVars, tried>>

StartDownload ==
    /\ pc = "prefetch"
    /\ Idle /\ hasPending /\ ~ready
    /\ pendingId # None
    /\ downloadId' = pendingId
    /\ downloadDone' = FALSE
    /\ downloadOk' = FALSE
    /\ job' = "DOWNLOAD"
    /\ state' = "DOWNLOADING"
    /\ pc' = "retry"
    /\ UNCHANGED <<envVars, button, inboxVars, ran, pollDone, pollResult, takeVars, tried>>

NoDownload ==
    /\ pc = "prefetch"
    /\ pc' = "retry"
    /\ UNCHANGED <<envVars, button, state, inboxVars, workerVars, takeVars, tried>>

\* uploadPendingRecording: the header is rebuilt; the next pass uploads.
RetryUpload ==
    /\ pc = "retry"
    /\ Idle /\ ~hasPending
    /\ flushed
    /\ uploadRequested' = TRUE
    /\ uploadTake' = take
    /\ state' = "UPLOADING"
    /\ pc' = "top"
    /\ UNCHANGED <<envVars, button, inboxVars, workerVars, take, flushed, recording, used,
                   tried>>

NoRetry ==
    /\ pc = "retry"
    /\ pc' = "top"
    /\ UNCHANGED <<envVars, button, state, inboxVars, workerVars, takeVars, tried>>

-----------------------------------------------------------------------------
(* The net worker.                                                             *)

\* The oldest AVAILABLE message, None, or no usable answer.
Available == {m \in Messages : row[m] = "AVAILABLE"}
Next1 == IF Available = {} THEN None
         ELSE CHOOSE m \in Available : \A o \in Available : m <= o

RunPoll ==
    /\ job = "POLL" /\ ~ran
    /\ pollResult' \in {Failed, Next1}
    /\ pollDone' = TRUE
    /\ ran' = TRUE
    /\ UNCHANGED <<envVars, button, pc, state, inboxVars, job, downloadId, downloadDone,
                   downloadOk, takeVars, tried>>

\* The server serves an AVAILABLE message only; a failed download may leave the
\* old file, none, or a part.
RunDownload ==
    /\ job = "DOWNLOAD" /\ ~ran
    /\ \/ /\ downloadId \in Available
          /\ cache' = downloadId
          /\ downloadOk' = TRUE
       \/ /\ cache' \in {cache, None, Partial}
          /\ downloadOk' = FALSE
    /\ downloadDone' = TRUE
    /\ ran' = TRUE
    /\ UNCHANGED <<envVars, button, pc, state, hasPending, pendingId, playedId, ready, heard,
                   job, downloadId, pollDone, pollResult, takeVars, tried>>

\* POST played: the message id is cleared when the answer is 200 only.  A mark
\* that seems to fail may have been made, or be made later.
RunMarkPlayed ==
    /\ job = "MARK_PLAYED" /\ ~ran
    /\ \/ /\ downloadId \in Available
          /\ row' = [row EXCEPT ![downloadId] = "PLAYED"]
          /\ downloadId' \in {downloadId, None}
          /\ UNCHANGED lateAcks
       \/ /\ lateAcks' \in {lateAcks, lateAcks \cup ({downloadId} \cap Messages)}
          /\ UNCHANGED <<row, downloadId>>
    /\ ran' = TRUE
    /\ UNCHANGED <<wifi, overtaken, button, pc, state, inboxVars, job, downloadDone,
                   downloadOk, pollDone, pollResult, takeVars, tried>>

RunHeartbeat ==
    /\ job = "HEARTBEAT" /\ ~ran
    /\ ran' = TRUE
    /\ UNCHANGED <<envVars, button, pc, state, inboxVars, job, downloadId, downloadDone,
                   downloadOk, pollDone, pollResult, takeVars, tried>>

\* s_netJob = NONE, s_netBusy = false
JobOff ==
    /\ ran
    /\ job' = "NONE"
    /\ ran' = FALSE
    /\ UNCHANGED <<envVars, button, pc, state, inboxVars, downloadId, downloadDone,
                   downloadOk, pollDone, pollResult, takeVars, tried>>

-----------------------------------------------------------------------------
(* The environment.                                                            *)

WifiChange ==
    /\ "wifi" \in Faults
    /\ wifi' = ~wifi
    /\ UNCHANGED <<row, lateAcks, overtaken, button, pc, state, inboxVars, workerVars,
                   takeVars, tried>>

\* A message becomes AVAILABLE on the server; it may be older than one that is (its
\* INSERT began before and was committed after).
Appear(m) ==
    /\ row[m] = "absent"
    /\ row' = [row EXCEPT ![m] = "AVAILABLE"]
    /\ overtaken' = overtaken \cup {k \in Messages : m < k /\ row[k] # "absent"}
    /\ UNCHANGED <<wifi, lateAcks, button, pc, state, inboxVars, workerVars, takeVars, tried>>

\* A mark the device gave up on reaches the server.
LateAck(m) ==
    /\ m \in lateAcks
    /\ lateAcks' = lateAcks \ {m}
    /\ row' = IF row[m] = "AVAILABLE" THEN [row EXCEPT ![m] = "PLAYED"] ELSE row
    /\ UNCHANGED <<wifi, overtaken, button, pc, state, inboxVars, workerVars, takeVars, tried>>

\* Power loss or panic: the files of /rec and /play.wav go with the memory.
Reboot ==
    /\ "reboot" \in Faults
    /\ UNCHANGED <<envVars, used, tried>>
    /\ button' = "up" /\ pc' = "top" /\ state' = IF wifi THEN "IDLE" ELSE "ERROR"
    /\ hasPending' = FALSE /\ pendingId' = None /\ playedId' = None
    /\ ready' = FALSE /\ cache' = None /\ heard' = {}
    /\ job' = "NONE" /\ ran' = FALSE
    /\ downloadId' = None /\ downloadDone' = FALSE /\ downloadOk' = FALSE
    /\ pollDone' = FALSE /\ pollResult' = Failed
    /\ take' = None /\ flushed' = FALSE /\ recording' = FALSE
    /\ uploadRequested' = FALSE /\ uploadTake' = None

LoopStep ==
    \/ PassPlay \/ PassHold \/ PassOn \/ PlaybackEnd
    \/ KeepRecording \/ StopRecording \/ NotRecording
    \/ HandleUploading \/ UploadOk \/ UploadFail
    \/ TakeDownload \/ TakePoll
    \/ RequestHeartbeat \/ RequestPoll \/ RequestNothing
    \/ StartDownload \/ NoDownload \/ RetryUpload \/ NoRetry

WorkerStep == RunPoll \/ RunDownload \/ RunMarkPlayed \/ RunHeartbeat \/ JobOff

Next ==
    \/ LoopStep
    \/ WorkerStep
    \/ WifiChange
    \/ \E m \in Messages : Appear(m) \/ LateAck(m)
    \/ Reboot

Spec == Init /\ [][Next]_vars

-----------------------------------------------------------------------------
(* Fairness.                                                                   *)

\* What the network and the child do again and again, however slowly.
PollAnswered == RunPoll /\ pollResult' # Failed
DownloadWorks == RunDownload /\ downloadOk'
Release == (PassOn \/ PassPlay) /\ button # "up" /\ button' = "up"

\* A poll is answered within POLL_INTERVAL_MS of its request: the next one is
\* not due when its answer arrives, nor when the message it named can be fetched.
SkippedForResult == RequestNothing /\ Idle /\ pollDone /\ pollResult # Failed
SkippedForDownload == RequestNothing /\ Idle /\ hasPending

Fairness ==
    /\ WF_vars(LoopStep) /\ WF_vars(WorkerStep)
    /\ SF_vars(RequestPoll) /\ SF_vars(StartDownload)
    /\ SF_vars(SkippedForResult) /\ SF_vars(SkippedForDownload)
    /\ SF_vars(PollAnswered) /\ SF_vars(DownloadWorks) /\ SF_vars(Release)

FairSpec == Spec /\ Fairness

-----------------------------------------------------------------------------
(* Properties.                                                                 *)

\* Every variable keeps its type (the globals of main.cpp:35-93).
TypeOK ==
    /\ wifi \in BOOLEAN /\ button \in Buttons /\ pc \in Places /\ state \in DeviceStates
    /\ hasPending \in BOOLEAN /\ ready \in BOOLEAN
    /\ {pendingId, playedId, downloadId} \subseteq Messages \cup {None}
    /\ cache \in Messages \cup {None, Partial}
    /\ job \in NetJobs /\ ran \in BOOLEAN
    /\ downloadDone \in BOOLEAN /\ downloadOk \in BOOLEAN
    /\ pollDone \in BOOLEAN /\ pollResult \in Messages \cup {None, Failed}
    /\ {take, uploadTake} \subseteq Takes \cup {None}
    /\ flushed \in BOOLEAN /\ recording \in BOOLEAN /\ uploadRequested \in BOOLEAN
    /\ used \subseteq Takes
    /\ row \in [Messages -> RowStates]
    /\ lateAcks \subseteq Messages /\ overtaken \subseteq Messages
    /\ tried \subseteq Messages /\ heard \subseteq Messages

\* The server learns that a message was played only if the box started to play
\* it, though the mark is sent by another task, from a global that polls and
\* downloads rewrite (main.cpp:427, 487, 645-650).
AckOnlyTried == \A m \in Messages : row[m] = "PLAYED" \/ m \in lateAcks => m \in tried

\* A message offered to the child is on flash, under the id that its mark will
\* name, and the box knows it is waiting (main.cpp:620-636, 653-664).
ReadyIsPlayable == ready => hasPending /\ cache \in Messages /\ cache = downloadId

\* A message the child heard to its end is not offered again until a reboot, though its
\* mark may be lost, polls then name it, and the box remembers the last one only; except
\* that one which an older message came after is safe only as long as it is the last
\* (main.cpp:475, 643-651).
NoReplay == ready => cache # playedId /\ cache \notin heard \ overtaken

\* Capture and a download never run together: they share the body buffer
\* (api_client.cpp:1066-1067), and start() deletes /play.wav.
NoOverlap == ~(recording /\ job = "DOWNLOAD" /\ ~ran)

\* An upload sends the take its header was built for (main.cpp:135).
HeaderFits == pc = "sending" => uploadTake = take /\ take # None

\* In IDLE nothing is left over from another state: the recorder is off and no
\* upload is requested, else no hold records and no poll is made again
\* (main.cpp:563-569, 713).
IdleIsFree == state = "IDLE" => ~recording /\ ~uploadRequested

\* Every message of the server is offered to the child in the end, if the Wi-Fi
\* stays up at last (main.cpp:708-733).
EveryFetched == <>[]wifi => \A m \in Messages :
    (row[m] = "AVAILABLE") ~> (m \in tried \/ (ready /\ hasPending /\ cache = m))
=============================================================================
