------------------------------ MODULE Exchange ------------------------------
(***************************************************************************)
(* The flash of the device and what passes through it in both directions:  *)
(* a take waits in /rec/take.pcm until the server has it, a message is     *)
(* downloaded to /play.wav until it is played.                             *)
(*                                                                         *)
(* The steps of loop() are in MainLoop; here the device does one thing at  *)
(* a time (NoOverlap there) and sizes count.  The network may fail at any  *)
(* request, MaxFaults times.                                               *)
(***************************************************************************)
EXTENDS Integers

CONSTANTS
    Flash,          \* LittleFS.totalBytes()
    TakeReserve,    \* FS_UPLOAD_SAFE_BYTES + FS_WRITE_MARGIN
    TakeMost,       \* MAX_RECORDING_SECONDS
    TakeLeast,      \* half a second
    FlashMargin,    \* kFlashMargin
    PlayLeast,      \* kMinBytes
    Block,          \* kBlock
    Payload,        \* kBlock - 8: what a block of the flash holds of a file
    Lengths,        \* the sizes of the messages, in the order they arrive
    Takes,          \* recordings the child makes
    MaxFaults,      \* bound on failures of the network
    MaxReboots      \* bound on reboots

ASSUME SizesAssumption ==
    /\ {Flash, TakeReserve, TakeMost, TakeLeast, FlashMargin, PlayLeast} \subseteq Nat \ {0}
    /\ Block \in Nat \ {0} /\ Payload \in 1..Block
    /\ TakeReserve <= FlashMargin /\ TakeReserve <= Flash
    /\ {Takes, MaxFaults, MaxReboots} \subseteq Nat
    /\ DOMAIN Lengths \subseteq Nat /\ \A m \in DOMAIN Lengths : Lengths[m] \in Nat \ {0}

Messages == DOMAIN Lengths
None == 0
ASSUME NoneAssumption == None \notin Messages

VARIABLES
    doing,      \* idle, posting or downloading
    take,       \* size of /rec/take.pcm, 0 when there is none
    made,       \* number of the last recording
    requested,  \* s_uploadRequested
    attempt,    \* the attempt of postRecordingWithRetry
    rows,       \* message rows the server made of each recording
    lost,       \* posts of each recording that were stored and not answered 201
    arrived,    \* the last message available on the server
    heard,      \* the messages it holds as PLAYED
    pending,    \* pendingMessageId; hasPendingMessage() when it is not None
    played,     \* playedMessageId
    cache,      \* size of /play.wav
    cap,        \* bytes this download may take
    ready,      \* s_inboundReady
    trimmed,    \* s_inboundTrimmed
    faults, reboots

netVars == <<faults, reboots>>
sendVars == <<take, made, requested, attempt, rows, lost>>
fileVars == <<cache, cap, ready, trimmed>>
receiveVars == <<arrived, heard, pending, played, fileVars>>
vars == <<doing, sendVars, receiveVars, netVars>>

Init ==
    /\ doing = "idle"
    /\ take = 0 /\ made = 0 /\ requested = FALSE /\ attempt = 0
    /\ rows = [t \in 1..Takes |-> 0] /\ lost = [t \in 1..Takes |-> 0]
    /\ arrived = 0 /\ heard = {} /\ pending = None /\ played = None
    /\ cache = 0 /\ cap = 0 /\ ready = FALSE /\ trimmed = FALSE
    /\ faults = 0 /\ reboots = 0

Smaller(a, b) == IF a < b THEN a ELSE b

\* What storageFreeBytes() finds beside a take once /play.wav is removed: LittleFS gives
\* whole blocks.
FreeBeside(size) == Flash - Block * ((size + Block - 1) \div Block)

\* What a message may take of it: the whole blocks above the margin.
CapBeside(size) == ((FreeBeside(size) - FlashMargin) \div Block) * Payload
Fault == faults < MaxFaults /\ faults' = faults + 1 /\ UNCHANGED reboots

-----------------------------------------------------------------------------
(* Sending.                                                                    *)

\* A hold records: /play.wav and the last take are gone first, and what is free then
\* bounds the take (computeMaxPcmBytes).  The upload is requested at its end, unless
\* the take could not start or is too short.
Record ==
    /\ doing = "idle" /\ pending = None /\ ~requested
    /\ made < Takes
    /\ cache' = 0
    /\ made' = made + 1
    /\ \/ /\ take' \in TakeLeast..Smaller(Flash - TakeReserve, TakeMost)
          /\ requested' = TRUE
       \/ take' = 0 /\ UNCHANGED requested
    /\ UNCHANGED <<doing, attempt, rows, lost, arrived, heard, pending, played, cap, ready,
                   trimmed, netVars>>

\* Mutant: whether there is a take is not looked at.
RetryPendingEmpty ==
    /\ doing = "idle" /\ pending = None /\ ~requested
    /\ requested' = TRUE
    /\ UNCHANGED <<doing, take, made, attempt, rows, lost, receiveVars, netVars>>

\* Mutant: the id of the message played is looked at, not that of the pending one.
RetryPendingPlayed ==
    /\ doing = "idle" /\ pending = None /\ played = None /\ ~requested
    /\ take > 0
    /\ requested' = TRUE
    /\ UNCHANGED <<doing, take, made, attempt, rows, lost, receiveVars, netVars>>

\* uploadPendingRecording: in IDLE with no message pending.
RetryPending ==
    /\ doing = "idle" /\ pending = None /\ ~requested
    /\ take > 0
    /\ requested' = TRUE
    /\ UNCHANGED <<doing, take, made, attempt, rows, lost, receiveVars, netVars>>

StartPost ==
    /\ doing = "idle" /\ requested
    /\ doing' = "posting" /\ attempt' = 1
    /\ requested' = FALSE
    /\ UNCHANGED <<take, made, rows, lost, receiveVars, netVars>>

Stored == rows' = [rows EXCEPT ![made] = @ + 1]

\* Mutant: the attempts go on after a 201.
PostAcceptedAgain ==
    /\ doing = "posting"
    /\ Stored
    /\ IF attempt < 2
       THEN attempt' = attempt + 1 /\ UNCHANGED <<doing, take>>
       ELSE attempt' = 0 /\ doing' = "idle" /\ take' = 0
    /\ UNCHANGED <<made, requested, lost, receiveVars, netVars>>

\* 201 is read: the take is cleaned up.
PostAccepted ==
    /\ doing = "posting"
    /\ Stored
    /\ doing' = "idle" /\ attempt' = 0
    /\ take' = 0
    /\ UNCHANGED <<made, requested, lost, receiveVars, netVars>>

\* Mutant: the take is cleaned up after the second attempt too.
NextAttemptDrops ==
    IF attempt < 2
    THEN attempt' = attempt + 1 /\ UNCHANGED <<doing, take>>
    ELSE attempt' = 0 /\ doing' = "idle" /\ take' = 0

\* postRecordingWithRetry makes two attempts; then the take waits on the flash.
NextAttempt ==
    IF attempt < 2
    THEN attempt' = attempt + 1 /\ UNCHANGED <<doing, take>>
    ELSE attempt' = 0 /\ doing' = "idle" /\ UNCHANGED take

\* No connection, a body not sent, or a refusal; or the row was committed, and the
\* answer is lost or an error (message_handlers.go:111-118).
PostFailed ==
    /\ doing = "posting"
    /\ Fault
    /\ \/ UNCHANGED <<rows, lost>>
       \/ Stored /\ lost' = [lost EXCEPT ![made] = @ + 1]
    /\ NextAttempt
    /\ UNCHANGED <<made, requested, receiveVars>>

-----------------------------------------------------------------------------
(* Receiving.                                                                  *)

Arrive ==
    /\ arrived + 1 \in Messages
    /\ arrived' = arrived + 1
    /\ UNCHANGED <<doing, sendVars, heard, pending, played, fileVars, netVars>>

\* The poll names the oldest message that is not PLAYED, and a message played before
\* is marked again.  An answer may come after the hold that starts a recording.
Poll ==
    /\ doing = "idle" /\ ~ready
    /\ \/ /\ heard = 1..arrived
          /\ pending' = None /\ UNCHANGED heard
       \/ \E m \in 1..arrived \ heard :
             /\ \A k \in 1..arrived \ heard : m <= k
             /\ IF m = played
                THEN heard' = heard \cup {m} /\ pending' = None
                ELSE pending' = m /\ UNCHANGED heard
    /\ UNCHANGED <<doing, sendVars, arrived, played, fileVars, netVars>>

\* Mutant: the length of the message alone bounds the download.
DownloadCapWhole == Lengths[pending]

DownloadCap == Smaller(CapBeside(take), Lengths[pending])

\* GET answered 200: the old file is removed; without enough flash that is all.
StartDownload ==
    /\ doing = "idle" /\ pending # None /\ ~ready /\ ~requested
    /\ cache' = 0
    /\ IF FreeBeside(take) <= FlashMargin + PlayLeast
       THEN UNCHANGED <<doing, cap>>
       ELSE doing' = "downloading" /\ cap' = DownloadCap
    /\ trimmed' = FALSE
    /\ UNCHANGED <<sendVars, arrived, heard, pending, played, ready, netVars>>

Receive ==
    /\ doing = "downloading" /\ cache < cap
    /\ cache' = cache + 1
    /\ UNCHANGED <<doing, sendVars, arrived, heard, pending, played, cap, ready, trimmed,
                   netVars>>

\* Mutant: a part is offered however short it is.
ReceivedAnyLength ==
    /\ doing = "downloading" /\ cache = cap
    /\ doing' = "idle"
    /\ trimmed' = (cap < Lengths[pending])
    /\ ready' = TRUE
    /\ UNCHANGED <<sendVars, arrived, heard, pending, played, cache, cap, netVars>>

\* All that may be taken is there: the message, or a part of it, which stays on the
\* flash and is offered only when it is worth playing.
Received ==
    /\ doing = "downloading" /\ cache = cap
    /\ doing' = "idle"
    /\ trimmed' = (cap < Lengths[pending])
    /\ ready' = (cap = Lengths[pending] \/ cap >= PlayLeast)
    /\ UNCHANGED <<sendVars, arrived, heard, pending, played, cache, cap, netVars>>

\* The flash fills up before the cap (LittleFS uses blocks of its own): what there is
\* is kept when it is worth playing.
ReceivedTrimmed ==
    /\ doing = "downloading" /\ cache >= PlayLeast
    /\ Fault
    /\ doing' = "idle"
    /\ trimmed' = TRUE
    /\ ready' = TRUE
    /\ UNCHANGED <<sendVars, arrived, heard, pending, played, cache, cap>>

\* The peer closed or stalled, or a first write failed: the file is removed.
ReceiveFailed ==
    /\ doing = "downloading" /\ cache < cap
    /\ Fault
    /\ doing' = "idle"
    /\ cache' = 0
    /\ UNCHANGED <<sendVars, arrived, heard, pending, played, cap, ready, trimmed>>

\* A press plays the file, which goes; the mark may be lost and is sent again.
Play ==
    /\ doing = "idle" /\ ready /\ pending # None
    /\ ready' = FALSE /\ trimmed' = FALSE /\ cache' = 0
    /\ played' = pending
    /\ pending' = None
    /\ \/ heard' = heard \cup {pending} /\ UNCHANGED netVars
       \/ Fault /\ UNCHANGED heard
    /\ UNCHANGED <<doing, sendVars, arrived, cap>>

\* setup(): the take and the file are removed, the rest is forgotten.
Reboot ==
    /\ reboots < MaxReboots
    /\ reboots' = reboots + 1
    /\ doing' = "idle"
    /\ take' = 0 /\ requested' = FALSE /\ attempt' = 0
    /\ pending' = None /\ played' = None
    /\ cache' = 0 /\ cap' = 0 /\ ready' = FALSE /\ trimmed' = FALSE
    /\ UNCHANGED <<made, rows, lost, arrived, heard, faults>>

DeviceStep ==
    \/ RetryPending \/ StartPost \/ PostAccepted
    \/ Poll \/ StartDownload \/ Receive \/ Received \/ Play

Next ==
    \/ DeviceStep \/ Record \/ Arrive
    \/ PostFailed \/ ReceivedTrimmed \/ ReceiveFailed \/ Reboot

Spec == Init /\ [][Next]_vars

\* The device goes on with what it does and what it waits for, and the child plays
\* what is ready; nobody has to record, and faults and messages come to an end.
FairSpec ==
    /\ Spec
    /\ WF_vars(StartPost) /\ WF_vars(PostAccepted) /\ WF_vars(Receive) /\ WF_vars(Received)
    /\ WF_vars(Poll) /\ WF_vars(StartDownload) /\ WF_vars(Play) /\ SF_vars(RetryPending)
-----------------------------------------------------------------------------
TypeOK ==
    /\ doing \in {"idle", "posting", "downloading"}
    /\ take \in 0..TakeMost /\ made \in 0..Takes /\ attempt \in 0..2
    /\ requested \in BOOLEAN /\ ready \in BOOLEAN /\ trimmed \in BOOLEAN
    /\ arrived \in Messages \cup {0} /\ heard \subseteq 1..arrived
    /\ {pending, played} \subseteq Messages \cup {None}
    /\ doing = "posting" <=> attempt > 0
    /\ requested \/ doing = "posting" => take > 0

\* LittleFS panics when no block is free: takes and downloads together leave it what
\* the recorder reserves (api_client.cpp:1024-1027, audio_recorder.cpp:37).
FlashKeepsRoom == take + cache + TakeReserve <= Flash

\* A message that is offered is whole, or marked as trimmed and long enough to be
\* worth a press (api_client.cpp:1129-1144).
ReadyIsWhole ==
    ready /\ pending # None =>
        \/ cache = Lengths[pending] /\ ~trimmed
        \/ trimmed /\ cache >= PlayLeast

\* A recording reaches the server more than once only if an answer was lost or was
\* an error after the commit (api_client.cpp:430-451, message_handlers.go:118).
CopiesNeedLoss == \A t \in 1..Takes : rows[t] <= 1 + lost[t]

\* A take leaves the flash because the server has it, for the next recording, or in
\* a reboot: never for an upload that failed (main.cpp:141-153).
TakeKeptUntilStored ==
    [][take > 0 /\ take' = 0 =>
            rows'[made] > 0 \/ made' # made \/ reboots' # reboots]_vars

\* Every recording reaches the server, unless the next one replaces it or the device
\* is switched off (docs/architecture.md:28, main.cpp:735).
EveryTakeSent ==
    \A t \in 1..Takes :
        made = t /\ take > 0 ~> rows[t] > 0 \/ made > t \/ reboots > 0

\* Takes that leave a message enough flash, in whole blocks, to be worth a press.
RoomyTakes ==
    {size \in 1..TakeMost : /\ FreeBeside(size) > FlashMargin + PlayLeast
                            /\ CapBeside(size) >= PlayLeast}

\* A recording that leaves room for a message reaches the server, through failures of
\* the network and messages that come, are trimmed and played meanwhile, unless the
\* next one replaces it or the device is switched off (main.cpp:735-745).
EveryRoomyTakeSent ==
    \A t \in 1..Takes :
        made = t /\ take \in RoomyTakes ~> rows[t] > 0 \/ made > t \/ reboots > 0
=============================================================================
