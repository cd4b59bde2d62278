------------------------------ MODULE Capture -------------------------------
(***************************************************************************)
(* A recording from the finger to the request to upload it: the button,    *)
(* the recorder, and the parts of loop() that drive them (main.cpp), while *)
(* the capture task goes on by itself.                                     *)
(*                                                                         *)
(* mode is the state machine's state as far as a recording sees it: IDLE   *)
(* stands for every state but RECORDING and UPLOADING, and whether Wi-Fi,  *)
(* state and messages allow a recording is a choice of each pass.  Wi-Fi   *)
(* lost while RECORDING is in MainLoop.                                    *)
(***************************************************************************)
EXTENDS Recorder, Button, WavCheck

CONSTANTS
    PassMs      \* how long a pass of loop() may take

ASSUME PassAssumption == PassMs \subseteq Nat

VARIABLES
    pc,         \* the place of loop() that runs next
    mode,       \* StateMachine::_state
    drained     \* samples drained by this AudioRecorder::loop()

vars == <<recorderVars, buttonVars, pc, mode, drained>>

Places == {"top", "start", "preroll1", "preroll2", "record", "check", "again",
           "stop", "rest", "close"}

Init ==
    /\ RecorderInit /\ ButtonInit
    /\ pc = "top" /\ mode = "IDLE" /\ drained = 0

\* A pass: the button, then arm or disarm, then a hold that starts a take.
Pass ==
    /\ pc = "top" /\ mode # "UPLOADING"
    /\ \E reading \in BOOLEAN, ms \in PassMs : ButtonLoop(reading, ms) /\ Witness(reading, ms)
    /\ \E allowed \in BOOLEAN :
          LET canArmRecord == allowed /\ mode = "IDLE" /\ ~recording
          IN /\ IF pressed' /\ canArmRecord THEN Arm ELSE Disarm /\ UNCHANGED captured
             /\ pc' = IF justHeld' /\ canArmRecord THEN "start"
                      ELSE IF mode = "RECORDING" THEN "record" ELSE "top"
    /\ UNCHANGED <<inRead, recording, diskFull, staging, pcmTotal, maxPcm, fd, take, startVars,
                   mode, drained>>

Start ==
    /\ pc = "start"
    /\ \/ StartOk /\ mode' = "RECORDING" /\ pc' = "preroll1"
       \/ StartFail /\ mode' = "IDLE" /\ pc' = "top"
    /\ UNCHANGED <<buttonVars, drained>>

\* Mutant: start() drains once.
AfterOnce == [preroll1 |-> "record", preroll2 |-> "record", record |-> "check",
              again |-> "top", stop |-> "stop"]

\* AudioRecorder::loop() is called at these places, and then comes the next one.
After == [preroll1 |-> "preroll2", preroll2 |-> "record", record |-> "check",
          again |-> "top", stop |-> "stop"]

DrainBudget == RingCapacity \div 2

Drain ==
    /\ pc \in DOMAIN After
    /\ CanDrain /\ drained < DrainBudget
    /\ LET n == Min2(ReadSamples, Len(ring))
       IN PopAndWrite(n) /\ drained' = drained + n
    /\ UNCHANGED <<buttonVars, pc, mode>>

\* Mutant: the ring is drained until it is empty.
DrainEndEmpty ==
    /\ pc \in DOMAIN After
    /\ ~CanDrain
    /\ drained' = 0
    /\ pc' = IF pc = "stop" THEN "rest" ELSE After[pc]
    /\ UNCHANGED <<recorderVars, buttonVars, mode>>

\* Half the ring was drained, or there is nothing (more): stop() calls again until
\* the ring is empty.
DrainEnd ==
    /\ pc \in DOMAIN After
    /\ ~CanDrain \/ drained >= DrainBudget
    /\ drained' = 0
    /\ pc' = IF pc = "stop" /\ ~CanDrain THEN "rest" ELSE After[pc]
    /\ UNCHANGED <<recorderVars, buttonVars, mode>>

\* handleRecording: at the release, the end of the budget or of the flash, stop().
StopAsked == (release /\ ~pressed) \/ MaxDurationReached \/ diskFull

\* Mutant: stop() only ends the capture.
CheckKeepsRecording ==
    /\ pc = "check"
    /\ IF StopAsked
       THEN capturing' = FALSE /\ pc' = "stop"
       ELSE pc' = "again" /\ UNCHANGED capturing
    /\ UNCHANGED <<captured, inRead, ring, dropped, recording, diskFull, staging, pcmTotal,
                   maxPcm, fd, take, startVars, buttonVars, mode, drained>>

Check ==
    /\ pc = "check"
    /\ IF StopAsked
       THEN capturing' = FALSE /\ recording' = FALSE /\ pc' = "stop"
       ELSE pc' = "again" /\ UNCHANGED <<capturing, recording>>
    /\ UNCHANGED <<captured, inRead, ring, dropped, diskFull, staging, pcmTotal, maxPcm, fd,
                   take, startVars, buttonVars, mode, drained>>

StopRest ==
    /\ pc = "rest"
    /\ WriteRest
    /\ pc' = "close"
    /\ UNCHANGED <<buttonVars, mode, drained>>

\* The device's check of the shortest recording (main.cpp:359-360).
LongEnough(samples) == samples > 0 /\ (samples * 1000) \div SampleRate >= MinDurationMs

\* The end of stop() and of handleRecording: after a failed write the file may have
\* lost more than that write, all of it even.
StopClose ==
    /\ pc = "close"
    /\ \E size \in IF FlashFails THEN 0..Len(take) ELSE {Len(take)} :
          LET counted == IF size > 0 THEN size ELSE pcmTotal
          IN IF LongEnough(counted)
             THEN CloseAndCount(size) /\ mode' = "UPLOADING" /\ UNCHANGED staging
             ELSE CleanupRecording /\ mode' = "IDLE"
    /\ pc' = "top"
    /\ startAt' = 0 /\ firstAt' = 1
    /\ UNCHANGED <<captured, inRead, ring, dropped, capturing, recording, diskFull, maxPcm,
                   buttonVars, drained>>

\* The upload ends: the take is cleaned up, or kept for a later attempt; the network
\* may have taken the staging chunk (releaseMemoryForNetwork).
UploadEnd ==
    /\ pc = "top" /\ mode = "UPLOADING"
    /\ mode' = "IDLE"
    /\ \/ take # <<>> /\ CleanupRecording
       \/ staging' = <<>> /\ UNCHANGED <<take, pcmTotal, fd>>
    /\ UNCHANGED <<captured, inRead, ring, dropped, capturing, recording, diskFull, maxPcm,
                   startVars, buttonVars, pc, drained>>

LoopTask == Pass \/ Start \/ Drain \/ DrainEnd \/ Check \/ StopRest \/ StopClose \/ UploadEnd
CaptureTask == (CaptureRead \/ CapturePush) /\ UNCHANGED <<buttonVars, pc, mode, drained>>

Next == LoopTask \/ CaptureTask

Spec == Init /\ [][Next]_vars

\* The loop task is scheduled; nothing is asked of the capture task.
FairSpec == Spec /\ WF_vars(LoopTask)
-----------------------------------------------------------------------------
TypeOK ==
    /\ RecorderTypeOK /\ ButtonTypeOK
    /\ pc \in Places /\ mode \in {"IDLE", "RECORDING", "UPLOADING"}
    /\ drained \in 0..(DrainBudget + ReadSamples - 1)
    /\ recording => fd /\ mode = "RECORDING"
    /\ pc \in DOMAIN After \cup {"check", "rest", "close"} => mode = "RECORDING"

\* The samples from before the hold that are in the take.
FromBefore == {i \in DOMAIN Sound : Sound[i] <= startAt}

\* What the ring held when the recording began, the speech from before the hold, has
\* left the ring when start() returns, since two drains of half a ring cover it however
\* much is captured meanwhile; and all of it is in the take but for what a ring that
\* overran threw away, which was counted (audio_recorder.cpp:316-323, 612-614).
PrerollIsTaken ==
    pc \in {"record", "check", "again"} /\ recording /\ startAt < LastSample =>
        /\ NextUp > startAt
        /\ startAt - firstAt + 1 - Cardinality(FromBefore) <= dropped

\* An upload is requested for as many bytes as the file has, whatever was written in
\* part, and the server takes it with the length it really has.  A file that lost
\* everything is not sent (audio_recorder.cpp:722-738, api_client.cpp:344-349).
HeaderFitsFile ==
    mode = "UPLOADING" /\ take # <<>> =>
        LET f == RecorderFile(2 * pcmTotal, 2 * Len(take))
        IN /\ pcmTotal = Len(take)
           /\ Valid(f)
           /\ Aligned(f) = [durationMs |-> (Len(take) * 1000) \div SampleRate,
                            sizeBytes |-> 44 + 2 * Len(take)]

\* loop() comes back to its top, however fast the ring fills: the button is read
\* again and the box does not hang (audio_recorder.cpp:783-785).
LoopReturns == pc # "top" ~> pc = "top"
=============================================================================
