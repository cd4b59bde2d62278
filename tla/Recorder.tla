------------------------------ MODULE Recorder ------------------------------
(***************************************************************************)
(* The recorder (audio_recorder.cpp): the capture task that fills the      *)
(* ring, and what the loop task does with it: drain it into the staging    *)
(* chunk, write full chunks to /rec/take.pcm, stay within a byte budget.   *)
(*                                                                         *)
(* Lengths are in samples of two bytes.  Samples are numbered as they are  *)
(* captured; from LastSample on they are not told apart, so that capture   *)
(* never ends.  The flush worker and its queue are left out: nothing       *)
(* queues to it (queueChunkFlush writes at once).                          *)
(***************************************************************************)
EXTENDS Integers, Sequences, FiniteSets

CONSTANTS
    RingCapacity,   \* RING_SAMPLE_COUNT
    ReadSamples,    \* I2S_READ_SAMPLES, of one read and of one pop
    ChunkSamples,   \* CHUNK_BYTES
    Reserve,        \* FS_UPLOAD_SAFE_BYTES + FS_WRITE_MARGIN
    CapSamples,     \* MAX_RECORDING_SECONDS
    LeastBudget,    \* half a second
    FreeSpaces,     \* what storageFreeBytes() may find at a start
    LastSample,     \* bound on the numbering of samples
    FlashFails      \* whether a write to the flash may fail

ASSUME SizesAssumption ==
    /\ {RingCapacity, ReadSamples, ChunkSamples, CapSamples, LastSample} \subseteq Nat \ {0}
    /\ ReadSamples <= ChunkSamples /\ ReadSamples <= RingCapacity
    /\ {Reserve, LeastBudget} \subseteq Nat /\ FreeSpaces \subseteq Nat
    /\ FlashFails \in BOOLEAN

VARIABLES
    captured,   \* number of the last sample captured
    inRead,     \* the capture task is inside i2s_read
    ring,       \* the unread samples of _ring, oldest first
    dropped,    \* _droppedSamples
    capturing,  \* _capturing
    recording,  \* _recording
    diskFull,   \* _diskFull
    staging,    \* _staging up to _writePos
    pcmTotal,   \* _pcmTotal
    maxPcm,     \* _maxPcmBytes
    fd,         \* s_takeFd is open
    take,       \* the content of /rec/take.pcm
    startAt,    \* history: captured when the recording that runs started
    firstAt     \* history: the oldest sample that waited in the ring then

fileVars == <<staging, pcmTotal, diskFull, fd, take>>
startVars == <<startAt, firstAt>>
recorderVars == <<captured, inRead, ring, dropped, capturing, recording, diskFull,
                  staging, pcmTotal, maxPcm, fd, take, startVars>>

Min2(a, b) == IF a < b THEN a ELSE b

RecorderInit ==
    /\ captured = 0 /\ inRead = FALSE /\ ring = <<>> /\ dropped = 0
    /\ capturing = FALSE /\ recording = FALSE /\ diskFull = FALSE
    /\ staging = <<>> /\ pcmTotal = 0 /\ maxPcm = CapSamples
    /\ fd = FALSE /\ take = <<>> /\ startAt = 0 /\ firstAt = 1

\* The number of the next sample that is popped, or captured if none waits.
NextUp == IF ring = <<>> THEN captured + 1 ELSE ring[1]

-----------------------------------------------------------------------------
(* The capture task.                                                           *)

CaptureRead ==
    /\ ~inRead /\ (capturing \/ recording)
    /\ inRead' = TRUE
    /\ UNCHANGED <<captured, ring, dropped, capturing, recording, maxPcm, fileVars, startVars>>

\* Mutant: one overrun is counted for a whole read.
PushRingCountsOnce(samples) ==
    LET all == ring \o samples
        over == IF Len(all) > RingCapacity THEN Len(all) - RingCapacity ELSE 0
    IN /\ ring' = SubSeq(all, over + 1, Len(all))
       /\ dropped' = IF recording THEN Min2(dropped + Min2(over, 1), LastSample) ELSE dropped

\* pushRing: the oldest samples make room, and count as dropped in a recording.
PushRing(samples) ==
    LET all == ring \o samples
        over == IF Len(all) > RingCapacity THEN Len(all) - RingCapacity ELSE 0
    IN /\ ring' = SubSeq(all, over + 1, Len(all))
       /\ dropped' = IF recording THEN Min2(dropped + over, LastSample) ELSE dropped

\* The read returns, with nothing at a timeout: recording may have ended meanwhile.
CapturePush ==
    /\ inRead
    /\ inRead' = FALSE
    /\ \E n \in 0..ReadSamples :
          /\ PushRing([i \in 1..n |-> Min2(captured + i, LastSample)])
          /\ captured' = Min2(captured + n, LastSample)
    /\ UNCHANGED <<capturing, recording, maxPcm, fileVars, startVars>>

-----------------------------------------------------------------------------
(* The loop task: arm, disarm, and the start of a take.                        *)

\* arm(): what was captured before is dropped; a number is skipped for it.
Arm ==
    IF recording \/ capturing
    THEN UNCHANGED <<captured, ring, dropped, capturing>>
    ELSE /\ ring' = <<>> /\ dropped' = 0 /\ capturing' = TRUE
         /\ captured' = Min2(captured + 1, LastSample)

Disarm ==
    IF recording
    THEN UNCHANGED <<ring, dropped, capturing>>
    ELSE ring' = <<>> /\ dropped' = 0 /\ capturing' = FALSE

CleanupRecording == take' = <<>> /\ staging' = <<>> /\ pcmTotal' = 0 /\ fd' = FALSE

\* computeMaxPcmBytes: whole chunks of what is free, at most the longest take.
MaxPcm(free) ==
    IF free <= Reserve THEN 0
    ELSE Min2(((free - Reserve) \div ChunkSamples) * ChunkSamples, CapSamples)

\* start() after its arm(): the last take is gone before it can fail.
StartOk ==
    /\ ~recording
    /\ \E free \in FreeSpaces : MaxPcm(free) >= LeastBudget /\ maxPcm' = MaxPcm(free)
    /\ take' = <<>> /\ staging' = <<>> /\ pcmTotal' = 0 /\ fd' = TRUE
    /\ diskFull' = FALSE /\ dropped' = 0 /\ recording' = TRUE
    /\ startAt' = captured /\ firstAt' = NextUp
    /\ UNCHANGED <<captured, inRead, ring, capturing>>

\* Too little flash, no directory, no lock or no file.
StartFail ==
    /\ ~recording
    /\ CleanupRecording
    /\ Disarm
    /\ maxPcm' \in {maxPcm} \cup {MaxPcm(free) : free \in FreeSpaces}
    /\ UNCHANGED <<captured, inRead, recording, diskFull, startVars>>

-----------------------------------------------------------------------------
(* The loop task: from the ring to the flash.                                  *)

HasSpaceForChunk(buf) == pcmTotal + Len(buf) <= maxPcm

\* writeChunkSync of buf, leaving rest in the staging chunk.
ChunkWritten(buf, rest) ==
    /\ HasSpaceForChunk(buf)
    /\ take' = take \o buf
    /\ pcmTotal' = pcmTotal + Len(buf)
    /\ staging' = rest
    /\ UNCHANGED <<diskFull, fd>>

\* hasSpaceForChunk refuses it, or a piece fails after some were written; reopening
\* a lost file may fail too.
ChunkFailed(buf) ==
    /\ FlashFails \/ ~HasSpaceForChunk(buf)
    /\ \E n \in IF HasSpaceForChunk(buf) THEN 0..(Len(buf) - 1) ELSE {0} :
          take' = take \o SubSeq(buf, 1, n)
    /\ fd' \in {fd, FALSE}
    /\ staging' = buf
    /\ diskFull' = TRUE
    /\ recording' = FALSE
    /\ UNCHANGED pcmTotal

\* Mutant: the batch is not cut to what is left of the budget.
WriteSamplesUncut(batch) ==
    LET full == staging \o batch
        head == SubSeq(full, 1, Min2(ChunkSamples, Len(full)))
        rest == SubSeq(full, Len(head) + 1, Len(full))
    IN \/ diskFull /\ UNCHANGED <<fileVars, recording>>
       \/ /\ ~diskFull /\ Len(full) < ChunkSamples
          /\ staging' = full
          /\ UNCHANGED <<pcmTotal, diskFull, fd, take, recording>>
       \/ /\ ~diskFull /\ Len(full) >= ChunkSamples
          /\ ChunkWritten(head, rest)
          /\ UNCHANGED recording
       \/ /\ ~diskFull /\ Len(full) >= ChunkSamples
          /\ ChunkFailed(head)

\* writeSamples: the budget cuts the batch, and ends the recording if it is short.
WriteSamples(batch) ==
    LET kept == SubSeq(batch, 1, Min2(Len(batch), maxPcm - (pcmTotal + Len(staging))))
        full == staging \o kept
        head == SubSeq(full, 1, Min2(ChunkSamples, Len(full)))
        rest == SubSeq(full, Len(head) + 1, Len(full))
        goesOn == recording /\ Len(kept) = Len(batch)
    IN \/ diskFull /\ UNCHANGED <<fileVars, recording>>
       \/ /\ ~diskFull /\ Len(full) < ChunkSamples
          /\ staging' = full
          /\ recording' = goesOn
          /\ UNCHANGED <<pcmTotal, diskFull, fd, take>>
       \/ /\ ~diskFull /\ Len(full) >= ChunkSamples
          /\ ChunkWritten(head, rest)
          /\ recording' = goesOn
       \/ /\ ~diskFull /\ Len(full) >= ChunkSamples
          /\ ChunkFailed(head)

\* One round of AudioRecorder::loop().
CanDrain == fd /\ ring # <<>>
PopAndWrite(n) ==
    /\ ring' = SubSeq(ring, n + 1, Len(ring))
    /\ WriteSamples(SubSeq(ring, 1, n))
    /\ UNCHANGED <<captured, inRead, dropped, capturing, maxPcm, startVars>>

\* The last writeChunkSync of stop(): what is left in the staging chunk.
WriteRest ==
    /\ IF staging = <<>> \/ diskFull
       THEN UNCHANGED <<fileVars, recording>>
       ELSE \/ ChunkWritten(staging, <<>>) /\ UNCHANGED recording
            \/ ChunkFailed(staging)
    /\ UNCHANGED <<captured, inRead, ring, dropped, capturing, maxPcm, startVars>>

\* Mutant: the count is taken for the length of the file.
CloseAndCountBlind(size) == fd' = FALSE /\ take' = SubSeq(take, 1, size) /\ UNCHANGED pcmTotal

\* The file is closed and turns out to be size long, which corrects the count.
CloseAndCount(size) ==
    /\ fd' = FALSE
    /\ take' = SubSeq(take, 1, size)
    /\ pcmTotal' = IF size > 0 THEN size ELSE pcmTotal

\* maxDurationReached()
MaxDurationReached == recording /\ pcmTotal + Len(staging) >= maxPcm
-----------------------------------------------------------------------------
RecorderTypeOK ==
    /\ captured \in 0..LastSample /\ startAt \in 0..LastSample /\ dropped \in 0..LastSample
    /\ firstAt \in Nat
    /\ Len(ring) <= RingCapacity /\ Len(staging) <= ChunkSamples
    /\ {inRead, capturing, recording, diskFull, fd} \subseteq BOOLEAN
    /\ pcmTotal \in Nat /\ maxPcm \in 0..CapSamples

\* The unsigned rest of the budget, maxPcm - (pcmTotal + writePos), is never below
\* zero, and the file never grows past what was found free (audio_recorder.cpp:641).
WithinBudget ==
    fd => /\ pcmTotal + Len(staging) <= maxPcm
          /\ Len(take) <= maxPcm

\* What reaches the take, in order: a failed chunk may be in the file in part.
Sound == IF diskFull THEN take ELSE take \o staging

\* The sound keeps the order of capture, nothing in it twice, and as long as the
\* recording runs no more samples are missing from it, from the oldest that waited in
\* the ring at its start on, than were counted as dropped: a slow flash is the only
\* cause, and it shows in the log (audio_recorder.cpp:316-323).
GapsAreCounted ==
    /\ \A i \in 1..(Len(Sound) - 1) :
          Sound[i] < Sound[i + 1] \/ (Sound[i] = LastSample /\ Sound[i + 1] = LastSample)
    /\ recording /\ Sound # <<>> =>
          Sound[Len(Sound)] - firstAt + 1 - Len(Sound) <= dropped
=============================================================================
