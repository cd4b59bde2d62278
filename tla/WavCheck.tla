------------------------------ MODULE WavCheck ------------------------------
(***************************************************************************)
(* What the server looks at in a WAV file (audio/validator.go): the walk   *)
(* over its chunks, the limits, and the size and duration the message row  *)
(* gets; and where the player of the device begins (audio_player.cpp).     *)
(*                                                                         *)
(* A file is its declared RIFF size, the bytes that are really there, and  *)
(* at: the chunk header found at each offset that holds one.  The contents *)
(* of chunks are left out, except the byte rate of "fmt ".                 *)
(***************************************************************************)
EXTENDS Integers

CONSTANTS
    SampleRate,     \* samples per second; a sample has 2 bytes
    MinDurationMs,
    MaxDurationMs,
    MaxUpload       \* MessageHandlers.maxUpload, in bytes

ASSUME LimitsAssumption ==
    /\ {SampleRate, MaxUpload, MinDurationMs} \subseteq Nat \ {0}
    /\ MaxDurationMs \in Nat

Least(a, b) == IF a < b THEN a ELSE b

DurationMs(data, byteRate) == (data * 1000) \div byteRate

\* Where the "data" chunk begins, after a LIST chunk of list bytes, or none if that is 0.
DataAt(list) == IF list = 0 THEN 36 ELSE 44 + list + (list % 2)

\* A file as its writers lay it out: "fmt ", a LIST chunk of list bytes unless that
\* is 0 (ffmpeg writes one), "data" of data bytes; present bytes of it are there.
FileOf(list, data, present) ==
    LET start == DataAt(list)
    IN [riff |-> start + data, bytes |-> start + 8 + present,
        at |-> [p \in {12, 36, start} |->
                  IF p = 12 THEN [id |-> "fmt", size |-> 16, rate |-> 2 * SampleRate]
                  ELSE IF p = start THEN [id |-> "data", size |-> data, rate |-> 0]
                  ELSE [id |-> "LIST", size |-> list, rate |-> 0]]]

\* What the device posts: the header of buildWavHeader, then the bytes of the take.
RecorderFile(data, present) == FileOf(0, data, present)

\* Where the chunk after the one at p begins: a padding byte follows an odd size.
ChunkEnd(f, p) == p + 8 + f.at[p].size + (f.at[p].size % 2)

\* Its chunks follow each other from offset 12, the sound last, as far as the bytes go.
LaidOut(f) ==
    /\ {f.riff, f.bytes} \cup DOMAIN f.at \subseteq Nat
    /\ \A p \in DOMAIN f.at :
          /\ {f.at[p].size, f.at[p].rate} \subseteq Nat
          /\ p + 8 <= f.bytes
          /\ p = 12 \/ \E q \in DOMAIN f.at : f.at[q].id # "data" /\ p = ChunkEnd(f, q)
          /\ f.at[p].id = "data" => f.riff = p + f.at[p].size

Broken == [ok |-> FALSE, byteRate |-> 0, dataSize |-> 0]

\* The byte rate that is known after the chunk at p.
RateAfter(f, p, rate) ==
    IF f.at[p].id = "fmt" /\ f.at[p].size >= 12 THEN f.at[p].rate ELSE rate

\* parseWAVHeader at the chunk header at p; from says what it finds further on.
WalkStep(f, from, p, rate) ==
    IF p + 8 > f.bytes \/ p \notin DOMAIN f.at THEN Broken
    ELSE IF f.at[p].id = "data"
         THEN [ok |-> TRUE, byteRate |-> rate, dataSize |-> f.at[p].size]
    ELSE IF ChunkEnd(f, p) > f.bytes THEN Broken
    ELSE from[ChunkEnd(f, p)][RateAfter(f, p, rate)]

WalkFrom(f) ==
    LET from[p \in Nat] == [rate \in Nat |-> WalkStep(f, from, p, rate)]
    IN from

\* parseWAVHeader: chunk by chunk until "data".
Walk(f) == WalkFrom(f)[12][0]

\* Mutant: the padding byte of an odd chunk is not skipped.
PcmStepUnpadded(f, len, from, p) ==
    IF p + 8 > len \/ p \notin DOMAIN f.at THEN 0
    ELSE IF f.at[p].id = "data" THEN p + 8
    ELSE IF p + 8 + f.at[p].size > len THEN 0
    ELSE from[p + 8 + f.at[p].size]

\* findWavPcmOffset at p, in the first len bytes.
PcmStep(f, len, from, p) ==
    IF p + 8 > len \/ p \notin DOMAIN f.at THEN 0
    ELSE IF f.at[p].id = "data" THEN p + 8
    ELSE IF p + 8 + f.at[p].size > len THEN 0
    ELSE from[ChunkEnd(f, p)]

PcmFrom(f, len) ==
    LET from[p \in Nat] == PcmStep(f, len, from, p)
    IN from

\* findWavPcmOffset of the player: where the sound begins, or 0.
PcmOffset(f, len) == PcmFrom(f, len)[12]

\* TrimToMaxDuration goes on with a file it can read, and rewrites one that is too long.
Readable(f) == Walk(f).ok /\ Walk(f).byteRate > 0
TooLong(f) == DurationMs(Walk(f).dataSize, Walk(f).byteRate) > MaxDurationMs

\* Mutant: the shortest duration is refused.
ValidShort(f) ==
    LET h == Walk(f)
        ms == DurationMs(h.dataSize, h.byteRate)
    IN /\ Readable(f) /\ h.dataSize > 0
       /\ ms > MinDurationMs /\ ms <= MaxDurationMs
       /\ f.riff + 8 <= MaxUpload

\* ValidateWAV
Valid(f) ==
    LET h == Walk(f)
        ms == DurationMs(h.dataSize, h.byteRate)
    IN /\ Readable(f) /\ h.dataSize > 0
       /\ ms >= MinDurationMs /\ ms <= MaxDurationMs
       /\ f.riff + 8 <= MaxUpload

\* Mutant: only a file shorter than its header is aligned.
AlignedShort(f) ==
    LET h == Walk(f)
        declared == [durationMs |-> DurationMs(h.dataSize, h.byteRate), sizeBytes |-> f.riff + 8]
        pcm == IF f.bytes > 44 THEN f.bytes - 44 ELSE 0
    IN IF f.bytes >= declared.sizeBytes
       THEN declared
       ELSE [durationMs |-> DurationMs(pcm, 2 * SampleRate), sizeBytes |-> f.bytes]

\* Mutant: the duration of the header is kept.
AlignedSizeOnly(f) ==
    [durationMs |-> DurationMs(Walk(f).dataSize, Walk(f).byteRate), sizeBytes |-> f.bytes]

\* The WAVInfo of ValidateWAV after AlignWAVInfoToFile.
Aligned(f) ==
    LET h == Walk(f)
        declared == [durationMs |-> DurationMs(h.dataSize, h.byteRate), sizeBytes |-> f.riff + 8]
        pcm == IF f.bytes > 44 THEN f.bytes - 44 ELSE 0
    IN IF f.bytes >= declared.sizeBytes
       THEN [declared EXCEPT !.sizeBytes = f.bytes]
       ELSE [durationMs |-> DurationMs(pcm, 2 * SampleRate), sizeBytes |-> f.bytes]
=============================================================================
