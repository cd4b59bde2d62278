---------------------------- MODULE UploadCheck -----------------------------
(***************************************************************************)
(* One POST of a recording, from the multipart form to the message row     *)
(* (MessageHandlers.Upload): each check in its order, and what a temporary *)
(* file, ffmpeg or the database that fails does to the answer.             *)
(***************************************************************************)
EXTENDS WavCheck

CONSTANTS
    Files,       \* the files a client may post
    HeaderBytes, \* what AudioPlayer::playFile reads to find the sound
    None         \* no row

ASSUME FilesAssumption ==
    /\ HeaderBytes \in Nat
    /\ \A f \in Files :
          /\ {f.riff, f.bytes} \cup DOMAIN f.at \subseteq Nat
          /\ \A p \in DOMAIN f.at : {f.at[p].size, f.at[p].rate} \subseteq Nat

VARIABLES
    posted,   \* the file in the form
    file,     \* the temporary file; trimming rewrites it
    pc,       \* the next step of the handler
    info,     \* audio.WAVInfo
    row,      \* duration and size CreateOutbound writes to the message row
    answer    \* the status code, 0 before there is one

vars == <<posted, file, pc, info, row, answer>>

Init ==
    /\ posted \in Files /\ file = posted
    /\ pc = "form" /\ info = None /\ row = None /\ answer = 0

Answer(code) == pc' = "done" /\ answer' = code

\* A part of the server fails: SaveTemp, Open, Seek, Stat, or CreateOutbound.
ServerError ==
    /\ pc \in {"form", "trimmed", "aligned"}
    /\ Answer(500)
    /\ UNCHANGED <<posted, file, info, row>>

SaveTemp ==
    /\ pc = "form"
    /\ IF file.bytes > MaxUpload THEN Answer(400) ELSE pc' = "saved" /\ UNCHANGED answer
    /\ UNCHANGED <<posted, file, info, row>>

\* The bytes of sound that are there: data is the last chunk.
Present(f) == Least(Walk(f).dataSize, f.bytes - (f.riff + 8 - Walk(f).dataSize))

\* ConvertToWAV: ffmpeg keeps the first MaxDurationMs and lays the file out anew.
Trimmed(f) == LET kept == Least((MaxDurationMs * 2 * SampleRate) \div 1000, Present(f))
              IN FileOf(26, kept, kept)

TrimToMaxDuration ==
    /\ pc = "saved"
    /\ \/ ~Readable(file) /\ Answer(400) /\ UNCHANGED file
       \/ Readable(file) /\ ~TooLong(file) /\ pc' = "trimmed" /\ UNCHANGED <<file, answer>>
       \/ /\ Readable(file) /\ TooLong(file)
          /\ \/ file' = Trimmed(file) /\ pc' = "trimmed" /\ UNCHANGED answer
             \/ Answer(400) /\ UNCHANGED file
    /\ UNCHANGED <<posted, info, row>>

ValidateWAV ==
    /\ pc = "trimmed"
    /\ IF Valid(file)
       THEN info' = Aligned(file) /\ pc' = "aligned" /\ UNCHANGED answer
       ELSE Answer(400) /\ UNCHANGED info
    /\ UNCHANGED <<posted, file, row>>

CreateOutbound ==
    /\ pc = "aligned"
    /\ row' = info
    /\ Answer(201)
    /\ UNCHANGED <<posted, file, info>>

Done == pc = "done" /\ UNCHANGED vars

Next == \/ SaveTemp \/ TrimToMaxDuration \/ ValidateWAV \/ CreateOutbound
        \/ ServerError \/ Done

Spec == Init /\ [][Next]_vars
-----------------------------------------------------------------------------
\* The server and the player walk over the chunks of a file each in its own way; both
\* find the data chunk its writer laid out, whatever chunks, odd ones too, come before
\* it, the player if it is among the bytes it reads (validator.go:79-114,
\* audio_player.cpp:47-72, 217-224).
WalksFindData ==
    \A f \in {posted, file} : \A p \in DOMAIN f.at :
        f.at[p].id = "data" =>
            /\ Walk(f).ok /\ Walk(f).dataSize = f.at[p].size
            /\ p + 8 <= HeaderBytes => PcmOffset(f, Least(HeaderBytes, f.bytes)) = p + 8

\* The size in the row is the size of the file that is stored, though the header may
\* say more or less: MinIO gets it as Content-Length, and the device's download
\* compares what it received with it (validator.go:52-69, api_client.cpp:1138).
RowMatchesObject == row # None => row.sizeBytes = file.bytes

\* A file with the header of buildWavHeader.
FromRecorder(f) ==
    f.riff >= 36 /\ f.bytes >= 44 /\ f = RecorderFile(f.riff - 36, f.bytes - 44)

\* The duration in the row is that of the sound that is there, and at most the
\* longest allowed, for what the recorder posts when it counted bytes that never
\* reached its flash (validator.go:53-54, audio_recorder.cpp:722-724).
RowDurationIsTrue ==
    row # None /\ FromRecorder(posted) /\ posted.bytes <= posted.riff + 8
    => /\ row.durationMs = DurationMs(Present(file), 2 * SampleRate)
       /\ row.durationMs <= MaxDurationMs

\* The device's own check and the server's agree: a take the device found long
\* enough, within its byte budget, is never answered 400 (main.cpp:359-360).
DeviceTakeAccepted ==
    answer = 400 /\ FromRecorder(posted) =>
        LET d == posted.riff - 36
        IN \/ posted # RecorderFile(d, d)
           \/ ((d \div 2) * 1000) \div SampleRate < MinDurationMs
           \/ d * 1000 > MaxDurationMs * 2 * SampleRate
           \/ 44 + d > MaxUpload
=============================================================================
