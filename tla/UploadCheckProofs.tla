-------------------------- MODULE UploadCheckProofs --------------------------
(***************************************************************************)
(* Theorems about UploadCheck, for any files a client may post and any     *)
(* limits: what the server writes to the row of a recording is true of the *)
(* file it stores, and it takes what the device thinks it will take.       *)
(***************************************************************************)
EXTENDS UploadCheck, WavProofs

-----------------------------------------------------------------------------
(* The inductive invariant.                                                    *)

Places == {"form", "saved", "trimmed", "aligned", "done"}

\* The temporary file is the one that was posted until it is trimmed, and it is trimmed if it
\* can be read and is too long.
FileIsKnown ==
    \/ file = posted /\ (pc \in {"trimmed", "aligned"} => ~TooLong(posted))
    \/ /\ pc \in {"trimmed", "aligned", "done"}
       /\ Readable(posted) /\ TooLong(posted) /\ file = Trimmed(posted)

\* The handler has come as far as the file let it.
Passed ==
    /\ pc = "aligned" => Valid(file) /\ info = Aligned(file)
    /\ row # None => Valid(file) /\ row = Aligned(file)

\* A file that is refused has one of these wrong.
Refused ==
    answer = 400 =>
        \/ posted.bytes > MaxUpload
        \/ ~Readable(posted)
        \/ TooLong(posted)
        \/ ~Valid(posted)

IInv ==
    /\ posted \in Files /\ pc \in Places
    /\ FileIsKnown /\ Passed /\ Refused
    /\ pc # "done" => answer = 0 /\ row = None

\* A request begins with the file it posts.
LEMMA InitOK == Init => IInv
  BY DEF Init, IInv, Places, FileIsKnown, Passed, Refused

\* What SaveTemp refuses is too large; the rest is as posted.
LEMMA SaveOK == IInv /\ SaveTemp => IInv'
  <1>. SUFFICES ASSUME IInv, SaveTemp PROVE IInv'
    OBVIOUS
  <1>1. /\ pc = "form" /\ file = posted /\ row = None /\ answer = 0
        /\ UNCHANGED <<posted, file, info, row>>
    BY DEF SaveTemp, IInv, FileIsKnown
  <1>2. CASE file.bytes > MaxUpload
    BY <1>1, <1>2 DEF SaveTemp, IInv, FileIsKnown, Passed, Refused, Places, Answer
  <1>3. CASE ~(file.bytes > MaxUpload)
    <2>1. pc' = "saved" /\ answer' = answer
      BY <1>3 DEF SaveTemp
    <2>. QED
      BY <1>1, <2>1 DEF IInv, FileIsKnown, Passed, Refused, Places
  <1>. QED
    BY <1>2, <1>3

\* TrimToMaxDuration leaves the file, or replaces it by its beginning.
LEMMA TrimOK == IInv /\ TrimToMaxDuration => IInv'
  <1>. SUFFICES ASSUME IInv, TrimToMaxDuration PROVE IInv'
    OBVIOUS
  <1>1. /\ pc = "saved" /\ file = posted /\ row = None /\ answer = 0
        /\ UNCHANGED <<posted, info, row>>
    BY DEF TrimToMaxDuration, IInv, FileIsKnown
  <1>2. CASE Answer(400) /\ UNCHANGED file /\ (~Readable(file) \/ TooLong(file))
    BY <1>1, <1>2 DEF IInv, FileIsKnown, Passed, Refused, Places, Answer
  <1>3. CASE ~TooLong(file) /\ pc' = "trimmed" /\ UNCHANGED <<file, answer>>
    BY <1>1, <1>3 DEF IInv, FileIsKnown, Passed, Refused, Places
  <1>4. CASE /\ Readable(file) /\ TooLong(file) /\ file' = Trimmed(file)
             /\ pc' = "trimmed" /\ UNCHANGED answer
    BY <1>1, <1>4 DEF IInv, FileIsKnown, Passed, Refused, Places
  <1>. QED
    BY <1>2, <1>3, <1>4 DEF TrimToMaxDuration

\* What ValidateWAV lets pass is valid, and what it refuses is not.
LEMMA ValidateOK == IInv /\ ValidateWAV => IInv'
  <1>. SUFFICES ASSUME IInv, ValidateWAV PROVE IInv'
    OBVIOUS
  <1>1. pc = "trimmed" /\ row = None /\ answer = 0 /\ UNCHANGED <<posted, file, row>>
    BY DEF ValidateWAV, IInv
  <1>2. CASE Valid(file)
    <2>1. info' = Aligned(file) /\ pc' = "aligned" /\ answer' = answer
      BY <1>2 DEF ValidateWAV
    <2>. QED
      BY <1>1, <1>2, <2>1 DEF IInv, FileIsKnown, Passed, Refused, Places
  <1>3. CASE ~Valid(file)
    <2>1. pc' = "done" /\ answer' = 400
      BY <1>3 DEF ValidateWAV, Answer
    <2>2. ~Valid(posted) \/ TooLong(posted)
      BY <1>3 DEF IInv, FileIsKnown
    <2>. QED
      BY <1>1, <2>1, <2>2 DEF IInv, FileIsKnown, Passed, Refused, Places
  <1>. QED
    BY <1>2, <1>3

\* The row gets what was checked.
LEMMA CreateOK == IInv /\ CreateOutbound => IInv'
  BY DEF CreateOutbound, Answer, IInv, FileIsKnown, Passed, Refused, Places

\* A server error is an answer without a row.
LEMMA ErrorOK == IInv /\ ServerError => IInv'
  BY DEF ServerError, Answer, IInv, FileIsKnown, Passed, Refused, Places

\* Whatever else happens leaves the request alone.
LEMMA StutterOK == IInv /\ UNCHANGED vars => IInv'
  BY DEF vars, IInv, FileIsKnown, Passed, Refused, Places

\* The file is known, and it passed what the answer says, in every reachable state.
THEOREM Invariant == Spec => []IInv
  <1>1. IInv /\ [Next]_vars => IInv'
    BY SaveOK, TrimOK, ValidateOK, CreateOK, ErrorOK, StutterOK DEF Next, Done
  <1>. QED
    BY InitOK, <1>1, PTL DEF Spec

-----------------------------------------------------------------------------
(* What the row says of a file.                                                *)

\* The row has the size of the file, whatever the header says.
LEMMA AlignedSize == \A f : Aligned(f).sizeBytes = f.bytes
  BY DEF Aligned

\* The size in the row of a recording is the size of the object in the store, so that MinIO
\* and the device's download are told the length that is there (validator.go:52-69).
THEOREM RowTheorem == Spec => []RowMatchesObject
  <1>1. IInv => RowMatchesObject
    BY AlignedSize DEF IInv, Passed, RowMatchesObject
  <1>. QED
    BY Invariant, <1>1, PTL

\* The duration of a file as its writers lay it out is that of the sound that is there.
LEMMA AlignedDuration ==
    ASSUME NEW list \in Nat, NEW data \in Nat, NEW present \in Nat,
           present >= data \/ list = 0
    PROVE  /\ Present(FileOf(list, data, present)) = Least(data, present)
           /\ Aligned(FileOf(list, data, present)).durationMs
                  = DurationMs(Least(data, present), 2 * SampleRate)
  <1>. DEFINE f == FileOf(list, data, present)
              h == [ok |-> TRUE, byteRate |-> 2 * SampleRate, dataSize |-> data]
  <1>1. Walk(f) = h
    BY WalkOfWritten, Zenon
  <1>2. f.riff = DataAt(list) + data /\ f.bytes = DataAt(list) + 8 + present
        /\ DataAt(list) \in Nat
    BY DEF FileOf, DataAt
  <1>3. list = 0 => DataAt(list) = 36
    BY DEF DataAt
  <1>. HIDE DEF f
  <1>4. Walk(f).dataSize = data /\ Walk(f).byteRate = 2 * SampleRate
    BY <1>1
  <1>5. Present(f) = Least(data, present)
    <2>1. f.bytes - (f.riff + 8 - data) = present
      BY <1>2
    <2>. QED
      BY <1>4, <2>1, Zenon DEF Present
  <1>6. CASE present >= data
    <2>1. f.bytes >= f.riff + 8 /\ Least(data, present) = data
      BY <1>2, <1>6 DEF Least
    <2>2. Aligned(f).durationMs = DurationMs(Walk(f).dataSize, Walk(f).byteRate)
      BY <2>1 DEF Aligned
    <2>. QED
      BY <1>4, <1>5, <2>1, <2>2, Zenon DEF f
  <1>7. CASE ~(present >= data)
    <2>1. /\ ~(f.bytes >= f.riff + 8) /\ Least(data, present) = present
          /\ (IF f.bytes > 44 THEN f.bytes - 44 ELSE 0) = present
      BY <1>2, <1>3, <1>7 DEF Least
    <2>2. Aligned(f).durationMs
              = DurationMs(IF f.bytes > 44 THEN f.bytes - 44 ELSE 0, 2 * SampleRate)
      BY <2>1 DEF Aligned
    <2>. QED
      BY <1>5, <2>1, <2>2, Zenon DEF f
  <1>. QED
    BY <1>6, <1>7

\* ffmpeg leaves a number of bytes of the sound of a file that is laid out.
LEMMA TrimmedIsWritten ==
    ASSUME NEW f, LaidOut(f), Readable(f)
    PROVE  \E kept \in Nat : Trimmed(f) = FileOf(26, kept, kept)
  <1>1. PICK q \in DOMAIN f.at : f.at[q].id = "data" /\ Walk(f).dataSize = f.at[q].size
    BY LaidOutNumbers, WalkOnlyFinds DEF Readable
  <1>2. /\ f.riff = q + f.at[q].size /\ q + 8 <= f.bytes
        /\ q \in Nat /\ f.at[q].size \in Nat /\ f.bytes \in Nat
    BY <1>1 DEF LaidOut
  <1>3. Present(f) \in Nat
    BY <1>1, <1>2 DEF Present, Least
  <1>4. (MaxDurationMs * 2 * SampleRate) \div 1000 \in Nat
    BY LimitsAssumption
  <1>5. Least((MaxDurationMs * 2 * SampleRate) \div 1000, Present(f)) \in Nat
    BY <1>3, <1>4 DEF Least
  <1>. QED
    BY <1>5 DEF Trimmed

-----------------------------------------------------------------------------
(* The walks.                                                                  *)

\* The server and the player find the sound of every file that is laid out, as it was posted
\* and as it was trimmed, whatever and however many chunks come before it
\* (validator.go:79-114, audio_player.cpp:47-72).
THEOREM WalksTheorem ==
    ASSUME \A f \in Files : LaidOut(f)
    PROVE  Spec => []WalksFindData
  <1>1. IInv => WalksFindData
    <2>. SUFFICES ASSUME IInv PROVE WalksFindData
      OBVIOUS
    <2>1. LaidOut(posted)
      BY DEF IInv
    <2>2. LaidOut(file)
      <3>1. CASE file = posted
        BY <2>1, <3>1
      <3>2. CASE Readable(posted) /\ file = Trimmed(posted)
        <4>1. PICK kept \in Nat : file = FileOf(26, kept, kept)
          BY <2>1, <3>2, TrimmedIsWritten
        <4>2. LaidOut(FileOf(26, kept, kept))
          BY WritersLayOut, Zenon
        <4>. QED
          BY <4>1, <4>2, Zenon
      <3>. QED
        BY <3>1, <3>2, Zenon DEF IInv, FileIsKnown
    <2>3. ASSUME NEW f, LaidOut(f), NEW p \in DOMAIN f.at, f.at[p].id = "data"
          PROVE  /\ Walk(f).ok /\ Walk(f).dataSize = f.at[p].size
                 /\ p + 8 <= HeaderBytes => PcmOffset(f, Least(HeaderBytes, f.bytes)) = p + 8
      <3>1. Walk(f).ok /\ Walk(f).dataSize = f.at[p].size
        BY <2>3, WalkFinds
      <3>2. ASSUME p + 8 <= HeaderBytes
            PROVE  PcmOffset(f, Least(HeaderBytes, f.bytes)) = p + 8
        <4>1. f.bytes \in Nat /\ p + 8 <= f.bytes /\ HeaderBytes \in Nat
          BY <2>3, FilesAssumption DEF LaidOut
        <4>2. Least(HeaderBytes, f.bytes) \in Nat /\ p + 8 <= Least(HeaderBytes, f.bytes)
          BY <3>2, <4>1 DEF Least
        <4>. QED
          BY <2>3, <4>2, PcmFinds
      <3>. QED
        BY <3>1, <3>2
    <2>. QED
      BY <2>1, <2>2, <2>3, Zenon DEF WalksFindData
  <1>. QED
    BY Invariant, <1>1, PTL

-----------------------------------------------------------------------------
(* What the recorder posts.                                                    *)

\* A file from the recorder: the length it counted, and the bytes that follow its header.
LEMMA RecorderPosts ==
    ASSUME NEW f \in Files, FromRecorder(f)
    PROVE  /\ f.riff - 36 \in Nat /\ f.bytes - 44 \in Nat
           /\ f = FileOf(0, f.riff - 36, f.bytes - 44)
           /\ Walk(f) = [ok |-> TRUE, byteRate |-> 2 * SampleRate, dataSize |-> f.riff - 36]
  <1>1. f.riff \in Nat /\ f.bytes \in Nat /\ f.riff >= 36 /\ f.bytes >= 44
    BY FilesAssumption DEF FromRecorder
  <1>2. f.riff - 36 \in Nat /\ f.bytes - 44 \in Nat
    BY <1>1
  <1>3. f = FileOf(0, f.riff - 36, f.bytes - 44)
    BY Zenon DEF FromRecorder, RecorderFile
  <1>. DEFINE d == f.riff - 36
              n == f.bytes - 44
  <1>. HIDE DEF d, n
  <1>4. Walk(FileOf(0, d, n)) = [ok |-> TRUE, byteRate |-> 2 * SampleRate, dataSize |-> d]
    <2>1. d \in Nat /\ n \in Nat /\ 0 \in Nat
      BY <1>2 DEF d, n
    <2>. QED
      BY <2>1, WalkOfWritten, Zenon
  <1>. QED
    BY <1>2, <1>3, <1>4, Zenon DEF d, n

\* A row says how long the sound is that is really there, and no longer than is allowed, when
\* the recorder counted bytes that never reached its flash (validator.go:53-54,
\* audio_recorder.cpp:722-724).
THEOREM DurationTheorem == Spec => []RowDurationIsTrue
  <1>1. IInv => RowDurationIsTrue
    <2>. SUFFICES ASSUME IInv, row # None, FromRecorder(posted), posted.bytes <= posted.riff + 8
                  PROVE  /\ row.durationMs = DurationMs(Present(file), 2 * SampleRate)
                         /\ row.durationMs <= MaxDurationMs
      BY Zenon DEF RowDurationIsTrue
    <2>1. Valid(file) /\ row = Aligned(file)
      BY DEF IInv, Passed
    <2>2. SampleRate \in Nat \ {0} /\ 2 * SampleRate \in Nat \ {0} /\ MaxDurationMs \in Nat
      BY LimitsAssumption
    <2>3. ASSUME NEW list \in Nat, NEW d \in Nat, NEW n \in Nat, n <= d, n >= d \/ list = 0,
                 file = FileOf(list, d, n)
          PROVE  /\ row.durationMs = DurationMs(Present(file), 2 * SampleRate)
                 /\ row.durationMs <= MaxDurationMs
      <3>1. Least(d, n) = n
        BY <2>3 DEF Least
      <3>2. /\ Present(file) = Least(d, n)
            /\ Aligned(file).durationMs = DurationMs(Least(d, n), 2 * SampleRate)
        BY <2>3, AlignedDuration, Zenon
      <3>3. Walk(file) = [ok |-> TRUE, byteRate |-> 2 * SampleRate, dataSize |-> d]
        BY <2>3, WalkOfWritten, Zenon
      <3>4. DurationMs(d, 2 * SampleRate) <= MaxDurationMs
        BY <2>1, <3>3 DEF Valid
      <3>5. n * 1000 \in Nat /\ d * 1000 \in Nat /\ n * 1000 <= d * 1000
        BY <2>3
      <3>6. DurationMs(n, 2 * SampleRate) <= DurationMs(d, 2 * SampleRate)
        BY <2>2, <3>5, QuotientMonotone DEF DurationMs
      <3>7. DurationMs(n, 2 * SampleRate) \in Nat /\ DurationMs(d, 2 * SampleRate) \in Nat
        BY <2>2, <3>5, Quotient DEF DurationMs
      <3>. QED
        BY <2>1, <2>2, <3>1, <3>2, <3>4, <3>6, <3>7
    <2>4. CASE file = posted
      <3>1. posted \in Files
        BY DEF IInv
      <3>2. /\ posted.riff - 36 \in Nat /\ posted.bytes - 44 \in Nat
            /\ posted = FileOf(0, posted.riff - 36, posted.bytes - 44)
        BY <3>1, RecorderPosts, Zenon
      <3>3. posted.riff \in Nat /\ posted.bytes \in Nat
        BY <3>1, FilesAssumption
      <3>4. posted.bytes - 44 <= posted.riff - 36
        BY <3>3
      <3>5. 0 \in Nat
        OBVIOUS
      <3>. QED
        BY <2>3, <2>4, <3>2, <3>4, <3>5, Zenon
    <2>5. CASE Readable(posted) /\ file = Trimmed(posted)
      <3>1. posted \in Files
        BY DEF IInv
      <3>. DEFINE d == posted.riff - 36
                  n == posted.bytes - 44
      <3>2. d \in Nat /\ n \in Nat /\ posted = FileOf(0, d, n)
        BY <3>1, RecorderPosts, Zenon
      <3>. HIDE DEF d, n
      <3>3. LaidOut(posted)
        <4>1. LaidOut(FileOf(0, d, n))
          BY <3>2, WritersLayOut, Zenon
        <4>. QED
          BY <3>2, <4>1, Zenon
      <3>4. PICK kept \in Nat : file = FileOf(26, kept, kept)
        BY <2>5, <3>3, TrimmedIsWritten
      <3>5. kept <= kept /\ kept >= kept /\ 26 \in Nat
        OBVIOUS
      <3>. QED
        BY <2>3, <3>4, <3>5
    <2>. QED
      BY <2>4, <2>5, Zenon DEF IInv, FileIsKnown
  <1>. QED
    BY Invariant, <1>1, PTL

\* The header of the recorder has 44 bytes.
LEMMA RecorderBytes ==
    ASSUME NEW d \in Nat, NEW n \in Nat
    PROVE  RecorderFile(d, n).bytes = 44 + n
  BY DEF RecorderFile, FileOf, DataAt

\* What is long enough in whole samples is long enough in bytes.
LEMMA HalfSampleIsLost ==
    ASSUME NEW d \in Nat
    PROVE  ((d \div 2) * 1000) \div SampleRate <= DurationMs(d, 2 * SampleRate)
  <1>. DEFINE n == d \div 2
  <1>1. n \in Nat /\ 2 * n <= d
    OBVIOUS
  <1>2. SampleRate \in Nat \ {0} /\ 2 * SampleRate \in Nat \ {0}
    BY LimitsAssumption
  <1>. HIDE DEF n
  <1>3. DurationMs(2 * n, 2 * SampleRate) = (n * 1000) \div SampleRate
    BY <1>1, BytesAreSamples
  <1>4. (2 * n) * 1000 \in Nat /\ d * 1000 \in Nat /\ (2 * n) * 1000 <= d * 1000
    BY <1>1
  <1>5. DurationMs(2 * n, 2 * SampleRate) <= DurationMs(d, 2 * SampleRate)
    BY <1>2, <1>4, QuotientMonotone DEF DurationMs
  <1>. QED
    BY <1>3, <1>5 DEF n

\* A take that the device found long enough, and that fits its budget, is never refused
\* (main.cpp:359-360).
THEOREM TakeTheorem == Spec => []DeviceTakeAccepted
  <1>1. IInv => DeviceTakeAccepted
    <2>. DEFINE d == posted.riff - 36
    <2>. SUFFICES ASSUME IInv, answer = 400, FromRecorder(posted),
                         posted = RecorderFile(d, d),
                         ~(((d \div 2) * 1000) \div SampleRate < MinDurationMs),
                         ~(d * 1000 > MaxDurationMs * 2 * SampleRate),
                         ~(44 + d > MaxUpload)
                  PROVE  FALSE
      BY Zenon DEF DeviceTakeAccepted
    <2>1. posted \in Files
      BY DEF IInv
    <2>2. d \in Nat /\ Walk(posted) = [ok |-> TRUE, byteRate |-> 2 * SampleRate, dataSize |-> d]
      BY <2>1, RecorderPosts, Zenon
    <2>3. posted.riff = 36 + d /\ posted.bytes = 44 + d
      <3>1. posted.riff \in Nat
        BY <2>1, FilesAssumption
      <3>2. posted = RecorderFile(d, d) /\ RecorderFile(d, d).bytes = 44 + d
        BY <2>2, RecorderBytes, Zenon
      <3>. QED
        BY <2>2, <3>1, <3>2
    <2>. HIDE DEF d
    <2>4. /\ SampleRate \in Nat \ {0} /\ 2 * SampleRate \in Nat \ {0}
          /\ MinDurationMs \in Nat \ {0} /\ MaxDurationMs \in Nat /\ MaxUpload \in Nat
      BY LimitsAssumption
    <2>5. DurationMs(d, 2 * SampleRate) <= MaxDurationMs
      <3>. DEFINE c == 2 * SampleRate
                  q == (d * 1000) \div c
      <3>1. c \in Nat \ {0} /\ d * 1000 \in Nat
        BY <2>2, <2>4
      <3>2. d * 1000 <= MaxDurationMs * c
        BY <2>2, <2>4
      <3>3. q \in Nat /\ q * c <= d * 1000
        BY <3>1, Quotient
      <3>. HIDE DEF c, q
      <3>4. q * c <= MaxDurationMs * c
        BY <2>2, <2>4, <3>1, <3>2, <3>3
      <3>5. q <= MaxDurationMs
        BY <2>4, <3>1, <3>3, <3>4
      <3>. QED
        BY <3>5 DEF DurationMs, c, q
    <2>6. MinDurationMs <= DurationMs(d, 2 * SampleRate)
      <3>1. /\ ((d \div 2) * 1000) \div SampleRate \in Nat
            /\ ((d \div 2) * 1000) \div SampleRate <= DurationMs(d, 2 * SampleRate)
            /\ DurationMs(d, 2 * SampleRate) \in Nat
        BY <2>2, <2>4, HalfSampleIsLost DEF DurationMs
      <3>. QED
        BY <2>4, <3>1
    <2>7. d > 0
      <3>1. CASE d = 0
        <4>1. (d \div 2) * 1000 = 0
          BY <3>1
        <4>2. 0 \div SampleRate = 0
          BY <2>4
        <4>. QED
          BY <2>4, <4>1, <4>2
      <3>. QED
        BY <2>2, <3>1
    <2>8. Readable(posted)
      BY <2>2, <2>4 DEF Readable
    <2>9. ~TooLong(posted)
      BY <2>2, <2>4, <2>5 DEF TooLong, DurationMs
    <2>10. Valid(posted)
      BY <2>2, <2>3, <2>4, <2>5, <2>6, <2>7, <2>8 DEF Valid
    <2>11. ~(posted.bytes > MaxUpload)
      BY <2>3
    <2>. QED
      BY <2>8, <2>9, <2>10, <2>11 DEF IInv, Refused
  <1>. QED
    BY Invariant, <1>1, PTL
=============================================================================
