---------------------------- MODULE CaptureProofs ----------------------------
(***************************************************************************)
(* Theorems about Capture, for any sizes of ring, read, chunk and budget,  *)
(* any thresholds of the button and any lengths of a pass.                 *)
(***************************************************************************)
EXTENDS Capture, WavProofs

-----------------------------------------------------------------------------
(* Sizes and sequences.                                                        *)

\* The sizes are numbers; a read fits the staging chunk and the ring.
LEMMA Sizes ==
    /\ RingCapacity \in Nat /\ RingCapacity > 0
    /\ ReadSamples \in Nat /\ ReadSamples > 0 /\ ChunkSamples \in Nat /\ ChunkSamples > 0
    /\ CapSamples \in Nat /\ LastSample \in Nat
    /\ ReadSamples <= ChunkSamples /\ ReadSamples <= RingCapacity
    /\ Reserve \in Nat /\ FreeSpaces \subseteq Nat
    /\ DrainBudget \in Nat
  BY SizesAssumption DEF DrainBudget

\* A prefix has the length asked for, and the rest has what is left.
LEMMA Prefix ==
    ASSUME NEW S, NEW s \in Seq(S), NEW n \in 0..Len(s)
    PROVE  /\ SubSeq(s, 1, n) \in Seq(S) /\ Len(SubSeq(s, 1, n)) = n
           /\ SubSeq(s, n + 1, Len(s)) \in Seq(S) /\ Len(SubSeq(s, n + 1, Len(s))) = Len(s) - n
  OBVIOUS

\* Nothing is a sequence of samples.
LEMMA Empty == <<>> \in Seq(Nat) /\ Len(<<>>) = 0
  OBVIOUS

\* Two sequences joined have the length of both.
LEMMA Joined ==
    ASSUME NEW S, NEW s \in Seq(S), NEW t \in Seq(S)
    PROVE  s \o t \in Seq(S) /\ Len(s \o t) = Len(s) + Len(t)
  OBVIOUS

\* The budget of a take is whole and at most the longest take.
LEMMA BudgetOK == \A free \in Nat : MaxPcm(free) \in 0..CapSamples
  <1>. USE Sizes
  <1>. SUFFICES ASSUME NEW free \in Nat PROVE MaxPcm(free) \in 0..CapSamples
    OBVIOUS
  <1>1. CASE free <= Reserve
    BY <1>1 DEF MaxPcm
  <1>2. CASE free > Reserve
    <2>1. (free - Reserve) \div ChunkSamples \in Nat
      BY <1>2
    <2>2. ((free - Reserve) \div ChunkSamples) * ChunkSamples \in Nat
      BY <2>1
    <2>. QED
      BY <1>2, <2>2 DEF MaxPcm, Min2
  <1>. QED
    BY <1>1, <1>2

-----------------------------------------------------------------------------
(* The inductive invariant.                                                    *)

Flags ==
    /\ inRead \in BOOLEAN /\ capturing \in BOOLEAN /\ recording \in BOOLEAN
    /\ diskFull \in BOOLEAN /\ fd \in BOOLEAN

RingInv ==
    /\ captured \in 0..LastSample /\ startAt \in 0..LastSample /\ dropped \in 0..LastSample
    /\ firstAt \in Nat
    /\ ring \in Seq(Nat) /\ Len(ring) <= RingCapacity
    /\ drained \in 0..(DrainBudget + ReadSamples - 1)

\* The file holds what was counted, and after a failed chunk perhaps a part of that chunk,
\* which is still in the staging chunk.
FileInv ==
    /\ staging \in Seq(Nat) /\ Len(staging) <= ChunkSamples
    /\ take \in Seq(Nat) /\ pcmTotal \in Nat
    /\ fd => pcmTotal + Len(staging) <= maxPcm /\ Len(take) <= maxPcm
    /\ fd => Len(take) <= pcmTotal + Len(staging)
    /\ fd /\ ~diskFull => Len(take) = pcmTotal

\* A recording has its file, and belongs to RECORDING until stop() has begun; the file is
\* closed before it is uploaded.
Control ==
    /\ pc \in Places /\ mode \in {"IDLE", "RECORDING", "UPLOADING"}
    /\ recording => fd /\ mode = "RECORDING"
    /\ pc \in DOMAIN After \cup {"check", "rest", "close"} => mode = "RECORDING"
    /\ pc \in {"stop", "rest", "close"} => ~recording
    /\ mode = "RECORDING" /\ ~diskFull => fd
    /\ mode = "UPLOADING" => ~fd

\* A press that was accepted is down, a hold is a press; the witness saw the readings
\* and the press for as long as the button says, and a hold is what it has written down.
GestureInv ==
    /\ rawDown \in BOOLEAN /\ stableDown \in BOOLEAN /\ pressed \in BOOLEAN
    /\ held \in BOOLEAN /\ justHeld \in BOOLEAN /\ shortPress \in BOOLEAN /\ release \in BOOLEAN
    /\ sinceChange \in 0..DebounceMs /\ sincePress \in 0..HoldThresholdMs
    /\ pressed => stableDown
    /\ held => pressed
    /\ steady = sinceChange /\ lasted = sincePress /\ reports \in 0..1
    /\ pressed => (held <=> sincePress >= HoldThresholdMs)
    /\ pressed => reports = IF held THEN 1 ELSE 0

IInv ==
    /\ Flags /\ RingInv /\ maxPcm \in 0..CapSamples /\ FileInv
    /\ Control
    /\ GestureInv

-----------------------------------------------------------------------------
(* The operators of Recorder.                                                  *)

\* pushRing never leaves more in the ring than it holds.
LEMMA PushRingFits ==
    ASSUME RingInv, NEW samples \in Seq(Nat), PushRing(samples)
    PROVE  ring' \in Seq(Nat) /\ Len(ring') <= RingCapacity /\ dropped' \in 0..LastSample
  <1>. USE Sizes
  <1>. DEFINE all == ring \o samples
              over == IF Len(all) > RingCapacity THEN Len(all) - RingCapacity ELSE 0
  <1>1. all \in Seq(Nat) /\ Len(all) \in Nat
    BY Joined DEF RingInv
  <1>2. over \in 0..Len(all) /\ Len(all) - over <= RingCapacity
    BY <1>1
  <1>3. ring' = SubSeq(all, over + 1, Len(all))
    BY DEF PushRing
  <1>. HIDE DEF all
  <1>4. ring' \in Seq(Nat) /\ Len(ring') = Len(all) - over
    BY <1>1, <1>2, <1>3, Prefix
  <1>5. dropped' = dropped \/ dropped' = Min2(dropped + over, LastSample)
    BY DEF PushRing, all
  <1>. QED
    BY <1>1, <1>2, <1>4, <1>5 DEF RingInv, Min2

\* A chunk of the right size that fits the budget leaves the count and the file in step,
\* written or not.
LEMMA ChunkKeepsFile ==
    ASSUME FileInv, maxPcm \in 0..CapSamples, fd, ~diskFull, maxPcm' = maxPcm,
           NEW buf \in Seq(Nat), NEW rest \in Seq(Nat), Len(buf) <= ChunkSamples,
           Len(rest) <= ChunkSamples, pcmTotal + Len(buf) + Len(rest) <= maxPcm,
           ChunkWritten(buf, rest) \/ ChunkFailed(buf)
    PROVE  FileInv'
  <1>. USE Sizes
  <1>1. Len(buf) \in Nat /\ Len(rest) \in Nat /\ Len(take) \in Nat /\ Len(take) = pcmTotal
    BY DEF FileInv
  <1>2. CASE ChunkWritten(buf, rest)
    <2>1. take' = take \o buf /\ pcmTotal' = pcmTotal + Len(buf) /\ staging' = rest
      BY <1>2 DEF ChunkWritten
    <2>2. take' \in Seq(Nat) /\ Len(take') = Len(take) + Len(buf)
      BY <2>1, Joined DEF FileInv
    <2>. QED
      BY <1>1, <2>1, <2>2 DEF FileInv
  <1>3. CASE ChunkFailed(buf)
    <2>1. pcmTotal' = pcmTotal /\ staging' = buf /\ diskFull'
      BY <1>3 DEF ChunkFailed
    <2>2. PICK n \in 0..Len(buf) : take' = take \o SubSeq(buf, 1, n)
      <3>1. HasSpaceForChunk(buf)
        BY <1>1 DEF HasSpaceForChunk, FileInv
      <3>2. \E n \in IF HasSpaceForChunk(buf) THEN 0..(Len(buf) - 1) ELSE {0} :
               take' = take \o SubSeq(buf, 1, n)
        BY <1>3, Zenon DEF ChunkFailed
      <3>3. \E n \in 0..(Len(buf) - 1) : take' = take \o SubSeq(buf, 1, n)
        BY <3>1, <3>2, Zenon
      <3>4. 0..(Len(buf) - 1) \subseteq 0..Len(buf)
        BY <1>1
      <3>. QED
        BY <3>3, <3>4, Zenon
    <2>3. SubSeq(buf, 1, n) \in Seq(Nat) /\ Len(SubSeq(buf, 1, n)) = n
      BY Prefix
    <2>4. take' \in Seq(Nat) /\ Len(take') = Len(take) + n
      BY <2>2, <2>3, Joined DEF FileInv
    <2>. QED
      BY <1>1, <2>1, <2>4 DEF FileInv
  <1>. QED
    BY <1>2, <1>3

\* What becomes of the two flags when a chunk is written.
LEMMA ChunkFlags ==
    ASSUME Flags, NEW buf, NEW rest, ChunkWritten(buf, rest) \/ ChunkFailed(buf)
    PROVE  /\ diskFull' \in BOOLEAN /\ fd' \in BOOLEAN
           /\ ChunkWritten(buf, rest) => fd' = fd
           /\ ChunkFailed(buf) => recording' = FALSE /\ diskFull'
  BY DEF Flags, ChunkWritten, ChunkFailed

\* The budget cuts a batch to what is left of it, which is never below zero.
LEMMA BatchIsCut ==
    ASSUME FileInv, maxPcm \in 0..CapSamples, fd,
           NEW batch \in Seq(Nat), Len(batch) <= ReadSamples
    PROVE  LET kept == SubSeq(batch, 1, Min2(Len(batch), maxPcm - (pcmTotal + Len(staging))))
               full == staging \o kept
           IN /\ full \in Seq(Nat)
              /\ Len(full) <= ChunkSamples + ChunkSamples
              /\ pcmTotal + Len(full) <= maxPcm
  <1>. USE Sizes
  <1>. DEFINE k == Min2(Len(batch), maxPcm - (pcmTotal + Len(staging)))
  <1>1. k \in 0..Len(batch) /\ k <= maxPcm - (pcmTotal + Len(staging))
    BY DEF FileInv, Min2
  <1>. HIDE DEF k
  <1>2. SubSeq(batch, 1, k) \in Seq(Nat) /\ Len(SubSeq(batch, 1, k)) = k
    BY <1>1, Prefix
  <1>3. /\ staging \o SubSeq(batch, 1, k) \in Seq(Nat)
        /\ Len(staging \o SubSeq(batch, 1, k)) = Len(staging) + k
    BY <1>2, Joined DEF FileInv
  <1>4. /\ Len(staging) + k <= ChunkSamples + ChunkSamples
        /\ pcmTotal + (Len(staging) + k) <= maxPcm
    BY <1>1 DEF FileInv
  <1>. QED
    BY <1>3, <1>4 DEF k

\* writeSamples leaves the count and the file in step.
LEMMA WriteSamplesKeepsFile ==
    ASSUME FileInv, maxPcm \in 0..CapSamples, fd, maxPcm' = maxPcm,
           NEW batch \in Seq(Nat), Len(batch) <= ReadSamples, WriteSamples(batch)
    PROVE  FileInv'
  <1>. USE Sizes
  <1>. DEFINE kept == SubSeq(batch, 1, Min2(Len(batch), maxPcm - (pcmTotal + Len(staging))))
              full == staging \o kept
              head == SubSeq(full, 1, Min2(ChunkSamples, Len(full)))
              rest == SubSeq(full, Len(head) + 1, Len(full))
  <1>1. full \in Seq(Nat) /\ Len(full) <= ChunkSamples + ChunkSamples
        /\ pcmTotal + Len(full) <= maxPcm
    BY BatchIsCut
  <1>2. \/ diskFull /\ UNCHANGED fileVars
        \/ ~diskFull /\ Len(full) < ChunkSamples /\ staging' = full
           /\ UNCHANGED <<pcmTotal, diskFull, fd, take>>
        \/ ~diskFull /\ Len(full) >= ChunkSamples
           /\ (ChunkWritten(head, rest) \/ ChunkFailed(head))
    BY Zenon DEF WriteSamples
  <1>. HIDE DEF full
  <1>3. CASE diskFull /\ UNCHANGED fileVars
    BY <1>3 DEF FileInv, fileVars
  <1>4. CASE ~diskFull /\ Len(full) < ChunkSamples /\ staging' = full
             /\ UNCHANGED <<pcmTotal, diskFull, fd, take>>
    BY <1>1, <1>4 DEF FileInv
  <1>5. CASE ~diskFull /\ Len(full) >= ChunkSamples
             /\ (ChunkWritten(head, rest) \/ ChunkFailed(head))
    <2>1. Min2(ChunkSamples, Len(full)) = ChunkSamples /\ ChunkSamples \in 0..Len(full)
      BY <1>1, <1>5 DEF Min2
    <2>2. head \in Seq(Nat) /\ Len(head) = ChunkSamples
      BY <1>1, <2>1, Prefix
    <2>3. rest \in Seq(Nat) /\ Len(rest) = Len(full) - ChunkSamples
      BY <1>1, <2>1, <2>2, Prefix
    <2>. HIDE DEF head, rest
    <2>4. Len(rest) <= ChunkSamples /\ pcmTotal + Len(head) + Len(rest) <= maxPcm
      BY <1>1, <2>2, <2>3 DEF FileInv
    <2>5. head \in Seq(Nat) /\ rest \in Seq(Nat) /\ Len(head) <= ChunkSamples
      BY <2>2, <2>3
    <2>6. ~diskFull /\ (ChunkWritten(head, rest) \/ ChunkFailed(head))
      BY <1>5
    <2>. QED
      BY <2>4, <2>5, <2>6, ChunkKeepsFile, Zenon
  <1>. QED
    BY <1>2, <1>3, <1>4, <1>5

\* writeSamples never turns the recording on, and ends it with the file.
LEMMA WriteSamplesFlags ==
    ASSUME Flags, fd, NEW batch, WriteSamples(batch)
    PROVE  /\ diskFull' \in BOOLEAN /\ fd' \in BOOLEAN /\ recording' \in BOOLEAN
           /\ recording' => recording /\ fd'
           /\ ~diskFull' => fd'
  <1>. DEFINE kept == SubSeq(batch, 1, Min2(Len(batch), maxPcm - (pcmTotal + Len(staging))))
              full == staging \o kept
              head == SubSeq(full, 1, Min2(ChunkSamples, Len(full)))
              rest == SubSeq(full, Len(head) + 1, Len(full))
              goesOn == recording /\ Len(kept) = Len(batch)
  <1>1. \/ UNCHANGED <<diskFull, fd, recording>>
        \/ recording' = goesOn /\ UNCHANGED <<diskFull, fd>>
        \/ ChunkWritten(head, rest) /\ recording' = goesOn
        \/ ChunkFailed(head)
    BY Zenon DEF WriteSamples, fileVars
  <1>2. goesOn \in BOOLEAN /\ (goesOn => recording)
    BY Zenon
  <1>. HIDE DEF goesOn, head, rest
  <1>3. CASE UNCHANGED <<diskFull, fd, recording>>
    BY <1>3 DEF Flags
  <1>4. CASE recording' = goesOn /\ UNCHANGED <<diskFull, fd>>
    BY <1>2, <1>4 DEF Flags
  <1>5. CASE ChunkWritten(head, rest) /\ recording' = goesOn
    BY <1>2, <1>5, ChunkFlags
  <1>6. CASE ChunkFailed(head)
    BY <1>6, ChunkFlags
  <1>. QED
    BY <1>1, <1>3, <1>4, <1>5, <1>6

-----------------------------------------------------------------------------
(* The button.                                                                 *)

\* The two clocks of the button and those of its witness go together.
LEMMA ClocksAgree ==
    ASSUME GestureInv, NEW reading \in BOOLEAN, NEW ms \in Nat, ButtonLoop(reading, ms),
           Witness(reading, ms)
    PROVE  /\ sinceChange' \in 0..DebounceMs /\ sincePress' \in 0..HoldThresholdMs
           /\ steady' = sinceChange' /\ lasted' = sincePress'
           /\ Settles(reading) /\ reading => sincePress' = 0
           /\ ~(Settles(reading) /\ reading) /\ sincePress >= HoldThresholdMs =>
                  sincePress' >= HoldThresholdMs
  <1>. USE ThresholdsAssumption
  <1>1. sinceChange' \in 0..DebounceMs /\ steady' = sinceChange'
    BY DEF ButtonLoop, Witness, GestureInv, Older
  <1>2. Begins <=> Settles(reading) /\ reading
    BY Zenon DEF Begins, ButtonLoop, Settles, GestureInv
  <1>3. CASE Settles(reading) /\ reading
    <2>1. sincePress' = 0 /\ lasted' = 0
      BY <1>2, <1>3, Zenon DEF ButtonLoop, Witness
    <2>. QED
      BY <1>1, <1>3, <2>1
  <1>4. CASE ~(Settles(reading) /\ reading)
    <2>1. /\ sincePress' = Older(sincePress, ms, HoldThresholdMs)
          /\ lasted' = Older(lasted, ms, HoldThresholdMs)
      BY <1>2, <1>4, Zenon DEF ButtonLoop, Witness
    <2>. QED
      BY <1>1, <1>4, <2>1 DEF GestureInv, Older
  <1>. QED
    BY <1>3, <1>4

\* A pass of Button::loop keeps the invariant of the button and is a step of one gesture.
LEMMA ButtonKeeps ==
    ASSUME GestureInv, NEW reading \in BOOLEAN, NEW ms \in Nat, ButtonLoop(reading, ms),
           Witness(reading, ms)
    PROVE  GestureInv' /\ GestureStep
  <1>. USE ThresholdsAssumption
  <1>1. /\ sinceChange' \in 0..DebounceMs /\ sincePress' \in 0..HoldThresholdMs
        /\ steady' = sinceChange' /\ lasted' = sincePress'
        /\ Settles(reading) /\ reading => sincePress' = 0
        /\ ~(Settles(reading) /\ reading) /\ sincePress >= HoldThresholdMs =>
               sincePress' >= HoldThresholdMs
    BY ClocksAgree
  <1>2. rawDown' \in BOOLEAN /\ stableDown' \in BOOLEAN /\ pressed' \in BOOLEAN
        /\ release' \in BOOLEAN /\ shortPress' \in BOOLEAN /\ justHeld' \in BOOLEAN
        /\ held' \in BOOLEAN
    BY Zenon DEF ButtonLoop, GestureInv
  <1>3. /\ reports' = (IF Begins THEN 0 ELSE reports) + Told'
        /\ Told' = (IF justHeld' THEN 1 ELSE 0) + (IF shortPress' THEN 1 ELSE 0)
        /\ reports \in 0..1 /\ rawDown' = reading
    BY Zenon DEF Witness, Told, GestureInv, ButtonLoop
  <1>4. CASE Settles(reading) /\ reading
    <2>1. /\ stableDown' /\ pressed' /\ ~release' /\ ~shortPress' /\ rawDown' /\ ~stableDown
      <3>1. stableDown' /\ pressed' /\ ~release' /\ ~shortPress'
        BY <1>4, Zenon DEF ButtonLoop
      <3>2. rawDown' /\ ~stableDown
        BY <1>3, <1>4, Zenon DEF Settles, GestureInv
      <3>. QED
        BY <3>1, <3>2
    <2>2. ~(sincePress' >= HoldThresholdMs)
      BY <1>1, <1>4
    <2>3. ~justHeld'
      BY <2>2, Zenon DEF ButtonLoop
    <2>4. ~held'
      BY <1>4, <2>3, Zenon DEF ButtonLoop
    <2>5. ~pressed /\ Begins
      BY <2>1, Zenon DEF GestureInv, Begins
    <2>6. Told' = 0 /\ reports' = 0
      BY <1>3, <2>1, <2>3, <2>5
    <2>7. Seen = "up" /\ Seen' = "down"
      BY <2>1, <2>4, <2>5 DEF Seen
    <2>8. steady' >= DebounceMs
      BY <1>1, <1>4 DEF Settles
    <2>9. EdgesAreSteady
      BY <2>1, <2>8, <1>2, Zenon DEF EdgesAreSteady
    <2>10. PressIsBetweenEdges
      BY <2>1, <2>5, Zenon DEF PressIsBetweenEdges
    <2>11. PressIsReported
      BY <1>1, <2>1, <2>2, <2>3, <2>5, <2>6, <2>7 DEF PressIsReported
    <2>12. GestureInv'
      BY <1>1, <1>2, <2>1, <2>2, <2>4, <2>6 DEF GestureInv
    <2>. QED
      BY <2>9, <2>10, <2>11, <2>12 DEF GestureStep
  <1>5. CASE Settles(reading) /\ ~reading
    <2>1. ~stableDown' /\ ~pressed' /\ release' /\ ~rawDown' /\ stableDown
      BY <1>3, <1>5, Zenon DEF ButtonLoop, Settles, GestureInv
    <2>2. ~justHeld' /\ ~held'
      BY <1>5, <2>1, Zenon DEF ButtonLoop
    <2>3. shortPress' <=> pressed /\ ~held
      BY <2>1, Zenon DEF ButtonLoop
    <2>4. ~Begins
      BY <2>1, Zenon DEF Begins
    <2>5. Told' = (IF shortPress' THEN 1 ELSE 0) /\ reports' = reports + Told'
      BY <1>3, <2>2, <2>4
    <2>6. pressed => reports = IF held THEN 1 ELSE 0
      BY Zenon DEF GestureInv
    <2>7. /\ pressed => reports' = 1
          /\ Told' > 0 => pressed /\ reports = 0
          /\ reports' \in 0..1
      BY <1>3, <2>3, <2>5, <2>6
    <2>8. Seen' = "up" /\ Seen \in {"up", "down", "held"}
      BY <2>1 DEF Seen
    <2>9. steady' >= DebounceMs
      BY <1>1, <1>5 DEF Settles
    <2>10. EdgesAreSteady
      BY <2>1, <2>9, <1>2, Zenon DEF EdgesAreSteady
    <2>11. PressIsBetweenEdges
      BY <2>1, <2>4, Zenon DEF PressIsBetweenEdges
    <2>12. PressIsReported
      BY <2>1, <2>2, <2>7, <2>8 DEF PressIsReported
    <2>13. GestureInv'
      BY <1>1, <1>2, <2>1, <2>2, <2>7 DEF GestureInv
    <2>. QED
      BY <2>10, <2>11, <2>12, <2>13 DEF GestureStep
  <1>6. CASE ~Settles(reading)
    <2>1. stableDown' = stableDown /\ pressed' = pressed /\ ~release' /\ ~shortPress'
      BY <1>6, Zenon DEF ButtonLoop
    <2>2. justHeld' <=> pressed /\ ~held /\ sincePress' >= HoldThresholdMs
      BY <1>6, Zenon DEF ButtonLoop, GestureInv
    <2>3. held' <=> justHeld' \/ held
      BY <1>6, Zenon DEF ButtonLoop
    <2>4. ~Begins
      BY <2>1, Zenon DEF Begins
    <2>5. Told' = (IF justHeld' THEN 1 ELSE 0) /\ reports' = reports + Told'
      BY <1>3, <2>1, <2>4
    <2>6. /\ pressed => reports = IF held THEN 1 ELSE 0
          /\ pressed => (held <=> sincePress >= HoldThresholdMs)
          /\ pressed => stableDown
          /\ held => pressed
          /\ pressed \in BOOLEAN /\ held \in BOOLEAN
      BY Zenon DEF GestureInv
    <2>7. pressed => (held' <=> sincePress' >= HoldThresholdMs)
      BY <1>1, <1>6, <2>2, <2>3, <2>6, Zenon
    <2>8. /\ pressed => reports' = IF held' THEN 1 ELSE 0
          /\ Told' > 0 => pressed /\ reports = 0
          /\ reports' \in 0..1
      BY <1>3, <2>2, <2>3, <2>5, <2>6
    <2>9. (justHeld' => Seen = "down" /\ Seen' = "held")
          /\ (~justHeld' => Seen' = Seen) /\ Seen \in {"up", "down", "held"}
      BY <1>2, <2>1, <2>2, <2>3, <2>6 DEF Seen
    <2>10. EdgesAreSteady
      <3>1. reading = stableDown \/ ~(steady' >= DebounceMs)
        BY <1>1, <1>6, Zenon DEF Settles
      <3>. QED
        BY <1>3, <2>1, <3>1, Zenon DEF EdgesAreSteady
    <2>11. PressIsBetweenEdges
      BY <2>1, <2>4, Zenon DEF PressIsBetweenEdges, GestureInv
    <2>12. PressIsReported
      <3>1. /\ pressed' => reports' = IF lasted' >= HoldThresholdMs THEN 1 ELSE 0
            /\ pressed /\ ~pressed' => reports' = 1
            /\ Told' > 0 => pressed /\ reports = 0
        BY <1>1, <2>1, <2>7, <2>8, Zenon
      <3>2. /\ <<Seen, Seen'>> \in {<<"up", "up">>, <<"up", "down">>, <<"down", "down">>,
                                    <<"down", "held">>, <<"held", "held">>,
                                    <<"down", "up">>, <<"held", "up">>}
            /\ justHeld' => Seen' = "held"
            /\ shortPress' => Seen' = "up"
        BY <2>1, <2>9
      <3>. QED
        BY <3>1, <3>2, Zenon DEF PressIsReported
    <2>13. GestureInv'
      <3>1. (pressed' => stableDown') /\ (held' => pressed')
        BY <2>1, <2>2, <2>3, <2>6, Zenon
      <3>2. /\ pressed' => (held' <=> sincePress' >= HoldThresholdMs)
            /\ pressed' => reports' = IF held' THEN 1 ELSE 0
        BY <2>1, <2>7, <2>8, Zenon
      <3>. QED
        BY <1>1, <1>2, <2>8, <3>1, <3>2, Zenon DEF GestureInv
    <2>. QED
      BY <2>10, <2>11, <2>12, <2>13, Zenon DEF GestureStep
  <1>. QED
    BY <1>4, <1>5, <1>6, Zenon

-----------------------------------------------------------------------------
(* Every step keeps the invariant.                                             *)

\* It holds at power-on.
LEMMA InitHolds == Init => IInv
  <1>. SUFFICES ASSUME Init PROVE IInv
    OBVIOUS
  <1>. USE Sizes, ThresholdsAssumption DEF Init, RecorderInit, ButtonInit
  <1>1. Flags
    BY DEF Flags
  <1>2. RingInv /\ maxPcm \in 0..CapSamples /\ FileInv
    BY DEF RingInv, FileInv
  <1>3. Control
    BY DEF Control, Places, After
  <1>4. /\ sinceChange \in 0..DebounceMs /\ sincePress \in 0..HoldThresholdMs
        /\ steady = sinceChange /\ lasted = sincePress /\ reports \in 0..1
    OBVIOUS
  <1>5. GestureInv
    BY <1>4, Zenon DEF GestureInv
  <1>. QED
    BY <1>1, <1>2, <1>3, <1>5 DEF IInv

\* Steps of the two tasks that leave the button alone.
LEMMA ButtonAlone ==
    ASSUME GestureInv, UNCHANGED buttonVars
    PROVE  GestureInv'
  <1>1. UNCHANGED <<rawDown, stableDown, pressed, held, justHeld, shortPress, release,
                    sinceChange, sincePress, steady, lasted, reports>>
    BY Zenon DEF buttonVars, witnessVars
  <1>. QED
    BY <1>1, Zenon DEF GestureInv

\* Arming and disarming start with an empty ring, or leave it to a running recording.
LEMMA ArmKeeps ==
    ASSUME Flags, RingInv, UNCHANGED <<startAt, firstAt, drained>>,
            Arm \/ (Disarm /\ UNCHANGED captured)
    PROVE  RingInv' /\ capturing' \in BOOLEAN
  <1>. USE Sizes
  <1>1. /\ captured' \in {captured, Min2(captured + 1, LastSample)}
        /\ <<ring', dropped'>> \in {<<ring, dropped>>, <<<<>>, 0>>}
    BY DEF Arm, Disarm
  <1>2. capturing' \in BOOLEAN
    <2>1. capturing' = capturing \/ capturing' = TRUE \/ capturing' = FALSE
      BY Zenon DEF Arm, Disarm
    <2>. QED
      BY <2>1, Zenon DEF Flags
  <1>3. captured' \in 0..LastSample
    BY <1>1 DEF RingInv, Min2
  <1>4. ring' \in Seq(Nat) /\ Len(ring') <= RingCapacity /\ dropped' \in 0..LastSample
    <2>1. CASE ring' = ring /\ dropped' = dropped
      BY <2>1 DEF RingInv
    <2>2. CASE ring' = <<>> /\ dropped' = 0
      BY <2>2, Empty
    <2>. QED
      BY <1>1, <2>1, <2>2
  <1>. QED
    BY <1>2, <1>3, <1>4 DEF RingInv

\* A pass of loop() that arms, disarms or asks for a recording.
LEMMA PassKeeps == IInv /\ Pass => IInv'
  <1>. SUFFICES ASSUME IInv, Pass PROVE IInv'
    OBVIOUS
  <1>. USE Sizes
  <1>1. PICK reading \in BOOLEAN, ms \in PassMs :
             ButtonLoop(reading, ms) /\ Witness(reading, ms)
    BY Zenon DEF Pass
  <1>2. GestureInv'
    BY <1>1, PassAssumption, ButtonKeeps DEF IInv
  <1>3. /\ UNCHANGED <<inRead, recording, diskFull, staging, pcmTotal, maxPcm, fd, take,
                       startAt, firstAt, mode, drained>>
        /\ pc = "top" /\ mode # "UPLOADING"
    BY Zenon DEF Pass, startVars
  <1>4. Arm \/ (Disarm /\ UNCHANGED captured)
    BY Zenon DEF Pass
  <1>5. PICK allowed \in BOOLEAN :
           pc' = IF justHeld' /\ allowed /\ mode = "IDLE" /\ ~recording THEN "start"
                 ELSE IF mode = "RECORDING" THEN "record" ELSE "top"
    BY Zenon DEF Pass
  <1>6. RingInv' /\ capturing' \in BOOLEAN
    BY <1>3, <1>4, ArmKeeps DEF IInv
  <1>7. FileInv' /\ maxPcm' \in 0..CapSamples
    BY <1>3 DEF IInv, FileInv
  <1>8. Flags'
    BY <1>3, <1>6, Zenon DEF IInv, Flags
  <1>9. Control'
    BY <1>3, <1>5 DEF IInv, Control, Places, After
  <1>. QED
    BY <1>2, <1>6, <1>7, <1>8, <1>9 DEF IInv

\* start(): a new take and a new budget, or nothing.
LEMMA StartKeeps == IInv /\ Start => IInv'
  <1>. SUFFICES ASSUME IInv, Start PROVE IInv'
    OBVIOUS
  <1>. USE Sizes
  <1>1. UNCHANGED <<buttonVars, drained>> /\ pc = "start"
    BY Zenon DEF Start
  <1>2. GestureInv'
    BY <1>1, ButtonAlone DEF IInv
  <1>3. CASE StartOk /\ mode' = "RECORDING" /\ pc' = "preroll1"
    <2>1. PICK free \in FreeSpaces : maxPcm' = MaxPcm(free)
      BY <1>3, Zenon DEF StartOk
    <2>2. maxPcm' \in 0..CapSamples
      BY <2>1, BudgetOK
    <2>3. FileInv'
      BY <1>3, <2>2 DEF StartOk, FileInv
    <2>4. RingInv'
      BY <1>1, <1>3 DEF IInv, RingInv, StartOk, NextUp
    <2>5. Flags'
      BY <1>3, Zenon DEF IInv, Flags, StartOk
    <2>6. Control'
      BY <1>3 DEF IInv, Control, StartOk, Places, After
    <2>. QED
      BY <1>2, <2>2, <2>3, <2>4, <2>5, <2>6 DEF IInv
  <1>4. CASE StartFail /\ mode' = "IDLE" /\ pc' = "top"
    <2>1. maxPcm' \in 0..CapSamples
      BY <1>4, BudgetOK DEF StartFail, IInv
    <2>2. FileInv'
      BY <1>4 DEF StartFail, CleanupRecording, FileInv
    <2>3. RingInv' /\ capturing' \in BOOLEAN
      <3>1. UNCHANGED <<startAt, firstAt, drained, captured>> /\ Disarm
        BY <1>1, <1>4, Zenon DEF StartFail, startVars
      <3>. QED
        BY <3>1, ArmKeeps DEF IInv
    <2>4. Flags'
      BY <1>4, <2>3, Zenon DEF IInv, Flags, StartFail, CleanupRecording
    <2>5. Control'
      BY <1>4 DEF IInv, Control, StartFail, CleanupRecording, Places, After
    <2>. QED
      BY <1>2, <2>1, <2>2, <2>3, <2>4, <2>5 DEF IInv
  <1>. QED
    BY <1>3, <1>4, Zenon DEF Start

\* One round of AudioRecorder::loop().
LEMMA DrainKeeps == IInv /\ Drain => IInv'
  <1>. SUFFICES ASSUME IInv, Drain PROVE IInv'
    OBVIOUS
  <1>. USE Sizes
  <1>. DEFINE n == Min2(ReadSamples, Len(ring))
  <1>1. /\ UNCHANGED <<buttonVars, pc, mode>> /\ fd /\ drained < DrainBudget
        /\ PopAndWrite(n) /\ drained' = drained + n
    BY Zenon DEF Drain, CanDrain
  <1>2. n \in 0..Len(ring) /\ n <= ReadSamples
    BY DEF IInv, RingInv, Min2
  <1>. HIDE DEF n
  <1>3. /\ ring' = SubSeq(ring, n + 1, Len(ring)) /\ WriteSamples(SubSeq(ring, 1, n))
        /\ UNCHANGED <<captured, inRead, dropped, capturing, maxPcm, startAt, firstAt>>
    BY <1>1, Zenon DEF PopAndWrite, startVars
  <1>4. ring \in Seq(Nat) /\ Len(ring) <= RingCapacity
    BY DEF IInv, RingInv
  <1>5. /\ SubSeq(ring, 1, n) \in Seq(Nat) /\ Len(SubSeq(ring, 1, n)) <= ReadSamples
        /\ ring' \in Seq(Nat) /\ Len(ring') <= RingCapacity
    BY <1>2, <1>3, <1>4, Prefix
  <1>6. FileInv'
    BY <1>1, <1>3, <1>5, WriteSamplesKeepsFile DEF IInv
  <1>7. /\ diskFull' \in BOOLEAN /\ fd' \in BOOLEAN /\ recording' \in BOOLEAN
        /\ (recording' => recording /\ fd') /\ (~diskFull' => fd')
    BY <1>1, <1>3, WriteSamplesFlags DEF IInv
  <1>8. Flags'
    BY <1>3, <1>7, Zenon DEF IInv, Flags
  <1>9. RingInv' /\ maxPcm' \in 0..CapSamples
    BY <1>1, <1>2, <1>3, <1>5 DEF IInv, RingInv
  <1>10. Control'
    BY <1>1, <1>7 DEF IInv, Control
  <1>11. GestureInv'
    BY <1>1, ButtonAlone DEF IInv
  <1>. QED
    BY <1>6, <1>8, <1>9, <1>10, <1>11 DEF IInv

\* The end of AudioRecorder::loop().
LEMMA DrainEndKeeps == IInv /\ DrainEnd => IInv'
  <1>. SUFFICES ASSUME IInv, DrainEnd PROVE IInv'
    OBVIOUS
  <1>. USE Sizes
  <1>1. /\ UNCHANGED <<recorderVars, buttonVars, mode>> /\ drained' = 0 /\ pc \in DOMAIN After
        /\ pc' = IF pc = "stop" /\ ~CanDrain THEN "rest" ELSE After[pc]
    BY Zenon DEF DrainEnd
  <1>2. Flags'
    BY <1>1, Zenon DEF IInv, Flags, recorderVars
  <1>3. RingInv' /\ maxPcm' \in 0..CapSamples /\ FileInv'
    BY <1>1 DEF IInv, RingInv, FileInv, recorderVars, startVars
  <1>4. Control'
    BY <1>1 DEF IInv, Control, Places, After, recorderVars
  <1>5. GestureInv'
    BY <1>1, ButtonAlone DEF IInv
  <1>. QED
    BY <1>2, <1>3, <1>4, <1>5 DEF IInv

\* handleRecording() goes on or calls stop().
LEMMA CheckKeeps == IInv /\ Check => IInv'
  <1>. SUFFICES ASSUME IInv, Check PROVE IInv'
    OBVIOUS
  <1>. USE Sizes
  <1>1. /\ UNCHANGED <<captured, inRead, ring, dropped, diskFull, staging, pcmTotal, maxPcm, fd,
                       take, startAt, firstAt, buttonVars, mode, drained>>
        /\ pc = "check"
        /\ \/ capturing' = FALSE /\ recording' = FALSE /\ pc' = "stop"
           \/ pc' = "again" /\ UNCHANGED <<capturing, recording>>
    BY Zenon DEF Check, startVars
  <1>2. Flags'
    BY <1>1, Zenon DEF IInv, Flags
  <1>3. RingInv' /\ maxPcm' \in 0..CapSamples /\ FileInv'
    BY <1>1 DEF IInv, RingInv, FileInv
  <1>4. Control'
    BY <1>1 DEF IInv, Control, Places, After
  <1>5. GestureInv'
    BY <1>1, ButtonAlone DEF IInv
  <1>. QED
    BY <1>2, <1>3, <1>4, <1>5 DEF IInv

\* The last chunk of stop().
LEMMA StopRestKeeps == IInv /\ StopRest => IInv'
  <1>. SUFFICES ASSUME IInv, StopRest PROVE IInv'
    OBVIOUS
  <1>. USE Sizes
  <1>1. /\ UNCHANGED <<buttonVars, mode, drained>> /\ pc = "rest" /\ pc' = "close"
        /\ UNCHANGED <<captured, inRead, ring, dropped, capturing, maxPcm, startAt, firstAt>>
    BY Zenon DEF StopRest, WriteRest, startVars
  <1>2. \/ UNCHANGED <<fileVars, recording>>
        \/ ~diskFull /\ ChunkWritten(staging, <<>>) /\ UNCHANGED recording
        \/ ~diskFull /\ ChunkFailed(staging)
    BY Zenon DEF StopRest, WriteRest
  <1>3. RingInv' /\ maxPcm' \in 0..CapSamples
    BY <1>1 DEF IInv, RingInv
  <1>4. GestureInv'
    BY <1>1, ButtonAlone DEF IInv
  <1>5. mode = "RECORDING" /\ ~recording
    BY <1>1 DEF IInv, Control
  <1>6. CASE UNCHANGED <<fileVars, recording>>
    <2>1. Flags'
      BY <1>1, <1>6, Zenon DEF IInv, Flags, fileVars
    <2>2. FileInv'
      BY <1>1, <1>6 DEF IInv, FileInv, fileVars
    <2>3. Control'
      BY <1>1, <1>5, <1>6 DEF IInv, Control, Places, After, fileVars
    <2>. QED
      BY <1>3, <1>4, <2>1, <2>2, <2>3 DEF IInv
  <1>7. CASE ~diskFull /\ ((ChunkWritten(staging, <<>>) /\ UNCHANGED recording)
                           \/ ChunkFailed(staging))
    <2>1. fd /\ <<>> \in Seq(Nat) /\ Len(<<>>) = 0
      BY <1>5, <1>7 DEF IInv, Control
    <2>2. FileInv'
      <3>1. staging \in Seq(Nat) /\ Len(staging) <= ChunkSamples
            /\ pcmTotal + Len(staging) + Len(<<>>) <= maxPcm
        BY <2>1 DEF IInv, FileInv
      <3>2. FileInv /\ maxPcm \in 0..CapSamples
        BY DEF IInv
      <3>3. /\ ChunkWritten(staging, <<>>) \/ ChunkFailed(staging)
            /\ ~diskFull /\ maxPcm' = maxPcm /\ Len(<<>>) <= ChunkSamples
        BY <1>1, <1>7, <2>1
      <3>. QED
        BY <2>1, <3>1, <3>2, <3>3, ChunkKeepsFile, Zenon
    <2>3. diskFull' \in BOOLEAN /\ fd' \in BOOLEAN /\ ~recording' /\ (~diskFull' => fd')
      <3>1. CASE ChunkWritten(staging, <<>>) /\ UNCHANGED recording
        BY <1>5, <2>1, <3>1, ChunkFlags DEF IInv
      <3>2. CASE ChunkFailed(staging)
        BY <3>2, ChunkFlags DEF IInv
      <3>. QED
        BY <1>7, <3>1, <3>2
    <2>4. recording' \in BOOLEAN
      BY <1>5, <1>7, Zenon DEF IInv, Flags, ChunkFailed
    <2>5. Flags'
      BY <1>1, <2>3, <2>4, Zenon DEF IInv, Flags
    <2>6. Control'
      BY <1>1, <1>5, <2>3 DEF IInv, Control, Places, After
    <2>. QED
      BY <1>3, <1>4, <2>2, <2>5, <2>6 DEF IInv
  <1>. QED
    BY <1>2, <1>6, <1>7

\* The end of stop(): the file is closed, counted or deleted.
LEMMA StopCloseKeeps == IInv /\ StopClose => IInv'
  <1>. SUFFICES ASSUME IInv, StopClose PROVE IInv'
    OBVIOUS
  <1>. USE Sizes
  <1>1. /\ UNCHANGED <<captured, inRead, ring, dropped, capturing, recording, diskFull, maxPcm,
                       buttonVars, drained>>
        /\ pc = "close" /\ pc' = "top" /\ startAt' = 0 /\ firstAt' = 1
    BY Zenon DEF StopClose
  <1>2. PICK size \in 0..Len(take) :
           \/ CloseAndCount(size) /\ mode' = "UPLOADING" /\ UNCHANGED staging
           \/ CleanupRecording /\ mode' = "IDLE"
    <2>1. (IF FlashFails THEN 0..Len(take) ELSE {Len(take)}) \subseteq 0..Len(take)
      BY DEF IInv, FileInv
    <2>. QED
      BY <2>1, Zenon DEF StopClose
  <1>3. take' \in Seq(Nat) /\ pcmTotal' \in Nat /\ fd' = FALSE
        /\ (staging' = staging \/ staging' = <<>>) /\ mode' \in {"IDLE", "UPLOADING"}
    <2>1. CASE CloseAndCount(size) /\ mode' = "UPLOADING" /\ UNCHANGED staging
      <3>1. SubSeq(take, 1, size) \in Seq(Nat)
        BY Prefix DEF IInv, FileInv
      <3>. QED
        BY <2>1, <3>1 DEF CloseAndCount, IInv, FileInv
    <2>2. CASE CleanupRecording /\ mode' = "IDLE"
      BY <2>2 DEF CleanupRecording
    <2>. QED
      BY <1>2, <2>1, <2>2
  <1>4. FileInv'
    <2>1. staging' \in Seq(Nat) /\ Len(staging') <= ChunkSamples
      <3>1. CASE staging' = staging
        BY <3>1 DEF IInv, FileInv
      <3>2. CASE staging' = <<>>
        BY <3>2, Empty
      <3>. QED
        BY <1>3, <3>1, <3>2
    <2>. QED
      BY <1>3, <2>1 DEF FileInv
  <1>5. Flags'
    BY <1>1, <1>3, Zenon DEF IInv, Flags
  <1>6. RingInv' /\ maxPcm' \in 0..CapSamples
    BY <1>1 DEF IInv, RingInv
  <1>7. Control'
    BY <1>1, <1>3 DEF IInv, Control, Places, After
  <1>8. GestureInv'
    BY <1>1, ButtonAlone DEF IInv
  <1>. QED
    BY <1>4, <1>5, <1>6, <1>7, <1>8 DEF IInv

\* The end of an upload, which may have taken the staging chunk.
LEMMA UploadEndKeeps == IInv /\ UploadEnd => IInv'
  <1>. SUFFICES ASSUME IInv, UploadEnd PROVE IInv'
    OBVIOUS
  <1>. USE Sizes
  <1>1. /\ UNCHANGED <<captured, inRead, ring, dropped, capturing, recording, diskFull, maxPcm,
                       startAt, firstAt, buttonVars, pc, drained>>
        /\ pc = "top" /\ mode = "UPLOADING" /\ mode' = "IDLE"
    BY Zenon DEF UploadEnd, startVars
  <1>2. CleanupRecording \/ (staging' = <<>> /\ UNCHANGED <<take, pcmTotal, fd>>)
    BY Zenon DEF UploadEnd
  <1>3. ~fd
    BY <1>1 DEF IInv, Control
  <1>4. fd' = FALSE /\ FileInv'
    <2>1. fd' = FALSE
      BY <1>2, <1>3, Zenon DEF IInv, Flags, CleanupRecording
    <2>2. staging' = <<>> /\ take' \in Seq(Nat) /\ pcmTotal' \in Nat
      <3>1. CASE CleanupRecording
        BY <3>1, Empty DEF CleanupRecording
      <3>2. CASE staging' = <<>> /\ UNCHANGED <<take, pcmTotal, fd>>
        BY <3>2 DEF IInv, FileInv
      <3>. QED
        BY <1>2, <3>1, <3>2
    <2>. QED
      BY <2>1, <2>2, Empty DEF FileInv
  <1>5. Flags'
    BY <1>1, <1>4, Zenon DEF IInv, Flags
  <1>6. RingInv' /\ maxPcm' \in 0..CapSamples
    BY <1>1 DEF IInv, RingInv
  <1>7. Control'
    BY <1>1, <1>4 DEF IInv, Control, Places, After
  <1>8. GestureInv'
    BY <1>1, ButtonAlone DEF IInv
  <1>. QED
    BY <1>4, <1>5, <1>6, <1>7, <1>8 DEF IInv

\* A step of the capture task.
LEMMA CaptureTaskKeeps == IInv /\ CaptureTask => IInv'
  <1>. SUFFICES ASSUME IInv, CaptureTask PROVE IInv'
    OBVIOUS
  <1>. USE Sizes
  <1>1. UNCHANGED <<buttonVars, pc, mode, drained, capturing, recording, maxPcm, fileVars,
                    startAt, firstAt>>
        /\ inRead' \in BOOLEAN
    BY Zenon DEF CaptureTask, CaptureRead, CapturePush, startVars
  <1>2. Flags'
    BY <1>1, Zenon DEF IInv, Flags, fileVars
  <1>3. FileInv' /\ maxPcm' \in 0..CapSamples
    BY <1>1 DEF IInv, FileInv, fileVars
  <1>4. Control'
    BY <1>1 DEF IInv, Control, fileVars
  <1>5. GestureInv'
    BY <1>1, ButtonAlone DEF IInv
  <1>6. CASE UNCHANGED <<captured, ring, dropped>>
    <2>1. RingInv'
      BY <1>1, <1>6 DEF IInv, RingInv
    <2>. QED
      BY <1>2, <1>3, <1>4, <1>5, <2>1 DEF IInv
  <1>7. CASE CapturePush
    <2>1. PICK n \in 0..ReadSamples :
             /\ PushRing([i \in 1..n |-> Min2(captured + i, LastSample)])
             /\ captured' = Min2(captured + n, LastSample)
      BY <1>7, Zenon DEF CapturePush
    <2>2. captured' \in 0..LastSample
      BY <2>1 DEF IInv, RingInv, Min2
    <2>3. [i \in 1..n |-> Min2(captured + i, LastSample)] \in Seq(Nat)
      <3>1. \A i \in 1..n : Min2(captured + i, LastSample) \in Nat
        BY DEF IInv, RingInv, Min2
      <3>. QED
        BY <3>1
    <2>4. ring' \in Seq(Nat) /\ Len(ring') <= RingCapacity /\ dropped' \in 0..LastSample
      BY <2>1, <2>3, PushRingFits DEF IInv
    <2>5. RingInv'
      BY <1>1, <2>2, <2>4 DEF IInv, RingInv
    <2>. QED
      BY <1>2, <1>3, <1>4, <1>5, <2>5 DEF IInv
  <1>. QED
    BY <1>6, <1>7, Zenon DEF CaptureTask, CaptureRead

\* Nothing happens.
LEMMA StutterKeeps == IInv /\ UNCHANGED vars => IInv'
  <1>. SUFFICES ASSUME IInv, UNCHANGED vars PROVE IInv'
    OBVIOUS
  <1>1. UNCHANGED <<recorderVars, buttonVars, pc, mode, drained>>
    BY Zenon DEF vars
  <1>2. Flags'
    BY <1>1, Zenon DEF IInv, Flags, recorderVars
  <1>3. RingInv' /\ maxPcm' \in 0..CapSamples /\ FileInv'
    BY <1>1 DEF IInv, RingInv, FileInv, recorderVars, startVars
  <1>4. Control'
    BY <1>1 DEF IInv, Control, recorderVars
  <1>5. GestureInv'
    BY <1>1, ButtonAlone DEF IInv
  <1>. QED
    BY <1>2, <1>3, <1>4, <1>5 DEF IInv

-----------------------------------------------------------------------------
(* The theorems.                                                               *)

\* The invariant holds of every reachable state, whatever the flash and the button do.
THEOREM Invariant == Spec => []IInv
  <1>1. IInv /\ [Next]_vars => IInv'
    <2>. SUFFICES ASSUME IInv, [Next]_vars PROVE IInv'
      OBVIOUS
    <2>1. CASE LoopTask
      BY <2>1, PassKeeps, StartKeeps, DrainKeeps, DrainEndKeeps, CheckKeeps, StopRestKeeps,
         StopCloseKeeps, UploadEndKeeps DEF LoopTask
    <2>2. CASE CaptureTask
      BY <2>2, CaptureTaskKeeps
    <2>3. CASE UNCHANGED vars
      BY <2>3, StutterKeeps
    <2>. QED
      BY <2>1, <2>2, <2>3 DEF Next
  <1>. QED
    BY <1>1, InitHolds, PTL DEF Spec

\* The types of Capture: ring and staging chunk never hold more than their size, and a
\* drain never takes more than half the ring and one read (audio_recorder.cpp:311-345,
\* 783-785).
THEOREM TypeCorrect == Spec => []TypeOK
  <1>1. IInv => TypeOK
    <2>. SUFFICES ASSUME IInv PROVE TypeOK
      OBVIOUS
    <2>1. /\ {inRead, capturing, recording, diskFull, fd} \subseteq BOOLEAN
          /\ {rawDown, stableDown, pressed, held, justHeld, shortPress, release} \subseteq BOOLEAN
      BY Zenon DEF IInv, Flags, GestureInv
    <2>2. RecorderTypeOK
      BY <2>1 DEF IInv, RingInv, FileInv, RecorderTypeOK
    <2>3. ButtonTypeOK
      BY <2>1 DEF IInv, GestureInv, ButtonTypeOK
    <2>. QED
      BY <2>2, <2>3 DEF IInv, RingInv, Control, TypeOK
  <1>. QED
    BY Invariant, <1>1, PTL

\* The unsigned rest of the budget is never below zero and the file stays within what was
\* found free, however the flash fails and however fast the ring fills
\* (audio_recorder.cpp:622, 641).
THEOREM BudgetTheorem == Spec => []WithinBudget
  <1>1. IInv => WithinBudget
    BY DEF IInv, FileInv, WithinBudget
  <1>. QED
    BY Invariant, <1>1, PTL

\* A press is one gesture whatever the thresholds and the lengths of the passes: it begins
\* and ends only with an edge of a contact that has been steady for the debounce, and always
\* then; it is reported as a hold in the pass that reaches the threshold, or as a short press
\* in the pass that ends it before, never both and never neither (button.cpp:37-74).
THEOREM GestureTheorem == Spec => PressIsOneGesture
  <1>1. IInv /\ [Next]_vars => [GestureStep]_buttonVars
    <2>. SUFFICES ASSUME IInv, [Next]_vars PROVE GestureStep \/ UNCHANGED buttonVars
      OBVIOUS
    <2>1. CASE Pass
      <3>1. PICK reading \in BOOLEAN, ms \in PassMs :
             ButtonLoop(reading, ms) /\ Witness(reading, ms)
        BY <2>1, Zenon DEF Pass
      <3>. QED
        BY <3>1, PassAssumption, ButtonKeeps DEF IInv
    <2>2. CASE Next /\ ~Pass
      BY <2>2, Zenon DEF Next, LoopTask, CaptureTask, Start, Drain, DrainEnd, Check, StopRest,
         StopClose, UploadEnd
    <2>3. CASE UNCHANGED vars
      BY <2>3, Zenon DEF vars
    <2>. QED
      BY <2>1, <2>2, <2>3
  <1>. QED
    BY Invariant, <1>1, PTL DEF Spec, PressIsOneGesture

-----------------------------------------------------------------------------
(* The take that is uploaded.                                                  *)

\* The file never outgrows the longest take, closed or not; what is uploaded was counted from
\* the file itself, and is long enough.
TakeInv ==
    /\ Len(take) <= CapSamples
    /\ mode = "UPLOADING" /\ take # <<>> => pcmTotal = Len(take) /\ LongEnough(Len(take))

\* A chunk that fits the budget leaves the file within it, even if it fails and the file is lost.
LEMMA ChunkFitsTake ==
    ASSUME FileInv, maxPcm \in 0..CapSamples, fd, ~diskFull,
           NEW buf \in Seq(Nat), pcmTotal + Len(buf) <= maxPcm,
           ChunkWritten(buf, <<>>) \/ (\E rest : ChunkWritten(buf, rest)) \/ ChunkFailed(buf)
    PROVE  Len(take') <= CapSamples
  <1>. USE Sizes
  <1>1. Len(buf) \in Nat /\ Len(take) = pcmTotal /\ take \in Seq(Nat)
    BY DEF FileInv
  <1>2. CASE take' = take \o buf
    <2>1. Len(take') = Len(take) + Len(buf)
      BY <1>1, <1>2, Joined
    <2>. QED
      BY <1>1, <2>1
  <1>3. CASE ChunkFailed(buf)
    <2>1. HasSpaceForChunk(buf)
      BY DEF HasSpaceForChunk
    <2>2. PICK n \in 0..(Len(buf) - 1) : take' = take \o SubSeq(buf, 1, n)
      BY <1>3, <2>1, Zenon DEF ChunkFailed
    <2>3. n \in 0..Len(buf)
      BY <1>1
    <2>4. SubSeq(buf, 1, n) \in Seq(Nat) /\ Len(SubSeq(buf, 1, n)) = n
      BY <2>3, Prefix
    <2>5. Len(take') = Len(take) + n
      BY <1>1, <2>2, <2>4, Joined
    <2>. QED
      BY <1>1, <2>3, <2>5
  <1>. QED
    BY <1>2, <1>3, Zenon DEF ChunkWritten

\* A batch never makes the file longer than the longest take.
LEMMA WriteSamplesFitsTake ==
    ASSUME FileInv, maxPcm \in 0..CapSamples, fd, Len(take) <= CapSamples,
           NEW batch \in Seq(Nat), Len(batch) <= ReadSamples, WriteSamples(batch)
    PROVE  Len(take') <= CapSamples
  <1>. USE Sizes
  <1>. DEFINE kept == SubSeq(batch, 1, Min2(Len(batch), maxPcm - (pcmTotal + Len(staging))))
              full == staging \o kept
              head == SubSeq(full, 1, Min2(ChunkSamples, Len(full)))
              rest == SubSeq(full, Len(head) + 1, Len(full))
  <1>1. full \in Seq(Nat) /\ pcmTotal + Len(full) <= maxPcm
    BY BatchIsCut
  <1>2. \/ UNCHANGED take
        \/ ~diskFull /\ (ChunkWritten(head, rest) \/ ChunkFailed(head))
    BY Zenon DEF WriteSamples, fileVars
  <1>. HIDE DEF full
  <1>3. Min2(ChunkSamples, Len(full)) \in 0..Len(full)
    BY <1>1 DEF Min2
  <1>4. head \in Seq(Nat) /\ Len(head) \in 0..Len(full)
    BY <1>1, <1>3, Prefix
  <1>. HIDE DEF head, rest
  <1>5. pcmTotal + Len(head) <= maxPcm
    BY <1>1, <1>4 DEF FileInv
  <1>6. CASE ~diskFull /\ (ChunkWritten(head, rest) \/ ChunkFailed(head))
    BY <1>4, <1>5, <1>6, ChunkFitsTake, Zenon
  <1>. QED
    BY <1>2, <1>6

\* Every step keeps it.
LEMMA StepTake == IInv /\ TakeInv /\ [Next]_vars => TakeInv'
  <1>. SUFFICES ASSUME IInv, TakeInv, [Next]_vars PROVE TakeInv'
    OBVIOUS
  <1>. USE Sizes
  <1>1. take \in Seq(Nat) /\ Len(take) \in Nat /\ Len(take) <= CapSamples
    BY DEF IInv, FileInv, TakeInv
  <1>2. CASE UNCHANGED <<take, pcmTotal>> /\ (mode' = "UPLOADING" => mode = "UPLOADING")
    BY <1>1, <1>2 DEF TakeInv, LongEnough
  <1>3. CASE take' = <<>>
    BY <1>3, Empty DEF TakeInv
  <1>4. CASE Drain
    <2>. DEFINE n == Min2(ReadSamples, Len(ring))
    <2>1. UNCHANGED mode /\ fd /\ PopAndWrite(n) /\ mode = "RECORDING"
      BY <1>4, Zenon DEF Drain, CanDrain, IInv, Control
    <2>2. n \in 0..Len(ring) /\ n <= ReadSamples /\ ring \in Seq(Nat)
      BY DEF IInv, RingInv, Min2
    <2>. HIDE DEF n
    <2>3. SubSeq(ring, 1, n) \in Seq(Nat) /\ Len(SubSeq(ring, 1, n)) <= ReadSamples
      BY <2>2, Prefix
    <2>4. WriteSamples(SubSeq(ring, 1, n))
      BY <2>1, Zenon DEF PopAndWrite
    <2>5. Len(take') <= CapSamples
      BY <1>1, <2>1, <2>3, <2>4, WriteSamplesFitsTake DEF IInv
    <2>. QED
      BY <2>1, <2>5 DEF TakeInv
  <1>5. CASE StopRest
    <2>1. UNCHANGED mode /\ mode = "RECORDING" /\ pc = "rest"
      BY <1>5, Zenon DEF StopRest, IInv, Control
    <2>2. \/ UNCHANGED take
          \/ ~diskFull /\ (ChunkWritten(staging, <<>>) \/ ChunkFailed(staging))
      BY <1>5, Zenon DEF StopRest, WriteRest, fileVars
    <2>3. CASE ~diskFull /\ (ChunkWritten(staging, <<>>) \/ ChunkFailed(staging))
      <3>1. fd
        BY <2>1, <2>3, Zenon DEF IInv, Control
      <3>2. staging \in Seq(Nat) /\ pcmTotal + Len(staging) <= maxPcm
        BY <3>1 DEF IInv, FileInv
      <3>3. Len(take') <= CapSamples
        BY <2>3, <3>1, <3>2, ChunkFitsTake, Zenon DEF IInv
      <3>. QED
        BY <2>1, <3>3 DEF TakeInv
    <2>. QED
      BY <1>1, <2>1, <2>2, <2>3 DEF TakeInv
  <1>6. CASE StopClose
    <2>1. PICK size \in 0..Len(take) :
             \/ /\ LongEnough(IF size > 0 THEN size ELSE pcmTotal)
                /\ CloseAndCount(size) /\ mode' = "UPLOADING"
             \/ CleanupRecording /\ mode' = "IDLE"
      <3>1. (IF FlashFails THEN 0..Len(take) ELSE {Len(take)}) \subseteq 0..Len(take)
        BY <1>1
      <3>. QED
        BY <1>6, <3>1, Zenon DEF StopClose
    <2>2. CASE CleanupRecording
      BY <1>3, <2>2, Zenon DEF CleanupRecording
    <2>3. CASE LongEnough(IF size > 0 THEN size ELSE pcmTotal) /\ CloseAndCount(size)
      <3>1. take' = SubSeq(take, 1, size) /\ Len(take') = size
        BY <1>1, <2>3, Prefix DEF CloseAndCount
      <3>2. CASE size > 0
        <4>1. pcmTotal' = size /\ LongEnough(size)
          BY <2>3, <3>2 DEF CloseAndCount
        <4>. QED
          BY <1>1, <3>1, <4>1 DEF TakeInv
      <3>3. CASE size = 0
        <4>1. take' = <<>>
          BY <1>1, <3>1, <3>3
        <4>. QED
          BY <1>3, <4>1
      <3>. QED
        BY <3>2, <3>3
    <2>. QED
      BY <2>1, <2>2, <2>3
  <1>7. CASE Pass
    BY <1>2, <1>7, Zenon DEF Pass
  <1>8. CASE Start
    BY <1>3, <1>8, Zenon DEF Start, StartOk, StartFail, CleanupRecording
  <1>9. CASE DrainEnd
    BY <1>2, <1>9, Zenon DEF DrainEnd, recorderVars
  <1>10. CASE Check
    BY <1>2, <1>10, Zenon DEF Check
  <1>11. CASE UploadEnd
    <2>1. mode' = "IDLE" /\ (take' = <<>> \/ UNCHANGED <<take, pcmTotal>>)
      BY <1>11, Zenon DEF UploadEnd, CleanupRecording
    <2>2. ~(mode' = "UPLOADING")
      BY <2>1
    <2>. QED
      BY <1>2, <1>3, <2>1, <2>2, Zenon
  <1>12. CASE CaptureTask
    BY <1>2, <1>12, Zenon DEF CaptureTask, CaptureRead, CapturePush, fileVars
  <1>13. CASE UNCHANGED vars
    BY <1>2, <1>13, Zenon DEF vars, recorderVars
  <1>. QED
    BY <1>4, <1>5, <1>6, <1>7, <1>8, <1>9, <1>10, <1>11, <1>12, <1>13, Zenon DEF Next, LoopTask

\* The header that is posted fits the file, and the server takes it with the length it has, if
\* the longest take is within the server's limits: a minute within 60000 ms and 5 MiB
\* (audio_recorder.cpp:722-738, api_client.cpp:344-349, validator.go:14-16).
THEOREM HeaderTheorem ==
    ASSUME (CapSamples * 1000) \div SampleRate <= MaxDurationMs,
           44 + 2 * CapSamples <= MaxUpload
    PROVE  Spec => []HeaderFitsFile
  <1>1. Init => TakeInv
    BY Empty, Sizes DEF Init, RecorderInit, TakeInv
  <1>2. IInv /\ TakeInv => HeaderFitsFile
    <2>. SUFFICES ASSUME IInv, TakeInv, mode = "UPLOADING", take # <<>>
                  PROVE  LET f == RecorderFile(2 * pcmTotal, 2 * Len(take))
                         IN /\ pcmTotal = Len(take)
                            /\ Valid(f)
                            /\ Aligned(f) = [durationMs |-> (Len(take) * 1000) \div SampleRate,
                                             sizeBytes |-> 44 + 2 * Len(take)]
      BY Zenon DEF HeaderFitsFile
    <2>. DEFINE n == Len(take)
                f == FileOf(0, 2 * n, 2 * n)
                ms == (n * 1000) \div SampleRate
    <2>1. n \in Nat /\ n <= CapSamples /\ pcmTotal = n /\ n > 0 /\ ms >= MinDurationMs
      BY DEF IInv, FileInv, TakeInv, LongEnough
    <2>2. /\ SampleRate \in Nat \ {0} /\ MinDurationMs \in Nat /\ MaxDurationMs \in Nat
          /\ MaxUpload \in Nat /\ CapSamples \in Nat
      BY LimitsAssumption, Sizes
    <2>. HIDE DEF n
    <2>3. ms \in Nat /\ ms <= MaxDurationMs
      <3>1. n * 1000 \in Nat /\ CapSamples * 1000 \in Nat /\ n * 1000 <= CapSamples * 1000
        BY <2>1, <2>2
      <3>2. ms <= (CapSamples * 1000) \div SampleRate /\ ms \in Nat
        BY <2>2, <3>1, Quotient, QuotientMonotone
      <3>3. (CapSamples * 1000) \div SampleRate \in Nat
        BY <2>2, <3>1, Quotient
      <3>. QED
        BY <2>2, <3>2, <3>3
    <2>4. 2 * n \in Nat /\ 0 \in Nat
      BY <2>1
    <2>5. Walk(f) = [ok |-> TRUE, byteRate |-> 2 * SampleRate, dataSize |-> 2 * n]
      BY <2>4, WalkOfWritten, Zenon
    <2>6. DurationMs(2 * n, 2 * SampleRate) = ms
      BY <2>1, BytesAreSamples
    <2>7. f.riff = 36 + 2 * n /\ f.bytes = 44 + 2 * n
      BY <2>4 DEF FileOf, DataAt
    <2>. HIDE DEF f, ms
    <2>8. Valid(f)
      BY <2>1, <2>2, <2>3, <2>5, <2>6, <2>7 DEF Valid, Readable
    <2>9. Aligned(f) = [durationMs |-> ms, sizeBytes |-> 44 + 2 * n]
      <3>1. f.bytes >= f.riff + 8
        BY <2>4, <2>7
      <3>2. DurationMs(Walk(f).dataSize, Walk(f).byteRate) = ms
        BY <2>5, <2>6
      <3>. QED
        BY <2>7, <3>1, <3>2 DEF Aligned
    <2>. QED
      BY <2>1, <2>8, <2>9, Zenon DEF f, ms, n, RecorderFile
  <1>. QED
    BY Invariant, <1>1, StepTake, <1>2, PTL DEF Spec
=============================================================================
