---------------------------- MODULE CaptureOrderProofs ----------------------
(***************************************************************************)
(* The order and the number of the samples in a take, for any sizes and    *)
(* any speed of the capture task: nothing doubled or exchanged, every gap  *)
(* counted, and the speech from before the hold taken, or counted too.     *)
(***************************************************************************)
EXTENDS CaptureProofs, SequenceTheorems, FiniteSetTheorems

-----------------------------------------------------------------------------
(* The order of the samples.                                                   *)

\* The ring holds an unbroken run of numbers that ends at the last one captured.
Consecutive(s, b) == \A j \in 1..Len(s) : s[j] = Min2(b + j - 1, LastSample)
Runs ==
    /\ captured = Min2(NextUp + Len(ring) - 1, LastSample)
    /\ Consecutive(ring, NextUp)

Before(a, b) == a < b \/ (a = LastSample /\ b = LastSample)
Ordered(s) == \A i, j \in 1..Len(s) : i < j => Before(s[i], s[j])
Below(s, b) == \A i \in 1..Len(s) : Before(s[i], b)
PrefixOf(p, s) == Len(p) <= Len(s) /\ \A i \in 1..Len(p) : p[i] = s[i]

\* No more is missing before the next sample, nor before any of the sound, from the oldest
\* that waited in the ring on, than was counted.
Counted ==
    recording =>
        /\ Min2(NextUp, LastSample) - firstAt - Len(Sound) <= dropped
        /\ \A i \in 1..Len(Sound) : Sound[i] - firstAt + 1 - i <= dropped

\* What start() has drained so far of the speech from before the hold.
Preroll ==
    recording /\ NextUp < LastSample =>
        /\ pc = "preroll1" => startAt + 1 - NextUp + drained <= RingCapacity
        /\ pc = "preroll2" => startAt + 1 - NextUp + drained <= RingCapacity - DrainBudget
        /\ pc \in {"top", "record", "check", "again"} => NextUp > startAt

StreamInv ==
    /\ Runs
    /\ Ordered(Sound) /\ Below(Sound, Min2(NextUp, LastSample))
    /\ Counted
    /\ recording => ~diskFull
    /\ pc = "close" /\ ~diskFull => staging = <<>>
    /\ pc \notin DOMAIN After => drained = 0
    /\ startAt <= captured

\* A sequence without elements is the empty one.
LEMMA NonEmpty == ASSUME NEW s \in Seq(Nat) PROVE s = <<>> <=> Len(s) = 0
  OBVIOUS

\* Joining is associative.
LEMMA Associative ==
    ASSUME NEW s \in Seq(Nat), NEW t \in Seq(Nat), NEW u \in Seq(Nat)
    PROVE  (s \o t) \o u = s \o (t \o u)
  BY ConcatAssociative

\* The elements of a prefix, of a suffix, and of two sequences joined.
LEMMA PrefixIndex ==
    ASSUME NEW s \in Seq(Nat), NEW n \in 0..Len(s), NEW j \in 1..n
    PROVE  SubSeq(s, 1, n)[j] = s[j]
  OBVIOUS

LEMMA SuffixIndex ==
    ASSUME NEW s \in Seq(Nat), NEW n \in 0..Len(s), NEW j \in 1..(Len(s) - n)
    PROVE  SubSeq(s, n + 1, Len(s))[j] = s[n + j]
  OBVIOUS

LEMMA JoinedIndex ==
    ASSUME NEW s \in Seq(Nat), NEW t \in Seq(Nat), NEW i \in 1..(Len(s) + Len(t))
    PROVE  (s \o t)[i] = IF i <= Len(s) THEN s[i] ELSE t[i - Len(s)]
  OBVIOUS

\* The next sample was captured, or is the next to be.
LEMMA NextUpOK ==
    ASSUME RingInv, Runs
    PROVE  NextUp \in Nat /\ NextUp <= captured + 1
  <1>. USE Sizes
  <1>1. CASE ring = <<>>
    BY <1>1 DEF RingInv, NextUp
  <1>2. CASE ring # <<>>
    <2>1. Len(ring) \in Nat /\ Len(ring) >= 1
      BY <1>2, NonEmpty DEF RingInv
    <2>2. NextUp = ring[1] /\ ring[1] \in Nat
      BY <1>2, <2>1 DEF NextUp, RingInv
    <2>3. ring[1] = Min2(NextUp, LastSample)
      BY <2>1, <2>2 DEF Runs, Consecutive
    <2>4. captured = Min2(NextUp + Len(ring) - 1, LastSample) /\ captured \in Nat
      BY DEF Runs, RingInv
    <2>5. NextUp <= LastSample
      BY <2>2, <2>3 DEF Min2
    <2>. QED
      BY <2>1, <2>2, <2>4, <2>5 DEF Min2
  <1>. QED
    BY <1>1, <1>2

\* What is left of a run when its first k are gone is a run.
LEMMA SuffixRuns ==
    ASSUME NEW s \in Seq(Nat), NEW b \in Nat, NEW k \in 0..Len(s), Consecutive(s, b),
           ring' = SubSeq(s, k + 1, Len(s)), captured' \in Nat,
           captured' = Min2(b + Len(s) - 1, LastSample)
    PROVE  Runs' /\ Min2(NextUp', LastSample) = Min2(b + k, LastSample)
  <1>. USE Sizes
  <1>1. ring' \in Seq(Nat) /\ Len(ring') = Len(s) - k
    BY Prefix
  <1>2. \A j \in 1..Len(ring') : ring'[j] = Min2(b + (k + j) - 1, LastSample)
    <2>. SUFFICES ASSUME NEW j \in 1..Len(ring')
                  PROVE  ring'[j] = Min2(b + (k + j) - 1, LastSample)
      OBVIOUS
    <2>1. j \in 1..(Len(s) - k) /\ k + j \in 1..Len(s)
      BY <1>1
    <2>2. ring'[j] = s[k + j]
      BY <2>1, SuffixIndex
    <2>3. s[k + j] = Min2(b + (k + j) - 1, LastSample)
      BY <2>1, Zenon DEF Consecutive
    <2>. QED
      BY <2>2, <2>3
  <1>3. CASE ring' = <<>>
    <2>1. Len(ring') = 0 /\ k = Len(s)
      <3>1. Len(ring') = 0
        BY <1>3, Empty
      <3>. QED
        BY <1>1, <3>1
    <2>2. NextUp' = captured' + 1
      BY <1>3 DEF NextUp
    <2>3. captured' = Min2(NextUp' + Len(ring') - 1, LastSample)
      BY <2>1, <2>2 DEF Min2
    <2>4. Consecutive(ring', NextUp')
      BY <2>1 DEF Consecutive
    <2>5. Min2(NextUp', LastSample) = Min2(b + k, LastSample)
      BY <2>1, <2>2 DEF Min2
    <2>. QED
      BY <2>3, <2>4, <2>5 DEF Runs
  <1>4. CASE ring' # <<>>
    <2>1. 1 \in 1..Len(ring')
      BY <1>1, <1>4, NonEmpty
    <2>2. ring'[1] = Min2(b + (k + 1) - 1, LastSample)
      BY <1>2, <2>1
    <2>3. NextUp' = Min2(b + k, LastSample)
      BY <1>4, <2>2 DEF NextUp
    <2>4. Consecutive(ring', NextUp')
      <3>. SUFFICES ASSUME NEW j \in 1..Len(ring')
                    PROVE  ring'[j] = Min2(NextUp' + j - 1, LastSample)
        BY DEF Consecutive
      <3>1. ring'[j] = Min2(b + (k + j) - 1, LastSample)
        BY <1>2
      <3>. QED
        BY <1>1, <2>3, <3>1 DEF Min2
    <2>5. captured' = Min2(NextUp' + Len(ring') - 1, LastSample)
      <3>1. Len(ring') = Len(s) - k /\ Len(ring') >= 1 /\ Len(s) \in Nat
        BY <1>1, <2>1
      <3>2. CASE b + k <= LastSample
        <4>1. NextUp' = b + k
          BY <2>3, <3>2 DEF Min2
        <4>2. NextUp' + Len(ring') - 1 = (b + k) + (Len(s) - k) - 1
          BY <3>1, <4>1, Zenon
        <4>3. (b + k) + (Len(s) - k) - 1 = b + Len(s) - 1
          BY <3>1
        <4>. QED
          BY <4>2, <4>3, Zenon
      <3>3. CASE b + k > LastSample
        <4>1. NextUp' = LastSample
          BY <2>3, <3>3 DEF Min2
        <4>2. captured' = LastSample
          BY <3>1, <3>3 DEF Min2
        <4>. QED
          BY <3>1, <4>1, <4>2 DEF Min2
      <3>. QED
        BY <3>2, <3>3
    <2>6. Min2(NextUp', LastSample) = Min2(b + k, LastSample)
      BY <2>3 DEF Min2
    <2>. QED
      BY <2>4, <2>5, <2>6 DEF Runs
  <1>. QED
    BY <1>3, <1>4

\* A prefix of ordered sound is ordered.
LEMMA OrderOfPrefix ==
    ASSUME NEW s \in Seq(Nat), NEW p \in Seq(Nat), PrefixOf(p, s),
           NEW b \in 0..LastSample, NEW c \in 0..LastSample, b <= c, Ordered(s), Below(s, b)
    PROVE  Ordered(p) /\ Below(p, c)
  <1>. USE Sizes
  <1>1. 1..Len(p) \subseteq 1..Len(s) /\ \A i \in 1..Len(p) : p[i] = s[i] /\ s[i] \in Nat
    BY DEF PrefixOf
  <1>2. Ordered(p)
    BY <1>1, Zenon DEF Ordered
  <1>3. Below(p, c)
    <2>. SUFFICES ASSUME NEW i \in 1..Len(p) PROVE Before(p[i], c)
      BY DEF Below
    <2>1. Before(s[i], b) /\ p[i] = s[i] /\ s[i] \in Nat
      BY <1>1, Zenon DEF Below
    <2>. QED
      BY <2>1 DEF Before
  <1>. QED
    BY <1>2, <1>3

\* A run that begins where the sound ends continues its order.
LEMMA OrderOfRun ==
    ASSUME NEW s \in Seq(Nat), NEW t \in Seq(Nat), NEW b \in Nat, Consecutive(t, b),
           Ordered(s), Below(s, Min2(b, LastSample))
    PROVE  Ordered(s \o t) /\ Below(s \o t, Min2(b + Len(t), LastSample))
  <1>. USE Sizes
  <1>. DEFINE w == s \o t
  <1>1. Len(w) = Len(s) + Len(t)
    OBVIOUS
  <1>2. \A i \in 1..Len(w) : i <= Len(s) => i \in 1..Len(s) /\ w[i] = s[i] /\ s[i] \in Nat
    OBVIOUS
  <1>3. \A i \in 1..Len(w) : i > Len(s) =>
           i - Len(s) \in 1..Len(t) /\ w[i] = Min2(b + (i - Len(s)) - 1, LastSample)
    <2>. SUFFICES ASSUME NEW i \in 1..Len(w), i > Len(s)
                  PROVE  i - Len(s) \in 1..Len(t)
                         /\ w[i] = Min2(b + (i - Len(s)) - 1, LastSample)
      OBVIOUS
    <2>1. i - Len(s) \in 1..Len(t) /\ w[i] = t[i - Len(s)]
      BY <1>1, JoinedIndex
    <2>. QED
      BY <2>1 DEF Consecutive
  <1>. HIDE DEF w
  <1>4. Ordered(w)
    <2>. SUFFICES ASSUME NEW i \in 1..Len(w), NEW j \in 1..Len(w), i < j
                  PROVE  Before(w[i], w[j])
      BY DEF Ordered
    <2>1. CASE j <= Len(s)
      <3>1. i \in 1..Len(s) /\ j \in 1..Len(s) /\ w[i] = s[i] /\ w[j] = s[j]
        BY <1>1, <1>2, <2>1
      <3>. QED
        BY <3>1, Zenon DEF Ordered
    <2>2. CASE i <= Len(s) /\ j > Len(s)
      <3>1. i \in 1..Len(s) /\ w[i] = s[i] /\ s[i] \in Nat
        BY <1>2, <2>2
      <3>2. j - Len(s) \in 1..Len(t) /\ w[j] = Min2(b + (j - Len(s)) - 1, LastSample)
        BY <1>3, <2>2
      <3>3. Before(s[i], Min2(b, LastSample))
        BY <3>1, Zenon DEF Below
      <3>. QED
        BY <3>1, <3>2, <3>3 DEF Before, Min2
    <2>3. CASE i > Len(s)
      <3>1. w[i] = Min2(b + (i - Len(s)) - 1, LastSample)
            /\ w[j] = Min2(b + (j - Len(s)) - 1, LastSample)
        BY <1>1, <1>3, <2>3
      <3>. QED
        BY <1>1, <3>1 DEF Before, Min2
    <2>. QED
      BY <2>1, <2>2, <2>3
  <1>5. Below(w, Min2(b + Len(t), LastSample))
    <2>. SUFFICES ASSUME NEW i \in 1..Len(w)
                  PROVE  Before(w[i], Min2(b + Len(t), LastSample))
      BY DEF Below
    <2>1. CASE i <= Len(s)
      <3>1. i \in 1..Len(s) /\ w[i] = s[i] /\ s[i] \in Nat
        BY <1>2, <2>1
      <3>2. Before(s[i], Min2(b, LastSample))
        BY <3>1, Zenon DEF Below
      <3>. QED
        BY <3>1, <3>2 DEF Before, Min2
    <2>2. CASE i > Len(s)
      <3>1. i - Len(s) \in 1..Len(t) /\ w[i] = Min2(b + (i - Len(s)) - 1, LastSample)
        BY <1>3, <2>2
      <3>. QED
        BY <3>1 DEF Before, Min2
    <2>. QED
      BY <2>1, <2>2
  <1>. QED
    BY <1>4, <1>5 DEF w

\* The sound is a sequence of numbers.
LEMMA SoundOK == FileInv => Sound \in Seq(Nat)
  BY Joined DEF FileInv, Sound

\* writeSamples puts a beginning of the batch behind the sound, and all of it if the
\* recording goes on.
LEMMA WriteSamplesSound ==
    ASSUME FileInv, maxPcm \in 0..CapSamples, fd, recording => ~diskFull,
           NEW batch \in Seq(Nat), Len(batch) <= ReadSamples, WriteSamples(batch)
    PROVE  /\ PrefixOf(Sound', Sound \o batch)
           /\ recording' => Len(Sound') = Len(Sound) + Len(batch) /\ ~diskFull'
  <1>. USE Sizes
  <1>. DEFINE k == Min2(Len(batch), maxPcm - (pcmTotal + Len(staging)))
              kept == SubSeq(batch, 1, k)
              full == staging \o kept
              m == Min2(ChunkSamples, Len(full))
              head == SubSeq(full, 1, m)
              rest == SubSeq(full, Len(head) + 1, Len(full))
              goesOn == recording /\ Len(kept) = Len(batch)
  <1>1. k \in 0..Len(batch)
    BY DEF FileInv, Min2
  <1>2. \/ diskFull /\ UNCHANGED <<fileVars, recording>>
        \/ ~diskFull /\ staging' = full /\ recording' = goesOn
           /\ UNCHANGED <<pcmTotal, diskFull, fd, take>>
        \/ ~diskFull /\ ChunkWritten(head, rest) /\ recording' = goesOn
        \/ ~diskFull /\ ChunkFailed(head)
    BY Zenon DEF WriteSamples
  <1>. HIDE DEF k
  <1>3. kept \in Seq(Nat) /\ Len(kept) = k
    BY <1>1, Prefix
  <1>4. full \in Seq(Nat) /\ Len(full) = Len(staging) + k
    BY <1>3, Joined DEF FileInv
  <1>5. Sound \in Seq(Nat) /\ Len(Sound \o batch) = Len(Sound) + Len(batch)
    BY SoundOK, Joined
  <1>6. CASE diskFull
    <2>1. UNCHANGED <<fileVars, recording>>
      BY <1>2, <1>6, Zenon
    <2>2. Sound' = Sound
      BY <2>1 DEF Sound, fileVars
    <2>. QED
      BY <1>5, <1>6, <2>1, <2>2 DEF PrefixOf
  <1>7. CASE ~diskFull
    <2>. DEFINE whole == take \o full
    <2>11. take \in Seq(Nat) /\ staging \in Seq(Nat) /\ Sound = take \o staging
      BY <1>7 DEF FileInv, Sound
    <2>12. Len(Sound) = Len(take) + Len(staging)
      BY <2>11, Joined
    <2>1. whole \in Seq(Nat) /\ Len(whole) = Len(Sound) + k
      <3>1. whole \in Seq(Nat) /\ Len(whole) = Len(take) + Len(full)
        BY <1>4, <2>11, Joined
      <3>. HIDE DEF whole, full
      <3>. QED
        BY <1>1, <1>4, <2>11, <2>12, <3>1
    <2>2. \A i \in 1..Len(whole) : whole[i] = (Sound \o batch)[i]
      <3>. SUFFICES ASSUME NEW i \in 1..Len(whole) PROVE whole[i] = (Sound \o batch)[i]
        OBVIOUS
      <3>1. /\ i \in 1..(Len(Sound) + Len(batch)) /\ i \in 1..(Len(take) + Len(full))
            /\ Len(take) \in Nat /\ Len(staging) \in Nat /\ Len(Sound) \in Nat
        BY <1>1, <1>4, <2>11, <2>12, <2>1
      <3>2. whole[i] = IF i <= Len(take) THEN take[i] ELSE full[i - Len(take)]
        BY <1>4, <2>11, <3>1, JoinedIndex
      <3>3. (Sound \o batch)[i] = IF i <= Len(Sound) THEN Sound[i] ELSE batch[i - Len(Sound)]
        BY <1>5, <3>1, JoinedIndex
      <3>4. CASE i <= Len(Sound)
        <4>1. Sound[i] = IF i <= Len(take) THEN take[i] ELSE staging[i - Len(take)]
          BY <2>11, <2>12, <3>1, <3>4, JoinedIndex
        <4>2. i > Len(take) => full[i - Len(take)] = staging[i - Len(take)]
          <5>. SUFFICES ASSUME i > Len(take) PROVE full[i - Len(take)] = staging[i - Len(take)]
            OBVIOUS
          <5>1. i - Len(take) \in 1..(Len(staging) + Len(kept)) /\ i - Len(take) <= Len(staging)
            BY <1>1, <1>3, <2>12, <3>1, <3>4
          <5>. QED
            BY <1>3, <2>11, <5>1, JoinedIndex
        <4>. HIDE DEF whole, full
        <4>3. (Sound \o batch)[i] = Sound[i]
          BY <3>3, <3>4, Zenon
        <4>4. CASE i <= Len(take)
          BY <3>2, <4>1, <4>3, <4>4, Zenon
        <4>5. CASE ~(i <= Len(take))
          <5>1. i > Len(take)
            BY <3>1, <4>5
          <5>. QED
            BY <3>2, <4>1, <4>2, <4>3, <4>5, <5>1, Zenon
        <4>. QED
          BY <4>4, <4>5
      <3>5. CASE i > Len(Sound)
        <4>1. i - Len(take) \in 1..(Len(staging) + Len(kept)) /\ ~(i - Len(take) <= Len(staging))
              /\ ~(i <= Len(take)) /\ i - Len(Sound) \in 1..k
              /\ (i - Len(take)) - Len(staging) = i - Len(Sound)
          BY <1>1, <1>3, <1>4, <2>12, <2>1, <3>1, <3>5
        <4>2. full[i - Len(take)] = kept[(i - Len(take)) - Len(staging)]
          BY <1>3, <2>11, <4>1, JoinedIndex
        <4>3. kept[i - Len(Sound)] = batch[i - Len(Sound)]
          BY <1>1, <4>1, PrefixIndex
        <4>4. ~(i <= Len(Sound))
          BY <3>1, <3>5
        <4>. HIDE DEF whole, full, kept
        <4>. QED
          BY <3>2, <3>3, <4>1, <4>2, <4>3, <4>4, Zenon
      <3>6. i <= Len(Sound) \/ i > Len(Sound)
        BY <3>1
      <3>. QED
        BY <3>4, <3>5, <3>6, Zenon
    <2>3. Len(whole) <= Len(Sound \o batch)
      BY <1>1, <1>5, <2>1
    <2>4. PrefixOf(whole, Sound \o batch)
      BY <2>2, <2>3 DEF PrefixOf
    <2>5. goesOn => Len(whole) = Len(Sound) + Len(batch)
      BY <1>3, <2>1
    <2>6. m \in 0..Len(full)
      BY <1>4 DEF Min2, FileInv
    <2>7. /\ head \in Seq(Nat) /\ Len(head) = m
          /\ rest \in Seq(Nat) /\ Len(rest) = Len(full) - m
      BY <1>4, <2>6, Prefix
    <2>8. CASE staging' = full /\ recording' = goesOn /\ UNCHANGED <<diskFull, take>>
      <3>1. Sound' = whole /\ ~diskFull'
        BY <1>7, <2>8 DEF Sound
      <3>. QED
        BY <2>4, <2>5, <2>8, <3>1, Zenon
    <2>9. CASE ChunkWritten(head, rest) /\ recording' = goesOn
      <3>1. Sound' = (take \o head) \o rest /\ ~diskFull'
        BY <1>7, <2>9 DEF Sound, ChunkWritten
      <3>2. (take \o head) \o rest = whole
        <4>1. head \o rest = full
          <5>1. /\ 1 \in 1..(Len(full) + 1) /\ m \in (1 - 1)..Len(full)
                /\ Len(full) \in m..Len(full)
            BY <1>4, <2>6
          <5>2. SubSeq(full, 1, m) \o SubSeq(full, m + 1, Len(full)) = SubSeq(full, 1, Len(full))
            BY <1>4, <5>1, ConcatAdjacentSubSeq
          <5>3. SubSeq(full, 1, Len(full)) = full
            BY <1>4, SubSeqFull
          <5>. QED
            BY <2>7, <5>2, <5>3, Zenon
        <4>2. (take \o head) \o rest = take \o (head \o rest)
          <5>. HIDE DEF head, rest
          <5>. QED
            BY <2>7, <2>11, Associative
        <4>. QED
          BY <4>1, <4>2
      <3>. QED
        BY <2>4, <2>5, <2>9, <3>1, <3>2, Zenon
    <2>10. CASE ChunkFailed(head)
      <3>1. diskFull' /\ ~recording'
        BY <2>10, Zenon DEF ChunkFailed
      <3>2. PICK n \in 0..m : take' = take \o SubSeq(head, 1, n)
        <4>1. PICK n \in IF HasSpaceForChunk(head) THEN 0..(Len(head) - 1) ELSE {0} :
                 take' = take \o SubSeq(head, 1, n)
          BY <2>10, Zenon DEF ChunkFailed
        <4>. HIDE DEF head, m
        <4>2. n \in 0..m
          BY <2>6, <2>7, <4>1
        <4>. QED
          BY <4>1, <4>2
      <3>3. SubSeq(head, 1, n) \in Seq(Nat) /\ Len(SubSeq(head, 1, n)) = n
        <4>. HIDE DEF head, m
        <4>1. head \in Seq(Nat) /\ n \in 0..Len(head)
          BY <2>7, <3>2
        <4>. QED
          BY <4>1, Prefix
      <3>4. Sound' = take'
        BY <3>1, Zenon DEF Sound
      <3>5. take' \in Seq(Nat) /\ Len(take') = Len(take) + n /\ Len(take') <= Len(whole)
        <4>1. take' \in Seq(Nat) /\ Len(take') = Len(take) + n
          BY <2>11, <3>2, <3>3, Joined
        <4>2. Len(whole) = Len(take) + Len(full)
          BY <1>4, <2>11, Joined
        <4>. HIDE DEF whole, full, m
        <4>. QED
          BY <1>4, <2>6, <2>11, <4>1, <4>2
      <3>6. \A i \in 1..Len(take') : take'[i] = whole[i]
        <4>. SUFFICES ASSUME NEW i \in 1..Len(take') PROVE take'[i] = whole[i]
          OBVIOUS
        <4>1. i \in 1..(Len(take) + n) /\ i \in 1..(Len(take) + Len(full)) /\ n \in 0..Len(full)
          <5>. HIDE DEF full, m
          <5>. QED
            BY <1>4, <2>6, <2>11, <3>5
        <4>2. take'[i] = IF i <= Len(take) THEN take[i] ELSE SubSeq(head, 1, n)[i - Len(take)]
          BY <2>11, <3>2, <3>3, <4>1, JoinedIndex
        <4>3. whole[i] = IF i <= Len(take) THEN take[i] ELSE full[i - Len(take)]
          BY <1>4, <2>11, <4>1, JoinedIndex
        <4>4. ~(i <= Len(take)) => SubSeq(head, 1, n)[i - Len(take)] = full[i - Len(take)]
          <5>. SUFFICES ASSUME ~(i <= Len(take))
                        PROVE  SubSeq(head, 1, n)[i - Len(take)] = full[i - Len(take)]
            OBVIOUS
          <5>1. i - Len(take) \in 1..n /\ i - Len(take) \in 1..m /\ n \in 0..Len(head)
            <6>. HIDE DEF full, m, head
            <6>. QED
              BY <2>6, <2>7, <2>11, <4>1
          <5>2. SubSeq(head, 1, n)[i - Len(take)] = head[i - Len(take)]
            BY <2>7, <5>1, PrefixIndex
          <5>3. head[i - Len(take)] = full[i - Len(take)]
            BY <1>4, <2>6, <5>1, PrefixIndex
          <5>. QED
            BY <5>2, <5>3
        <4>. HIDE DEF whole, full, head
        <4>5. CASE i <= Len(take)
          BY <4>2, <4>3, <4>5, Zenon
        <4>6. CASE ~(i <= Len(take))
          BY <4>2, <4>3, <4>4, <4>6, Zenon
        <4>. QED
          BY <4>5, <4>6
      <3>. HIDE DEF whole
      <3>7. PrefixOf(Sound', Sound \o batch)
        <4>1. Len(take') <= Len(Sound \o batch)
          BY <2>1, <2>3, <3>5, <1>5, Sizes
        <4>2. \A i \in 1..Len(take') : i \in 1..Len(whole)
          BY <2>1, <3>5
        <4>. QED
          BY <2>2, <3>4, <3>6, <4>1, <4>2, Zenon DEF PrefixOf
      <3>. QED
        BY <3>1, <3>7
    <2>. QED
      BY <1>2, <1>7, <2>8, <2>9, <2>10, Zenon
  <1>. QED
    BY <1>6, <1>7

-----------------------------------------------------------------------------
(* Every step keeps the order of the samples.                                  *)

\* Half the ring twice is the whole ring.
RingIsEven == RingCapacity <= DrainBudget + DrainBudget

NextUpRises == Min2(NextUp, LastSample) <= Min2(NextUp', LastSample)

\* A ring that is left alone is the same run.
LEMMA RingSame ==
    ASSUME RingInv, Runs, UNCHANGED <<ring, captured>>
    PROVE  Runs' /\ NextUp' = NextUp /\ NextUpRises
  <1>1. NextUp' = NextUp
    BY Zenon DEF NextUp
  <1>2. Runs'
    BY <1>1, Zenon DEF Runs, Consecutive
  <1>3. NextUpRises
    BY <1>1, NextUpOK, Sizes DEF NextUpRises, Min2
  <1>. QED
    BY <1>1, <1>2, <1>3

\* The successor, for a number that may be primed.
LEMMA Successor ==
    \A n, m \in Nat : n + 1 \in Nat /\ (n + 1) + 0 - 1 = n /\ (m <= n => m + 1 <= n + 1)
  OBVIOUS

\* A ring that is emptied loses its run, and the next number rises.
LEMMA RingEmptied ==
    ASSUME RingInv, Runs, ring' = <<>>,
           captured' = captured \/ captured' = Min2(captured + 1, LastSample)
    PROVE  Runs' /\ NextUpRises /\ captured <= captured'
  <1>. USE Sizes
  <1>1. captured' \in 0..LastSample /\ captured \in 0..LastSample /\ captured <= captured'
    BY DEF RingInv, Min2
  <1>2. NextUp' = captured' + 1
    BY Zenon DEF NextUp
  <1>3. Len(ring') = 0
    BY Empty
  <1>4. captured' = Min2(NextUp' + Len(ring') - 1, LastSample)
    <2>1. NextUp' + Len(ring') - 1 = captured'
      <3>1. NextUp' + Len(ring') - 1 = (captured' + 1) + 0 - 1
        BY <1>2, <1>3, Zenon
      <3>2. (captured' + 1) + 0 - 1 = captured'
        <4>1. captured' \in Nat
          BY <1>1
        <4>. QED
          BY <4>1, Successor, Zenon
      <3>. QED
        BY <3>1, <3>2, Zenon
    <2>2. Min2(captured', LastSample) = captured'
      BY <1>1 DEF Min2
    <2>. QED
      BY <2>1, <2>2, Zenon
  <1>5. Consecutive(ring', NextUp')
    BY <1>3 DEF Consecutive
  <1>6. NextUpRises
    <2>1. NextUp \in Nat /\ NextUp <= captured + 1
      BY NextUpOK
    <2>2. NextUp' \in Nat /\ NextUp <= NextUp'
      <3>1. captured' \in Nat /\ captured \in Nat
        BY <1>1
      <3>2. captured' + 1 \in Nat /\ captured + 1 \in Nat /\ captured + 1 <= captured' + 1
        BY <1>1, <3>1, Successor, Zenon
      <3>3. \A n, m, k \in Nat : n <= m /\ m <= k => n <= k
        OBVIOUS
      <3>4. NextUp <= captured' + 1
        BY <2>1, <3>2, <3>3, Zenon
      <3>. QED
        BY <1>2, <3>2, <3>4, Zenon
    <2>. QED
      BY <2>1, <2>2 DEF NextUpRises, Min2
  <1>. QED
    BY <1>1, <1>4, <1>5, <1>6 DEF Runs

\* Trivial prefixes.
LEMMA SamePrefix == ASSUME NEW s \in Seq(Nat) PROVE PrefixOf(s, s)
  BY DEF PrefixOf

LEMMA EmptyPrefix == ASSUME NEW s \in Seq(Nat) PROVE PrefixOf(<<>>, s)
  BY Empty DEF PrefixOf

\* The next number, after a step.
LEMMA NextUpPrimed == ASSUME RingInv' PROVE NextUp' \in Nat
  <1>. USE Sizes
  <1>1. CASE ring' = <<>>
    <2>1. NextUp' = captured' + 1
      BY <1>1, Zenon DEF NextUp
    <2>2. captured' \in 0..LastSample
      BY Zenon DEF RingInv
    <2>3. captured' \in Nat
      BY <2>2
    <2>4. captured' + 1 \in Nat
      BY <2>3, Successor, Zenon
    <2>. QED
      BY <2>1, <2>4, Zenon
  <1>2. CASE ring' # <<>>
    <2>1. 1 \in 1..Len(ring') /\ ring' \in Seq(Nat)
      BY <1>2, NonEmpty DEF RingInv
    <2>2. NextUp' = ring'[1]
      BY <1>2, Zenon DEF NextUp
    <2>. QED
      BY <2>1, <2>2
  <1>. QED
    BY <1>1, <1>2

\* Sound that is only shortened, while the numbers rise, keeps its order.
LEMMA OrderKept ==
    ASSUME FileInv, FileInv', RingInv, RingInv', Runs, Runs', NextUpRises,
           Ordered(Sound), Below(Sound, Min2(NextUp, LastSample)), PrefixOf(Sound', Sound)
    PROVE  Ordered(Sound') /\ Below(Sound', Min2(NextUp', LastSample))
  <1>. USE Sizes
  <1>1. Sound \in Seq(Nat)
    BY SoundOK
  <1>2. Sound' \in Seq(Nat)
    BY Joined DEF FileInv, Sound
  <1>3. NextUp \in Nat
    BY NextUpOK
  <1>4. NextUp' \in Nat
    BY NextUpPrimed
  <1>5. Min2(NextUp, LastSample) \in 0..LastSample /\ Min2(NextUp', LastSample) \in 0..LastSample
    BY <1>3, <1>4 DEF Min2
  <1>. QED
    BY <1>1, <1>2, <1>5, OrderOfPrefix DEF NextUpRises

\* Steps that leave the samples, the sound and the recording alone.
LEMMA SoundAlone ==
    ASSUME IInv, IInv', StreamInv,
           UNCHANGED <<ring, captured, dropped, startAt, firstAt, diskFull, take, staging>>,
           recording' => recording, pc' \notin DOMAIN After => drained' = 0,
           pc' = "close" /\ ~diskFull => staging = <<>>
    PROVE  StreamInv'
  <1>1. FileInv /\ FileInv' /\ RingInv /\ RingInv'
    BY DEF IInv
  <1>2. Runs' /\ NextUp' = NextUp /\ NextUpRises
    BY <1>1, RingSame DEF StreamInv
  <1>3. Sound' = Sound
    BY Zenon DEF Sound
  <1>4. Ordered(Sound') /\ Below(Sound', Min2(NextUp', LastSample))
    BY <1>2, <1>3, Zenon DEF StreamInv
  <1>5. Counted'
    BY <1>2, <1>3, Zenon DEF StreamInv, Counted
  <1>. QED
    BY <1>2, <1>4, <1>5, Zenon DEF StreamInv

\* At power-on there is no sound.
LEMMA StreamInit == Init => StreamInv /\ Preroll
  <1>. SUFFICES ASSUME Init PROVE StreamInv /\ Preroll
    OBVIOUS
  <1>. USE Sizes, Empty
  <1>1. captured = 0 /\ ring = <<>> /\ ~recording /\ ~diskFull /\ take = <<>> /\ staging = <<>>
        /\ pc = "top" /\ drained = 0 /\ startAt = 0
    BY DEF Init, RecorderInit
  <1>2. Runs
    BY <1>1 DEF Runs, NextUp, Consecutive, Min2
  <1>3. Len(Sound) = 0
    BY <1>1 DEF Sound
  <1>4. Ordered(Sound) /\ Below(Sound, Min2(NextUp, LastSample))
    BY <1>3 DEF Ordered, Below
  <1>. QED
    BY <1>1, <1>2, <1>4 DEF StreamInv, Counted, Preroll

\* Arming empties the ring of what was captured before.
LEMMA PassStream == IInv /\ IInv' /\ StreamInv /\ Pass => StreamInv' /\ (Preroll => Preroll')
  <1>. SUFFICES ASSUME IInv, IInv', StreamInv, Pass PROVE StreamInv' /\ (Preroll => Preroll')
    OBVIOUS
  <1>. USE Sizes
  <1>1. /\ UNCHANGED <<inRead, recording, diskFull, staging, pcmTotal, maxPcm, fd, take, startAt,
                       firstAt, mode, drained>>
        /\ pc = "top"
    BY Zenon DEF Pass, startVars
  <1>2. PICK allowed \in BOOLEAN :
           pc' = IF justHeld' /\ allowed /\ mode = "IDLE" /\ ~recording THEN "start"
                 ELSE IF mode = "RECORDING" THEN "record" ELSE "top"
    BY Zenon DEF Pass
  <1>3. pc' \in {"start", "record", "top"} /\ drained' = 0 /\ (pc' = "start" => ~recording')
    BY <1>1, <1>2 DEF StreamInv, After
  <1>4. Arm \/ (Disarm /\ UNCHANGED captured)
    BY Zenon DEF Pass
  <1>5. CASE UNCHANGED <<ring, captured, dropped>>
    <2>1. StreamInv'
      BY <1>1, <1>3, <1>5, SoundAlone
    <2>2. NextUp' = NextUp
      BY <1>5, Zenon DEF NextUp
    <2>. QED
      BY <1>1, <1>3, <2>1, <2>2 DEF Preroll
  <1>6. CASE /\ ~recording /\ ring' = <<>>
             /\ captured' = captured \/ captured' = Min2(captured + 1, LastSample)
    <2>1. FileInv /\ FileInv' /\ RingInv /\ RingInv'
      BY DEF IInv
    <2>2. Runs' /\ NextUpRises /\ captured <= captured'
      BY <1>6, <2>1, RingEmptied DEF StreamInv
    <2>3. Sound' = Sound
      BY <1>1, Zenon DEF Sound
    <2>4. PrefixOf(Sound', Sound)
      BY <2>1, <2>3, SoundOK, SamePrefix
    <2>5. Ordered(Sound') /\ Below(Sound', Min2(NextUp', LastSample))
      BY <2>1, <2>2, <2>4, OrderKept DEF StreamInv
    <2>6. ~recording'
      BY <1>1, <1>6
    <2>7. Counted' /\ Preroll'
      BY <2>6, Zenon DEF Counted, Preroll
    <2>8. startAt' <= captured'
      BY <1>1, <2>1, <2>2 DEF StreamInv, RingInv
    <2>. QED
      BY <1>3, <2>2, <2>5, <2>6, <2>7, <2>8 DEF StreamInv
  <1>. QED
    BY <1>4, <1>5, <1>6, Zenon DEF Arm, Disarm

\* start() begins a new sound with what the ring holds.
LEMMA StartStream == IInv /\ IInv' /\ StreamInv /\ Start => StreamInv' /\ Preroll'
  <1>. SUFFICES ASSUME IInv, IInv', StreamInv, Start PROVE StreamInv' /\ Preroll'
    OBVIOUS
  <1>. USE Sizes
  <1>1. FileInv /\ FileInv' /\ RingInv /\ RingInv'
    BY DEF IInv
  <1>2. pc = "start" /\ drained' = 0
    BY DEF Start, StreamInv, After
  <1>3. Sound' = <<>>
    <2>1. take' = <<>> /\ staging' = <<>>
      BY Zenon DEF Start, StartOk, StartFail, CleanupRecording
    <2>. QED
      BY <2>1, Empty DEF Sound
  <1>4. Ordered(Sound') /\ Below(Sound', Min2(NextUp', LastSample))
    BY <1>3, Empty DEF Ordered, Below
  <1>5. CASE StartOk /\ mode' = "RECORDING" /\ pc' = "preroll1"
    <2>1. /\ UNCHANGED <<ring, captured>> /\ diskFull' = FALSE /\ startAt' = captured
          /\ firstAt' = NextUp /\ dropped' = 0
      BY <1>5, Zenon DEF StartOk
    <2>2. Runs' /\ NextUp' = NextUp
      BY <1>1, <2>1, RingSame DEF StreamInv
    <2>3. Counted'
      <3>1. Len(Sound') = 0
        BY <1>3, Empty
      <3>2. Min2(NextUp, LastSample) - NextUp - 0 <= 0
        BY <1>1, NextUpOK DEF StreamInv, Min2
      <3>3. Min2(NextUp', LastSample) - firstAt' - Len(Sound') <= dropped'
        BY <2>1, <2>2, <3>1, <3>2, Zenon
      <3>4. \A i \in 1..Len(Sound') : Sound'[i] - firstAt' + 1 - i <= dropped'
        BY <3>1
      <3>. QED
        BY <3>3, <3>4, Zenon DEF Counted
    <2>4. NextUp < LastSample => captured + 1 - NextUp <= RingCapacity
      BY <1>1, NextUpOK DEF StreamInv, Runs, RingInv, Min2
    <2>5. Preroll'
      BY <1>2, <1>5, <2>1, <2>2, <2>4, NextUpOK, <1>1 DEF Preroll, RingInv, StreamInv
    <2>6. startAt' <= captured'
      BY <1>1, <2>1 DEF RingInv
    <2>. QED
      BY <1>2, <1>4, <1>5, <2>1, <2>2, <2>3, <2>5, <2>6 DEF StreamInv
  <1>6. CASE StartFail /\ mode' = "IDLE" /\ pc' = "top"
    <2>1. ~recording /\ UNCHANGED <<captured, recording, startAt>> /\ ring' = <<>>
      BY <1>6, Zenon DEF StartFail, Disarm, startVars
    <2>2. Runs'
      BY <1>1, <2>1, RingEmptied DEF StreamInv
    <2>3. Counted' /\ Preroll'
      BY <2>1, Zenon DEF Counted, Preroll
    <2>4. startAt' <= captured'
      BY <2>1 DEF StreamInv
    <2>. QED
      BY <1>2, <1>4, <1>6, <2>1, <2>2, <2>3, <2>4 DEF StreamInv
  <1>. QED
    BY <1>5, <1>6, Zenon DEF Start

\* Two drains of half the ring each make up the speech from before the hold.
LEMMA DrainEndStream ==
    IInv /\ IInv' /\ StreamInv /\ DrainEnd => StreamInv' /\ (RingIsEven /\ Preroll => Preroll')
  <1>. SUFFICES ASSUME IInv, IInv', StreamInv, DrainEnd
                PROVE  StreamInv' /\ (RingIsEven /\ Preroll => Preroll')
    OBVIOUS
  <1>. USE Sizes
  <1>1. /\ UNCHANGED <<recorderVars, buttonVars, mode>> /\ drained' = 0 /\ pc \in DOMAIN After
        /\ pc' = IF pc = "stop" /\ ~CanDrain THEN "rest" ELSE After[pc]
        /\ ~CanDrain \/ drained >= DrainBudget
    BY Zenon DEF DrainEnd
  <1>2. UNCHANGED <<ring, captured, dropped, startAt, firstAt, diskFull, take, staging, recording,
                    fd>>
    BY <1>1, Zenon DEF recorderVars, startVars
  <1>3. pc' # "close" /\ pc' # "preroll1" /\ (pc' = "preroll2" => pc = "preroll1")
        /\ (pc' = "record" => pc = "preroll2") /\ (pc' = "check" => pc = "record")
        /\ (pc' = "top" => pc = "again") /\ pc' # "again"
    BY <1>1 DEF After
  <1>4. StreamInv'
    BY <1>1, <1>2, <1>3, SoundAlone
  <1>5. ASSUME RingIsEven, Preroll PROVE Preroll'
    <2>. SUFFICES ASSUME recording, NextUp < LastSample
                  PROVE  /\ pc' = "preroll2" =>
                                startAt + 1 - NextUp + 0 <= RingCapacity - DrainBudget
                         /\ pc' \in {"top", "record", "check", "again"} => NextUp > startAt
      <3>1. NextUp' = NextUp
        BY <1>2, Zenon DEF NextUp
      <3>. QED
        BY <1>1, <1>2, <1>3, <3>1 DEF Preroll
    <2>1. startAt \in Nat /\ drained \in Nat /\ NextUp \in Nat /\ startAt <= captured
          /\ captured \in Nat
      BY NextUpOK DEF IInv, RingInv, StreamInv
    <2>2. CASE drained >= DrainBudget
      BY <1>3, <1>5, <2>1, <2>2 DEF Preroll, RingIsEven
    <2>3. CASE ~CanDrain
      <3>1. NextUp = captured + 1
        BY <2>3 DEF CanDrain, NextUp, IInv, Control
      <3>2. DrainBudget <= RingCapacity
        BY DEF DrainBudget
      <3>. QED
        BY <2>1, <3>1, <3>2
    <2>. QED
      BY <1>1, <2>2, <2>3
  <1>. QED
    BY <1>4, <1>5

\* handleRecording() leaves the samples alone.
LEMMA CheckStream == IInv /\ IInv' /\ StreamInv /\ Check => StreamInv' /\ (Preroll => Preroll')
  <1>. SUFFICES ASSUME IInv, IInv', StreamInv, Check PROVE StreamInv' /\ (Preroll => Preroll')
    OBVIOUS
  <1>1. /\ UNCHANGED <<captured, inRead, ring, dropped, diskFull, staging, pcmTotal, maxPcm, fd,
                       take, startAt, firstAt, buttonVars, mode, drained>>
        /\ pc = "check"
        /\ \/ capturing' = FALSE /\ recording' = FALSE /\ pc' = "stop"
           \/ pc' = "again" /\ UNCHANGED <<capturing, recording>>
    BY Zenon DEF Check, startVars
  <1>2. StreamInv'
    BY <1>1, SoundAlone DEF After
  <1>3. NextUp' = NextUp
    BY <1>1, Zenon DEF NextUp
  <1>4. Preroll => Preroll'
    BY <1>1, <1>3 DEF Preroll
  <1>. QED
    BY <1>2, <1>4

\* The end of stop() and the end of an upload only shorten the sound.
LEMMA ShortenedStream ==
    ASSUME IInv, IInv', StreamInv, UNCHANGED <<ring, captured>>, startAt' \in {startAt, 0},
           ~recording',
           PrefixOf(Sound', Sound), pc' \notin DOMAIN After => drained' = 0,
           pc' = "close" /\ ~diskFull' => staging' = <<>>
    PROVE  StreamInv' /\ Preroll'
  <1>1. FileInv /\ FileInv' /\ RingInv /\ RingInv'
    BY DEF IInv
  <1>2. Runs' /\ NextUpRises
    BY <1>1, RingSame DEF StreamInv
  <1>3. Ordered(Sound') /\ Below(Sound', Min2(NextUp', LastSample))
    BY <1>1, <1>2, OrderKept DEF StreamInv
  <1>4. Counted' /\ Preroll'
    BY Zenon DEF Counted, Preroll
  <1>5. startAt' <= captured'
    BY <1>1 DEF StreamInv, RingInv
  <1>. QED
    BY <1>2, <1>3, <1>4, <1>5 DEF StreamInv

\* The last chunk is part of the sound already; a failed one shortens it.
LEMMA StopRestStream == IInv /\ IInv' /\ StreamInv /\ StopRest => StreamInv' /\ Preroll'
  <1>. SUFFICES ASSUME IInv, IInv', StreamInv, StopRest PROVE StreamInv' /\ Preroll'
    OBVIOUS
  <1>. USE Sizes
  <1>1. /\ UNCHANGED <<captured, ring, startAt, drained>> /\ pc = "rest" /\ pc' = "close"
    BY Zenon DEF StopRest, WriteRest, startVars
  <1>2. mode = "RECORDING" /\ ~recording /\ drained = 0
    BY <1>1 DEF IInv, Control, StreamInv, After
  <1>3. FileInv /\ Sound \in Seq(Nat) /\ take \in Seq(Nat) /\ staging \in Seq(Nat)
    BY SoundOK DEF IInv, FileInv
  <1>4. \/ (staging = <<>> \/ diskFull) /\ UNCHANGED <<fileVars, recording>>
        \/ ~diskFull /\ ChunkWritten(staging, <<>>) /\ UNCHANGED recording
        \/ ~diskFull /\ ChunkFailed(staging)
    BY Zenon DEF StopRest, WriteRest
  <1>5. CASE (staging = <<>> \/ diskFull) /\ UNCHANGED <<fileVars, recording>>
    <2>1. UNCHANGED <<take, staging, diskFull>> /\ ~recording'
      BY <1>2, <1>5, Zenon DEF fileVars
    <2>2. Sound' = Sound
      BY <2>1, Zenon DEF Sound
    <2>3. PrefixOf(Sound', Sound)
      BY <1>3, <2>2, SamePrefix
    <2>. QED
      BY <1>1, <1>2, <1>5, <2>1, <2>3, ShortenedStream
  <1>6. CASE ~diskFull /\ ChunkWritten(staging, <<>>) /\ UNCHANGED recording
    <2>1. take' = take \o staging /\ staging' = <<>> /\ ~diskFull' /\ ~recording'
      BY <1>2, <1>6 DEF ChunkWritten
    <2>2. Sound = take \o staging /\ Sound' = (take \o staging) \o <<>>
      BY <1>6, <2>1 DEF Sound
    <2>3. Sound' = Sound
      BY <1>3, <2>2, ConcatEmptySeq
    <2>4. PrefixOf(Sound', Sound)
      BY <1>3, <2>3, SamePrefix
    <2>. QED
      BY <1>1, <1>2, <2>1, <2>4, ShortenedStream
  <1>7. CASE ~diskFull /\ ChunkFailed(staging)
    <2>1. diskFull' /\ ~recording'
      BY <1>7, Zenon DEF ChunkFailed
    <2>2. PICK n \in 0..Len(staging) : take' = take \o SubSeq(staging, 1, n)
      <3>1. PICK n \in IF HasSpaceForChunk(staging) THEN 0..(Len(staging) - 1) ELSE {0} :
               take' = take \o SubSeq(staging, 1, n)
        BY <1>7, Zenon DEF ChunkFailed
      <3>2. n \in 0..Len(staging)
        BY <1>3, <3>1
      <3>. QED
        BY <3>1, <3>2
    <2>3. SubSeq(staging, 1, n) \in Seq(Nat) /\ Len(SubSeq(staging, 1, n)) = n
      BY <1>3, Prefix
    <2>4. Sound = take \o staging /\ Sound' = take \o SubSeq(staging, 1, n)
      BY <1>7, <2>1, <2>2 DEF Sound
    <2>5. Len(Sound) = Len(take) + Len(staging) /\ Len(Sound') = Len(take) + n
      BY <1>3, <2>3, <2>4, Joined
    <2>6. \A i \in 1..Len(Sound') : Sound'[i] = Sound[i]
      <3>. SUFFICES ASSUME NEW i \in 1..Len(Sound') PROVE Sound'[i] = Sound[i]
        OBVIOUS
      <3>1. i \in 1..(Len(take) + n) /\ i \in 1..(Len(take) + Len(staging)) /\ Len(take) \in Nat
        BY <1>3, <2>5
      <3>2. Sound'[i] = IF i <= Len(take) THEN take[i]
                        ELSE SubSeq(staging, 1, n)[i - Len(take)]
        BY <1>3, <2>3, <2>4, <3>1, JoinedIndex
      <3>3. Sound[i] = IF i <= Len(take) THEN take[i] ELSE staging[i - Len(take)]
        BY <1>3, <2>4, <3>1, JoinedIndex
      <3>4. CASE i <= Len(take)
        BY <3>2, <3>3, <3>4, Zenon
      <3>5. CASE ~(i <= Len(take))
        <4>1. i - Len(take) \in 1..n
          BY <3>1, <3>5
        <4>2. SubSeq(staging, 1, n)[i - Len(take)] = staging[i - Len(take)]
          BY <1>3, <4>1, PrefixIndex
        <4>. QED
          BY <3>2, <3>3, <3>5, <4>2, Zenon
      <3>. QED
        BY <3>4, <3>5
    <2>7. PrefixOf(Sound', Sound)
      BY <1>3, <2>5, <2>6 DEF PrefixOf
    <2>. QED
      BY <1>1, <1>2, <2>1, <2>7, ShortenedStream
  <1>. QED
    BY <1>4, <1>5, <1>6, <1>7

\* The file that is closed may be shorter than what was written.
LEMMA StopCloseStream == IInv /\ IInv' /\ StreamInv /\ StopClose => StreamInv' /\ Preroll'
  <1>. SUFFICES ASSUME IInv, IInv', StreamInv, StopClose PROVE StreamInv' /\ Preroll'
    OBVIOUS
  <1>. USE Sizes
  <1>1. /\ UNCHANGED <<captured, ring, drained, recording, diskFull>>
        /\ pc = "close" /\ pc' = "top" /\ startAt' = 0
    BY Zenon DEF StopClose
  <1>2. ~recording' /\ drained' = 0
    BY <1>1 DEF IInv, Control, StreamInv, After
  <1>3. FileInv /\ Sound \in Seq(Nat) /\ take \in Seq(Nat)
    BY SoundOK DEF IInv, FileInv
  <1>4. Sound = take
    <2>1. CASE diskFull
      BY <2>1 DEF Sound
    <2>2. CASE ~diskFull
      <3>1. Sound = take \o <<>>
        BY <1>1, <2>2 DEF StreamInv, Sound
      <3>. QED
        BY <1>3, <3>1, ConcatEmptySeq
    <2>. QED
      BY <2>1, <2>2
  <1>5. PICK size \in 0..Len(take) :
           \/ CloseAndCount(size) /\ UNCHANGED staging
           \/ CleanupRecording
    <2>1. (IF FlashFails THEN 0..Len(take) ELSE {Len(take)}) \subseteq 0..Len(take)
      BY <1>3
    <2>. QED
      BY <2>1, Zenon DEF StopClose
  <1>6. PrefixOf(Sound', Sound)
    <2>1. CASE CloseAndCount(size) /\ UNCHANGED staging
      <3>1. take' = SubSeq(take, 1, size) /\ staging' = staging /\ diskFull' = diskFull
        BY <1>1, <2>1, Zenon DEF CloseAndCount
      <3>2. take' \in Seq(Nat) /\ Len(take') = size
        BY <1>3, <3>1, Prefix
      <3>3. Sound' = take'
        <4>1. CASE diskFull
          BY <3>1, <4>1 DEF Sound
        <4>2. CASE ~diskFull
          <5>1. Sound' = take' \o <<>>
            BY <1>1, <3>1, <4>2 DEF StreamInv, Sound
          <5>. QED
            BY <3>2, <5>1, ConcatEmptySeq
        <4>. QED
          BY <4>1, <4>2
      <3>4. \A i \in 1..size : SubSeq(take, 1, size)[i] = take[i]
        BY <1>3, PrefixIndex
      <3>. QED
        BY <1>3, <1>4, <3>1, <3>2, <3>3, <3>4 DEF PrefixOf
    <2>2. CASE CleanupRecording
      <3>1. take' = <<>> /\ staging' = <<>>
        BY <2>2, Zenon DEF CleanupRecording
      <3>2. Sound' = <<>>
        BY <3>1, Empty DEF Sound
      <3>. QED
        BY <1>3, <3>2, EmptyPrefix
    <2>. QED
      BY <1>5, <2>1, <2>2
  <1>. QED
    BY <1>1, <1>2, <1>6, ShortenedStream

\* The end of an upload leaves the take, or deletes it.
LEMMA UploadEndStream == IInv /\ IInv' /\ StreamInv /\ UploadEnd => StreamInv' /\ Preroll'
  <1>. SUFFICES ASSUME IInv, IInv', StreamInv, UploadEnd PROVE StreamInv' /\ Preroll'
    OBVIOUS
  <1>. USE Sizes
  <1>1. /\ UNCHANGED <<captured, ring, startAt, drained, recording, diskFull, pc>>
        /\ pc = "top" /\ mode = "UPLOADING"
    BY Zenon DEF UploadEnd, startVars
  <1>2. ~recording' /\ drained' = 0
    BY <1>1 DEF IInv, Control, StreamInv, After
  <1>3. FileInv /\ Sound \in Seq(Nat) /\ take \in Seq(Nat) /\ staging \in Seq(Nat)
    BY SoundOK DEF IInv, FileInv
  <1>4. staging' = <<>> /\ (take' = take \/ take' = <<>>)
    BY Zenon DEF UploadEnd, CleanupRecording
  <1>5. Sound' = take'
    <2>1. take' \in Seq(Nat)
      BY <1>3, <1>4, Empty
    <2>2. take' \o <<>> = take'
      BY <2>1, ConcatEmptySeq
    <2>. QED
      BY <1>4, <2>2 DEF Sound
  <1>6. PrefixOf(take, Sound)
    <2>1. CASE diskFull
      BY <1>3, <2>1, SamePrefix DEF Sound
    <2>2. CASE ~diskFull
      <3>1. Sound = take \o staging
        BY <2>2 DEF Sound
      <3>2. Len(Sound) = Len(take) + Len(staging) /\ Len(take) \in Nat /\ Len(staging) \in Nat
        BY <1>3, <3>1, Joined
      <3>3. \A i \in 1..Len(take) : take[i] = Sound[i]
        <4>. SUFFICES ASSUME NEW i \in 1..Len(take) PROVE take[i] = Sound[i]
          OBVIOUS
        <4>1. i \in 1..(Len(take) + Len(staging)) /\ i <= Len(take)
          BY <3>2
        <4>. QED
          BY <1>3, <3>1, <4>1, JoinedIndex
      <3>. QED
        BY <3>2, <3>3 DEF PrefixOf
    <2>. QED
      BY <2>1, <2>2
  <1>7. PrefixOf(Sound', Sound)
    <2>1. CASE take' = take
      BY <1>5, <1>6, <2>1, Zenon
    <2>2. CASE take' = <<>>
      BY <1>3, <1>5, <2>2, EmptyPrefix
    <2>. QED
      BY <1>4, <2>1, <2>2
  <1>. QED
    BY <1>1, <1>2, <1>7, ShortenedStream

\* A drain moves the head of the ring behind the sound.
LEMMA DrainStream == IInv /\ IInv' /\ StreamInv /\ Drain => StreamInv' /\ (Preroll => Preroll')
  <1>. SUFFICES ASSUME IInv, IInv', StreamInv, Drain PROVE StreamInv' /\ (Preroll => Preroll')
    OBVIOUS
  <1>. USE Sizes
  <1>. DEFINE n == Min2(ReadSamples, Len(ring))
              batch == SubSeq(ring, 1, n)
  <1>1. /\ UNCHANGED <<buttonVars, pc, mode>> /\ fd /\ ring # <<>> /\ pc \in DOMAIN After
        /\ PopAndWrite(n) /\ drained' = drained + n
    BY Zenon DEF Drain, CanDrain
  <1>2. ring \in Seq(Nat) /\ Len(ring) \in Nat /\ Len(ring) >= 1
    BY <1>1, NonEmpty DEF IInv, RingInv
  <1>3. n \in 0..Len(ring) /\ n <= ReadSamples /\ n >= 1
    BY <1>2 DEF Min2
  <1>. HIDE DEF n
  <1>4. /\ ring' = SubSeq(ring, n + 1, Len(ring)) /\ WriteSamples(batch)
        /\ UNCHANGED <<captured, inRead, dropped, capturing, maxPcm, startAt, firstAt>>
    BY <1>1, Zenon DEF PopAndWrite, startVars
  <1>5. batch \in Seq(Nat) /\ Len(batch) = n
    BY <1>2, <1>3, Prefix
  <1>6. FileInv /\ FileInv' /\ RingInv /\ RingInv' /\ Runs /\ NextUp \in Nat
        /\ Consecutive(ring, NextUp)
    BY NextUpOK DEF IInv, StreamInv, Runs
  <1>7. Runs' /\ Min2(NextUp', LastSample) = Min2(NextUp + n, LastSample)
    <2>1. captured' = Min2(NextUp + Len(ring) - 1, LastSample) /\ captured' \in Nat
      BY <1>4, <1>6 DEF Runs, RingInv
    <2>. QED
      BY <1>2, <1>3, <1>4, <1>6, <2>1, SuffixRuns
  <1>8. Consecutive(batch, NextUp)
    <2>. SUFFICES ASSUME NEW j \in 1..n PROVE batch[j] = Min2(NextUp + j - 1, LastSample)
      BY <1>5 DEF Consecutive
    <2>1. batch[j] = ring[j]
      BY <1>2, <1>3, PrefixIndex
    <2>2. j \in 1..Len(ring)
      BY <1>3
    <2>. QED
      BY <1>6, <2>1, <2>2, Zenon DEF Consecutive
  <1>9. /\ PrefixOf(Sound', Sound \o batch)
        /\ recording' => Len(Sound') = Len(Sound) + n /\ ~diskFull'
    BY <1>1, <1>3, <1>4, <1>5, <1>6, WriteSamplesSound DEF IInv, StreamInv
  <1>10. recording' => recording
    BY <1>1, <1>4, WriteSamplesFlags DEF IInv
  <1>. HIDE DEF batch
  <1>11. Sound \in Seq(Nat) /\ Sound' \in Seq(Nat) /\ Sound \o batch \in Seq(Nat)
    <2>1. Sound' \in Seq(Nat)
      BY <1>6, Joined DEF FileInv, Sound
    <2>. QED
      BY <1>5, <1>6, <2>1, SoundOK, Joined
  <1>12. Ordered(Sound') /\ Below(Sound', Min2(NextUp', LastSample))
    <2>1. Ordered(Sound \o batch) /\ Below(Sound \o batch, Min2(NextUp + n, LastSample))
      BY <1>5, <1>6, <1>8, <1>11, OrderOfRun DEF StreamInv
    <2>2. /\ Min2(NextUp + n, LastSample) \in 0..LastSample
          /\ Min2(NextUp + n, LastSample) <= Min2(NextUp + n, LastSample)
      BY <1>3, <1>6 DEF Min2
    <2>3. Ordered(Sound') /\ Below(Sound', Min2(NextUp + n, LastSample))
      BY <1>9, <1>11, <2>1, <2>2, OrderOfPrefix
    <2>. QED
      BY <1>7, <2>3, Zenon
  <1>13. NextUp' < LastSample => NextUp' = NextUp + n /\ NextUp < LastSample
    <2>1. NextUp' \in Nat
      BY <1>6, NextUpPrimed
    <2>. QED
      BY <1>3, <1>6, <1>7, <2>1 DEF Min2
  <1>14. Counted'
    <2>. SUFFICES ASSUME recording'
                  PROVE  /\ Min2(NextUp', LastSample) - firstAt' - Len(Sound') <= dropped'
                         /\ \A i \in 1..Len(Sound') : Sound'[i] - firstAt' + 1 - i <= dropped'
      BY Zenon DEF Counted
    <2>1. /\ recording /\ dropped' = dropped /\ dropped \in Nat
          /\ firstAt' = firstAt /\ firstAt \in Nat
      BY <1>4, <1>6, <1>10 DEF RingInv
    <2>2. /\ Min2(NextUp, LastSample) - firstAt - Len(Sound) <= dropped
          /\ \A i \in 1..Len(Sound) : Sound[i] - firstAt + 1 - i <= dropped
      BY <2>1, Zenon DEF StreamInv, Counted
    <2>3. Len(Sound') = Len(Sound) + n /\ Len(Sound) \in Nat
      BY <1>3, <1>9, <1>11
    <2>4. Min2(NextUp + n, LastSample) - firstAt - (Len(Sound) + n) <= dropped
      BY <1>3, <1>6, <2>1, <2>2, <2>3 DEF Min2
    <2>5. Min2(NextUp', LastSample) - firstAt' - Len(Sound') <= dropped'
      BY <1>7, <2>1, <2>3, <2>4, Zenon
    <2>6. ASSUME NEW i \in 1..Len(Sound')
          PROVE  Sound'[i] - firstAt' + 1 - i <= dropped'
      <3>1. Sound'[i] = (Sound \o batch)[i]
        BY <1>9, Zenon DEF PrefixOf
      <3>2. i \in 1..(Len(Sound) + Len(batch))
        BY <1>5, <2>3
      <3>3. (Sound \o batch)[i] = IF i <= Len(Sound) THEN Sound[i] ELSE batch[i - Len(Sound)]
        BY <1>5, <1>11, <3>2, JoinedIndex
      <3>4. CASE i <= Len(Sound)
        <4>1. i \in 1..Len(Sound)
          BY <2>3, <3>2, <3>4
        <4>2. Sound'[i] = Sound[i] /\ Sound[i] - firstAt + 1 - i <= dropped
          BY <2>2, <3>1, <3>3, <3>4, <4>1, Zenon
        <4>. QED
          BY <2>1, <4>2, Zenon
      <3>5. CASE ~(i <= Len(Sound))
        <4>1. i - Len(Sound) \in 1..Len(batch)
          BY <1>5, <2>3, <3>2, <3>5
        <4>2. Sound'[i] = Min2(NextUp + (i - Len(Sound)) - 1, LastSample)
          BY <1>8, <3>1, <3>3, <3>5, <4>1, Zenon DEF Consecutive
        <4>3. Min2(NextUp + (i - Len(Sound)) - 1, LastSample) - firstAt + 1 - i <= dropped
          BY <1>6, <2>1, <2>2, <2>3, <3>2, <4>1 DEF Min2
        <4>. QED
          BY <2>1, <4>2, <4>3, Zenon
      <3>. QED
        BY <3>4, <3>5
    <2>. QED
      BY <2>5, <2>6
  <1>15. Preroll => Preroll'
    BY <1>1, <1>4, <1>10, <1>13, <1>6, <1>3 DEF Preroll, RingInv
  <1>16. /\ recording' => ~diskFull'
         /\ pc' \in DOMAIN After /\ pc' # "close"
    BY <1>1, <1>9 DEF After
  <1>17. startAt' <= captured'
    BY <1>4 DEF StreamInv
  <1>. QED
    BY <1>7, <1>12, <1>14, <1>15, <1>16, <1>17, Zenon DEF StreamInv

\* A push goes behind the ring; what it throws out of the ring is counted.
LEMMA CaptureStream ==
    IInv /\ IInv' /\ StreamInv /\ CaptureTask => StreamInv' /\ (Preroll => Preroll')
  <1>. SUFFICES ASSUME IInv, IInv', StreamInv, CaptureTask
                PROVE  StreamInv' /\ (Preroll => Preroll')
    OBVIOUS
  <1>. USE Sizes
  <1>1. UNCHANGED <<pc, drained, recording, startAt, firstAt, take, staging, diskFull>>
    BY Zenon DEF CaptureTask, CaptureRead, CapturePush, fileVars, startVars
  <1>2. CASE UNCHANGED <<captured, ring, dropped>>
    <2>1. StreamInv'
      BY <1>1, <1>2, SoundAlone DEF StreamInv
    <2>2. NextUp' = NextUp
      BY <1>2, Zenon DEF NextUp
    <2>3. Preroll => Preroll'
      BY <1>1, <2>2, Zenon DEF Preroll
    <2>. QED
      BY <2>1, <2>3
  <1>3. CASE CapturePush
    <2>1. PICK n \in 0..ReadSamples :
             /\ PushRing([i \in 1..n |-> Min2(captured + i, LastSample)])
             /\ captured' = Min2(captured + n, LastSample)
      BY <1>3, Zenon DEF CapturePush
    <2>. DEFINE samples == [i \in 1..n |-> Min2(captured + i, LastSample)]
                all == ring \o samples
                over == IF Len(all) > RingCapacity THEN Len(all) - RingCapacity ELSE 0
    <2>2. FileInv /\ FileInv' /\ RingInv /\ RingInv' /\ Runs /\ NextUp \in Nat /\ NextUp' \in Nat
          /\ Consecutive(ring, NextUp) /\ captured = Min2(NextUp + Len(ring) - 1, LastSample)
      BY NextUpOK, NextUpPrimed DEF IInv, StreamInv, Runs
    <2>3. /\ captured \in 0..LastSample /\ captured' \in Nat
          /\ ring \in Seq(Nat) /\ Len(ring) \in Nat
          /\ dropped \in 0..LastSample
      BY <2>2 DEF RingInv
    <2>4. samples \in Seq(Nat) /\ Len(samples) = n
      <3>1. \A i \in 1..n : Min2(captured + i, LastSample) \in Nat
        BY <2>3 DEF Min2
      <3>. QED
        BY <3>1
    <2>5. all \in Seq(Nat) /\ Len(all) = Len(ring) + n
      BY <2>3, <2>4, Joined
    <2>6. over \in 0..Len(all)
      BY <2>5
    <2>7. ring' = SubSeq(all, over + 1, Len(all))
          /\ dropped' = IF recording THEN Min2(dropped + over, LastSample) ELSE dropped
      BY <2>1, Zenon DEF PushRing
    <2>8. \A i \in 1..n : samples[i] = Min2(captured + i, LastSample)
      OBVIOUS
    <2>. HIDE DEF samples, over
    <2>9. Consecutive(all, NextUp)
      <3>. SUFFICES ASSUME NEW j \in 1..(Len(ring) + n)
                    PROVE  all[j] = Min2(NextUp + j - 1, LastSample)
        BY <2>5 DEF Consecutive
      <3>1. all[j] = IF j <= Len(ring) THEN ring[j] ELSE samples[j - Len(ring)]
        BY <2>3, <2>4, JoinedIndex
      <3>2. CASE j <= Len(ring)
        <4>1. j \in 1..Len(ring)
          BY <2>3, <3>2
        <4>. QED
          BY <2>2, <3>1, <3>2, <4>1, Zenon DEF Consecutive
      <3>3. CASE ~(j <= Len(ring))
        <4>1. j - Len(ring) \in 1..n
          BY <2>3, <3>3
        <4>2. all[j] = Min2(captured + (j - Len(ring)), LastSample)
          BY <2>8, <3>1, <3>3, <4>1, Zenon
        <4>. QED
          BY <2>2, <2>3, <4>1, <4>2 DEF Min2
      <3>. QED
        BY <3>2, <3>3
    <2>10. captured' = Min2(NextUp + Len(all) - 1, LastSample)
      BY <2>1, <2>2, <2>3, <2>5 DEF Min2
    <2>. HIDE DEF all
    <2>11. Runs' /\ Min2(NextUp', LastSample) = Min2(NextUp + over, LastSample)
      BY <2>2, <2>3, <2>5, <2>6, <2>7, <2>9, <2>10, SuffixRuns
    <2>12. NextUp' < LastSample => NextUp' = NextUp + over /\ NextUp < LastSample
      BY <2>2, <2>6, <2>5, <2>11 DEF Min2
    <2>13. NextUpRises
      BY <2>2, <2>5, <2>6, <2>11 DEF NextUpRises, Min2
    <2>14. Sound' = Sound /\ Sound \in Seq(Nat)
      BY <1>1, <2>2, SoundOK DEF Sound
    <2>15. Ordered(Sound') /\ Below(Sound', Min2(NextUp', LastSample))
      <3>1. PrefixOf(Sound', Sound)
        BY <2>14, SamePrefix
      <3>. QED
        BY <2>2, <2>11, <2>13, <3>1, OrderKept DEF StreamInv
    <2>16. Counted'
      <3>. SUFFICES ASSUME recording
                    PROVE  /\ Min2(NextUp', LastSample) - firstAt - Len(Sound) <= dropped'
                           /\ \A i \in 1..Len(Sound) : Sound[i] - firstAt + 1 - i <= dropped'
        BY <1>1, <2>14, Zenon DEF Counted
      <3>1. /\ Min2(NextUp, LastSample) - firstAt - Len(Sound) <= dropped
            /\ \A i \in 1..Len(Sound) : Sound[i] - firstAt + 1 - i <= dropped
        BY Zenon DEF StreamInv, Counted
      <3>2. dropped' = Min2(dropped + over, LastSample) /\ over \in Nat
        BY <2>5, <2>6, <2>7
      <3>3. firstAt \in Nat /\ Len(Sound) \in Nat /\ dropped \in 0..LastSample
        BY <2>2, <2>14 DEF RingInv
      <3>4. Min2(NextUp + over, LastSample) - firstAt - Len(Sound) <=
               Min2(dropped + over, LastSample)
        BY <2>2, <3>1, <3>2, <3>3 DEF Min2
      <3>5. dropped' \in Nat /\ dropped <= dropped'
        BY <3>2, <3>3 DEF Min2
      <3>6. ASSUME NEW i \in 1..Len(Sound)
            PROVE  Sound[i] - firstAt + 1 - i <= dropped'
        <4>1. Sound[i] - firstAt + 1 - i <= dropped /\ Sound[i] \in Nat
          BY <2>14, <3>1
        <4>. QED
          BY <3>3, <3>5, <4>1
      <3>7. Min2(NextUp', LastSample) - firstAt - Len(Sound) <= dropped'
        BY <2>11, <3>2, <3>4, Zenon
      <3>. QED
        BY <3>6, <3>7
    <2>17. Preroll => Preroll'
      BY <1>1, <2>2, <2>5, <2>6, <2>12 DEF Preroll, RingInv
    <2>18. startAt' <= captured'
      BY <1>1, <2>1, <2>2, <2>3 DEF StreamInv, RingInv, Min2
    <2>19. /\ recording' => ~diskFull'
           /\ pc' = "close" /\ ~diskFull' => staging' = <<>>
           /\ pc' \notin DOMAIN After => drained' = 0
      BY <1>1, Zenon DEF StreamInv
    <2>. QED
      BY <2>11, <2>15, <2>16, <2>17, <2>18, <2>19, Zenon DEF StreamInv
  <1>. QED
    BY <1>2, <1>3, Zenon DEF CaptureTask, CaptureRead

\* Nothing happens.
LEMMA StutterStream ==
    IInv /\ IInv' /\ StreamInv /\ UNCHANGED vars => StreamInv' /\ (Preroll => Preroll')
  <1>. SUFFICES ASSUME IInv, IInv', StreamInv, UNCHANGED vars
                PROVE  StreamInv' /\ (Preroll => Preroll')
    OBVIOUS
  <1>1. UNCHANGED <<pc, drained, recording, startAt, firstAt, take, staging, diskFull, captured,
                    ring, dropped>>
    BY Zenon DEF vars, recorderVars, startVars
  <1>2. StreamInv'
    BY <1>1, SoundAlone DEF StreamInv
  <1>3. NextUp' = NextUp
    BY <1>1, Zenon DEF NextUp
  <1>4. Preroll => Preroll'
    BY <1>1, <1>3, Zenon DEF Preroll
  <1>. QED
    BY <1>2, <1>4

\* Every step.
LEMMA StepStream ==
    IInv /\ IInv' /\ StreamInv /\ [Next]_vars =>
        StreamInv' /\ (RingIsEven /\ Preroll => Preroll')
  <1>. SUFFICES ASSUME IInv, IInv', StreamInv, [Next]_vars
                PROVE  StreamInv' /\ (RingIsEven /\ Preroll => Preroll')
    OBVIOUS
  <1>1. CASE LoopTask
    BY <1>1, PassStream, StartStream, DrainStream, DrainEndStream, CheckStream, StopRestStream,
       StopCloseStream, UploadEndStream, Zenon DEF LoopTask
  <1>2. CASE CaptureTask
    BY <1>2, CaptureStream
  <1>3. CASE UNCHANGED vars
    BY <1>3, StutterStream
  <1>. QED
    BY <1>1, <1>2, <1>3 DEF Next

\* The order of the samples is kept in every reachable state.
THEOREM StreamInvariant == Spec => []StreamInv
  BY Invariant, StreamInit, StepStream, PTL DEF Spec

\* Nothing in a take is out of order or doubled, and while the recording runs no sample is
\* missing from it, from the oldest that waited in the ring at its start on, that was not
\* counted as dropped, at any speed of the capture task and of the flash
\* (audio_recorder.cpp:316-323).
THEOREM GapsTheorem == Spec => []GapsAreCounted
  <1>1. IInv /\ StreamInv => GapsAreCounted
    <2>. SUFFICES ASSUME IInv, StreamInv PROVE GapsAreCounted
      OBVIOUS
    <2>1. Sound \in Seq(Nat)
      BY SoundOK DEF IInv
    <2>2. ASSUME NEW i \in 1..(Len(Sound) - 1)
          PROVE  Sound[i] < Sound[i + 1] \/ (Sound[i] = LastSample /\ Sound[i + 1] = LastSample)
      <3>1. i \in 1..Len(Sound) /\ i + 1 \in 1..Len(Sound) /\ i < i + 1
        BY <2>1
      <3>2. Before(Sound[i], Sound[i + 1])
        BY <3>1, Zenon DEF StreamInv, Ordered
      <3>. QED
        BY <3>2 DEF Before
    <2>3. recording /\ Sound # <<>> => Sound[Len(Sound)] - firstAt + 1 - Len(Sound) <= dropped
      <3>. SUFFICES ASSUME recording, Sound # <<>>
                    PROVE  Sound[Len(Sound)] - firstAt + 1 - Len(Sound) <= dropped
        OBVIOUS
      <3>1. Len(Sound) \in 1..Len(Sound)
        BY <2>1, NonEmpty
      <3>. QED
        BY <3>1, Zenon DEF StreamInv, Counted
    <2>. QED
      BY <2>2, <2>3, Zenon DEF GapsAreCounted
  <1>. QED
    BY Invariant, StreamInvariant, <1>1, PTL

\* When start() has returned, the ring holds nothing of the speech from before the hold, and
\* the take has all of it but for as many samples as were counted as dropped, if half the
\* ring twice is the whole ring (audio_recorder.cpp:316-323, 612-614, 786).
THEOREM PrerollTheorem ==
    ASSUME RingCapacity <= DrainBudget + DrainBudget
    PROVE  Spec => []PrerollIsTaken
  <1>1. RingIsEven
    BY DEF RingIsEven
  <1>2. Spec => []Preroll
    <2>1. Init => Preroll
      BY StreamInit
    <2>2. IInv /\ IInv' /\ StreamInv /\ Preroll /\ [Next]_vars => Preroll'
      BY <1>1, StepStream
    <2>. QED
      BY Invariant, StreamInvariant, <2>1, <2>2, PTL DEF Spec
  <1>3. IInv /\ StreamInv /\ Preroll => PrerollIsTaken
    <2>. SUFFICES ASSUME IInv, StreamInv, Preroll, recording, startAt < LastSample,
                         pc \in {"record", "check", "again"}
                  PROVE  /\ NextUp > startAt
                         /\ startAt - firstAt + 1 - Cardinality(FromBefore) <= dropped
      BY Zenon DEF PrerollIsTaken
    <2>1. /\ Sound \in Seq(Nat) /\ Len(Sound) \in Nat
          /\ NextUp \in Nat /\ startAt \in Nat /\ firstAt \in Nat /\ dropped \in Nat
      BY SoundOK, NextUpOK DEF IInv, RingInv, StreamInv
    <2>2. NextUp > startAt
      BY <2>1, Sizes DEF Preroll
    <2>3. /\ Min2(NextUp, LastSample) - firstAt - Len(Sound) <= dropped
          /\ \A i \in 1..Len(Sound) : Sound[i] - firstAt + 1 - i <= dropped
      BY Zenon DEF StreamInv, Counted
    <2>. DEFINE k == startAt - firstAt + 1 - dropped
    <2>4. k <= Len(Sound)
      BY <2>1, <2>2, <2>3, Sizes DEF Min2
    <2>5. 1..k \subseteq FromBefore
      <3>. SUFFICES ASSUME NEW i \in 1..k PROVE i \in DOMAIN Sound /\ Sound[i] <= startAt
        BY DEF FromBefore
      <3>1. i \in 1..Len(Sound) /\ DOMAIN Sound = 1..Len(Sound) /\ Sound[i] \in Nat
        BY <2>1, <2>4
      <3>2. Sound[i] - firstAt + 1 - i <= dropped
        BY <2>3, <3>1, Zenon
      <3>. QED
        BY <2>1, <3>1, <3>2
    <2>6. IsFiniteSet(FromBefore) /\ Cardinality(FromBefore) \in Nat
      <3>1. FromBefore \subseteq 1..Len(Sound)
        BY <2>1 DEF FromBefore
      <3>2. IsFiniteSet(1..Len(Sound))
        BY <2>1, FS_Interval
      <3>3. IsFiniteSet(FromBefore)
        BY <3>1, <3>2, FS_Subset
      <3>. QED
        BY <3>3, FS_CardinalityType
    <2>7. k <= Cardinality(FromBefore)
      <3>1. CASE k <= 0
        BY <2>1, <2>6, <3>1
      <3>2. CASE k > 0
        <4>1. k \in Int /\ 1 \in Int /\ 1 <= k
          BY <2>1, <3>2
        <4>2. Cardinality(1..k) = k
          <5>1. Cardinality(1..k) = IF 1 > k THEN 0 ELSE k - 1 + 1
            BY <4>1, FS_Interval
          <5>. QED
            BY <4>1, <5>1
        <4>3. Cardinality(1..k) <= Cardinality(FromBefore)
          BY <2>5, <2>6, FS_Subset
        <4>. QED
          BY <4>2, <4>3, Zenon
      <3>. QED
        BY <2>1, <3>1, <3>2
    <2>. QED
      BY <2>1, <2>2, <2>6, <2>7
  <1>. QED
    BY Invariant, StreamInvariant, <1>2, <1>3, PTL
=============================================================================
