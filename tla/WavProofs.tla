------------------------------ MODULE WavProofs ------------------------------
(***************************************************************************)
(* What the walks of WavCheck find in a file, for any number and sizes of  *)
(* chunks.  Walk and PcmOffset recurse along the file; that the recursion  *)
(* is a function, and what it computes, is proved from the least element   *)
(* of a set of numbers, which stands for induction.                        *)
(***************************************************************************)
EXTENDS WavCheck, WellFoundedInduction, TLAPS

-----------------------------------------------------------------------------
(* Recursion towards a bound.                                                  *)

\* A nonempty set of numbers has a least element.
LEMMA LeastElement ==
    ASSUME NEW T, T \subseteq Nat, T # {}
    PROVE  \E m \in T : \A k \in T : m <= k
  <1>1. \E m \in T : \A k \in T : ~(<<k, m>> \in OpToRel(<, Nat))
    BY WFMin, NatLessThanWellFounded, Zenon
  <1>2. \A k, m \in Nat : k < m => <<k, m>> \in OpToRel(<, Nat)
    BY Zenon DEF OpToRel
  <1>3. PICK m \in T : \A k \in T : ~(k < m)
    BY <1>1, <1>2, Zenon
  <1>. QED
    BY <1>3

\* step[p] says what a function has at p, from what it has above p; from the bound on it asks
\* nothing.
LooksAhead(step, V, bound) ==
    /\ step \in [Nat -> [[Nat -> V] -> V]]
    /\ \A p \in Nat : \A g, h \in [Nat -> V] :
          (\A q \in Nat : q > p /\ p < bound => g[q] = h[q]) => step[p][g] = step[p][h]

TakesSteps(g, step, V) == g \in [Nat -> V] /\ \A p \in Nat : g[p] = step[p][g]

\* Recursion towards a bound: there is a function that takes those steps.
LEMMA FixedPoint ==
    ASSUME NEW V, V # {}, NEW step, NEW bound \in Nat, LooksAhead(step, V, bound)
    PROVE  \E g : TakesSteps(g, step, V)
  <1>. DEFINE Good(g, k) == \A p \in Nat : p >= k => g[p] = step[p][g]
              T == {k \in Nat : \E g \in [Nat -> V] : Good(g, k)}
  <1>. USE DEF LooksAhead
  <1>1. bound \in T
    <2>1. PICK v \in V : TRUE
      OBVIOUS
    <2>. DEFINE g0 == [p \in Nat |-> v]
                g1 == [p \in Nat |-> step[p][g0]]
    <2>2. g0 \in [Nat -> V]
      BY <2>1
    <2>3. g1 \in [Nat -> V]
      BY <2>2
    <2>4. ASSUME NEW p \in Nat, p >= bound PROVE g1[p] = step[p][g1]
      <3>1. g1[p] = step[p][g0]
        OBVIOUS
      <3>2. ~(p < bound)
        BY <2>4
      <3>3. step[p][g0] = step[p][g1]
        BY <2>2, <2>3, <3>2, Zenon
      <3>. QED
        BY <3>1, <3>3
    <2>. HIDE DEF g1
    <2>. QED
      BY <2>3, <2>4
  <1>2. PICK k \in T : \A m \in T : k <= m
    <2>1. T \subseteq Nat /\ T # {}
      BY <1>1
    <2>. HIDE DEF T
    <2>. QED
      BY <2>1, LeastElement, Zenon
  <1>3. PICK g \in [Nat -> V] : Good(g, k)
    BY <1>2
  <1>4. ASSUME k > 0 PROVE FALSE
    <2>. DEFINE j == k - 1
                h == [p \in Nat |-> IF p = j THEN step[p][g] ELSE g[p]]
    <2>1. k \in Nat /\ j \in Nat
      BY <1>2, <1>4
    <2>2. h \in [Nat -> V]
      BY <1>3
    <2>3. \A p \in Nat : p # j => h[p] = g[p]
      OBVIOUS
    <2>4. h[j] = step[j][g]
      BY <2>1
    <2>5. ASSUME NEW p \in Nat, p >= j PROVE h[p] = step[p][h]
      <3>1. \A q \in Nat : q > p => q # j
        BY <2>1, <2>5
      <3>2. \A q \in Nat : q > p /\ p < bound => g[q] = h[q]
        BY <2>3, <3>1, Zenon
      <3>. HIDE DEF h, j, Good
      <3>3. step[p][g] = step[p][h]
        BY <1>3, <2>2, <3>2, Zenon
      <3>4. CASE p = j
        BY <2>4, <3>3, <3>4
      <3>5. CASE p # j
        <4>1. p >= k
          BY <2>1, <2>5, <3>5 DEF j
        <4>2. g[p] = step[p][g]
          BY <1>3, <4>1, Zenon DEF Good
        <4>. QED
          BY <2>3, <3>3, <3>5, <4>2
      <3>. QED
        BY <3>4, <3>5
    <2>6. j \in T
      <3>. HIDE DEF h, j
      <3>. QED
        BY <2>1, <2>2, <2>5
    <2>7. k <= j
      BY <1>2, <2>6, Zenon
    <2>. QED
      BY <2>1, <2>7
  <1>5. k = 0
    BY <1>2, <1>4
  <1>. QED
    BY <1>3, <1>5 DEF TakesSteps

-----------------------------------------------------------------------------
(* The walks unfold.                                                           *)

\* The numbers in a file.
Numbers(f) ==
    /\ f.bytes \in Nat /\ f.riff \in Nat
    /\ DOMAIN f.at \subseteq Nat
    /\ \A p \in DOMAIN f.at : f.at[p].size \in Nat /\ f.at[p].rate \in Nat

\* A chunk ends after its header, at a number.
LEMMA EndIsLater ==
    ASSUME NEW f, Numbers(f), NEW p \in DOMAIN f.at
    PROVE  /\ ChunkEnd(f, p) \in Nat /\ ChunkEnd(f, p) >= p + 8 + f.at[p].size
           /\ ChunkEnd(f, p) > p
           /\ \A rate \in Nat : RateAfter(f, p, rate) \in Nat
  <1>1. p \in Nat /\ f.at[p].size \in Nat /\ f.at[p].rate \in Nat
    BY DEF Numbers
  <1>2. f.at[p].size % 2 \in 0..1
    BY <1>1
  <1>3. \A rate \in Nat : RateAfter(f, p, rate) \in Nat
    BY <1>1 DEF RateAfter
  <1>. QED
    BY <1>1, <1>2, <1>3 DEF ChunkEnd

\* What parseWAVHeader may find.
Results == {Broken} \cup [ok : {TRUE}, byteRate : Nat, dataSize : Nat]

\* One step of the walk finds a result if it does so further on.
LEMMA StepTyped ==
    ASSUME NEW f, Numbers(f), NEW g \in [Nat -> [Nat -> Results]], NEW p \in Nat, NEW rate \in Nat
    PROVE  WalkStep(f, g, p, rate) \in Results
  <1>1. CASE p + 8 > f.bytes \/ p \notin DOMAIN f.at
    BY <1>1 DEF WalkStep, Results
  <1>2. CASE p \in DOMAIN f.at /\ ~(p + 8 > f.bytes) /\ f.at[p].id = "data"
    <2>1. WalkStep(f, g, p, rate) = [ok |-> TRUE, byteRate |-> rate, dataSize |-> f.at[p].size]
      BY <1>2, Zenon DEF WalkStep
    <2>2. f.at[p].size \in Nat
      BY <1>2 DEF Numbers
    <2>. QED
      BY <2>1, <2>2 DEF Results
  <1>3. CASE p \in DOMAIN f.at /\ ~(p + 8 > f.bytes) /\ f.at[p].id # "data"
    <2>1. \/ WalkStep(f, g, p, rate) = Broken
          \/ WalkStep(f, g, p, rate) = g[ChunkEnd(f, p)][RateAfter(f, p, rate)]
      BY <1>3, Zenon DEF WalkStep
    <2>2. g[ChunkEnd(f, p)][RateAfter(f, p, rate)] \in Results
      BY <1>3, EndIsLater
    <2>. QED
      BY <2>1, <2>2 DEF Results
  <1>. QED
    BY <1>1, <1>2, <1>3

\* A step asks only for what is further on, and nothing past the end of the file.
LEMMA StepLooksAhead ==
    ASSUME NEW f, Numbers(f), NEW p \in Nat, NEW g, NEW h, NEW rate \in Nat,
           \A q \in Nat : q > p /\ p < f.bytes => g[q] = h[q]
    PROVE  WalkStep(f, g, p, rate) = WalkStep(f, h, p, rate)
  <1>1. CASE p + 8 > f.bytes \/ p \notin DOMAIN f.at
    BY <1>1, Zenon DEF WalkStep
  <1>2. CASE p \in DOMAIN f.at /\ ~(p + 8 > f.bytes)
    <2>1. ChunkEnd(f, p) \in Nat /\ ChunkEnd(f, p) > p
      BY <1>2, EndIsLater
    <2>2. p < f.bytes
      BY <1>2 DEF Numbers
    <2>3. g[ChunkEnd(f, p)] = h[ChunkEnd(f, p)]
      BY <2>1, <2>2
    <2>. QED
      BY <2>3, Zenon DEF WalkStep
  <1>. QED
    BY <1>1, <1>2

\* The walk is what its equation says, at every place and byte rate.
LEMMA WalkUnfolds ==
    ASSUME NEW f, Numbers(f)
    PROVE  \A p, rate \in Nat : WalkFrom(f)[p][rate] = WalkStep(f, WalkFrom(f), p, rate)
  <1>. DEFINE V == [Nat -> Results]
              step == [p \in Nat |-> [g \in [Nat -> V] |->
                          [rate \in Nat |-> WalkStep(f, g, p, rate)]]]
  <1>1. step \in [Nat -> [[Nat -> V] -> V]]
    BY StepTyped
  <1>2. ASSUME NEW p \in Nat, NEW g \in [Nat -> V], NEW h \in [Nat -> V],
               \A q \in Nat : q > p /\ p < f.bytes => g[q] = h[q]
        PROVE  step[p][g] = step[p][h]
    <2>1. \A rate \in Nat : WalkStep(f, g, p, rate) = WalkStep(f, h, p, rate)
      BY <1>2, StepLooksAhead
    <2>. QED
      BY <2>1
  <1>3. V # {}
    <2>1. [rate \in Nat |-> Broken] \in V
      BY DEF Results
    <2>. QED
      BY <2>1
  <1>4. PICK g : TakesSteps(g, step, V)
    <2>1. f.bytes \in Nat
      BY DEF Numbers
    <2>. HIDE DEF V, step
    <2>2. LooksAhead(step, V, f.bytes)
      BY <1>1, <1>2, Zenon DEF LooksAhead
    <2>. QED
      BY <1>3, <2>1, <2>2, FixedPoint, Zenon
  <1>5. g = [p \in Nat |-> [rate \in Nat |-> WalkStep(f, g, p, rate)]]
    <2>1. g \in [Nat -> V]
      BY <1>4 DEF TakesSteps
    <2>2. \A p \in Nat : g[p] = [rate \in Nat |-> WalkStep(f, g, p, rate)]
      BY <1>4, <2>1 DEF TakesSteps
    <2>. QED
      BY <2>1, <2>2
  <1>6. WalkFrom(f) = [p \in Nat |-> [rate \in Nat |-> WalkStep(f, WalkFrom(f), p, rate)]]
    <2>. DEFINE F == CHOOSE from :
                       from = [p \in Nat |-> [rate \in Nat |-> WalkStep(f, from, p, rate)]]
    <2>1. F = [p \in Nat |-> [rate \in Nat |-> WalkStep(f, F, p, rate)]]
      BY <1>5, Zenon
    <2>2. WalkFrom(f) = F
      BY Zenon DEF WalkFrom
    <2>. QED
      BY <2>1, <2>2, Zenon
  <1>. DEFINE F == WalkFrom(f)
  <1>7. F = [p \in Nat |-> [rate \in Nat |-> WalkStep(f, F, p, rate)]]
    BY <1>6, Zenon
  <1>. HIDE DEF F
  <1>8. ASSUME NEW p \in Nat, NEW rate \in Nat PROVE F[p][rate] = WalkStep(f, F, p, rate)
    <2>1. F[p] = [r \in Nat |-> WalkStep(f, F, p, r)]
      BY <1>7, Zenon
    <2>. QED
      BY <2>1, Zenon
  <1>. QED
    BY <1>8, Zenon DEF F

\* The player's walk is what its equation says.
LEMMA PcmUnfolds ==
    ASSUME NEW f, Numbers(f), NEW len \in Nat
    PROVE  \A p \in Nat : PcmFrom(f, len)[p] = PcmStep(f, len, PcmFrom(f, len), p)
  <1>. DEFINE step == [p \in Nat |-> [g \in [Nat -> Nat] |-> PcmStep(f, len, g, p)]]
  <1>1. ASSUME NEW p \in Nat, NEW g \in [Nat -> Nat] PROVE PcmStep(f, len, g, p) \in Nat
    <2>1. CASE p \in DOMAIN f.at
      <3>1. g[ChunkEnd(f, p)] \in Nat
        BY <2>1, EndIsLater
      <3>. QED
        BY <3>1 DEF PcmStep
    <2>2. CASE p \notin DOMAIN f.at
      BY <2>2 DEF PcmStep
    <2>. QED
      BY <2>1, <2>2
  <1>2. ASSUME NEW p \in Nat, NEW g \in [Nat -> Nat], NEW h \in [Nat -> Nat],
               \A q \in Nat : q > p /\ p < len => g[q] = h[q]
        PROVE  PcmStep(f, len, g, p) = PcmStep(f, len, h, p)
    <2>1. CASE p + 8 > len \/ p \notin DOMAIN f.at
      BY <2>1, Zenon DEF PcmStep
    <2>2. CASE p \in DOMAIN f.at /\ ~(p + 8 > len)
      <3>1. ChunkEnd(f, p) \in Nat /\ ChunkEnd(f, p) > p
        BY <2>2, EndIsLater
      <3>2. p < len
        BY <2>2
      <3>3. g[ChunkEnd(f, p)] = h[ChunkEnd(f, p)]
        BY <1>2, <3>1, <3>2
      <3>. QED
        BY <3>3, Zenon DEF PcmStep
    <2>. QED
      BY <2>1, <2>2
  <1>3. PICK g : TakesSteps(g, step, Nat)
    <2>1. step \in [Nat -> [[Nat -> Nat] -> Nat]]
      BY <1>1
    <2>2. \A p \in Nat : \A g, h \in [Nat -> Nat] :
             (\A q \in Nat : q > p /\ p < len => g[q] = h[q]) => step[p][g] = step[p][h]
      BY <1>2
    <2>. HIDE DEF step
    <2>3. LooksAhead(step, Nat, len)
      BY <2>1, <2>2, Zenon DEF LooksAhead
    <2>4. Nat # {}
      OBVIOUS
    <2>. QED
      BY <2>3, <2>4, FixedPoint, Zenon
  <1>4. g = [p \in Nat |-> PcmStep(f, len, g, p)]
    <2>1. g \in [Nat -> Nat]
      BY <1>3 DEF TakesSteps
    <2>2. \A p \in Nat : g[p] = PcmStep(f, len, g, p)
      BY <1>3, <2>1 DEF TakesSteps
    <2>. QED
      BY <2>1, <2>2
  <1>5. PcmFrom(f, len) = [p \in Nat |-> PcmStep(f, len, PcmFrom(f, len), p)]
    <2>. DEFINE F == CHOOSE from : from = [p \in Nat |-> PcmStep(f, len, from, p)]
    <2>1. F = [p \in Nat |-> PcmStep(f, len, F, p)]
      BY <1>4, Zenon
    <2>2. PcmFrom(f, len) = F
      BY Zenon DEF PcmFrom
    <2>. QED
      BY <2>1, <2>2, Zenon
  <1>. DEFINE F == PcmFrom(f, len)
  <1>6. F = [p \in Nat |-> PcmStep(f, len, F, p)]
    BY <1>5, Zenon
  <1>. HIDE DEF F
  <1>7. \A p \in Nat : F[p] = PcmStep(f, len, F, p)
    BY <1>6, Zenon
  <1>. QED
    BY <1>7, Zenon DEF F

-----------------------------------------------------------------------------
(* What the walks find in a file that is laid out.                             *)

\* What LaidOut says of types.
LEMMA LaidOutNumbers == \A f : LaidOut(f) => Numbers(f)
  BY DEF LaidOut, Numbers

\* The server's walk reaches every chunk.
LEMMA WalkReaches ==
    ASSUME NEW f, LaidOut(f)
    PROVE  \A p \in DOMAIN f.at : \E rate \in Nat : Walk(f) = WalkFrom(f)[p][rate]
  <1>. DEFINE T == {p \in DOMAIN f.at : ~\E rate \in Nat : Walk(f) = WalkFrom(f)[p][rate]}
  <1>1. Numbers(f) /\ T \subseteq Nat
    BY LaidOutNumbers DEF Numbers
  <1>2. ASSUME T # {} PROVE FALSE
    <2>1. PICK m \in T : \A k \in T : m <= k
      <3>. HIDE DEF T
      <3>. QED
        BY <1>1, <1>2, LeastElement, Zenon
    <2>2. m \in Nat /\ m \in DOMAIN f.at /\ ~\E rate \in Nat : Walk(f) = WalkFrom(f)[m][rate]
      BY <1>1, <2>1
    <2>3. m # 12
      BY <2>2 DEF Walk
    <2>4. PICK q \in DOMAIN f.at : f.at[q].id # "data" /\ m = ChunkEnd(f, q)
      BY <2>2, <2>3, Zenon DEF LaidOut
    <2>5. q \in Nat /\ m > q
      BY <1>1, <2>4, EndIsLater DEF Numbers
    <2>6. q \notin T
      BY <2>1, <2>2, <2>5
    <2>7. PICK rate \in Nat : Walk(f) = WalkFrom(f)[q][rate]
      BY <2>6
    <2>8. WalkFrom(f)[q][rate] = WalkStep(f, WalkFrom(f), q, rate)
      BY <1>1, <2>5, WalkUnfolds, Zenon
    <2>9. ~(q + 8 > f.bytes) /\ ~(ChunkEnd(f, q) > f.bytes)
      BY <1>1, <2>2, <2>4, <2>5 DEF LaidOut, Numbers
    <2>10. WalkStep(f, WalkFrom(f), q, rate) = WalkFrom(f)[m][RateAfter(f, q, rate)]
      BY <2>4, <2>9, Zenon DEF WalkStep
    <2>11. RateAfter(f, q, rate) \in Nat
      BY <1>1, EndIsLater
    <2>. QED
      BY <2>2, <2>7, <2>8, <2>10, <2>11, Zenon
  <1>. QED
    BY <1>2

\* So it finds the sound.
LEMMA WalkFinds ==
    ASSUME NEW f, LaidOut(f), NEW p \in DOMAIN f.at, f.at[p].id = "data"
    PROVE  Walk(f).ok /\ Walk(f).dataSize = f.at[p].size /\ Walk(f).byteRate \in Nat
  <1>1. Numbers(f) /\ p \in Nat /\ ~(p + 8 > f.bytes)
    BY LaidOutNumbers DEF LaidOut, Numbers
  <1>2. PICK rate \in Nat : Walk(f) = WalkFrom(f)[p][rate]
    BY WalkReaches
  <1>3. WalkFrom(f)[p][rate] = WalkStep(f, WalkFrom(f), p, rate)
    BY <1>1, WalkUnfolds, Zenon
  <1>4. WalkStep(f, WalkFrom(f), p, rate)
            = [ok |-> TRUE, byteRate |-> rate, dataSize |-> f.at[p].size]
    BY <1>1, Zenon DEF WalkStep
  <1>. QED
    BY <1>2, <1>3, <1>4

\* And it finds nothing else: a walk that ends well has found the sound of the file.
LEMMA WalkOnlyFinds ==
    ASSUME NEW f, Numbers(f), Walk(f).ok
    PROVE  \E q \in DOMAIN f.at : f.at[q].id = "data" /\ Walk(f).dataSize = f.at[q].size
  <1>. DEFINE W == WalkFrom(f)
              Found(r) == \E q \in DOMAIN f.at : f.at[q].id = "data" /\ r.dataSize = f.at[q].size
              Bad(p, rate) == W[p][rate].ok /\ ~Found(W[p][rate])
              T == {n \in Nat : \E p, rate \in Nat : p + n = f.bytes /\ Bad(p, rate)}
  <1>1. ASSUME NEW p \in Nat, NEW rate \in Nat, Bad(p, rate)
        PROVE  /\ p < f.bytes
               /\ \E q, r \in Nat : q > p /\ q <= f.bytes /\ Bad(q, r)
    <2>1. W[p][rate] = WalkStep(f, W, p, rate)
      BY WalkUnfolds, Zenon
    <2>2. Broken.ok = FALSE
      BY DEF Broken
    <2>3. p \in DOMAIN f.at /\ ~(p + 8 > f.bytes)
      BY <1>1, <2>1, <2>2, Zenon DEF WalkStep
    <2>4. f.at[p].id # "data"
      <3>1. SUFFICES ASSUME f.at[p].id = "data" PROVE FALSE
        OBVIOUS
      <3>2. W[p][rate] = [ok |-> TRUE, byteRate |-> rate, dataSize |-> f.at[p].size]
        BY <2>1, <2>3, <3>1, Zenon DEF WalkStep
      <3>3. W[p][rate].dataSize = f.at[p].size
        BY <3>2
      <3>. QED
        BY <1>1, <2>3, <3>1, <3>3, Zenon
    <2>5. ~(ChunkEnd(f, p) > f.bytes) /\ W[p][rate] = W[ChunkEnd(f, p)][RateAfter(f, p, rate)]
      BY <1>1, <2>1, <2>2, <2>3, <2>4, Zenon DEF WalkStep
    <2>6. ChunkEnd(f, p) \in Nat /\ ChunkEnd(f, p) > p /\ RateAfter(f, p, rate) \in Nat
      BY <2>3, EndIsLater
    <2>7. Bad(ChunkEnd(f, p), RateAfter(f, p, rate))
      BY <1>1, <2>5, Zenon
    <2>8. p < f.bytes /\ ChunkEnd(f, p) <= f.bytes
      BY <2>3, <2>5, <2>6 DEF Numbers
    <2>. HIDE DEF Bad
    <2>. QED
      BY <2>6, <2>7, <2>8
  <1>2. ASSUME Bad(12, 0) PROVE FALSE
    <2>. HIDE DEF Bad
    <2>1. f.bytes \in Nat /\ f.bytes - 12 \in Nat /\ 12 + (f.bytes - 12) = f.bytes
      BY <1>1, <1>2 DEF Numbers
    <2>2. T # {} /\ T \subseteq Nat
      BY <1>2, <2>1
    <2>3. PICK n \in T : \A k \in T : n <= k
      <3>. HIDE DEF T
      <3>. QED
        BY <2>2, LeastElement, Zenon
    <2>4. PICK p, rate \in Nat : p + n = f.bytes /\ Bad(p, rate)
      BY <2>3
    <2>5. PICK q, r \in Nat : q > p /\ q <= f.bytes /\ Bad(q, r)
      BY <1>1, <2>4
    <2>6. f.bytes - q \in Nat /\ q + (f.bytes - q) = f.bytes /\ f.bytes - q < n
      BY <2>1, <2>2, <2>3, <2>4, <2>5
    <2>7. f.bytes - q \in T
      BY <2>5, <2>6
    <2>. HIDE DEF T
    <2>. QED
      BY <2>2, <2>3, <2>6, <2>7
  <1>3. Walk(f) = W[12][0]
    BY DEF Walk
  <1>. QED
    BY <1>2, <1>3, Zenon

\* The player's walk reaches every chunk whose header is among the bytes it reads, and finds
\* the sound if it is among them.
LEMMA PcmFinds ==
    ASSUME NEW f, LaidOut(f), NEW len \in Nat,
           NEW p \in DOMAIN f.at, f.at[p].id = "data", p + 8 <= len
    PROVE  PcmOffset(f, len) = p + 8
  <1>. DEFINE F == PcmFrom(f, len)
              T == {r \in DOMAIN f.at : r + 8 <= len /\ PcmOffset(f, len) # F[r]}
  <1>1. Numbers(f) /\ T \subseteq Nat
    BY LaidOutNumbers DEF Numbers
  <1>2. ASSUME T # {} PROVE FALSE
    <2>1. PICK m \in T : \A k \in T : m <= k
      <3>. HIDE DEF T
      <3>. QED
        BY <1>1, <1>2, LeastElement, Zenon
    <2>2. m \in Nat /\ m \in DOMAIN f.at /\ m + 8 <= len /\ PcmOffset(f, len) # F[m]
      BY <1>1, <2>1
    <2>3. m # 12
      BY <2>2 DEF PcmOffset
    <2>4. PICK q \in DOMAIN f.at : f.at[q].id # "data" /\ m = ChunkEnd(f, q)
      BY <2>2, <2>3, Zenon DEF LaidOut
    <2>5. q \in Nat /\ m > q /\ f.at[q].size \in Nat /\ m >= q + 8 + f.at[q].size
      BY <1>1, <2>4, EndIsLater DEF Numbers
    <2>6. q \notin T /\ ~(q + 8 > len) /\ ~(q + 8 + f.at[q].size > len)
      BY <2>1, <2>2, <2>5
    <2>7. PcmOffset(f, len) = F[q]
      BY <2>5, <2>6
    <2>8. F[q] = PcmStep(f, len, F, q)
      BY <1>1, <2>5, PcmUnfolds, Zenon
    <2>9. PcmStep(f, len, F, q) = F[m]
      BY <2>4, <2>6, Zenon DEF PcmStep
    <2>. QED
      BY <2>2, <2>7, <2>8, <2>9, Zenon
  <1>3. p \in Nat /\ ~(p + 8 > len)
    BY <1>1 DEF Numbers
  <1>4. PcmOffset(f, len) = F[p]
    BY <1>2
  <1>5. F[p] = PcmStep(f, len, F, p)
    BY <1>1, <1>3, PcmUnfolds, Zenon
  <1>6. PcmStep(f, len, F, p) = p + 8
    BY <1>3, Zenon DEF PcmStep
  <1>. QED
    BY <1>4, <1>5, <1>6, Zenon

-----------------------------------------------------------------------------
(* The files of the writers.                                                   *)

\* The sound of a file is at p, size bytes long.
SoundAt(f, p, size) == p \in DOMAIN f.at /\ f.at[p].id = "data" /\ f.at[p].size = size

\* What ffmpeg and the recorder write is laid out, cut off or not; its sound is at the end.
LEMMA WritersLayOut ==
    ASSUME NEW list \in Nat, NEW data \in Nat, NEW present \in Nat
    PROVE  /\ LaidOut(FileOf(list, data, present))
           /\ FileOf(list, data, present).riff = DataAt(list) + data
           /\ FileOf(list, data, present).bytes = DataAt(list) + 8 + present
           /\ SoundAt(FileOf(list, data, present), DataAt(list), data)
           /\ DataAt(list) \in Nat
  <1>. DEFINE f == FileOf(list, data, present)
              start == DataAt(list)
              chunk == [p \in {12, 36, start} |->
                          IF p = 12 THEN [id |-> "fmt", size |-> 16, rate |-> 2 * SampleRate]
                          ELSE IF p = start THEN [id |-> "data", size |-> data, rate |-> 0]
                          ELSE [id |-> "LIST", size |-> list, rate |-> 0]]
  <1>1. list % 2 \in 0..1 /\ SampleRate \in Nat
    BY LimitsAssumption
  <1>2. start \in Nat /\ start >= 36
    BY <1>1 DEF DataAt
  <1>3. f = [riff |-> start + data, bytes |-> start + 8 + present, at |-> chunk]
    BY DEF FileOf
  <1>4. DOMAIN f.at = {12, 36, start} /\ f.riff = start + data /\ f.bytes = start + 8 + present
    BY <1>3
  <1>5. f.at[12] = [id |-> "fmt", size |-> 16, rate |-> 2 * SampleRate]
    BY <1>3
  <1>6. f.at[start] = [id |-> "data", size |-> data, rate |-> 0]
    BY <1>2, <1>3
  <1>7. 36 # start => f.at[36] = [id |-> "LIST", size |-> list, rate |-> 0]
    BY <1>3
  <1>8. ChunkEnd(f, 12) = 36
    BY <1>5 DEF ChunkEnd
  <1>9. 36 # start => ChunkEnd(f, 36) = start
    BY <1>1, <1>7 DEF ChunkEnd, DataAt
  <1>. HIDE DEF f, start, chunk
  <1>10. ASSUME NEW p \in DOMAIN f.at
         PROVE  /\ {f.at[p].size, f.at[p].rate} \subseteq Nat
                /\ p + 8 <= f.bytes
                /\ p = 12 \/ \E q \in DOMAIN f.at : f.at[q].id # "data" /\ p = ChunkEnd(f, q)
                /\ f.at[p].id = "data" => f.riff = p + f.at[p].size
    <2>1. CASE p = 12
      BY <1>1, <1>2, <1>4, <1>5, <2>1
    <2>2. CASE p = start
      <3>1. \E q \in DOMAIN f.at : f.at[q].id # "data" /\ p = ChunkEnd(f, q)
        <4>1. CASE start = 36
          BY <1>4, <1>5, <1>8, <2>2, <4>1
        <4>2. CASE start # 36
          BY <1>4, <1>7, <1>9, <2>2, <4>2
        <4>. QED
          BY <4>1, <4>2
      <3>. QED
        BY <1>2, <1>4, <1>6, <2>2, <3>1
    <2>3. CASE p = 36 /\ p # start
      <3>1. f.at[12].id # "data" /\ 12 \in DOMAIN f.at
        BY <1>4, <1>5
      <3>. QED
        BY <1>2, <1>4, <1>7, <1>8, <2>3, <3>1
    <2>. QED
      BY <1>4, <2>1, <2>2, <2>3
  <1>11. {f.riff, f.bytes} \cup DOMAIN f.at \subseteq Nat
    BY <1>2, <1>4
  <1>12. LaidOut(f)
    BY <1>10, <1>11, Zenon DEF LaidOut
  <1>13. SoundAt(f, start, data)
    BY <1>4, <1>6 DEF SoundAt
  <1>. QED
    BY <1>2, <1>4, <1>12, <1>13, Zenon DEF f, start

\* The server reads them: the byte rate of "fmt ", the length of the sound.
LEMMA WalkOfWritten ==
    ASSUME NEW list \in Nat, NEW data \in Nat, NEW present \in Nat
    PROVE  Walk(FileOf(list, data, present))
               = [ok |-> TRUE, byteRate |-> 2 * SampleRate, dataSize |-> data]
  <1>. DEFINE f == FileOf(list, data, present)
              start == DataAt(list)
              W == WalkFrom(f)
              rate == 2 * SampleRate
  <1>1. list % 2 \in 0..1 /\ SampleRate \in Nat /\ rate \in Nat
    BY LimitsAssumption
  <1>2. start \in Nat /\ start >= 36
    BY <1>1 DEF DataAt
  <1>3. /\ LaidOut(f) /\ f.bytes = start + 8 + present
        /\ start \in DOMAIN f.at /\ f.at[start].id = "data" /\ f.at[start].size = data
    <2>1. f.bytes = start + 8 + present
      BY Zenon DEF FileOf
    <2>2. LaidOut(f)
      BY WritersLayOut, Zenon
    <2>3. SoundAt(f, start, data)
      BY WritersLayOut, Zenon
    <2>. QED
      BY <2>1, <2>2, <2>3, Zenon DEF SoundAt
  <1>4. /\ DOMAIN f.at = {12, 36, start}
        /\ f.at[12].id = "fmt" /\ f.at[12].size = 16 /\ f.at[12].rate = rate
        /\ 36 # start => f.at[36].id = "LIST" /\ f.at[36].size = list
    BY DEF FileOf
  <1>. HIDE DEF f, start, rate
  <1>5. ChunkEnd(f, 12) = 36 /\ RateAfter(f, 12, 0) = rate
    BY <1>4 DEF ChunkEnd, RateAfter
  <1>6. 36 # start => ChunkEnd(f, 36) = start /\ RateAfter(f, 36, rate) = rate
    BY <1>1, <1>4 DEF ChunkEnd, RateAfter, start, DataAt
  <1>7. \A p, r \in Nat : W[p][r] = WalkStep(f, W, p, r)
    BY <1>3, LaidOutNumbers, WalkUnfolds
  <1>8. W[12][0] = W[36][rate]
    <2>1. W[12][0] = WalkStep(f, W, 12, 0)
      BY <1>7
    <2>2. ~(12 + 8 > f.bytes) /\ 12 \in DOMAIN f.at /\ f.at[12].id # "data" /\ ~(36 > f.bytes)
      BY <1>2, <1>3, <1>4
    <2>. QED
      BY <1>5, <2>1, <2>2, Zenon DEF WalkStep
  <1>9. W[36][rate] = W[start][rate]
    <2>1. CASE 36 = start
      BY <2>1
    <2>2. CASE 36 # start
      <3>1. W[36][rate] = WalkStep(f, W, 36, rate)
        BY <1>1, <1>7
      <3>2. ~(36 + 8 > f.bytes) /\ ~(start > f.bytes)
        BY <1>1, <1>2, <1>3, <2>2 DEF start, DataAt
      <3>3. 36 \in DOMAIN f.at /\ f.at[36].id # "data"
        BY <1>4, <2>2
      <3>. QED
        BY <1>6, <2>2, <3>1, <3>2, <3>3, Zenon DEF WalkStep
    <2>. QED
      BY <2>1, <2>2
  <1>10. W[start][rate] = [ok |-> TRUE, byteRate |-> rate, dataSize |-> data]
    <2>1. W[start][rate] = WalkStep(f, W, start, rate)
      BY <1>1, <1>2, <1>7
    <2>2. ~(start + 8 > f.bytes)
      BY <1>2, <1>3
    <2>. QED
      BY <1>3, <2>1, <2>2, Zenon DEF WalkStep
  <1>. QED
    BY <1>8, <1>9, <1>10, Zenon DEF Walk, f, rate

-----------------------------------------------------------------------------
(* Durations.                                                                  *)

\* A quotient is the largest number whose product is not above.
LEMMA Quotient ==
    ASSUME NEW a \in Nat, NEW c \in Nat \ {0}
    PROVE  /\ a \div c \in Nat
           /\ (a \div c) * c <= a /\ a < (a \div c) * c + c
  OBVIOUS

\* A quotient is told by its bounds.
LEMMA QuotientUnique ==
    ASSUME NEW a \in Nat, NEW c \in Nat \ {0}, NEW q \in Nat, q * c <= a, a < q * c + c
    PROVE  a \div c = q
  OBVIOUS

\* More bytes do not last shorter.
LEMMA QuotientMonotone ==
    ASSUME NEW a \in Nat, NEW b \in Nat, a <= b, NEW c \in Nat \ {0}
    PROVE  a \div c <= b \div c
  OBVIOUS

\* Two bytes to a sample: a duration counted in samples is the one counted in bytes.
LEMMA BytesAreSamples ==
    ASSUME NEW n \in Nat
    PROVE  DurationMs(2 * n, 2 * SampleRate) = (n * 1000) \div SampleRate
  <1>. DEFINE a == n * 1000
              q == a \div SampleRate
  <1>1. SampleRate \in Nat \ {0} /\ 2 * SampleRate \in Nat \ {0} /\ a \in Nat
    BY LimitsAssumption
  <1>2. q \in Nat /\ q * SampleRate <= a /\ a < q * SampleRate + SampleRate
    BY <1>1, Quotient
  <1>3. q * (2 * SampleRate) = 2 * (q * SampleRate) /\ q * SampleRate \in Nat
    BY <1>1, <1>2
  <1>4. (2 * n) * 1000 = 2 * a
    OBVIOUS
  <1>. HIDE DEF a, q
  <1>5. 2 * a \in Nat /\ q * (2 * SampleRate) <= 2 * a
        /\ 2 * a < q * (2 * SampleRate) + 2 * SampleRate
    BY <1>1, <1>2, <1>3
  <1>6. (2 * a) \div (2 * SampleRate) = q
    BY <1>1, <1>2, <1>5, QuotientUnique
  <1>. QED
    BY <1>4, <1>6 DEF DurationMs, a, q
=============================================================================
