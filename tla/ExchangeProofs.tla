--------------------------- MODULE ExchangeProofs ---------------------------
(***************************************************************************)
(* Theorems about Exchange, for any flash, any messages, any number of     *)
(* recordings, faults and reboots.                                         *)
(***************************************************************************)
EXTENDS Exchange, TLAPS

USE DEF None, Messages

\* The parts of TypeOK, kept apart because the flags are easy and the numbers are not,
\* with what TLC need not be told and what they need to be inductive.
Flags == requested \in BOOLEAN /\ ready \in BOOLEAN /\ trimmed \in BOOLEAN

Numbers ==
    /\ doing \in {"idle", "posting", "downloading"}
    /\ take \in 0..TakeMost /\ made \in 0..Takes /\ attempt \in 0..2
    /\ cache \in Nat /\ cap \in Nat /\ faults \in Nat /\ reboots \in Nat
    /\ rows \in [1..Takes -> Nat] /\ lost \in [1..Takes -> Nat]
    /\ arrived \in Messages \cup {0} /\ heard \subseteq 1..arrived
    /\ 1..arrived \subseteq Messages
    /\ pending \in 0..arrived /\ played \in 0..arrived

\* Something to post is there when a post is due.
Due ==
    /\ doing = "posting" <=> attempt > 0
    /\ requested \/ doing = "posting" => take > 0
    /\ doing = "posting" => ~requested
    /\ take > 0 => made > 0

\* What ties the flash to the download.
Room ==
    /\ FlashKeepsRoom
    /\ doing = "downloading" => cache <= cap /\ take + cap + FlashMargin <= Flash

\* What ties a download, and what it left, to the pending message.
Wanted ==
    /\ ReadyIsWhole
    /\ doing = "downloading" => ~ready /\ ~trimmed /\ pending # None /\ cap <= Lengths[pending]
    /\ ready => pending # None

\* Every post of the take on the flash that was stored had its answer lost.
Counted ==
    /\ CopiesNeedLoss
    /\ take > 0 => rows[made] <= lost[made]
    /\ \A t \in 1..Takes : t > made => rows[t] = 0

IInv == Flags /\ Numbers /\ Due /\ Room /\ Wanted /\ Counted

LEMMA Constants ==
    /\ Flash \in Nat /\ TakeReserve \in Nat /\ TakeMost \in Nat /\ TakeLeast \in Nat
    /\ FlashMargin \in Nat /\ PlayLeast \in Nat
    /\ Flash > 0 /\ TakeMost > 0 /\ TakeLeast > 0 /\ PlayLeast > 0
    /\ TakeReserve <= FlashMargin /\ TakeReserve <= Flash
    /\ Takes \in Nat /\ MaxFaults \in Nat /\ MaxReboots \in Nat
    /\ DOMAIN Lengths \subseteq Nat /\ 0 \notin DOMAIN Lengths
    /\ \A m \in DOMAIN Lengths : Lengths[m] \in Nat /\ Lengths[m] > 0
  BY SizesAssumption, NoneAssumption

\* A quotient by a positive number, times no more than that number, is within the dividend.
LEMMA Quotient ==
    ASSUME NEW x \in Nat, NEW b \in Nat \ {0}, NEW p \in 1..b
    PROVE (x \div b) * p \in Nat /\ (x \div b) * p <= x
  <1>1. x \div b \in Nat /\ b * (x \div b) <= x
    OBVIOUS
  <1>2. (x \div b) * p <= (x \div b) * b
    BY <1>1
  <1>. QED
    BY <1>1, <1>2

\* What a message may take leaves a take that is there the margin at least.
LEMMA CapFits ==
    ASSUME NEW size \in Nat, FreeBeside(size) > FlashMargin + PlayLeast
    PROVE CapBeside(size) \in Nat /\ size + CapBeside(size) + FlashMargin <= Flash
  <1>. USE Constants
  <1>1. Block \in Nat \ {0} /\ Payload \in 1..Block
    BY SizesAssumption
  <1>2. (size + Block - 1) \div Block \in Nat /\ Block * ((size + Block - 1) \div Block) >= size
    BY <1>1
  <1>3. FreeBeside(size) \in Int /\ FreeBeside(size) + size <= Flash
    BY <1>1, <1>2 DEF FreeBeside
  <1>4. FreeBeside(size) - FlashMargin \in Nat
    BY <1>3
  <1>5. CapBeside(size) \in Nat /\ CapBeside(size) <= FreeBeside(size) - FlashMargin
    BY <1>1, <1>4, Quotient DEF CapBeside
  <1>. QED
    BY <1>3, <1>5

\* The initial state satisfies the invariant.
LEMMA InitHolds == Init => IInv
  <1>. SUFFICES ASSUME Init PROVE IInv
    OBVIOUS
  <1>. USE Constants DEF Init
  <1>1. Flags
    BY DEF Flags
  <1>2. Numbers
    BY DEF Numbers
  <1>3. Due
    BY DEF Due
  <1>4. Room
    BY DEF Room, FlashKeepsRoom
  <1>5. Wanted
    BY DEF Wanted, ReadyIsWhole
  <1>6. Counted
    BY DEF Counted, CopiesNeedLoss
  <1>. QED
    BY <1>1, <1>2, <1>3, <1>4, <1>5, <1>6 DEF IInv

\* The flags stay flags.
LEMMA FlagsKept == ASSUME IInv, Next PROVE Flags'
  <1>. USE Constants DEF IInv, Flags,
               netVars, sendVars, fileVars, receiveVars
  <1>1. CASE RetryPending
    BY <1>1 DEF RetryPending
  <1>2. CASE StartPost
    BY <1>2 DEF StartPost
  <1>3. CASE PostAccepted
    BY <1>3 DEF PostAccepted, Stored
  <1>4. CASE Poll
    BY <1>4 DEF Poll
  <1>5. CASE StartDownload
    BY <1>5 DEF StartDownload, DownloadCap
  <1>6. CASE Receive
    BY <1>6 DEF Receive
  <1>7. CASE Received
    BY <1>7 DEF Received
  <1>8. CASE Play
    BY <1>8 DEF Play, Fault
  <1>9. CASE Record
    BY <1>9 DEF Record, Smaller
  <1>10. CASE Arrive
    BY <1>10 DEF Arrive
  <1>11. CASE PostFailed
    BY <1>11 DEF PostFailed, Stored, NextAttempt, Fault
  <1>12. CASE ReceivedTrimmed
    BY <1>12 DEF ReceivedTrimmed, Fault
  <1>13. CASE ReceiveFailed
    BY <1>13 DEF ReceiveFailed, Fault
  <1>14. CASE Reboot
    BY <1>14 DEF Reboot
  <1>. QED
    BY <1>1, <1>2, <1>3, <1>4, <1>5, <1>6, <1>7, <1>8, <1>9, <1>10,
       <1>11, <1>12, <1>13, <1>14 DEF Next, DeviceStep

\* The other variables keep their types.
LEMMA NumbersKept == ASSUME IInv, Next PROVE Numbers'
  <1>. USE Constants DEF IInv, Numbers, Due, Smaller,
               netVars, sendVars, fileVars, receiveVars
  <1>. arrived \in Nat
    OBVIOUS
  <1>1. CASE RetryPending
    BY <1>1 DEF RetryPending
  <1>2. CASE StartPost
    BY <1>2 DEF StartPost
  <1>3. CASE PostAccepted
    <2>. USE <1>3 DEF PostAccepted
    <2>1. made \in 1..Takes
      OBVIOUS
    <2>2. rows' \in [1..Takes -> Nat]
      BY <2>1 DEF Stored
    <2>. QED
      BY <2>2
  <1>4. CASE Poll
    <2>. USE <1>4 DEF Poll
    <2>1. ASSUME NEW m \in 1..arrived PROVE heard \cup {m} \subseteq 1..arrived /\ m \in 0..arrived
      OBVIOUS
    <2>2. heard' \subseteq 1..arrived
      BY <2>1
    <2>3. pending' \in 0..arrived
      BY <2>1
    <2>. QED
      BY <2>2, <2>3
  <1>5. CASE StartDownload
    <2>. USE <1>5 DEF StartDownload
    <2>1. FreeBeside(take) \in Int
      BY SizesAssumption DEF FreeBeside
    <2>2. CASE FreeBeside(take) <= FlashMargin + PlayLeast
      BY <2>2
    <2>3. CASE FreeBeside(take) > FlashMargin + PlayLeast
      <3>1. CapBeside(take) \in Nat
        BY <2>3, CapFits
      <3>2. DownloadCap \in Nat
        BY <3>1 DEF DownloadCap
      <3>3. cap' = DownloadCap
        BY <2>3, <2>1
      <3>. QED
        BY <3>2, <3>3
    <2>. QED
      BY <2>2, <2>3, <2>1
  <1>6. CASE Receive
    BY <1>6 DEF Receive
  <1>7. CASE Received
    BY <1>7 DEF Received
  <1>8. CASE Play
    <2>. USE <1>8 DEF Play
    <2>1. pending \in 1..arrived
      OBVIOUS
    <2>2. heard' \subseteq 1..arrived
      BY <2>1
    <2>3. faults' \in Nat /\ reboots' \in Nat
      BY DEF Fault
    <2>. QED
      BY <2>1, <2>2, <2>3
  <1>9. CASE Record
    BY <1>9 DEF Record
  <1>10. CASE Arrive
    BY <1>10 DEF Arrive
  <1>11. CASE PostFailed
    <2>. USE <1>11 DEF PostFailed
    <2>1. made \in 1..Takes
      OBVIOUS
    <2>2. CASE UNCHANGED <<rows, lost>>
      BY <2>2 DEF NextAttempt, Fault
    <2>3. CASE Stored /\ lost' = [lost EXCEPT ![made] = @ + 1]
      <3>1. rows' \in [1..Takes -> Nat]
        BY <2>1, <2>3 DEF Stored
      <3>2. lost' \in [1..Takes -> Nat]
        BY <2>1, <2>3
      <3>. QED
        BY <3>1, <3>2 DEF NextAttempt, Fault
    <2>. QED
      BY <2>2, <2>3
  <1>12. CASE ReceivedTrimmed
    BY <1>12 DEF ReceivedTrimmed, Fault
  <1>13. CASE ReceiveFailed
    BY <1>13 DEF ReceiveFailed, Fault
  <1>14. CASE Reboot
    BY <1>14 DEF Reboot
  <1>. QED
    BY <1>1, <1>2, <1>3, <1>4, <1>5, <1>6, <1>7, <1>8, <1>9, <1>10,
       <1>11, <1>12, <1>13, <1>14 DEF Next, DeviceStep

\* A post is due only for a take.
LEMMA DueKept == ASSUME IInv, Next PROVE Due'
  <1>. USE Constants DEF IInv, Numbers, Due, Smaller,
               netVars, sendVars, fileVars, receiveVars
  <1>1. CASE RetryPending
    BY <1>1 DEF RetryPending
  <1>2. CASE StartPost
    BY <1>2 DEF StartPost
  <1>3. CASE PostAccepted
    BY <1>3 DEF PostAccepted, Stored
  <1>4. CASE Poll
    BY <1>4 DEF Poll
  <1>5. CASE StartDownload
    BY <1>5 DEF StartDownload, DownloadCap
  <1>6. CASE Receive
    BY <1>6 DEF Receive
  <1>7. CASE Received
    BY <1>7 DEF Received
  <1>8. CASE Play
    BY <1>8 DEF Play, Fault
  <1>9. CASE Record
    BY <1>9 DEF Record, Smaller
  <1>10. CASE Arrive
    BY <1>10 DEF Arrive
  <1>11. CASE PostFailed
    BY <1>11 DEF PostFailed, Stored, NextAttempt, Fault
  <1>12. CASE ReceivedTrimmed
    BY <1>12 DEF ReceivedTrimmed, Fault
  <1>13. CASE ReceiveFailed
    BY <1>13 DEF ReceiveFailed, Fault
  <1>14. CASE Reboot
    BY <1>14 DEF Reboot
  <1>. QED
    BY <1>1, <1>2, <1>3, <1>4, <1>5, <1>6, <1>7, <1>8, <1>9, <1>10,
       <1>11, <1>12, <1>13, <1>14 DEF Next, DeviceStep

\* Takes leave what the recorder reserves, downloads leave more.
LEMMA RoomKept == ASSUME IInv, Next PROVE Room'
  <1>. USE Constants DEF IInv, Numbers, Room, FlashKeepsRoom, Smaller,
               netVars, sendVars, fileVars, receiveVars
  <1>1. CASE RetryPending
    BY <1>1 DEF RetryPending
  <1>2. CASE StartPost
    BY <1>2 DEF StartPost
  <1>3. CASE PostAccepted
    BY <1>3 DEF PostAccepted, Stored
  <1>4. CASE Poll
    BY <1>4 DEF Poll
  <1>5. CASE StartDownload
    <2>. USE <1>5 DEF StartDownload
    <2>1. FreeBeside(take) \in Int
      BY SizesAssumption DEF FreeBeside
    <2>2. CASE FreeBeside(take) <= FlashMargin + PlayLeast
      BY <2>2
    <2>3. CASE FreeBeside(take) > FlashMargin + PlayLeast
      <3>1. CapBeside(take) \in Nat /\ take + CapBeside(take) + FlashMargin <= Flash
        BY <2>3, CapFits
      <3>2. DownloadCap \in Nat /\ DownloadCap <= CapBeside(take)
        <4>1. Lengths[pending] \in Nat
          OBVIOUS
        <4>. QED
          BY <3>1, <4>1 DEF DownloadCap
      <3>3. ~(FreeBeside(take) <= FlashMargin + PlayLeast)
        BY <2>1, <2>3
      <3>4. cap' = DownloadCap /\ cache' = 0 /\ take' = take
        BY <3>3
      <3>. QED
        BY <3>1, <3>2, <3>4
    <2>. QED
      BY <2>2, <2>3, <2>1
  <1>6. CASE Receive
    BY <1>6 DEF Receive
  <1>7. CASE Received
    BY <1>7 DEF Received
  <1>8. CASE Play
    BY <1>8 DEF Play, Fault
  <1>9. CASE Record
    BY <1>9 DEF Record, Smaller
  <1>10. CASE Arrive
    BY <1>10 DEF Arrive
  <1>11. CASE PostFailed
    BY <1>11 DEF PostFailed, Stored, NextAttempt, Fault
  <1>12. CASE ReceivedTrimmed
    BY <1>12 DEF ReceivedTrimmed, Fault
  <1>13. CASE ReceiveFailed
    BY <1>13 DEF ReceiveFailed, Fault
  <1>14. CASE Reboot
    BY <1>14 DEF Reboot
  <1>. QED
    BY <1>1, <1>2, <1>3, <1>4, <1>5, <1>6, <1>7, <1>8, <1>9, <1>10,
       <1>11, <1>12, <1>13, <1>14 DEF Next, DeviceStep

\* A download, and what it leaves, belongs to the pending message.
LEMMA WantedKept == ASSUME IInv, Next PROVE Wanted'
  <1>. USE Constants DEF IInv, Numbers, Wanted, ReadyIsWhole, Smaller,
               netVars, sendVars, fileVars, receiveVars
  <1>1. CASE RetryPending
    BY <1>1 DEF RetryPending
  <1>2. CASE StartPost
    BY <1>2 DEF StartPost
  <1>3. CASE PostAccepted
    BY <1>3 DEF PostAccepted, Stored
  <1>4. CASE Poll
    BY <1>4 DEF Poll
  <1>5. CASE StartDownload
    <2>. USE <1>5 DEF StartDownload
    <2>1. pending \in DOMAIN Lengths
      OBVIOUS
    <2>2. Lengths[pending] \in Nat
      BY <2>1
    <2>3. doing' = "downloading" => DownloadCap <= Lengths[pending]
      <3>. SUFFICES ASSUME doing' = "downloading" PROVE DownloadCap <= Lengths[pending]
        OBVIOUS
      <3>1. FreeBeside(take) \in Int
        BY SizesAssumption DEF FreeBeside
      <3>2. ~(FreeBeside(take) <= FlashMargin + PlayLeast)
        OBVIOUS
      <3>3. CapBeside(take) \in Nat
        BY <3>1, <3>2, CapFits
      <3>. QED
        BY <2>2, <3>3 DEF DownloadCap
    <2>4. ~ready' /\ ~trimmed' /\ pending' = pending /\ pending # None
      OBVIOUS
    <2>5. doing' = "downloading" => cap' = DownloadCap
      OBVIOUS
    <2>6. doing' = "downloading" => cap' <= Lengths[pending]
      BY <2>3, <2>5
    <2>. QED
      BY <2>4, <2>6
  <1>6. CASE Receive
    BY <1>6 DEF Receive
  <1>7. CASE Received
    <2>. USE <1>7 DEF Received
    <2>1. pending \in DOMAIN Lengths /\ pending # 0
      OBVIOUS
    <2>2. Lengths[pending] \in Nat
      BY <2>1
    <2>3. cap \in Nat /\ cap <= Lengths[pending] /\ cache = cap
      OBVIOUS
    <2>4. /\ pending' = pending /\ cache' = cap /\ doing' = "idle"
          /\ trimmed' = (cap < Lengths[pending])
          /\ ready' = (cap = Lengths[pending] \/ cap >= PlayLeast)
      OBVIOUS
    <2>5. CASE cap = Lengths[pending]
      <3>1. ~(cap < Lengths[pending])
        BY <2>2, <2>5
      <3>2. ~trimmed'
        BY <2>4, <3>1, Zenon
      <3>. QED
        BY <2>1, <2>4, <2>5, <3>2
    <2>6. CASE cap # Lengths[pending]
      <3>1. cap < Lengths[pending]
        BY <2>2, <2>3, <2>6
      <3>2. trimmed' /\ (ready' => cap >= PlayLeast)
        BY <2>4, <2>6, <3>1, Zenon
      <3>. QED
        BY <2>1, <2>4, <3>2
    <2>. QED
      BY <2>5, <2>6
  <1>8. CASE Play
    BY <1>8 DEF Play, Fault
  <1>9. CASE Record
    BY <1>9 DEF Record, Smaller
  <1>10. CASE Arrive
    BY <1>10 DEF Arrive
  <1>11. CASE PostFailed
    BY <1>11 DEF PostFailed, Stored, NextAttempt, Fault
  <1>12. CASE ReceivedTrimmed
    BY <1>12 DEF ReceivedTrimmed, Fault
  <1>13. CASE ReceiveFailed
    BY <1>13 DEF ReceiveFailed, Fault
  <1>14. CASE Reboot
    BY <1>14 DEF Reboot
  <1>. QED
    BY <1>1, <1>2, <1>3, <1>4, <1>5, <1>6, <1>7, <1>8, <1>9, <1>10,
       <1>11, <1>12, <1>13, <1>14 DEF Next, DeviceStep

\* A post adds a row, and an answer that is lost, or ends the take.
LEMMA CountedKept == ASSUME IInv, Next PROVE Counted'
  <1>. USE Constants DEF IInv, Numbers, Counted, CopiesNeedLoss,
               netVars, sendVars, fileVars, receiveVars
  <1>1. CASE RetryPending
    BY <1>1 DEF RetryPending
  <1>2. CASE StartPost
    BY <1>2 DEF StartPost
  <1>3. CASE PostAccepted
    <2>. USE <1>3 DEF PostAccepted, Due
    <2>1. made \in 1..Takes /\ rows[made] <= lost[made]
      OBVIOUS
    <2>2. made' = made /\ lost' = lost /\ take' = 0
      OBVIOUS
    <2>3. ASSUME NEW t \in 1..Takes
          PROVE rows'[t] <= 1 + lost[t] /\ (t > made => rows'[t] = 0)
      <3>1. rows[t] \in Nat /\ lost[t] \in Nat /\ rows[t] <= 1 + lost[t]
        OBVIOUS
      <3>2. CASE t = made
        <4>1. rows'[t] = rows[t] + 1
          BY <2>1, <3>2 DEF Stored
        <4>. QED
          BY <2>1, <3>1, <3>2, <4>1
      <3>3. CASE t # made
        <4>1. rows'[t] = rows[t]
          BY <2>1, <3>3 DEF Stored
        <4>. QED
          BY <2>1, <3>1, <3>3, <4>1
      <3>. QED
        BY <3>2, <3>3
    <2>. QED
      BY <2>2, <2>3
  <1>4. CASE Poll
    BY <1>4 DEF Poll
  <1>5. CASE StartDownload
    BY <1>5 DEF StartDownload, DownloadCap
  <1>6. CASE Receive
    BY <1>6 DEF Receive
  <1>7. CASE Received
    BY <1>7 DEF Received
  <1>8. CASE Play
    BY <1>8 DEF Play, Fault
  <1>9. CASE Record
    BY <1>9 DEF Record, Smaller
  <1>10. CASE Arrive
    BY <1>10 DEF Arrive
  <1>11. CASE PostFailed
    <2>. USE <1>11 DEF PostFailed, Due
    <2>1. made \in 1..Takes /\ rows[made] <= lost[made]
      OBVIOUS
    <2>2. made' = made /\ take' = take
      BY DEF NextAttempt
    <2>3. CASE UNCHANGED <<rows, lost>>
      BY <2>1, <2>2, <2>3
    <2>4. CASE Stored /\ lost' = [lost EXCEPT ![made] = @ + 1]
      <3>1. \A t \in 1..Takes :
              /\ rows'[t] = IF t = made THEN rows[made] + 1 ELSE rows[t]
              /\ lost'[t] = IF t = made THEN lost[made] + 1 ELSE lost[t]
        BY <2>1, <2>4 DEF Stored
      <3>2. rows[made] \in Nat /\ lost[made] \in Nat
        BY <2>1
      <3>3. CopiesNeedLoss'
        BY <2>1, <3>1, <3>2
      <3>4. rows'[made] <= lost'[made]
        BY <2>1, <3>1, <3>2
      <3>5. \A t \in 1..Takes : t > made => rows'[t] = 0
        BY <2>1, <3>1
      <3>. QED
        BY <2>2, <3>3, <3>4, <3>5
    <2>. QED
      BY <2>3, <2>4
  <1>12. CASE ReceivedTrimmed
    BY <1>12 DEF ReceivedTrimmed, Fault
  <1>13. CASE ReceiveFailed
    BY <1>13 DEF ReceiveFailed, Fault
  <1>14. CASE Reboot
    BY <1>14 DEF Reboot
  <1>. QED
    BY <1>1, <1>2, <1>3, <1>4, <1>5, <1>6, <1>7, <1>8, <1>9, <1>10,
       <1>11, <1>12, <1>13, <1>14 DEF Next, DeviceStep

\* A step that changes nothing keeps the invariant.
LEMMA StutterKeeps == ASSUME IInv, UNCHANGED vars PROVE IInv'
  <1>. USE DEF vars, netVars, sendVars, fileVars, receiveVars, IInv
  <1>1. Flags' /\ Numbers' /\ Due'
    BY DEF Flags, Numbers, Due
  <1>2. Room'
    BY DEF Room, FlashKeepsRoom
  <1>3. Wanted'
    BY DEF Wanted, ReadyIsWhole
  <1>4. Counted'
    BY DEF Counted, CopiesNeedLoss
  <1>. QED
    BY <1>1, <1>2, <1>3, <1>4

\* The inductive invariant holds of every reachable state.
THEOREM Invariant == Spec => []IInv
  <1>1. IInv /\ [Next]_vars => IInv'
    <2>. SUFFICES ASSUME IInv, [Next]_vars PROVE IInv'
      OBVIOUS
    <2>1. CASE Next
      BY <2>1, FlagsKept, NumbersKept, DueKept, RoomKept, WantedKept, CountedKept DEF IInv
    <2>2. CASE UNCHANGED vars
      BY <2>2, StutterKeeps
    <2>. QED
      BY <2>1, <2>2
  <1>. QED
    BY InitHolds, <1>1, PTL DEF Spec

\* The types of Exchange: a post is due only for a take that is on the flash, and the
\* device holds no id of a message that has not arrived.
THEOREM TypeCorrect == Spec => []TypeOK
  <1>1. IInv => TypeOK
    <2>. SUFFICES ASSUME IInv PROVE TypeOK
      OBVIOUS
    <2>. USE Constants DEF IInv
    <2>1. requested \in BOOLEAN /\ ready \in BOOLEAN /\ trimmed \in BOOLEAN
      BY DEF Flags
    <2>2. {pending, played} \subseteq Messages \cup {None}
      BY DEF Numbers
    <2>. QED
      BY <2>1, <2>2 DEF Numbers, Due, TypeOK
  <1>. QED
    BY Invariant, <1>1, PTL

\* Takes and downloads together never take the blocks LittleFS needs, whatever the
\* order in which they come and fail (api_client.cpp:1024-1027).
THEOREM RoomTheorem == Spec => []FlashKeepsRoom
  <1>1. IInv => FlashKeepsRoom
    BY DEF IInv, Room
  <1>. QED
    BY Invariant, <1>1, PTL

\* What is offered to the child is the whole message, or is marked as a part of it and
\* long enough (api_client.cpp:1129-1144).
THEOREM WholeTheorem == Spec => []ReadyIsWhole
  <1>1. IInv => ReadyIsWhole
    BY DEF IInv, Wanted
  <1>. QED
    BY Invariant, <1>1, PTL

\* The server makes more rows of a recording than one only when it lost answers, and
\* never more than that (api_client.cpp:430-451).
THEOREM CopiesTheorem == Spec => []CopiesNeedLoss
  <1>1. IInv => CopiesNeedLoss
    BY DEF IInv, Counted
  <1>. QED
    BY Invariant, <1>1, PTL

\* A step that takes the take off the flash stored it, begins another recording or is
\* a reboot.
LEMMA TakeLeavesStored ==
    ASSUME IInv, Next, take > 0, take' = 0
    PROVE rows'[made] > 0 \/ made' # made \/ reboots' # reboots
  <1>. USE Constants DEF IInv, Numbers, netVars, sendVars, fileVars, receiveVars
  <1>1. CASE PostAccepted
    <2>1. made \in 1..Takes
      BY <1>1 DEF PostAccepted, Due
    <2>2. rows[made] \in Nat /\ rows'[made] = rows[made] + 1
      BY <1>1, <2>1 DEF PostAccepted, Stored
    <2>. QED
      BY <2>2
  <1>2. CASE Record
    BY <1>2 DEF Record
  <1>3. CASE Reboot
    BY <1>3 DEF Reboot
  <1>4. CASE PostFailed
    BY <1>4 DEF PostFailed, NextAttempt
  <1>5. CASE RetryPending \/ StartPost \/ Poll \/ StartDownload
    BY <1>5 DEF RetryPending, StartPost, Poll, StartDownload
  <1>6. CASE Receive \/ Received \/ Play \/ Arrive
    BY <1>6 DEF Receive, Received, Play, Arrive
  <1>7. CASE ReceivedTrimmed \/ ReceiveFailed
    BY <1>7 DEF ReceivedTrimmed, ReceiveFailed
  <1>. QED
    BY <1>1, <1>2, <1>3, <1>4, <1>5, <1>6, <1>7 DEF Next, DeviceStep

\* A take leaves the flash only once the server has it, for the next recording or in a
\* reboot: no failure of an upload loses it (main.cpp:141-153).
THEOREM KeptTheorem == Spec => TakeKeptUntilStored
  <1>1. IInv /\ [Next]_vars
          => [take > 0 /\ take' = 0 =>
                 rows'[made] > 0 \/ made' # made \/ reboots' # reboots]_vars
    BY TakeLeavesStored
  <1>. QED
    BY Invariant, <1>1, PTL DEF Spec, TakeKeptUntilStored
=============================================================================
