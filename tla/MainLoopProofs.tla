--------------------------- MODULE MainLoopProofs ---------------------------
(***************************************************************************)
(* Theorems about MainLoop, for any messages and takes.  TypeOK holds      *)
(* under every fault; the other properties while the Wi-Fi stays up, as a  *)
(* drop really breaks some of them (main_loop_wedge).                      *)
(***************************************************************************)
EXTENDS MainLoop, WellFoundedInduction, TLAPS

-----------------------------------------------------------------------------
(* Types.                                                                      *)

\* The conjuncts of TypeOK, by kind.
Flags ==
    /\ wifi \in BOOLEAN /\ hasPending \in BOOLEAN /\ ready \in BOOLEAN /\ ran \in BOOLEAN
    /\ downloadDone \in BOOLEAN /\ downloadOk \in BOOLEAN /\ pollDone \in BOOLEAN
    /\ flushed \in BOOLEAN /\ recording \in BOOLEAN /\ uploadRequested \in BOOLEAN

Control ==
    /\ button \in Buttons /\ pc \in Places /\ state \in DeviceStates /\ job \in NetJobs

Data ==
    /\ pendingId \in Messages \cup {None} /\ playedId \in Messages \cup {None}
    /\ downloadId \in Messages \cup {None} /\ cache \in Messages \cup {None, Partial}
    /\ pollResult \in Messages \cup {None, Failed}
    /\ take \in Takes \cup {None} /\ uploadTake \in Takes \cup {None} /\ used \subseteq Takes
    /\ row \in [Messages -> RowStates]
    /\ lateAcks \subseteq Messages /\ overtaken \subseteq Messages
    /\ tried \subseteq Messages /\ heard \subseteq Messages

\* What a poll answers: the first of the messages that are AVAILABLE, if there is one.
LEMMA NextIsFirst ==
    IF Available = {} THEN Next1 = None
    ELSE Next1 \in Available /\ \A m \in Available : Next1 <= m
  <1>1. CASE Available # {}
    <2>1. Available \subseteq Nat
      BY MessagesAssumption DEF Available
    <2>2. \E m \in Available : \A o \in Available : m <= o
      <3>1. PICK m \in Available : \A o \in Available : ~(<<o, m>> \in OpToRel(<, Nat))
        BY <1>1, <2>1, NatLessThanWellFounded, WFMin
      <3>2. \A o \in Available : ~(o < m)
        BY <2>1, <3>1 DEF OpToRel
      <3>. QED
        BY <2>1, <3>2
    <2>. QED
      BY <1>1, <2>2 DEF Next1
  <1>. QED
    BY <1>1 DEF Next1

\* The flags of the program stay flags.
LEMMA FlagsKept ==
    ASSUME Flags, Next
    PROVE  Flags'
  <1>. USE DEF Flags, envVars, inboxVars, workerVars, takeVars
  <1>1. CASE PassPlay
    BY <1>1 DEF PassPlay, Checked
  <1>2. CASE PassHold
    BY <1>2 DEF PassHold, HoldStarts, CanArmRecord, Checked
  <1>3. CASE PassOn
    BY <1>3 DEF PassOn, Checked
  <1>4. CASE PlaybackEnd
    BY <1>4 DEF PlaybackEnd, Requested
  <1>5. CASE KeepRecording
    BY <1>5 DEF KeepRecording
  <1>6. CASE StopRecording
    BY <1>6 DEF StopRecording, Cleanup
  <1>7. CASE HandleUploading
    BY <1>7 DEF HandleUploading
  <1>8. CASE UploadOk
    BY <1>8 DEF UploadOk, Cleanup
  <1>9. CASE UploadFail
    BY <1>9 DEF UploadFail
  <1>10. CASE TakeDownload
    BY <1>10 DEF TakeDownload, AfterDownload
  <1>11. CASE TakePoll
    BY <1>11
       DEF TakePoll, PollPlayed, PollMessage, PollNothing, PollFailed, Requested
  <1>12. CASE RequestHeartbeat
    BY <1>12 DEF RequestHeartbeat
  <1>13. CASE RequestPoll
    BY <1>13 DEF RequestPoll, Idle
  <1>14. CASE StartDownload
    BY <1>14 DEF StartDownload, Idle
  <1>15. CASE RetryUpload
    BY <1>15 DEF RetryUpload, Idle
  <1>16. CASE RunPoll
    BY <1>16 DEF RunPoll
  <1>17. CASE RunDownload
    BY <1>17 DEF RunDownload
  <1>18. CASE RunMarkPlayed
    BY <1>18 DEF RunMarkPlayed
  <1>19. CASE RunHeartbeat
    BY <1>19 DEF RunHeartbeat
  <1>20. CASE JobOff
    BY <1>20 DEF JobOff
  <1>21. CASE WifiChange
    BY <1>21 DEF WifiChange
  <1>22. ASSUME NEW m \in Messages, Appear(m) PROVE Flags'
    BY <1>22 DEF Appear
  <1>23. ASSUME NEW m \in Messages, LateAck(m) PROVE Flags'
    BY <1>23 DEF LateAck
  <1>24. CASE Reboot
    BY <1>24 DEF Reboot
  <1>25. CASE NotRecording \/ RequestNothing \/ NoDownload \/ NoRetry
    BY <1>25 DEF NotRecording, RequestNothing, NoDownload, NoRetry
  <1>. QED
    BY <1>1, <1>2, <1>3, <1>4, <1>5, <1>6, <1>7, <1>8, <1>9, <1>10,
       <1>11, <1>12, <1>13, <1>14, <1>15, <1>16, <1>17, <1>18, <1>19, <1>20,
       <1>21, <1>22, <1>23, <1>24, <1>25
       DEF Next, LoopStep, WorkerStep

\* So do the places and states.
LEMMA ControlKept ==
    ASSUME Control, Next
    PROVE  Control'
  <1>. USE DEF Control, Buttons, Places, DeviceStates,
               NetJobs, envVars, inboxVars, workerVars, takeVars
  <1>1. CASE PassPlay
    BY <1>1 DEF PassPlay, ButtonLoop, Edges
  <1>2. CASE PassHold
    BY <1>2 DEF PassHold, ButtonLoop, Edges
  <1>3. CASE PassOn
    BY <1>3 DEF PassOn, ButtonLoop, Edges, Checked
  <1>4. CASE PlaybackEnd
    BY <1>4 DEF PlaybackEnd, Requested
  <1>5. CASE KeepRecording
    BY <1>5 DEF KeepRecording
  <1>6. CASE StopRecording
    BY <1>6 DEF StopRecording, Cleanup
  <1>7. CASE HandleUploading
    BY <1>7 DEF HandleUploading
  <1>8. CASE UploadOk
    BY <1>8 DEF UploadOk, Cleanup
  <1>9. CASE UploadFail
    BY <1>9 DEF UploadFail
  <1>10. CASE TakeDownload
    BY <1>10 DEF TakeDownload, AfterDownload
  <1>11. CASE TakePoll
    BY <1>11
       DEF TakePoll, PollPlayed, PollMessage, PollNothing, PollFailed, Requested
  <1>12. CASE RequestHeartbeat
    BY <1>12 DEF RequestHeartbeat
  <1>13. CASE RequestPoll
    BY <1>13 DEF RequestPoll, Idle
  <1>14. CASE StartDownload
    BY <1>14 DEF StartDownload, Idle
  <1>15. CASE RetryUpload
    BY <1>15 DEF RetryUpload, Idle
  <1>16. CASE RunPoll
    BY <1>16 DEF RunPoll
  <1>17. CASE RunDownload
    BY <1>17 DEF RunDownload
  <1>18. CASE RunMarkPlayed
    BY <1>18 DEF RunMarkPlayed
  <1>19. CASE RunHeartbeat
    BY <1>19 DEF RunHeartbeat
  <1>20. CASE JobOff
    BY <1>20 DEF JobOff
  <1>21. CASE WifiChange
    BY <1>21 DEF WifiChange
  <1>22. ASSUME NEW m \in Messages, Appear(m) PROVE Control'
    BY <1>22 DEF Appear
  <1>23. ASSUME NEW m \in Messages, LateAck(m) PROVE Control'
    BY <1>23 DEF LateAck
  <1>24. CASE Reboot
    BY <1>24 DEF Reboot
  <1>25. CASE NotRecording \/ RequestNothing \/ NoDownload \/ NoRetry
    BY <1>25 DEF NotRecording, RequestNothing, NoDownload, NoRetry
  <1>. QED
    BY <1>1, <1>2, <1>3, <1>4, <1>5, <1>6, <1>7, <1>8, <1>9, <1>10,
       <1>11, <1>12, <1>13, <1>14, <1>15, <1>16, <1>17, <1>18, <1>19, <1>20,
       <1>21, <1>22, <1>23, <1>24, <1>25
       DEF Next, LoopStep, WorkerStep

\* And the ids, takes and rows.
LEMMA DataKept ==
    ASSUME Data, Next
    PROVE  Data'
  <1>. USE DEF Data, envVars, inboxVars, workerVars, takeVars
  <1>1. CASE PassPlay
    BY <1>1 DEF PassPlay, Checked
  <1>2. CASE PassHold
    BY <1>2 DEF PassHold, HoldStarts, CanArmRecord, Checked
  <1>3. CASE PassOn
    BY <1>3 DEF PassOn, Checked
  <1>4. CASE PlaybackEnd
    BY <1>4 DEF PlaybackEnd, Requested
  <1>5. CASE KeepRecording
    BY <1>5 DEF KeepRecording
  <1>6. CASE StopRecording
    BY <1>6 DEF StopRecording, Cleanup
  <1>7. CASE HandleUploading
    BY <1>7 DEF HandleUploading
  <1>8. CASE UploadOk
    BY <1>8 DEF UploadOk, Cleanup
  <1>9. CASE UploadFail
    BY <1>9 DEF UploadFail
  <1>10. CASE TakeDownload
    BY <1>10 DEF TakeDownload, AfterDownload
  <1>11. CASE TakePoll
    BY <1>11
       DEF TakePoll, PollPlayed, PollMessage, PollNothing, PollFailed, Requested
  <1>12. CASE RequestHeartbeat
    BY <1>12 DEF RequestHeartbeat
  <1>13. CASE RequestPoll
    BY <1>13 DEF RequestPoll, Idle
  <1>14. CASE StartDownload
    BY <1>14 DEF StartDownload, Idle
  <1>15. CASE RetryUpload
    BY <1>15 DEF RetryUpload, Idle
  <1>16. CASE RunPoll
    BY <1>16, NextIsFirst DEF RunPoll, Available
  <1>17. CASE RunDownload
    BY <1>17 DEF RunDownload, Available
  <1>18. CASE RunMarkPlayed
    BY <1>18 DEF RunMarkPlayed, Available, RowStates
  <1>19. CASE RunHeartbeat
    BY <1>19 DEF RunHeartbeat
  <1>20. CASE JobOff
    BY <1>20 DEF JobOff
  <1>21. CASE WifiChange
    BY <1>21 DEF WifiChange
  <1>22. ASSUME NEW m \in Messages, Appear(m) PROVE Data'
    BY <1>22 DEF Appear, RowStates
  <1>23. ASSUME NEW m \in Messages, LateAck(m) PROVE Data'
    BY <1>23 DEF LateAck, RowStates
  <1>24. CASE Reboot
    BY <1>24 DEF Reboot
  <1>25. CASE NotRecording \/ RequestNothing \/ NoDownload \/ NoRetry
    BY <1>25 DEF NotRecording, RequestNothing, NoDownload, NoRetry
  <1>. QED
    BY <1>1, <1>2, <1>3, <1>4, <1>5, <1>6, <1>7, <1>8, <1>9, <1>10,
       <1>11, <1>12, <1>13, <1>14, <1>15, <1>16, <1>17, <1>18, <1>19, <1>20,
       <1>21, <1>22, <1>23, <1>24, <1>25
       DEF Next, LoopStep, WorkerStep

\* The types of MainLoop, under every fault: no flag, id or answer is ever used as another
\* (main.cpp:35-93).
THEOREM TypeCorrect == Spec => []TypeOK
  <1>1. TypeOK <=> Flags /\ Control /\ Data
    BY DEF TypeOK, Flags, Control, Data
  <1>2. Init => Flags /\ Control /\ Data
    BY DEF Init, Flags, Control, Data, Buttons, Places, DeviceStates, NetJobs, RowStates
  <1>3. Flags /\ Control /\ Data /\ [Next]_vars => (Flags /\ Control /\ Data)'
    <2>. SUFFICES ASSUME Flags, Control, Data, [Next]_vars
                  PROVE  Flags' /\ Control' /\ Data'
      OBVIOUS
    <2>1. CASE Next
      BY <2>1, FlagsKept, ControlKept, DataKept
    <2>2. CASE UNCHANGED vars
      BY <2>2 DEF vars, Flags, Control, Data
    <2>. QED
      BY <2>1, <2>2
  <1>. QED
    BY <1>1, <1>2, <1>3, PTL DEF Spec

-----------------------------------------------------------------------------
(* The inductive invariant under every fault.                                  *)

\* What the invariant uses of the types.
Ids ==
    /\ pendingId \in Messages \cup {None} /\ playedId \in Messages \cup {None}
    /\ downloadId \in Messages \cup {None}
    /\ row \in [Messages -> RowStates]
    /\ heard \subseteq Messages /\ overtaken \subseteq Messages

\* They follow from the type invariant.
LEMMA IdsOK == ASSUME TypeOK PROVE Ids
  BY DEF TypeOK, Ids

\* What the worker still has to do.
FetchDue == job = "DOWNLOAD" /\ ~ran
PollDue == job = "POLL" /\ ~ran
MarkDue == job = "MARK_PLAYED" /\ ~ran

\* A download has succeeded, and loop() has not taken its result.
Fetched == downloadDone /\ downloadOk

\* A message the box may play next, or plays.
Wanted == FetchDue \/ Fetched \/ ready \/ pc = "playing"

\* The header of the upload and the take belong together while it is under way.
HeaderInv ==
    /\ state \in {"RECORDING", "UPLOADING"} \/ flushed => take # None
    /\ state = "UPLOADING" => uploadTake = take
    /\ pc = "sending" => state = "UPLOADING"

\* The ids the device holds were AVAILABLE once.
Seen(m) == m \in Messages => row[m] # "absent"

SeenInv ==
    /\ Seen(pendingId) /\ Seen(downloadId) /\ Seen(playedId)
    /\ pollDone => Seen(pollResult)

\* The poll prefers m to the message played last.
Before(m) ==
    \/ row[m] = "PLAYED"
    \/ playedId \notin Messages
    \/ row[playedId] # "AVAILABLE"
    \/ m < playedId

\* The message the poll named goes before m, which it overtook, unless it is m.
GoesBefore(m) ==
    m \in Messages /\ row[m] = "AVAILABLE" =>
        pollResult = m \/ (pollResult < m /\ m \in overtaken)

\* What the order of the polls says of the ids the device holds; an answer that names
\* nothing, or the message played last, means that the others are played.
OrderInv ==
    /\ pendingId \in Messages => pendingId # playedId /\ Before(pendingId)
    /\ downloadId \in Messages => downloadId = playedId \/ Before(downloadId)
    /\ pollDone /\ pollResult \in Messages =>
          GoesBefore(pendingId) /\ GoesBefore(downloadId) /\ GoesBefore(playedId)
    /\ pollDone /\ pollResult \in {None, playedId} =>
          /\ pendingId \in Messages => row[pendingId] = "PLAYED"
          /\ downloadId \in Messages => downloadId = playedId \/ row[downloadId] = "PLAYED"

\* The server has the message of the last download as played.
Late == row[downloadId] = "PLAYED"

\* What is fetched, offered or played is the message of the last download, or its file is
\* gone because the server has it as played.
OfferInv ==
    /\ FetchDue => ~downloadDone /\ ~ready /\ (hasPending \/ Late)
    /\ ready \/ pc = "playing" => ~downloadDone /\ ~FetchDue
    /\ pc = "playing" => ~ready
    /\ Wanted => downloadId \in Messages
    /\ FetchDue \/ Fetched \/ ready => downloadId # playedId
    /\ Fetched => hasPending /\ cache = downloadId /\ ~MarkDue
    /\ ready => hasPending \/ (Late /\ playedId \in Messages)
    /\ ready => cache = downloadId \/ (cache = None /\ Late /\ playedId \in Messages)
    /\ pc = "playing" => cache = downloadId \/ (cache = None /\ Late)
    /\ MarkDue /\ (ready \/ pc = "playing") => Late
    /\ pc = "poll" /\ Fetched =>
          ~PollDue /\ (pollDone => pollResult \notin {None, playedId})

\* A mark names a message that was tried.
MarkInv ==
    /\ AckOnlyTried
    /\ playedId \in tried \cup {None}
    /\ MarkDue \/ pc = "playing" => downloadId \in tried \cup {None}

\* A poll found m first: only a message that came later than m may wait before it.
First(m) ==
    m \in Messages \ overtaken => \A i \in Messages : i < m => row[i] # "AVAILABLE"

\* The box has not heard m since it was switched on, or an older one came after m.
Fresh(m) == m \notin heard \ overtaken

\* The message played last is no more in the way of others.
Settled == playedId \in heard \ overtaken => row[playedId] = "PLAYED"

\* Of the messages heard only the last may still wait on the server; it is settled
\* before a poll names another, so one id is enough to remember.
HeardInv ==
    /\ playedId \in heard \cup {None}
    /\ \A k \in heard : row[k] # "absent" /\ First(k)
    /\ \A k \in heard \ overtaken : k = playedId \/ row[k] = "PLAYED"
    /\ First(pendingId) /\ First(downloadId) /\ Fresh(pendingId)
    /\ pollDone => First(pollResult) /\ (pollResult = playedId \/ Fresh(pollResult))
    /\ pollDone /\ (pendingId \in Messages \/ Wanted) => Fresh(pollResult)
    /\ pendingId \in Messages \/ Wanted => Settled
    /\ Wanted => Fresh(downloadId)

\* The inductive invariant, under every fault.
AInv == TypeOK /\ HeaderInv /\ SeenInv /\ OrderInv /\ OfferInv /\ MarkInv /\ HeardInv

\* The take and its header stay together.
LEMMA HeaderKept ==
    ASSUME AInv, Next
    PROVE  HeaderInv'
  <1>. USE DEF AInv, HeaderInv,
               envVars, inboxVars, workerVars, takeVars
  <1>1. CASE PassPlay
    BY <1>1 DEF PassPlay, Checked
  <1>2. CASE PassHold
    BY <1>2, NoneAssumption DEF PassHold, HoldStarts, CanArmRecord, Checked
  <1>3. CASE PassOn
    BY <1>3 DEF PassOn, Checked
  <1>4. CASE PlaybackEnd
    BY <1>4 DEF PlaybackEnd
  <1>5. CASE KeepRecording
    BY <1>5 DEF KeepRecording
  <1>6. CASE StopRecording
    BY <1>6 DEF StopRecording, Cleanup
  <1>7. CASE HandleUploading
    BY <1>7 DEF HandleUploading
  <1>8. CASE UploadOk
    BY <1>8 DEF UploadOk, Cleanup
  <1>9. CASE UploadFail
    BY <1>9 DEF UploadFail
  <1>10. CASE TakeDownload
    BY <1>10 DEF TakeDownload, AfterDownload
  <1>11. CASE TakePoll
    BY <1>11
       DEF TakePoll, PollPlayed, PollMessage, PollNothing, PollFailed
  <1>12. CASE RequestHeartbeat
    BY <1>12 DEF RequestHeartbeat
  <1>13. CASE RequestPoll
    BY <1>13 DEF RequestPoll, Idle
  <1>14. CASE StartDownload
    BY <1>14 DEF StartDownload, Idle
  <1>15. CASE RetryUpload
    BY <1>15 DEF RetryUpload, Idle
  <1>16. CASE RunPoll
    BY <1>16 DEF RunPoll
  <1>17. CASE RunDownload
    BY <1>17 DEF RunDownload
  <1>18. CASE RunMarkPlayed
    BY <1>18 DEF RunMarkPlayed
  <1>19. CASE RunHeartbeat
    BY <1>19 DEF RunHeartbeat
  <1>20. CASE JobOff
    BY <1>20 DEF JobOff
  <1>21. CASE WifiChange
    BY <1>21 DEF WifiChange
  <1>22. ASSUME NEW m \in Messages, Appear(m) PROVE HeaderInv'
    BY <1>22 DEF Appear
  <1>23. ASSUME NEW m \in Messages, LateAck(m) PROVE HeaderInv'
    BY <1>23 DEF LateAck
  <1>24. CASE Reboot
    BY <1>24 DEF Reboot
  <1>25. CASE NotRecording \/ RequestNothing \/ NoDownload \/ NoRetry
    BY <1>25 DEF NotRecording, RequestNothing, NoDownload, NoRetry
  <1>. QED
    BY <1>1, <1>2, <1>3, <1>4, <1>5, <1>6, <1>7, <1>8, <1>9, <1>10,
       <1>11, <1>12, <1>13, <1>14, <1>15, <1>16, <1>17, <1>18, <1>19, <1>20,
       <1>21, <1>22, <1>23, <1>24, <1>25
       DEF Next, LoopStep, WorkerStep

\* An id comes from an answer of the server.
LEMMA SeenKept ==
    ASSUME AInv, Next
    PROVE  SeenInv'
  <1>. USE DEF AInv, SeenInv, Seen,
               envVars, inboxVars, workerVars, takeVars
  <1>1. CASE PassPlay
    BY <1>1 DEF PassPlay, Checked
  <1>2. CASE PassHold
    BY <1>2 DEF PassHold, HoldStarts, CanArmRecord, Checked
  <1>3. CASE PassOn
    BY <1>3 DEF PassOn, Checked
  <1>4. CASE PlaybackEnd
    BY <1>4, IdsOK, NoneAssumption DEF PlaybackEnd, Ids
  <1>5. CASE KeepRecording
    BY <1>5 DEF KeepRecording
  <1>6. CASE StopRecording
    BY <1>6 DEF StopRecording, Cleanup
  <1>7. CASE HandleUploading
    BY <1>7 DEF HandleUploading
  <1>8. CASE UploadOk
    BY <1>8 DEF UploadOk, Cleanup
  <1>9. CASE UploadFail
    BY <1>9 DEF UploadFail
  <1>10. CASE TakeDownload
    BY <1>10 DEF TakeDownload, AfterDownload
  <1>11. CASE TakePoll
    BY <1>11, IdsOK, NoneAssumption
       DEF TakePoll, PollPlayed, PollMessage, PollNothing, PollFailed, Ids, Requested
  <1>12. CASE RequestHeartbeat
    BY <1>12 DEF RequestHeartbeat
  <1>13. CASE RequestPoll
    BY <1>13 DEF RequestPoll, Idle
  <1>14. CASE StartDownload
    BY <1>14 DEF StartDownload, Idle
  <1>15. CASE RetryUpload
    BY <1>15 DEF RetryUpload, Idle
  <1>16. CASE RunPoll
    BY <1>16, NextIsFirst, NoneAssumption DEF RunPoll, Available
  <1>17. CASE RunDownload
    BY <1>17 DEF RunDownload
  <1>18. CASE RunMarkPlayed
    BY <1>18, IdsOK, NoneAssumption DEF RunMarkPlayed, Ids, Available
  <1>19. CASE RunHeartbeat
    BY <1>19 DEF RunHeartbeat
  <1>20. CASE JobOff
    BY <1>20 DEF JobOff
  <1>21. CASE WifiChange
    BY <1>21 DEF WifiChange
  <1>22. ASSUME NEW m \in Messages, Appear(m) PROVE SeenInv'
    BY <1>22 DEF Appear
  <1>23. ASSUME NEW m \in Messages, LateAck(m) PROVE SeenInv'
    BY <1>23, IdsOK DEF LateAck, Ids
  <1>24. CASE Reboot
    BY <1>24, NoneAssumption DEF Reboot
  <1>25. CASE NotRecording \/ RequestNothing \/ NoDownload \/ NoRetry
    BY <1>25 DEF NotRecording, RequestNothing, NoDownload, NoRetry
  <1>. QED
    BY <1>1, <1>2, <1>3, <1>4, <1>5, <1>6, <1>7, <1>8, <1>9, <1>10,
       <1>11, <1>12, <1>13, <1>14, <1>15, <1>16, <1>17, <1>18, <1>19, <1>20,
       <1>21, <1>22, <1>23, <1>24, <1>25
       DEF Next, LoopStep, WorkerStep

\* The order of the polls holds through late, lost and repeated marks, and Wi-Fi drops.
LEMMA OrderKept ==
    ASSUME AInv, Next
    PROVE  OrderInv'
  <1>. USE DEF AInv, OrderInv, SeenInv, Seen, Before,
               envVars, inboxVars, workerVars, takeVars
  <1>1. CASE PassPlay
    BY <1>1 DEF PassPlay, Checked, GoesBefore
  <1>2. CASE PassHold
    BY <1>2 DEF PassHold, HoldStarts, CanArmRecord, Checked, GoesBefore
  <1>3. CASE PassOn
    BY <1>3 DEF PassOn, Checked, GoesBefore
  <1>4. CASE PlaybackEnd
    <2>. USE <1>4 DEF PlaybackEnd, OfferInv, Wanted
    <2>1. pendingId' = None /\ UNCHANGED <<row, overtaken, downloadId, pollDone, pollResult>>
          /\ downloadId \in Messages
      OBVIOUS
    <2>2. CASE playedId' = downloadId
      <3>1. pollDone /\ pollResult \in Messages => GoesBefore(downloadId)' /\ GoesBefore(pendingId)'
        BY <2>1, NoneAssumption DEF GoesBefore
      <3>. QED
        BY <2>1, <2>2, <3>1, NoneAssumption DEF GoesBefore
    <2>3. CASE UNCHANGED playedId
      BY <2>1, <2>3, NoneAssumption DEF GoesBefore
    <2>. QED
      BY <2>1, <2>2, <2>3
  <1>5. CASE KeepRecording
    BY <1>5 DEF KeepRecording, GoesBefore
  <1>6. CASE StopRecording
    BY <1>6 DEF StopRecording, Cleanup, GoesBefore
  <1>7. CASE HandleUploading
    BY <1>7 DEF HandleUploading, GoesBefore
  <1>8. CASE UploadOk
    BY <1>8 DEF UploadOk, Cleanup, GoesBefore
  <1>9. CASE UploadFail
    BY <1>9 DEF UploadFail, GoesBefore
  <1>10. CASE TakeDownload
    BY <1>10 DEF TakeDownload, AfterDownload, GoesBefore
  <1>11. CASE TakePoll
    BY <1>11, NoneAssumption
       DEF TakePoll, PollPlayed, PollMessage, PollNothing, PollFailed, GoesBefore
  <1>12. CASE RequestHeartbeat
    BY <1>12 DEF RequestHeartbeat, GoesBefore
  <1>13. CASE RequestPoll
    BY <1>13 DEF RequestPoll, Idle, GoesBefore
  <1>14. CASE StartDownload
    BY <1>14 DEF StartDownload, Idle, GoesBefore
  <1>15. CASE RetryUpload
    BY <1>15 DEF RetryUpload, Idle, GoesBefore
  <1>16. CASE RunPoll
    <2>. USE <1>16 DEF RunPoll
    <2>1. UNCHANGED <<row, pendingId, downloadId, playedId, overtaken>>
      OBVIOUS
    <2>2. CASE pollResult' = Failed
      BY <2>1, <2>2, IdsOK, NoneAssumption DEF Ids
    <2>3. CASE pollResult' = Next1
      <3>1. CASE Available = {}
        <4>1. pollResult' = None
          BY <2>3, <3>1, NextIsFirst
        <4>2. \A m \in Messages : row[m] # "absent" => row[m] = "PLAYED"
          BY <3>1, IdsOK DEF Ids, Available, RowStates
        <4>. QED
          BY <2>1, <4>1, <4>2, NoneAssumption
      <3>2. CASE Available # {}
        <4>1. pollResult' \in Available /\ \A m \in Available : pollResult' <= m
          BY <2>3, <3>2, NextIsFirst
        <4>2. pollResult' \in Messages /\ row[pollResult'] = "AVAILABLE"
          BY <4>1 DEF Available
        <4>3. First(pendingId) /\ First(downloadId) /\ First(playedId)
          BY NoneAssumption DEF HeardInv, First
        <4>4. ASSUME NEW m, First(m), m \in Available
              PROVE  pollResult' = m \/ (pollResult' < m /\ m \in overtaken)
          <5>1. m \in Nat /\ pollResult' \in Nat /\ pollResult' <= m
            BY <4>1, <4>2, <4>4, MessagesAssumption DEF Available
          <5>2. CASE pollResult' = m
            BY <5>2
          <5>3. CASE pollResult' < m
            BY <4>2, <4>4, <5>3 DEF First, Available
          <5>. QED
            BY <5>1, <5>2, <5>3
        <4>5. GoesBefore(pendingId)' /\ GoesBefore(downloadId)' /\ GoesBefore(playedId)'
          BY <2>1, <4>3, <4>4 DEF GoesBefore, Available
        <4>6. ASSUME NEW m \in Messages, pollResult' = playedId, Before(m), row[m] # "absent"
              PROVE  row[m] = "PLAYED"
          <5>1. ~(m < playedId) \/ m \notin Available
            BY <4>1, <4>2, <4>6, MessagesAssumption DEF Available
          <5>. QED
            BY <4>2, <4>6, <5>1, IdsOK DEF Ids, Available, RowStates
        <4>. QED
          BY <2>1, <4>2, <4>5, <4>6, NoneAssumption
      <3>. QED
        BY <3>1, <3>2
    <2>. QED
      BY <2>2, <2>3
  <1>17. CASE RunDownload
    BY <1>17 DEF RunDownload, GoesBefore
  <1>18. CASE RunMarkPlayed
    BY <1>18, IdsOK, NoneAssumption DEF RunMarkPlayed, Ids, Available, GoesBefore
  <1>19. CASE RunHeartbeat
    BY <1>19 DEF RunHeartbeat, GoesBefore
  <1>20. CASE JobOff
    BY <1>20 DEF JobOff, GoesBefore
  <1>21. CASE WifiChange
    BY <1>21 DEF WifiChange, GoesBefore
  <1>22. ASSUME NEW m \in Messages, Appear(m) PROVE OrderInv'
    BY <1>22, IdsOK DEF Appear, Ids, GoesBefore
  <1>23. ASSUME NEW m \in Messages, LateAck(m) PROVE OrderInv'
    BY <1>23 DEF LateAck, GoesBefore
  <1>24. CASE Reboot
    BY <1>24, NoneAssumption DEF Reboot
  <1>25. CASE NotRecording \/ RequestNothing \/ NoDownload \/ NoRetry
    BY <1>25 DEF NotRecording, RequestNothing, NoDownload, NoRetry, GoesBefore
  <1>. QED
    BY <1>1, <1>2, <1>3, <1>4, <1>5, <1>6, <1>7, <1>8, <1>9, <1>10,
       <1>11, <1>12, <1>13, <1>14, <1>15, <1>16, <1>17, <1>18, <1>19, <1>20,
       <1>21, <1>22, <1>23, <1>24, <1>25
       DEF Next, LoopStep, WorkerStep

\* What is fetched, offered or played stays the message of the last download.
LEMMA OfferKept ==
    ASSUME AInv, Next
    PROVE  OfferInv'
  <1>. USE DEF AInv, OfferInv, Wanted, Late, FetchDue, PollDue, MarkDue, Fetched,
               envVars, inboxVars, workerVars, takeVars
  <1>1. CASE PassPlay
    BY <1>1 DEF PassPlay, Checked
  <1>2. CASE PassHold
    BY <1>2, NoneAssumption DEF PassHold, HoldStarts, CanArmRecord, Checked
  <1>3. CASE PassOn
    BY <1>3 DEF PassOn, Checked
  <1>4. CASE PlaybackEnd
    BY <1>4, IdsOK, NoneAssumption DEF PlaybackEnd, Ids, Requested
  <1>5. CASE KeepRecording
    BY <1>5 DEF KeepRecording
  <1>6. CASE StopRecording
    BY <1>6 DEF StopRecording, Cleanup
  <1>7. CASE HandleUploading
    BY <1>7 DEF HandleUploading
  <1>8. CASE UploadOk
    BY <1>8 DEF UploadOk, Cleanup
  <1>9. CASE UploadFail
    BY <1>9 DEF UploadFail
  <1>10. CASE TakeDownload
    BY <1>10 DEF TakeDownload, AfterDownload
  <1>11. CASE TakePoll
    BY <1>11, IdsOK, NoneAssumption
       DEF TakePoll, PollPlayed, PollMessage, PollNothing, PollFailed, Ids, Requested, OrderInv
  <1>12. CASE RequestHeartbeat
    BY <1>12 DEF RequestHeartbeat
  <1>13. CASE RequestPoll
    BY <1>13 DEF RequestPoll, Idle
  <1>14. CASE StartDownload
    BY <1>14, IdsOK DEF StartDownload, Idle, Ids, OrderInv
  <1>15. CASE RetryUpload
    BY <1>15 DEF RetryUpload, Idle
  <1>16. CASE RunPoll
    BY <1>16 DEF RunPoll
  <1>17. CASE RunDownload
    BY <1>17, NoneAssumption DEF RunDownload, Available, OrderInv
  <1>18. CASE RunMarkPlayed
    BY <1>18, IdsOK, NoneAssumption DEF RunMarkPlayed, Ids, Available
  <1>19. CASE RunHeartbeat
    BY <1>19 DEF RunHeartbeat
  <1>20. CASE JobOff
    BY <1>20 DEF JobOff
  <1>21. CASE WifiChange
    BY <1>21 DEF WifiChange
  <1>22. ASSUME NEW m \in Messages, Appear(m) PROVE OfferInv'
    BY <1>22, IdsOK DEF Appear, Ids
  <1>23. ASSUME NEW m \in Messages, LateAck(m) PROVE OfferInv'
    BY <1>23, IdsOK DEF LateAck, Ids
  <1>24. CASE Reboot
    BY <1>24, NoneAssumption DEF Reboot
  <1>25. CASE NotRecording \/ RequestNothing \/ NoDownload \/ NoRetry
    BY <1>25 DEF NotRecording, RequestNothing, NoDownload, NoRetry
  <1>. QED
    BY <1>1, <1>2, <1>3, <1>4, <1>5, <1>6, <1>7, <1>8, <1>9, <1>10,
       <1>11, <1>12, <1>13, <1>14, <1>15, <1>16, <1>17, <1>18, <1>19, <1>20,
       <1>21, <1>22, <1>23, <1>24, <1>25
       DEF Next, LoopStep, WorkerStep

\* Marks name messages that were tried.
LEMMA MarkKept ==
    ASSUME AInv, Next
    PROVE  MarkInv'
  <1>. USE DEF AInv, MarkInv, AckOnlyTried, MarkDue,
               envVars, inboxVars, workerVars, takeVars
  <1>1. CASE PassPlay
    BY <1>1 DEF PassPlay, Checked, OfferInv, Wanted, Late
  <1>2. CASE PassHold
    BY <1>2 DEF PassHold, HoldStarts, CanArmRecord, Checked
  <1>3. CASE PassOn
    BY <1>3 DEF PassOn, Checked
  <1>4. CASE PlaybackEnd
    BY <1>4 DEF PlaybackEnd, Requested
  <1>5. CASE KeepRecording
    BY <1>5 DEF KeepRecording
  <1>6. CASE StopRecording
    BY <1>6 DEF StopRecording, Cleanup
  <1>7. CASE HandleUploading
    BY <1>7 DEF HandleUploading
  <1>8. CASE UploadOk
    BY <1>8 DEF UploadOk, Cleanup
  <1>9. CASE UploadFail
    BY <1>9 DEF UploadFail
  <1>10. CASE TakeDownload
    BY <1>10 DEF TakeDownload, AfterDownload
  <1>11. CASE TakePoll
    BY <1>11, IdsOK, NoneAssumption
       DEF TakePoll, PollPlayed, PollMessage, PollNothing, PollFailed, Ids, Requested, OrderInv
  <1>12. CASE RequestHeartbeat
    BY <1>12 DEF RequestHeartbeat
  <1>13. CASE RequestPoll
    BY <1>13 DEF RequestPoll, Idle
  <1>14. CASE StartDownload
    BY <1>14 DEF StartDownload, Idle
  <1>15. CASE RetryUpload
    BY <1>15 DEF RetryUpload, Idle
  <1>16. CASE RunPoll
    BY <1>16 DEF RunPoll
  <1>17. CASE RunDownload
    BY <1>17 DEF RunDownload
  <1>18. CASE RunMarkPlayed
    BY <1>18, IdsOK, NoneAssumption DEF RunMarkPlayed, Ids, Available
  <1>19. CASE RunHeartbeat
    BY <1>19 DEF RunHeartbeat
  <1>20. CASE JobOff
    BY <1>20 DEF JobOff
  <1>21. CASE WifiChange
    BY <1>21 DEF WifiChange
  <1>22. ASSUME NEW m \in Messages, Appear(m) PROVE MarkInv'
    BY <1>22 DEF Appear
  <1>23. ASSUME NEW m \in Messages, LateAck(m) PROVE MarkInv'
    BY <1>23 DEF LateAck
  <1>24. CASE Reboot
    BY <1>24 DEF Reboot
  <1>25. CASE NotRecording \/ RequestNothing \/ NoDownload \/ NoRetry
    BY <1>25 DEF NotRecording, RequestNothing, NoDownload, NoRetry
  <1>. QED
    BY <1>1, <1>2, <1>3, <1>4, <1>5, <1>6, <1>7, <1>8, <1>9, <1>10,
       <1>11, <1>12, <1>13, <1>14, <1>15, <1>16, <1>17, <1>18, <1>19, <1>20,
       <1>21, <1>22, <1>23, <1>24, <1>25
       DEF Next, LoopStep, WorkerStep

\* Of the messages heard only the last still waits, through every race of polls and marks.
LEMMA HeardKept ==
    ASSUME AInv, Next
    PROVE  HeardInv'
  <1>. USE DEF AInv, HeardInv, Wanted, First, Fresh, Settled, FetchDue, PollDue,
               MarkDue, Fetched,
               envVars, inboxVars, workerVars, takeVars
  <1>1. CASE PassPlay
    BY <1>1 DEF PassPlay, OfferInv
  <1>2. CASE PassHold
    BY <1>2 DEF PassHold, HoldStarts, CanArmRecord, Checked
  <1>3. CASE PassOn
    BY <1>3 DEF PassOn, Checked
  <1>4. CASE PlaybackEnd
    <2>. USE <1>4 DEF PlaybackEnd, OfferInv
    <2>1. /\ UNCHANGED <<row, overtaken, downloadId, pollDone, pollResult, ready, ran, downloadDone,
                         downloadOk>>
          /\ pc = "playing" /\ pc' = "record" /\ pendingId' = None
          /\ downloadId \in Messages /\ ~FetchDue /\ ~Fetched /\ ~ready
      OBVIOUS
    <2>2. ~Wanted'
      BY <2>1 DEF Requested
    <2>3. First(pendingId)' /\ First(downloadId)' /\ Fresh(pendingId)' /\ pendingId' \notin Messages
      BY <2>1, IdsOK, NoneAssumption DEF Ids
    <2>4. CASE UNCHANGED <<playedId, heard>>
      BY <2>1, <2>2, <2>3, <2>4
    <2>5. CASE playedId' = downloadId /\ heard' = heard \cup {downloadId}
      <3>1. \A k \in heard' : row'[k] # "absent" /\ First(k)'
        BY <2>1, <2>5 DEF SeenInv, Seen
      <3>2. \A k \in heard' \ overtaken' : k = playedId' \/ row'[k] = "PLAYED"
        BY <2>1, <2>5
      <3>3. pollDone' => First(pollResult)' /\ (pollResult' = playedId' \/ Fresh(pollResult)')
        BY <2>1, <2>5
      <3>4. playedId' \in heard'
        BY <2>5
      <3>. QED
        BY <2>1, <2>2, <2>3, <3>1, <3>2, <3>3, <3>4
    <2>. QED
      BY <2>1, <2>4, <2>5, NoneAssumption
  <1>5. CASE KeepRecording
    BY <1>5 DEF KeepRecording
  <1>6. CASE StopRecording
    BY <1>6 DEF StopRecording, Cleanup
  <1>7. CASE HandleUploading
    BY <1>7 DEF HandleUploading
  <1>8. CASE UploadOk
    BY <1>8 DEF UploadOk, Cleanup
  <1>9. CASE UploadFail
    BY <1>9 DEF UploadFail
  <1>10. CASE TakeDownload
    BY <1>10 DEF TakeDownload, AfterDownload
  <1>11. CASE TakePoll
    <2>. USE <1>11 DEF TakePoll
    <2>1. /\ UNCHANGED <<row, overtaken, heard, playedId, downloadDone, downloadOk, ran>>
          /\ pc = "poll" /\ ~pollDone' /\ pc' = "request"
      OBVIOUS
    <2>2. CASE UNCHANGED <<pendingId, ready, downloadId, job>>
      BY <2>1, <2>2
    <2>3. CASE pollDone /\ PollPlayed
      BY <2>1, <2>3, IdsOK, NoneAssumption DEF PollPlayed, Requested, Ids, OfferInv
    <2>4. CASE pollDone /\ PollMessage
      <3>1. Settled
        BY <2>4, IdsOK DEF PollMessage, OrderInv, GoesBefore, Ids, RowStates
      <3>. QED
        BY <2>1, <2>4, <3>1, NoneAssumption DEF PollMessage
    <2>5. CASE pollDone /\ PollNothing
      BY <2>1, <2>5, NoneAssumption, IdsOK DEF PollNothing, Ids
    <2>. QED
      BY <2>2, <2>3, <2>4, <2>5 DEF PollFailed
  <1>12. CASE RequestHeartbeat
    BY <1>12 DEF RequestHeartbeat
  <1>13. CASE RequestPoll
    BY <1>13 DEF RequestPoll, Idle
  <1>14. CASE StartDownload
    BY <1>14, IdsOK DEF StartDownload, Idle, Ids, OfferInv
  <1>15. CASE RetryUpload
    BY <1>15 DEF RetryUpload, Idle
  <1>16. CASE RunPoll
    <2>. USE <1>16 DEF RunPoll
    <2>1. UNCHANGED <<row, overtaken, heard, pendingId, downloadId, playedId, pc, job>>
      OBVIOUS
    <2>2. CASE pollResult' \notin Messages
      BY <2>2, IdsOK, NoneAssumption DEF Ids
    <2>3. CASE pollResult' \in Available
      <3>1. \A m \in Available : pollResult' <= m
        BY <2>3, NextIsFirst, NoneAssumption DEF Available
      <3>2. \A i \in Messages : i < pollResult' => row[i] # "AVAILABLE"
        BY <2>3, <3>1, MessagesAssumption DEF Available
      <3>3. pollResult' = playedId \/ Fresh(pollResult)'
        BY <2>3 DEF Available
      <3>4. pollResult' = playedId \/ Settled'
        <4>1. ASSUME playedId \in heard \ overtaken, row[playedId] = "AVAILABLE",
                     pollResult' # playedId
              PROVE  FALSE
          <5>1. playedId \in Messages /\ pollResult' \in Messages
            BY <2>3, <4>1, IdsOK DEF Ids, Available
          <5>2. pollResult' < playedId
            BY <3>1, <4>1, <5>1, MessagesAssumption DEF Available
          <5>. QED
            BY <2>3, <4>1, <5>1, <5>2 DEF Available
        <4>2. playedId \in heard => row[playedId] \in {"AVAILABLE", "PLAYED"}
          BY IdsOK DEF Ids, RowStates
        <4>. QED
          BY <2>1, <4>1, <4>2
      <3>5. pendingId \in Messages \/ Wanted => Fresh(pollResult)'
        BY <2>1, <2>3, <3>3 DEF Available
      <3>. QED
        BY <2>1, <3>2, <3>3, <3>5
    <2>. QED
      BY <2>2, <2>3, NextIsFirst, NoneAssumption
  <1>17. CASE RunDownload
    BY <1>17 DEF RunDownload, OfferInv
  <1>18. CASE RunMarkPlayed
    <2>. USE <1>18 DEF RunMarkPlayed
    <2>1. \A k \in Messages : row'[k] = row[k] \/ row'[k] = "PLAYED"
      BY IdsOK DEF Ids
    <2>2. /\ downloadId' \in {downloadId, None} /\ Wanted' = Wanted
          /\ Wanted => downloadId' = downloadId
      BY IdsOK DEF OfferInv, Late, Available, Ids
    <2>3. \A k : First(k) => First(k)'
      BY <2>1
    <2>4. First(downloadId)'
      BY <2>2, <2>3, NoneAssumption
    <2>5. Settled => Settled'
      BY <2>1, IdsOK DEF Ids
    <2>6. \A k \in heard' : row'[k] # "absent" /\ First(k)'
      BY <2>1, <2>3, IdsOK DEF Ids
    <2>7. \A k \in heard' \ overtaken' : k = playedId' \/ row'[k] = "PLAYED"
      BY <2>1, IdsOK DEF Ids
    <2>. QED
      BY <2>2, <2>3, <2>4, <2>5, <2>6, <2>7
  <1>19. CASE RunHeartbeat
    BY <1>19 DEF RunHeartbeat
  <1>20. CASE JobOff
    BY <1>20 DEF JobOff
  <1>21. CASE WifiChange
    BY <1>21 DEF WifiChange
  <1>22. ASSUME NEW m \in Messages, Appear(m) PROVE HeardInv'
    <2>. USE <1>22 DEF Appear
    <2>1. \A k \in Messages : row[k] # "absent" => row'[k] = row[k]
      BY <1>22, IdsOK DEF Ids
    <2>2. \A k : First(k) /\ Seen(k) => First(k)'
      BY <1>22, IdsOK DEF Ids, Seen
    <2>3. First(pendingId)' /\ First(downloadId)' /\ (pollDone' => First(pollResult)')
      BY <2>2 DEF SeenInv
    <2>4. \A k \in heard' : row'[k] # "absent" /\ First(k)'
      BY <2>1, <2>2, IdsOK DEF Ids, Seen
    <2>5. \A k : Fresh(k) => Fresh(k)'
      OBVIOUS
    <2>6. Settled => Settled'
      BY <2>1, IdsOK DEF Ids
    <2>7. \A k \in heard' \ overtaken' : k = playedId' \/ row'[k] = "PLAYED"
      BY <2>1, IdsOK DEF Ids
    <2>8. Wanted' <=> Wanted
      OBVIOUS
    <2>. QED
      BY <2>3, <2>4, <2>5, <2>6, <2>7, <2>8
  <1>23. ASSUME NEW m \in Messages, LateAck(m) PROVE HeardInv'
    BY <1>23 DEF LateAck
  <1>24. CASE Reboot
    BY <1>24, NoneAssumption DEF Reboot
  <1>25. CASE NotRecording \/ RequestNothing \/ NoDownload \/ NoRetry
    BY <1>25 DEF NotRecording, RequestNothing, NoDownload, NoRetry
  <1>. QED
    BY <1>1, <1>2, <1>3, <1>4, <1>5, <1>6, <1>7, <1>8, <1>9, <1>10,
       <1>11, <1>12, <1>13, <1>14, <1>15, <1>16, <1>17, <1>18, <1>19, <1>20,
       <1>21, <1>22, <1>23, <1>24, <1>25
       DEF Next, LoopStep, WorkerStep

\* The initial state satisfies the invariant.
LEMMA InitHolds == ASSUME TypeOK, Init PROVE AInv
  <1>. USE NoneAssumption DEF Init
  <1>1. HeaderInv /\ SeenInv /\ OrderInv
    BY DEF HeaderInv, SeenInv, Seen, OrderInv
  <1>2. OfferInv
    BY DEF OfferInv, Wanted, FetchDue, Fetched, MarkDue
  <1>3. MarkInv
    BY DEF MarkInv, AckOnlyTried, MarkDue
  <1>4. HeardInv
    BY DEF HeardInv, First, Fresh, Settled, Wanted, FetchDue, Fetched
  <1>. QED
    BY <1>1, <1>2, <1>3, <1>4 DEF AInv

\* A step that changes nothing keeps the invariant.
LEMMA StutterKeeps == ASSUME AInv, TypeOK', UNCHANGED vars PROVE AInv'
  <1>. USE DEF vars, AInv
  <1>1. HeaderInv' /\ SeenInv'
    BY DEF HeaderInv, SeenInv, Seen
  <1>2. OrderInv'
    BY DEF OrderInv, Before, GoesBefore
  <1>3. OfferInv'
    BY DEF OfferInv, Wanted, Late, FetchDue, PollDue, Fetched, MarkDue
  <1>4. MarkInv'
    BY DEF MarkInv, AckOnlyTried, MarkDue
  <1>5. HeardInv'
    BY DEF HeardInv, First, Fresh, Settled, Wanted, FetchDue, Fetched
  <1>. QED
    BY <1>1, <1>2, <1>3, <1>4, <1>5

\* Whatever the Wi-Fi, the speaker and the power do, the invariant holds of every reachable
\* state.
THEOREM Invariant == Spec => []AInv
  <1>1. TypeOK /\ Init => AInv
    BY InitHolds
  <1>2. AInv /\ TypeOK' /\ [Next]_vars => AInv'
    <2>. SUFFICES ASSUME AInv, TypeOK', [Next]_vars PROVE AInv'
      OBVIOUS
    <2>1. CASE Next
      BY <2>1, HeaderKept, SeenKept, OrderKept, OfferKept, MarkKept, HeardKept DEF AInv
    <2>2. CASE UNCHANGED vars
      BY <2>2, StutterKeeps
    <2>. QED
      BY <2>1, <2>2
  <1>. QED
    BY <1>1, <1>2, TypeCorrect, PTL DEF Spec

-----------------------------------------------------------------------------
(* The properties that hold under every fault.                                 *)

\* The server has a message marked as played, or will have, only if the box started to
\* play it, though marks are retried, lost, delayed, and sent from a global that polls and
\* downloads rewrite, whatever the Wi-Fi does (main.cpp:427, 487, 645-650).
THEOREM AckTheorem == Spec => []AckOnlyTried
  <1>1. AInv => AckOnlyTried
    BY DEF AInv, MarkInv
  <1>. QED
    BY Invariant, <1>1, PTL

\* What the child heard to its end is not offered again until a reboot, for any number of
\* messages, though the box remembers one id and marks may be lost; only a message that an
\* older one overtook is remembered no longer than it is the last (main.cpp:475, 643-651).
THEOREM ReplayTheorem == Spec => []NoReplay
  <1>1. AInv => NoReplay
    BY NoneAssumption, IdsOK DEF AInv, OfferInv, HeardInv, Wanted, Fresh, NoReplay, Ids
  <1>. QED
    BY Invariant, <1>1, PTL

\* The header of an upload was built for the take that is sent, also after drops of the
\* Wi-Fi that leave requests behind (main.cpp:135, 331, 563-569).
THEOREM HeaderTheorem == Spec => []HeaderFits
  <1>1. AInv => HeaderFits
    BY DEF AInv, HeaderInv, HeaderFits
  <1>. QED
    BY Invariant, <1>1, PTL

-----------------------------------------------------------------------------
(* While the Wi-Fi stays up.                                                   *)

\* The states of the device.
TakeInv ==
    /\ wifi /\ state # "ERROR"
    /\ pc = "playing" <=> state = "PLAYING"
    /\ recording => state = "RECORDING"
    /\ uploadRequested => state = "UPLOADING"
    /\ pc = "sending" => ~uploadRequested

\* Which of the flags shared with the worker may be set together.
WorkerInv ==
    /\ FetchDue => state = "DOWNLOADING" /\ ~downloadDone
    /\ downloadDone => state = "DOWNLOADING"
    /\ state = "DOWNLOADING" => ~PollDue /\ ~ready
    /\ pc = "playing" => ~ready /\ ~pollDone /\ ~PollDue
    /\ ready => ~PollDue /\ (pollDone => pc = "poll")

\* What is fetched or offered is wanted and in the cache.
FetchInv ==
    Fetched \/ ready =>
        /\ hasPending /\ cache = downloadId /\ ~MarkDue
        /\ pollDone => pollResult \notin {None, playedId}

\* The inductive invariant, while the Wi-Fi stays up.
IInv == AInv /\ TakeInv /\ WorkerInv /\ FetchInv

\* The Wi-Fi stays up, and a take belongs to its state.
LEMMA TakeKept ==
    ASSUME IInv, Next, "wifi" \notin Faults
    PROVE  TakeInv'
  <1>. USE DEF IInv, AInv, HeaderInv, TakeInv, envVars, inboxVars, workerVars, takeVars
  <1>1. CASE PassPlay
    BY <1>1 DEF PassPlay, Checked
  <1>2. CASE PassHold
    BY <1>2, NoneAssumption DEF PassHold, HoldStarts, CanArmRecord, Checked
  <1>3. CASE PassOn
    BY <1>3 DEF PassOn, Checked
  <1>4. CASE PlaybackEnd
    BY <1>4 DEF PlaybackEnd, Requested
  <1>5. CASE KeepRecording
    BY <1>5 DEF KeepRecording
  <1>6. CASE StopRecording
    <2>1. CASE take' = take /\ uploadTake' = take /\ state' = "UPLOADING"
      BY <1>6, <2>1 DEF StopRecording
    <2>2. CASE Cleanup /\ state' = "IDLE" /\ UNCHANGED <<uploadRequested, uploadTake>>
      BY <1>6, <2>2 DEF StopRecording, Cleanup
    <2>. QED
      BY <1>6, <2>1, <2>2 DEF StopRecording
  <1>7. CASE NotRecording
    BY <1>7 DEF NotRecording
  <1>8. CASE HandleUploading
    BY <1>8 DEF HandleUploading
  <1>9. CASE UploadOk
    BY <1>9 DEF UploadOk, Cleanup
  <1>10. CASE UploadFail
    BY <1>10 DEF UploadFail
  <1>11. CASE TakeDownload
    BY <1>11 DEF TakeDownload, AfterDownload
  <1>12. CASE TakePoll
    BY <1>12 DEF TakePoll, PollPlayed, PollMessage, PollNothing, PollFailed, Requested
  <1>13. CASE RequestHeartbeat
    BY <1>13 DEF RequestHeartbeat
  <1>14. CASE RequestPoll
    BY <1>14 DEF RequestPoll, Idle
  <1>15. CASE RequestNothing
    BY <1>15 DEF RequestNothing
  <1>16. CASE StartDownload
    BY <1>16 DEF StartDownload, Idle
  <1>17. CASE NoDownload
    BY <1>17 DEF NoDownload
  <1>18. CASE RetryUpload
    BY <1>18 DEF RetryUpload, Idle
  <1>19. CASE NoRetry
    BY <1>19 DEF NoRetry
  <1>20. CASE RunPoll
    BY <1>20 DEF RunPoll
  <1>21. CASE RunDownload
    BY <1>21 DEF RunDownload
  <1>22. CASE RunMarkPlayed
    BY <1>22 DEF RunMarkPlayed
  <1>23. CASE RunHeartbeat
    BY <1>23 DEF RunHeartbeat
  <1>24. CASE JobOff
    BY <1>24 DEF JobOff
  <1>25. CASE WifiChange
    BY <1>25 DEF WifiChange
  <1>26. ASSUME NEW m \in Messages, Appear(m) PROVE TakeInv'
    BY <1>26 DEF Appear
  <1>27. ASSUME NEW m \in Messages, LateAck(m) PROVE TakeInv'
    BY <1>27 DEF LateAck
  <1>28. CASE Reboot
    BY <1>28 DEF Reboot
  <1>. QED
    BY <1>1, <1>2, <1>3, <1>4, <1>5, <1>6, <1>7, <1>8, <1>9, <1>10,
       <1>11, <1>12, <1>13, <1>14, <1>15, <1>16, <1>17, <1>18, <1>19, <1>20,
       <1>21, <1>22, <1>23, <1>24, <1>25, <1>26, <1>27, <1>28
       DEF Next, LoopStep, WorkerStep

\* The flags of the worker keep together.
LEMMA WorkerKept ==
    ASSUME IInv, Next, "wifi" \notin Faults
    PROVE  WorkerInv'
  <1>. USE DEF IInv, AInv, HeaderInv, TakeInv, WorkerInv, FetchDue,
               PollDue, envVars, inboxVars, workerVars, takeVars
  <1>1. CASE PassPlay
    BY <1>1 DEF PassPlay, Checked
  <1>2. CASE PassHold
    BY <1>2 DEF PassHold, HoldStarts, CanArmRecord, Checked
  <1>3. CASE PassOn
    BY <1>3 DEF PassOn, Checked
  <1>4. CASE PlaybackEnd
    BY <1>4 DEF PlaybackEnd, Requested
  <1>5. CASE KeepRecording
    BY <1>5 DEF KeepRecording
  <1>6. CASE StopRecording
    BY <1>6 DEF StopRecording, Cleanup
  <1>7. CASE NotRecording
    BY <1>7 DEF NotRecording
  <1>8. CASE HandleUploading
    BY <1>8 DEF HandleUploading
  <1>9. CASE UploadOk
    BY <1>9 DEF UploadOk, Cleanup
  <1>10. CASE UploadFail
    BY <1>10 DEF UploadFail
  <1>11. CASE TakeDownload
    BY <1>11 DEF TakeDownload, AfterDownload
  <1>12. CASE TakePoll
    BY <1>12 DEF TakePoll, PollPlayed, PollMessage, PollNothing, PollFailed, Requested
  <1>13. CASE RequestHeartbeat
    BY <1>13 DEF RequestHeartbeat
  <1>14. CASE RequestPoll
    BY <1>14 DEF RequestPoll, Idle
  <1>15. CASE RequestNothing
    BY <1>15 DEF RequestNothing
  <1>16. CASE StartDownload
    BY <1>16 DEF StartDownload, Idle
  <1>17. CASE NoDownload
    BY <1>17 DEF NoDownload
  <1>18. CASE RetryUpload
    BY <1>18 DEF RetryUpload, Idle
  <1>19. CASE NoRetry
    BY <1>19 DEF NoRetry
  <1>20. CASE RunPoll
    BY <1>20 DEF RunPoll
  <1>21. CASE RunDownload
    BY <1>21 DEF RunDownload
  <1>22. CASE RunMarkPlayed
    BY <1>22 DEF RunMarkPlayed
  <1>23. CASE RunHeartbeat
    BY <1>23 DEF RunHeartbeat
  <1>24. CASE JobOff
    BY <1>24 DEF JobOff
  <1>25. CASE WifiChange
    BY <1>25 DEF WifiChange
  <1>26. ASSUME NEW m \in Messages, Appear(m) PROVE WorkerInv'
    BY <1>26 DEF Appear
  <1>27. ASSUME NEW m \in Messages, LateAck(m) PROVE WorkerInv'
    BY <1>27 DEF LateAck
  <1>28. CASE Reboot
    BY <1>28 DEF Reboot
  <1>. QED
    BY <1>1, <1>2, <1>3, <1>4, <1>5, <1>6, <1>7, <1>8, <1>9, <1>10,
       <1>11, <1>12, <1>13, <1>14, <1>15, <1>16, <1>17, <1>18, <1>19, <1>20,
       <1>21, <1>22, <1>23, <1>24, <1>25, <1>26, <1>27, <1>28
       DEF Next, LoopStep, WorkerStep

\* What is fetched, then offered, stays wanted and in the cache.
LEMMA FetchKept ==
    ASSUME IInv, Next, "wifi" \notin Faults
    PROVE  FetchInv'
  <1>. USE DEF IInv, AInv, OfferInv, Late, Wanted, FetchInv, WorkerInv, FetchDue, PollDue, MarkDue,
               Fetched, envVars, inboxVars, workerVars, takeVars
  <1>1. CASE PassPlay
    BY <1>1 DEF PassPlay, Checked
  <1>2. CASE PassHold
    BY <1>2 DEF PassHold, HoldStarts, CanArmRecord, Checked
  <1>3. CASE PassOn
    BY <1>3 DEF PassOn, Checked
  <1>4. CASE PlaybackEnd
    BY <1>4 DEF PlaybackEnd, Requested, TakeInv
  <1>5. CASE KeepRecording
    BY <1>5 DEF KeepRecording
  <1>6. CASE StopRecording
    BY <1>6 DEF StopRecording, Cleanup
  <1>7. CASE HandleUploading
    BY <1>7 DEF HandleUploading
  <1>8. CASE UploadOk
    BY <1>8 DEF UploadOk, Cleanup
  <1>9. CASE UploadFail
    BY <1>9 DEF UploadFail
  <1>10. CASE TakeDownload
    BY <1>10 DEF TakeDownload, AfterDownload
  <1>11. CASE TakePoll
    BY <1>11, NoneAssumption DEF TakePoll, PollPlayed, PollMessage, PollNothing,
                            PollFailed, Requested, OrderInv
  <1>12. CASE RequestHeartbeat
    BY <1>12 DEF RequestHeartbeat
  <1>13. CASE RequestPoll
    BY <1>13 DEF RequestPoll, Idle
  <1>14. CASE StartDownload
    BY <1>14, IdsOK DEF StartDownload, Idle, Ids, OrderInv
  <1>15. CASE RetryUpload
    BY <1>15 DEF RetryUpload, Idle
  <1>16. CASE RunPoll
    BY <1>16 DEF RunPoll
  <1>17. CASE RunDownload
    BY <1>17, NoneAssumption DEF RunDownload, Available, OrderInv
  <1>18. CASE RunMarkPlayed
    BY <1>18 DEF RunMarkPlayed
  <1>19. CASE RunHeartbeat
    BY <1>19 DEF RunHeartbeat
  <1>20. CASE JobOff
    BY <1>20 DEF JobOff
  <1>21. CASE WifiChange
    BY <1>21 DEF WifiChange
  <1>22. ASSUME NEW m \in Messages, Appear(m) PROVE FetchInv'
    BY <1>22 DEF Appear
  <1>23. ASSUME NEW m \in Messages, LateAck(m) PROVE FetchInv'
    BY <1>23 DEF LateAck
  <1>24. CASE Reboot
    BY <1>24 DEF Reboot
  <1>25. CASE NotRecording \/ RequestNothing \/ NoDownload \/ NoRetry
    BY <1>25 DEF NotRecording, RequestNothing, NoDownload, NoRetry
  <1>. QED
    BY <1>1, <1>2, <1>3, <1>4, <1>5, <1>6, <1>7, <1>8, <1>9, <1>10,
       <1>11, <1>12, <1>13, <1>14, <1>15, <1>16, <1>17, <1>18, <1>19, <1>20,
       <1>21, <1>22, <1>23, <1>24, <1>25
       DEF Next, LoopStep, WorkerStep

\* While the Wi-Fi stays up the invariant holds of every reachable state.
THEOREM WifiInvariant ==
    ASSUME "wifi" \notin Faults
    PROVE  Spec => []IInv
  <1>1. AInv /\ Init => IInv
    BY NoneAssumption
       DEF Init, IInv, TakeInv, WorkerInv, FetchInv, FetchDue, PollDue, Fetched, MarkDue
  <1>2. IInv /\ AInv' /\ [Next]_vars => IInv'
    <2>. SUFFICES ASSUME IInv, AInv', [Next]_vars PROVE IInv'
      OBVIOUS
    <2>1. CASE Next
      BY <2>1, TakeKept, WorkerKept, FetchKept DEF IInv
    <2>2. CASE UNCHANGED vars
      BY <2>2 DEF vars, IInv, TakeInv, WorkerInv, FetchInv, FetchDue, PollDue, Fetched, MarkDue
    <2>. QED
      BY <2>1, <2>2
  <1>. QED
    BY <1>1, <1>2, Invariant, PTL DEF Spec

\* What is offered to the child is on the flash under the id its mark will name
\* (main.cpp:620-636, 653-664).
THEOREM PlayableTheorem ==
    ASSUME "wifi" \notin Faults
    PROVE  Spec => []ReadyIsPlayable
  <1>1. IInv => ReadyIsPlayable
    BY DEF IInv, AInv, OfferInv, Wanted, FetchInv, ReadyIsPlayable
  <1>. QED
    BY WifiInvariant, <1>1, PTL

\* The recorder never runs together with a download, with which it shares its buffer
\* (api_client.cpp:1066-1067).
THEOREM OverlapTheorem ==
    ASSUME "wifi" \notin Faults
    PROVE  Spec => []NoOverlap
  <1>1. IInv => NoOverlap
    BY DEF IInv, TakeInv, WorkerInv, FetchDue, NoOverlap
  <1>. QED
    BY WifiInvariant, <1>1, PTL

\* The device is never idle with the recorder on or an upload requested
\* (main.cpp:563-569, 713).
THEOREM IdleTheorem ==
    ASSUME "wifi" \notin Faults
    PROVE  Spec => []IdleIsFree
  <1>1. IInv => IdleIsFree
    BY DEF IInv, TakeInv, IdleIsFree
  <1>. QED
    BY WifiInvariant, <1>1, PTL
=============================================================================
