--------------------------- MODULE InboundProofs ---------------------------
(***************************************************************************)
(* Proofs about Inbound, for any sets of calls, notes, senders and devices.   *)
(* The argument: recording an event lets exactly one call past, and that call *)
(* keeps its note to itself until it ends; so the rows of a note are one.      *)
(***************************************************************************)
EXTENDS Inbound, TLAPS

\* The call got past RecordWebhookEvent and still works on its note, or left a row.
Owns(c) == call[c] \in Ingesting \/ status[c] # "NONE"

OwnerIsUnique ==
    \A c, d \in Calls : Owns(c) /\ Owns(d) /\ note[c] = note[d] => c = d

\* What a call has done by the time it stands where it stands.
CallInv(c) ==
    /\ Owns(c) => note[c] \in events
    /\ status[c] # "NONE" => call[c] \in {"inserted", "ok", "error"}
    /\ call[c] \in {"inserted", "ok"} => status[c] # "NONE"
    /\ call[c] \in {"stored", "unique", "inserting"} \/ status[c] # "NONE" => c \in objects
    /\ call[c] \in Ingesting \ {"recorded"} \/ status[c] # "NONE" =>
          <<SenderOf[note[c]], device[c]>> \in bound
    /\ status[c] = "PLAYED" <=> playedBy[c] # NoDevice
    /\ playedBy[c] # NoDevice => playedBy[c] = device[c]

Arrived(c) == call[c] \notin {"new", "received"}

\* An event on record was recorded by some call; a duplicate answer has another.
EventInv ==
    /\ \A n \in events : \E d \in Calls : note[d] = n /\ Arrived(d)
    /\ \A c \in Calls : call[c] = "duplicate" =>
          \E d \in Calls \ {c} : note[d] = note[c] /\ Arrived(d)

\* What devices are reading or have read are rows of theirs.
ServedInv ==
    /\ \A d \in Devices : \A c \in opening[d] : device[c] = d /\ status[c] # "NONE"
    /\ \A m \in served : device[m[2]] = m[1] /\ status[m[2]] # "NONE"

IInv ==
    /\ TypeOK
    /\ OwnerIsUnique
    /\ \A c \in Calls : CallInv(c)
    /\ EventInv
    /\ ServedInv

\* The invariant holds initially.
LEMMA InitInv == Init => IInv
<1> SUFFICES ASSUME Init PROVE IInv
  OBVIOUS
<1>1. TypeOK
  BY NoNoteAssumption, NoDeviceAssumption
     DEF Init, TypeOK, CallStates, Ingesting, Answers, Statuses
<1>2. \A c \in Calls : CallInv(c)
  BY DEF Init, CallInv, Owns, Ingesting
<1>. QED
  BY <1>1, <1>2 DEF Init, IInv, OwnerIsUnique, Owns, Ingesting, EventInv, ServedInv

-----------------------------------------------------------------------------
(* Type correctness.                                                          *)

\* A webhook call keeps the type.
LEMMA CallType ==
    ASSUME TypeOK, NEW c \in Calls, CallStep(c)
    PROVE  TypeOK'
<1> USE NoNoteAssumption, NoDeviceAssumption
    DEF TypeOK, CallStates, Ingesting, Answers, Statuses, Advance, deviceVars
<1>1. CASE Receive(c)
  BY <1>1 DEF Receive
<1>2. CASE RecordWebhookEvent(c)
  BY <1>2 DEF RecordWebhookEvent
<1>3. CASE RecordWebhookEventLost(c)
  BY <1>3 DEF RecordWebhookEventLost
<1>4. CASE FindByRecipient(c)
  BY <1>4 DEF FindByRecipient
<1>5. CASE FindByRecipientFail(c)
  BY <1>5 DEF FindByRecipientFail
<1>6. CASE Fetch(c)
  BY <1>6 DEF Fetch
<1>7. CASE Put(c)
  BY <1>7 DEF Put
<1>8. CASE CheckDuplicate(c)
  BY <1>8 DEF CheckDuplicate
<1>9. CASE InsertInbound(c)
  BY <1>9 DEF InsertInbound
<1>10. CASE CommitInbound(c)
  BY <1>10 DEF CommitInbound
<1>11. CASE AnswerOk(c)
  BY <1>11 DEF AnswerOk
<1>12. CASE CallFail(c)
  BY <1>12 DEF CallFail
<1>. QED
  BY <1>1, <1>2, <1>3, <1>4, <1>5, <1>6, <1>7, <1>8, <1>9, <1>10, <1>11, <1>12 DEF CallStep

\* A device's request keeps the type.
LEMMA DeviceType ==
    ASSUME TypeOK, NEW d \in Devices, DeviceStep(d)
    PROVE  TypeOK'
<1> USE DEF TypeOK, Statuses, callVars, Available
<1>1. CASE \E c \in Calls : OpenAudio(d, c)
  BY <1>1 DEF OpenAudio
<1>2. CASE \E c \in Calls : MarkPlayed(d, c)
  BY <1>2 DEF MarkPlayed
<1>3. CASE ReadAudio(d)
  BY <1>3 DEF ReadAudio
<1>4. CASE ReadAudioFail(d)
  BY <1>4 DEF ReadAudioFail
<1>. QED
  BY <1>1, <1>2, <1>3, <1>4 DEF DeviceStep

\* A binding keeps the type.
LEMMA BindType ==
    ASSUME TypeOK, NEW s \in Senders, NEW d \in Devices, BindConversation(s, d)
    PROVE  TypeOK'
  BY DEF TypeOK, BindConversation, callVars, deviceVars

\* Every step keeps the type.
LEMMA NextType == TypeOK /\ [Next]_vars => TypeOK'
<1> SUFFICES ASSUME TypeOK, [Next]_vars
             PROVE  TypeOK'
  OBVIOUS
<1>1. CASE UNCHANGED vars
  BY <1>1 DEF TypeOK, vars
<1>. QED
  BY <1>1, CallType, DeviceType, BindType DEF Next

-----------------------------------------------------------------------------
(* The steps of a call.                                                        *)

\* A call in its first states has neither row nor hold on its note; from then on
\* its note is fixed.
LEMMA CallFacts ==
    ASSUME IInv, NEW c \in Calls, CallStep(c)
    PROVE  /\ \A d \in Calls : d # c => /\ call'[d] = call[d] /\ note'[d] = note[d]
                                        /\ device'[d] = device[d] /\ status'[d] = status[d]
           /\ events \subseteq events' /\ objects \subseteq objects' /\ bound' = bound
           /\ UNCHANGED deviceVars
           /\ Arrived(c) => Arrived(c)' /\ note'[c] = note[c]
           /\ call[c] # "new" => note'[c] = note[c]
           /\ call[c] # "recorded" => device'[c] = device[c]
           /\ status'[c] # status[c] =>
                 call[c] = "inserting" /\ call'[c] = "inserted" /\ status'[c] = "AVAILABLE"
           /\ Owns(c)' => Owns(c) \/ (call[c] = "received" /\ note[c] \notin events)
  BY ZenonT(60)
     DEF CallStep, Receive, RecordWebhookEvent, RecordWebhookEventLost, FindByRecipient,
         FindByRecipientFail, Fetch, Put, CheckDuplicate, InsertInbound, CommitInbound,
         AnswerOk, CallFail, Advance, IInv, TypeOK, Arrived, Owns, Ingesting

\* Every step of a webhook call keeps the invariant.
LEMMA CallStepInv ==
    ASSUME IInv, NEW c \in Calls, CallStep(c)
    PROVE  IInv'
<1>0. TypeOK /\ TypeOK'
  BY CallType DEF IInv
<1>1. OwnerIsUnique'
  <2> SUFFICES ASSUME NEW d \in Calls, NEW e \in Calls,
                      Owns(d)', Owns(e)', note'[d] = note'[e], d # e
               PROVE  FALSE
    BY DEF OwnerIsUnique
  <2>1. ASSUME NEW x \in Calls, NEW y \in Calls, x # c, x # y,
               Owns(x)', Owns(y)', note'[x] = note'[y]
        PROVE  FALSE
    <3>0. call'[x] = call[x] /\ note'[x] = note[x] /\ status'[x] = status[x]
      BY <2>1, CallFacts
    <3>1. Owns(x) /\ note'[x] = note[x] /\ note[x] \in events
      <4>1. Owns(x)
        BY <2>1, <3>0 DEF Owns
      <4>. QED
        BY <3>0, <4>1 DEF IInv, CallInv
    <3>2. CASE y # c
      <4>1. Owns(y) /\ note'[y] = note[y]
        BY <2>1, <3>2, CallFacts DEF Owns
      <4>. QED
        BY <2>1, <3>1, <4>1 DEF IInv, OwnerIsUnique
    <3>3. CASE y = c
      <4>1. call[c] # "new"
        BY <2>1, <3>3, CallFacts DEF IInv, CallInv, Owns, Ingesting
      <4>. QED
        BY <2>1, <3>1, <3>3, <4>1, CallFacts, ZenonT(40) DEF IInv, OwnerIsUnique
    <3>. QED
      BY <3>2, <3>3
  <2>. QED
    BY <2>1
<1>2. ASSUME NEW d \in Calls
      PROVE  CallInv(d)'
  <2>1. CASE d # c
    BY <1>2, <2>1, CallFacts DEF IInv, CallInv, Owns, deviceVars
  <2>2. CASE d = c
    <3> USE <2>2 DEF IInv, TypeOK, CallInv, Owns, Ingesting, Advance, deviceVars
    <3>1. CASE Receive(c)
      BY <3>1 DEF Receive
    <3>2. CASE RecordWebhookEvent(c)
      BY <3>2 DEF RecordWebhookEvent
    <3>3. CASE RecordWebhookEventLost(c)
      BY <3>3 DEF RecordWebhookEventLost
    <3>4. CASE FindByRecipient(c)
      BY <3>4 DEF FindByRecipient
    <3>5. CASE FindByRecipientFail(c)
      BY <3>5 DEF FindByRecipientFail
    <3>6. CASE Fetch(c)
      BY <3>6 DEF Fetch
    <3>7. CASE Put(c)
      BY <3>7 DEF Put
    <3>8. CASE CheckDuplicate(c)
      BY <3>8 DEF CheckDuplicate
    <3>9. CASE InsertInbound(c)
      BY <3>9 DEF InsertInbound
    <3>10. CASE CommitInbound(c)
      BY <3>10 DEF CommitInbound
    <3>11. CASE AnswerOk(c)
      BY <3>11 DEF AnswerOk
    <3>12. CASE CallFail(c)
      BY <3>12 DEF CallFail
    <3>. QED
      BY <3>1, <3>2, <3>3, <3>4, <3>5, <3>6, <3>7, <3>8, <3>9, <3>10, <3>11, <3>12 DEF CallStep
  <2>. QED
    BY <2>1, <2>2
<1>3. EventInv'
  <2>1. \A d \in Calls : Arrived(d) => Arrived(d)' /\ note'[d] = note[d]
    BY CallFacts DEF Arrived
  <2>2. \A n \in events' : n \in events \/ (n = note'[c] /\ Arrived(c)')
    BY <1>0 DEF CallStep, Receive, RecordWebhookEvent, RecordWebhookEventLost, FindByRecipient,
         FindByRecipientFail, Fetch, Put, CheckDuplicate, InsertInbound, CommitInbound,
         AnswerOk, CallFail, Advance, TypeOK, Arrived
  <2>3. ASSUME NEW d \in Calls, call'[d] = "duplicate"
        PROVE  \E e \in Calls \ {d} : note'[e] = note'[d] /\ Arrived(e)'
    <3>1. CASE call[d] = "duplicate"
      <4>1. PICK e \in Calls \ {d} : note[e] = note[d] /\ Arrived(e)
        BY <3>1 DEF IInv, EventInv
      <4>2. Arrived(d)
        BY <3>1 DEF Arrived
      <4>. QED
        BY <2>1, <4>1, <4>2
    <3>2. CASE call[d] # "duplicate"
      <4>1. d = c
        BY <2>3, <3>2, CallFacts
      <4>2. \/ call[c] = "received" /\ note[c] \in events
            \/ /\ call[c] = "stored"
               /\ \E e \in Calls : status[e] # "NONE" /\ note[e] = note[c]
        BY <1>0, <2>3, <3>2, <4>1
           DEF CallStep, Receive, RecordWebhookEvent, RecordWebhookEventLost, FindByRecipient,
               FindByRecipientFail, Fetch, Put, CheckDuplicate, InsertInbound, CommitInbound,
               AnswerOk, CallFail, Advance, TypeOK
      <4>3. PICK e \in Calls : note[e] = note[c] /\ Arrived(e) /\ e # c
        BY <4>2 DEF IInv, EventInv, CallInv, Arrived
      <4>4. note'[c] = note[c]
        BY <4>2, CallFacts
      <4>. QED
        BY <2>1, <4>1, <4>3, <4>4
    <3>. QED
      BY <3>1, <3>2
  <2>4. ASSUME NEW n \in events'
        PROVE  \E d \in Calls : note'[d] = n /\ Arrived(d)'
    BY <2>1, <2>2 DEF IInv, EventInv
  <2>. QED
    BY <2>3, <2>4 DEF EventInv
<1>4. ServedInv'
  <2>1. \A d \in Calls : status[d] # "NONE" => device'[d] = device[d] /\ status'[d] # "NONE"
    BY CallFacts DEF IInv, CallInv, Ingesting
  <2>2. opening' = opening /\ served' = served
    BY CallFacts DEF deviceVars
  <2>. QED
    BY <1>0, <2>1, <2>2 DEF IInv, TypeOK, ServedInv
<1>. QED
  BY <1>0, <1>1, <1>2, <1>3, <1>4 DEF IInv

-----------------------------------------------------------------------------
(* The steps of a device and of the administrator.                             *)

\* Every request of a device keeps the invariant.
LEMMA DeviceStepInv ==
    ASSUME IInv, NEW d \in Devices, DeviceStep(d)
    PROVE  IInv'
<1>0. TypeOK /\ TypeOK'
  BY DeviceType DEF IInv
<1>1. UNCHANGED <<bound, callVars>>
  BY DEF DeviceStep, OpenAudio, MarkPlayed, ReadAudio, ReadAudioFail
<1>2. \A c \in Calls : status'[c] # "NONE" <=> status[c] # "NONE"
  BY <1>0 DEF DeviceStep, OpenAudio, MarkPlayed, ReadAudio, ReadAudioFail, TypeOK
<1>3. \A c \in Calls : CallInv(c)'
  <2>1. CASE UNCHANGED <<status, playedBy>>
    BY <1>1, <2>1 DEF IInv, CallInv, Owns, callVars
  <2>2. CASE \E c \in Calls : MarkPlayed(d, c)
    BY <1>0, <1>1, <2>2, NoDeviceAssumption DEF MarkPlayed, IInv, TypeOK, CallInv, Owns, callVars
  <2>. QED
    BY <2>1, <2>2 DEF DeviceStep, OpenAudio, ReadAudio, ReadAudioFail
<1>4. OwnerIsUnique' /\ EventInv'
  BY <1>1, <1>2 DEF IInv, OwnerIsUnique, EventInv, Owns, Arrived, callVars
<1>5. ServedInv'
  <2>1. ASSUME NEW e \in Devices, NEW c \in opening'[e]
        PROVE  device[c] = e /\ status[c] # "NONE"
    BY <1>0, <2>1
       DEF DeviceStep, OpenAudio, MarkPlayed, ReadAudio, ReadAudioFail, Available, IInv, TypeOK, ServedInv
  <2>2. ASSUME NEW m \in served'
        PROVE  device[m[2]] = m[1] /\ status[m[2]] # "NONE"
    BY <1>0, <2>2
       DEF DeviceStep, OpenAudio, MarkPlayed, ReadAudio, ReadAudioFail, IInv, TypeOK, ServedInv
  <2>. QED
    BY <1>0, <1>1, <1>2, <2>1, <2>2 DEF ServedInv, callVars, TypeOK
<1>. QED
  BY <1>0, <1>3, <1>4, <1>5 DEF IInv

\* A binding keeps the invariant.
LEMMA BindInv ==
    ASSUME IInv, NEW s \in Senders, NEW d \in Devices, BindConversation(s, d)
    PROVE  IInv'
<1>1. TypeOK'
  BY BindType DEF IInv
<1>2. \A c \in Calls : CallInv(c)'
  BY DEF BindConversation, IInv, CallInv, Owns, callVars, deviceVars
<1>3. OwnerIsUnique' /\ EventInv' /\ ServedInv'
  BY DEF BindConversation, IInv, OwnerIsUnique, Owns, EventInv, Arrived, ServedInv, callVars, deviceVars
<1>. QED
  BY <1>1, <1>2, <1>3 DEF IInv

\* The invariant is inductive.
LEMMA NextInv == IInv /\ [Next]_vars => IInv'
<1> SUFFICES ASSUME IInv, [Next]_vars
             PROVE  IInv'
  OBVIOUS
<1>1. CASE UNCHANGED vars
  <2>1. TypeOK'
    BY <1>1, NextType DEF IInv
  <2>2. \A c \in Calls : CallInv(c)'
    BY <1>1 DEF vars, IInv, CallInv, Owns
  <2>3. OwnerIsUnique' /\ EventInv' /\ ServedInv'
    BY <1>1 DEF vars, IInv, OwnerIsUnique, Owns, EventInv, Arrived, ServedInv
  <2>. QED
    BY <2>1, <2>2, <2>3 DEF IInv
<1>. QED
  BY <1>1, CallStepInv, DeviceStepInv, BindInv DEF Next

\* The inductive invariant holds.
THEOREM Invariance == Spec => []IInv
  BY InitInv, NextInv, PTL DEF Spec

-----------------------------------------------------------------------------

\* Every variable keeps its type.
THEOREM TypeCorrect == Spec => []TypeOK
<1>1. IInv => TypeOK
  BY DEF IInv
<1>. QED
  BY <1>1, Invariance, PTL

\* A voice note has at most one row, however it is delivered.
THEOREM OneRowTheorem == Spec => []OneRowPerNote
<1>1. IInv => OneRowPerNote
  BY DEF IInv, OwnerIsUnique, Owns, OneRowPerNote
<1>. QED
  BY <1>1, Invariance, PTL

\* A row has its event, its audio and a device bound to the sender.
THEOREM CompleteTheorem == Spec => []RowIsComplete
<1>1. IInv => RowIsComplete
  BY DEF IInv, CallInv, Owns, RowIsComplete
<1>. QED
  BY <1>1, Invariance, PTL

\* "ok" and "duplicate" answers are true.
THEOREM AnswerTheorem == Spec => []AnswerIsTrue
<1>1. IInv => AnswerIsTrue
  BY DEF IInv, CallInv, EventInv, Arrived, AnswerIsTrue
<1>. QED
  BY <1>1, Invariance, PTL

\* Only its own device hears a note or marks it played.
THEOREM OwnerTheorem == Spec => []OnlyOwnerServed
<1>1. IInv => OnlyOwnerServed
  BY DEF IInv, CallInv, ServedInv, OnlyOwnerServed
<1>. QED
  BY <1>1, Invariance, PTL

\* A row is written once, played at most once, and otherwise never changes.
THEOREM LifecycleTheorem == Spec => RowLifecycle
<1>1. ASSUME IInv, [Next]_vars
      PROVE  \A c \in Calls : RowStep(c)
  <2>1. CASE UNCHANGED vars
    BY <2>1 DEF vars, RowStep
  <2>2. CASE \E c \in Calls : CallStep(c)
    <3> PICK c \in Calls : CallStep(c)
      BY <2>2
    <3>1. \A d \in Calls : d # c => createdAt'[d] = createdAt[d]
      BY <1>1 DEF CallStep, Receive, RecordWebhookEvent, RecordWebhookEventLost, FindByRecipient,
         FindByRecipientFail, Fetch, Put, CheckDuplicate, InsertInbound, CommitInbound,
         AnswerOk, CallFail, IInv, TypeOK
    <3>2. status[c] # "NONE" => createdAt'[c] = createdAt[c]
      BY <1>1 DEF CallStep, Receive, RecordWebhookEvent, RecordWebhookEventLost, FindByRecipient,
         FindByRecipientFail, Fetch, Put, CheckDuplicate, InsertInbound, CommitInbound,
         AnswerOk, CallFail, IInv, CallInv
    <3>3. status[c] # "NONE" => call[c] \in {"inserted", "ok", "error"}
      BY <1>1 DEF IInv, CallInv
    <3>4. \A d \in Calls :
             /\ \/ status'[d] = status[d]
                \/ status[d] = "NONE" /\ status'[d] = "AVAILABLE"
             /\ status[d] # "NONE" => note'[d] = note[d] /\ device'[d] = device[d]
      BY <1>1, <3>3, CallFacts, ZenonT(40) DEF IInv, TypeOK, CallInv, Statuses
    <3>5. ASSUME NEW d \in Calls
          PROVE  RowStep(d)
      <4>1. status[d] # "NONE" => createdAt'[d] = createdAt[d]
        BY <3>1, <3>2
      <4>. QED
        BY <3>4, <4>1, Zenon DEF RowStep
    <3>. QED
      BY <3>5
  <2>3. CASE \E d \in Devices : DeviceStep(d)
    BY <1>1, <2>3 DEF DeviceStep, OpenAudio, MarkPlayed, ReadAudio, ReadAudioFail, RowStep,
                      IInv, TypeOK, callVars
  <2>4. CASE \E s \in Senders, d \in Devices : BindConversation(s, d)
    BY <2>4 DEF BindConversation, RowStep, callVars
  <2>. QED
    BY <1>1, <2>1, <2>2, <2>3, <2>4 DEF Next
<1>2. IInv /\ [Next]_vars => [\A c \in Calls : RowStep(c)]_vars
  BY <1>1
<1>. QED
  BY <1>2, Invariance, PTL DEF Spec, RowLifecycle

-----------------------------------------------------------------------------
(* The refinement: committing the insert delivers the note, reading the object is *)
(* hearing it, and every other step of a call changes nothing the mailbox shows.  *)

\* What is not yet a row is no note of the mailbox.
LEMMA AbstractInit == Init => Abstract!Init
  BY DEF Init, Abstract!Init, RowsIn

\* Rows that stay what they are are the same notes in the mailbox.
LEMMA RowsStay ==
    ASSUME status' = status,
           \A c \in Calls : status[c] # "NONE" => note'[c] = note[c] /\ device'[c] = device[c]
    PROVE  \A st \in {"AVAILABLE", "PLAYED"} : RowsIn(st)' = RowsIn(st)
  BY DEF RowsIn

\* A step of a call that leaves the rows alone is none of the mailbox.
LEMMA CallAbstract ==
    ASSUME IInv, IInv', NEW c \in Calls, CallStep(c)
    PROVE  Abstract!Next \/ UNCHANGED Abstract!vars
<1>0. TypeOK /\ TypeOK'
  BY DEF IInv
<1>1. bound' = bound /\ served' = served
  BY CallFacts DEF deviceVars
<1>2. \A d \in Calls : status[d] # "NONE" => note'[d] = note[d] /\ device'[d] = device[d]
  BY CallFacts DEF IInv, CallInv, Ingesting
<1>3. {<<note[m[2]], m[1]>> : m \in served}' = {<<note[m[2]], m[1]>> : m \in served}
  BY <1>0, <1>1, <1>2 DEF IInv, ServedInv, TypeOK
<1>4. CASE status' = status
  <2>1. RowsIn("AVAILABLE")' = RowsIn("AVAILABLE") /\ RowsIn("PLAYED")' = RowsIn("PLAYED")
    BY <1>2, <1>4, RowsStay
  <2>. QED
    BY <1>1, <1>3, <2>1 DEF Abstract!vars
<1>5. CASE CommitInbound(c)
  <2>1. /\ call[c] = "inserting" /\ status' = [status EXCEPT ![c] = "AVAILABLE"]
        /\ note' = note /\ device' = device
    BY <1>5 DEF CommitInbound
  <2>2. /\ status[c] = "NONE" /\ Owns(c) /\ <<SenderOf[note[c]], device[c]>> \in bound
        /\ note[c] \in Notes /\ device[c] \in Devices
    BY <1>0, <2>1 DEF IInv, CallInv, Owns, Ingesting, TypeOK
  <2>3. \A d \in Calls : status[d] # "NONE" => note[d] # note[c]
    BY <2>2 DEF IInv, OwnerIsUnique, Owns
  <2>4. \A e \in Devices : <<note[c], e>> \notin RowsIn("AVAILABLE") \cup RowsIn("PLAYED")
    BY <2>3 DEF RowsIn
  <2>5. RowsIn("AVAILABLE")' = RowsIn("AVAILABLE") \cup {<<note[c], device[c]>>}
    BY <1>0, <2>1, <2>2 DEF RowsIn, TypeOK
  <2>6. RowsIn("PLAYED")' = RowsIn("PLAYED")
    BY <1>0, <2>1, <2>2 DEF RowsIn, TypeOK
  <2>7. Abstract!Deliver(note[c], device[c])
    BY <1>1, <1>3, <2>2, <2>4, <2>5, <2>6 DEF Abstract!Deliver
  <2>. QED
    BY <2>2, <2>7 DEF Abstract!Next
<1>. QED
  BY <1>4, <1>5
     DEF CallStep, Receive, RecordWebhookEvent, RecordWebhookEventLost, FindByRecipient,
         FindByRecipientFail, Fetch, Put, CheckDuplicate, InsertInbound, AnswerOk, CallFail

\* A request of a device hears a note of its own, marks it played, or changes nothing.
LEMMA DeviceAbstract ==
    ASSUME IInv, NEW d \in Devices, DeviceStep(d)
    PROVE  Abstract!Next \/ UNCHANGED Abstract!vars
<1>0. TypeOK
  BY DEF IInv
<1>1. CASE UNCHANGED <<bound, note, device, status, served>>
  BY <1>1 DEF Abstract!vars, RowsIn
<1>2. CASE ReadAudio(d)
  <2>1. PICK c \in opening[d] : served' = served \cup {<<d, c>>}
    BY <1>2 DEF ReadAudio
  <2>2. bound' = bound /\ note' = note /\ device' = device /\ status' = status
    BY <1>2 DEF ReadAudio, callVars
  <2>3. c \in Calls /\ device[c] = d /\ status[c] # "NONE"
    BY <1>0, <2>1 DEF IInv, ServedInv, TypeOK
  <2>4. note[c] \in Notes /\ status[c] \in {"AVAILABLE", "PLAYED"}
    BY <1>0, <2>3 DEF IInv, CallInv, TypeOK, Statuses
  <2>5. <<note[c], d>> \in RowsIn("AVAILABLE") \cup RowsIn("PLAYED")
    BY <2>3, <2>4 DEF RowsIn
  <2>6. RowsIn("AVAILABLE")' = RowsIn("AVAILABLE") /\ RowsIn("PLAYED")' = RowsIn("PLAYED")
    BY <2>2 DEF RowsIn
  <2>7. {<<note[m[2]], m[1]>> : m \in served}'
            = {<<note[m[2]], m[1]>> : m \in served} \cup {<<note[c], d>>}
    <3>1. <<d, c>>[1] = d /\ <<d, c>>[2] = c
      OBVIOUS
    <3>2. ASSUME NEW x
          PROVE  (\E m \in served' : x = <<note[m[2]], m[1]>>)
                     <=> (\E m \in served : x = <<note[m[2]], m[1]>>) \/ x = <<note[c], d>>
      BY <2>1, <3>1, Zenon
    <3>3. {<<note[m[2]], m[1]>> : m \in served'}
              = {<<note[m[2]], m[1]>> : m \in served} \cup {<<note[c], d>>}
      BY <3>2, SMT
    <3>. QED
      BY <2>2, <3>3, Zenon
  <2>8. Abstract!Hear(note[c], d)
    BY <2>2, <2>5, <2>6, <2>7 DEF Abstract!Hear
  <2>. QED
    BY <2>4, <2>8 DEF Abstract!Next
<1>3. ASSUME NEW c \in Calls, MarkPlayed(d, c)
      PROVE  Abstract!Next
  <2>1. /\ status[c] = "AVAILABLE" /\ device[c] = d
        /\ status' = [status EXCEPT ![c] = "PLAYED"]
        /\ bound' = bound /\ note' = note /\ device' = device /\ served' = served
    BY <1>3 DEF MarkPlayed, callVars
  <2>2. note[c] \in Notes
    BY <1>0, <2>1 DEF IInv, CallInv, TypeOK
  <2>3. <<note[c], d>> \in RowsIn("AVAILABLE")
    BY <2>1 DEF RowsIn
  <2>4. \A e \in Calls : status[e] = "AVAILABLE" /\ note[e] = note[c] => e = c
    BY <2>1 DEF IInv, OwnerIsUnique, Owns
  <2>5. RowsIn("AVAILABLE")' = RowsIn("AVAILABLE") \ {<<note[c], d>>}
    BY <1>0, <2>1, <2>4 DEF RowsIn, TypeOK
  <2>6. RowsIn("PLAYED")' = RowsIn("PLAYED") \cup {<<note[c], d>>}
    BY <1>0, <2>1 DEF RowsIn, TypeOK
  <2>7. Abstract!MarkPlayed(note[c], d)
    BY <2>1, <2>3, <2>5, <2>6 DEF Abstract!MarkPlayed
  <2>. QED
    BY <2>2, <2>7 DEF Abstract!Next
<1>. QED
  BY <1>1, <1>2, <1>3 DEF DeviceStep, OpenAudio, ReadAudioFail, callVars

\* Every step of the backend is one of the mailbox or none.
LEMMA AbstractStep == IInv /\ IInv' /\ [Next]_vars => [Abstract!Next]_(Abstract!vars)
<1> SUFFICES ASSUME IInv, IInv', [Next]_vars
             PROVE  [Abstract!Next]_(Abstract!vars)
  OBVIOUS
<1>1. CASE UNCHANGED vars
  BY <1>1 DEF vars, Abstract!vars, RowsIn
<1>2. ASSUME NEW s \in Senders, NEW d \in Devices, BindConversation(s, d)
      PROVE  Abstract!Next
  <2>1. Abstract!Bind(s, d)
    BY <1>2 DEF BindConversation, Abstract!Bind, RowsIn, callVars, deviceVars
  <2>. QED
    BY <2>1 DEF Abstract!Next
<1>. QED
  BY <1>1, <1>2, CallAbstract, DeviceAbstract DEF Next

\* The webhook calls of both channels, with every repetition, race and failure, and the device
\* API implement a mailbox in which a note comes to one box, once
\* (webhook_handlers.go:127-171, 223-310, message/service.go:75-125, repository.go:123-136).
THEOREM Refinement == Spec => ImplementsMailbox
  BY AbstractInit, AbstractStep, Invariance, PTL DEF Spec, ImplementsMailbox, Abstract!Spec
=============================================================================
