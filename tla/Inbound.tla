------------------------------ MODULE Inbound ------------------------------
(***************************************************************************)
(* The inbound half of the backend: webhook calls of WhatsApp (Evolution) and  *)
(* Telegram bring voice notes, which are fetched, converted, stored in MinIO   *)
(* and inserted into `messages` as AVAILABLE; a device asks for its next note,  *)
(* downloads the audio and marks it played.  Both webhook handlers run the same *)
(* steps on the tables, so a call is one of either.                            *)
(*                                                                         *)
(* A channel calls again when it got no 2xx answer, and may call twice at once. *)
(* A call makes at most one object and one row, so both carry its identity.     *)
(***************************************************************************)
EXTENDS Integers

CONSTANTS
    Calls,       \* webhook calls, and the rows and objects they create
    Notes,       \* voice notes, by their external id
    Senders,     \* (channel, recipient) of conversations
    Devices,
    SenderOf,    \* who sent each note
    NoNote,      \* the note of a call that has not arrived
    NoDevice

ASSUME SenderOfAssumption == SenderOf \in [Notes -> Senders]
ASSUME NoNoteAssumption == NoNote \notin Notes
ASSUME NoDeviceAssumption == NoDevice \notin Devices

VARIABLES
    bound,      \* device_conversations joined with conversations
    events,     \* webhook_events: external ids already recorded
    call,       \* where each webhook call stands, or how it was answered
    note,       \* the note a call is about
    device,     \* the device FindByRecipient returned to the call
    objects,    \* keys stored in MinIO
    clock,      \* NOW() of PostgreSQL
    createdAt,  \* messages.created_at
    status,     \* messages.status of the row of each call
    opening,    \* the row whose audio a device's request has checked and not yet read
    served,     \* <<d, c>>: device d got the audio of row c
    playedBy    \* the device whose request marked each row played

callVars == <<events, call, note, device, objects, clock, createdAt>>
deviceVars == <<opening, served, playedBy>>
vars == <<bound, events, call, note, device, objects, clock, createdAt, status,
          opening, served, playedBy>>

\* Past RecordWebhookEvent, before the answer.
Ingesting == {"recorded", "found", "ready", "stored", "unique", "inserting", "inserted"}
Answers == {"ok", "duplicate", "nodevice", "error"}
CallStates == {"new", "received"} \cup Ingesting \cup Answers
Statuses == {"NONE", "AVAILABLE", "PLAYED"}

Init ==
    /\ bound = {}
    /\ events = {}
    /\ call = [c \in Calls |-> "new"]
    /\ note = [c \in Calls |-> NoNote]
    /\ device = [c \in Calls |-> NoDevice]
    /\ objects = {}
    /\ clock = 0
    /\ createdAt = [c \in Calls |-> 0]
    /\ status = [c \in Calls |-> "NONE"]
    /\ opening = [d \in Devices |-> {}]
    /\ served = {}
    /\ playedBy = [c \in Calls |-> NoDevice]

-----------------------------------------------------------------------------
(* Administration.                                                             *)

\* The admin CLI binds a device to the conversation of a sender; nothing unbinds.
BindConversation(s, d) ==
    /\ <<s, d>> \notin bound
    /\ bound' = bound \cup {<<s, d>>}
    /\ UNCHANGED <<callVars, status, deviceVars>>

-----------------------------------------------------------------------------
(* A webhook call.                                                             *)

Advance(c, state) == call' = [call EXCEPT ![c] = state]

\* An authenticated call about an audio message of someone else than the account.
Receive(c) ==
    /\ call[c] = "new"
    /\ \E n \in Notes : note' = [note EXCEPT ![c] = n]
    /\ Advance(c, "received")
    /\ UNCHANGED <<bound, events, device, objects, clock, createdAt, status, deviceVars>>

\* Mutant: every event is taken for a new one.
RecordAlwaysNew(c) ==
    /\ call[c] = "received"
    /\ events' = events \cup {note[c]}
    /\ Advance(c, "recorded")
    /\ UNCHANGED <<bound, note, device, objects, clock, createdAt, status, deviceVars>>

\* INSERT INTO webhook_events ... ON CONFLICT (external_id) DO NOTHING
RecordWebhookEvent(c) ==
    /\ call[c] = "received"
    /\ events' = events \cup {note[c]}
    /\ Advance(c, IF note[c] \in events THEN "duplicate" ELSE "recorded")
    /\ UNCHANGED <<bound, note, device, objects, clock, createdAt, status, deviceVars>>

\* The INSERT commits but reports an error: 500.
RecordWebhookEventLost(c) ==
    /\ call[c] = "received"
    /\ events' = events \cup {note[c]}
    /\ Advance(c, "error")
    /\ UNCHANGED <<bound, note, device, objects, clock, createdAt, status, deviceVars>>

\* Mutant: the error of the lookup is ignored.
FindByRecipientIgnored(c) ==
    /\ call[c] = "recorded"
    /\ Advance(c, "found")
    /\ UNCHANGED <<bound, events, note, device, objects, clock, createdAt, status, deviceVars>>

\* One of the devices bound to the sender: LIMIT 1 without an order.
FindByRecipient(c) ==
    /\ call[c] = "recorded"
    /\ \E d \in Devices :
          /\ <<SenderOf[note[c]], d>> \in bound
          /\ device' = [device EXCEPT ![c] = d]
    /\ Advance(c, "found")
    /\ UNCHANGED <<bound, events, note, objects, clock, createdAt, status, deviceVars>>

\* No device, or a query that failed: both are answered 200.
FindByRecipientFail(c) ==
    /\ call[c] = "recorded"
    /\ Advance(c, "nodevice")
    /\ UNCHANGED <<bound, events, note, device, objects, clock, createdAt, status, deviceVars>>

\* The media is downloaded, converted to WAV and valid.
Fetch(c) ==
    /\ call[c] = "found"
    /\ Advance(c, "ready")
    /\ UNCHANGED <<bound, events, note, device, objects, clock, createdAt, status, deviceVars>>

\* Mutant: the error of Put is ignored.
PutIgnored(c) ==
    /\ call[c] = "ready"
    /\ objects' \in {objects, objects \cup {c}}
    /\ Advance(c, "stored")
    /\ UNCHANGED <<bound, events, note, device, clock, createdAt, status, deviceVars>>

\* storage.Put; the object may be stored although Put reports an error.
Put(c) ==
    /\ call[c] = "ready"
    /\ objects' = objects \cup {c}
    /\ \E outcome \in {"stored", "error"} : Advance(c, outcome)
    /\ UNCHANGED <<bound, events, note, device, clock, createdAt, status, deviceVars>>

\* ExistsByExternalID: a row of the same note makes the call a duplicate.
CheckDuplicate(c) ==
    /\ call[c] = "stored"
    /\ Advance(c, IF \E d \in Calls : status[d] # "NONE" /\ note[d] = note[c]
                  THEN "duplicate" ELSE "unique")
    /\ UNCHANGED <<bound, events, note, device, objects, clock, createdAt, status, deviceVars>>

\* The INSERT starts (created_at) and commits (the row is visible, AVAILABLE).
InsertInbound(c) ==
    /\ call[c] = "unique"
    /\ clock' = clock + 1
    /\ createdAt' = [createdAt EXCEPT ![c] = clock + 1]
    /\ Advance(c, "inserting")
    /\ UNCHANGED <<bound, events, note, device, objects, status, deviceVars>>

CommitInbound(c) ==
    /\ call[c] = "inserting"
    /\ status' = [status EXCEPT ![c] = "AVAILABLE"]
    /\ Advance(c, "inserted")
    /\ UNCHANGED <<bound, events, note, device, objects, clock, createdAt, deviceVars>>

\* Mutant: the channel is answered before the row is committed.
AnswerOkEarly(c) ==
    /\ call[c] \in {"inserting", "inserted"}
    /\ Advance(c, "ok")
    /\ UNCHANGED <<bound, events, note, device, objects, clock, createdAt, status, deviceVars>>

AnswerOk(c) ==
    /\ call[c] = "inserted"
    /\ Advance(c, "ok")
    /\ UNCHANGED <<bound, events, note, device, objects, clock, createdAt, status, deviceVars>>

\* Any other failure of the handler, a 4xx or 5xx answer, an answer that is lost,
\* or the death of the process: what was persisted by then stays.
CallFail(c) ==
    /\ call[c] \in {"received"} \cup Ingesting
    /\ Advance(c, "error")
    /\ UNCHANGED <<bound, events, note, device, objects, clock, createdAt, status, deviceVars>>

-----------------------------------------------------------------------------
(* The device API.  An authenticated device may name any message id; which one *)
(* GET messages/next tells it is in MainLoop.                                  *)

Available(d) == {c \in Calls : status[c] = "AVAILABLE" /\ device[c] = d}

\* GET messages/{id}/audio checks the owner and the status of the row ...
OpenAudio(d, c) ==
    /\ c \in Available(d)
    /\ opening' = [opening EXCEPT ![d] = {c}]
    /\ UNCHANGED <<bound, callVars, status, served, playedBy>>

\* ... and then reads the object of the key it found there.
ReadAudio(d) ==
    /\ \E c \in opening[d] \cap objects : served' = served \cup {<<d, c>>}
    /\ opening' = [opening EXCEPT ![d] = {}]
    /\ UNCHANGED <<bound, callVars, status, playedBy>>

\* The object cannot be read or the connection breaks.
ReadAudioFail(d) ==
    /\ opening[d] # {}
    /\ opening' = [opening EXCEPT ![d] = {}]
    /\ UNCHANGED <<bound, callVars, status, served, playedBy>>

\* Mutant: the UPDATE does not test the device.
MarkPlayedByAny(d, c) ==
    /\ status[c] = "AVAILABLE"
    /\ status' = [status EXCEPT ![c] = "PLAYED"]
    /\ playedBy' = [playedBy EXCEPT ![c] = d]
    /\ UNCHANGED <<bound, callVars, opening, served>>

\* Mutant: the UPDATE does not test the status.
MarkPlayedAlways(d, c) ==
    /\ device[c] = d
    /\ status' = [status EXCEPT ![c] = "PLAYED"]
    /\ playedBy' = [playedBy EXCEPT ![c] = d]
    /\ UNCHANGED <<bound, callVars, opening, served>>

\* POST messages/{id}/played: UPDATE ... WHERE id, device_id, status = 'AVAILABLE';
\* no row updated is a 404 that changes nothing.
MarkPlayed(d, c) ==
    /\ status[c] = "AVAILABLE"
    /\ device[c] = d
    /\ status' = [status EXCEPT ![c] = "PLAYED"]
    /\ playedBy' = [playedBy EXCEPT ![c] = d]
    /\ UNCHANGED <<bound, callVars, opening, served>>

-----------------------------------------------------------------------------
CallStep(c) ==
    \/ Receive(c) \/ RecordWebhookEvent(c) \/ RecordWebhookEventLost(c)
    \/ FindByRecipient(c) \/ FindByRecipientFail(c) \/ Fetch(c) \/ Put(c)
    \/ CheckDuplicate(c) \/ InsertInbound(c) \/ CommitInbound(c) \/ AnswerOk(c)
    \/ CallFail(c)

DeviceStep(d) ==
    \/ \E c \in Calls : OpenAudio(d, c) \/ MarkPlayed(d, c)
    \/ ReadAudio(d)
    \/ ReadAudioFail(d)

Next ==
    \/ \E c \in Calls : CallStep(c)
    \/ \E d \in Devices : DeviceStep(d)
    \/ \E s \in Senders, d \in Devices : BindConversation(s, d)

Spec == Init /\ [][Next]_vars

-----------------------------------------------------------------------------
(* Properties.                                                                *)

\* Every variable keeps its type; a call that has not arrived names no note, and
\* one past its lookup has its device.
TypeOK ==
    /\ bound \subseteq Senders \X Devices
    /\ events \subseteq Notes
    /\ call \in [Calls -> CallStates]
    /\ note \in [Calls -> Notes \cup {NoNote}]
    /\ device \in [Calls -> Devices \cup {NoDevice}]
    /\ objects \subseteq Calls
    /\ clock \in Nat
    /\ createdAt \in [Calls -> Nat]
    /\ status \in [Calls -> Statuses]
    /\ opening \in [Devices -> SUBSET Calls]
    /\ served \subseteq Devices \X Calls
    /\ playedBy \in [Calls -> Devices \cup {NoDevice}]
    /\ \A c \in Calls : call[c] = "new" <=> note[c] = NoNote
    /\ \A c \in Calls : call[c] \in Ingesting \ {"recorded"} => device[c] \in Devices

\* However often and however concurrently a channel delivers a note, and whatever
\* fails, the note has at most one row: a child hears it from one entry only.
\* (The check in CreateInbound alone would not do: it is not in the transaction
\* of the insert and messages.external_id is not UNIQUE.)
OneRowPerNote ==
    \A c, d \in Calls :
        status[c] # "NONE" /\ status[d] # "NONE" /\ note[c] = note[d] => c = d

\* A row is complete: its event is recorded, its audio is stored, and it belongs
\* to a device bound to the sender of the note.
RowIsComplete ==
    \A c \in Calls : status[c] # "NONE" =>
        /\ note[c] \in events
        /\ c \in objects
        /\ <<SenderOf[note[c]], device[c]>> \in bound

\* The channel is told "ok" only about a note that has its row, and "duplicate"
\* only about an event some call recorded before.
AnswerIsTrue ==
    \A c \in Calls :
        /\ call[c] = "ok" => status[c] # "NONE"
        /\ call[c] = "duplicate" =>
              \E d \in Calls \ {c} : note[d] = note[c] /\ call[d] \notin {"new", "received"}

\* Only the device of a row hears it or marks it played, and a row is played only
\* by such a mark.
OnlyOwnerServed ==
    /\ \A m \in served : device[m[2]] = m[1] /\ status[m[2]] # "NONE"
    /\ \A c \in Calls : status[c] = "PLAYED" <=> playedBy[c] # NoDevice
    /\ \A c \in Calls : playedBy[c] # NoDevice => playedBy[c] = device[c]

\* A row is written once and played at most once; its note, device and place in
\* the queue never change while the device may ask for it.
RowStep(c) ==
    /\ status'[c] = status[c] \/ <<status[c], status'[c]>> \in
            {<<"NONE", "AVAILABLE">>, <<"AVAILABLE", "PLAYED">>}
    /\ status[c] # "NONE" =>
            note'[c] = note[c] /\ device'[c] = device[c] /\ createdAt'[c] = createdAt[c]
RowLifecycle == [][\A c \in Calls : RowStep(c)]_vars

\* api.md:98: "Duplicate events are ignored via idempotency table."  When a call is
\* dismissed as a duplicate, its note is stored or on its way, if some call has found
\* the device it is for (webhook_handlers.go:127-150).
DuplicateWasStored ==
    [][\A c \in Calls :
          /\ call[c] = "received" /\ call'[c] = "duplicate"
          /\ \E d \in Calls : note[d] = note[c] /\ device[d] # NoDevice
          => \E d \in Calls : /\ note[d] = note[c]
                              /\ status[d] # "NONE" \/ call[d] \in Ingesting]_vars

-----------------------------------------------------------------------------
(* The refinement: the rows of a status are the notes that wait or are played. *)

RowsIn(st) == {<<note[c], device[c]>> : c \in {x \in Calls : status[x] = st}}

Abstract == INSTANCE Mailbox WITH
    waiting <- RowsIn("AVAILABLE"),
    played <- RowsIn("PLAYED"),
    heard <- {<<note[m[2]], m[1]>> : m \in served}

\* However often a note is delivered and whatever fails, it comes to one box of its
\* sender's, once, is heard there only, and is neither taken back nor brought back
\* after it was played (webhook_handlers.go:127-171,
\* message/service.go:75-125, message/repository.go:123-136).
ImplementsMailbox == Abstract!Spec
=============================================================================
