------------------------------ MODULE Mailbox -------------------------------
(***************************************************************************)
(* What the inbound half of the backend promises about a voice note,       *)
(* without webhook calls, events, objects, rows or crashes: it may come to *)
(* one box of those bound to its sender, once, and stays there until that  *)
(* box marks it played; only that box hears it.  A reading that began      *)
(* before the mark may end after it.                                       *)
(***************************************************************************)
CONSTANTS
    Notes,
    Senders,
    Devices,
    SenderOf     \* who sent each note

VARIABLES
    bound,       \* <<s, d>>: device d gets the notes of sender s
    waiting,     \* <<n, d>>: note n waits for device d
    played,      \* <<n, d>>: device d marked note n played
    heard        \* <<n, d>>: device d got the audio of note n

vars == <<bound, waiting, played, heard>>

Init == bound = {} /\ waiting = {} /\ played = {} /\ heard = {}

Bind(s, d) ==
    /\ bound' = bound \cup {<<s, d>>}
    /\ UNCHANGED <<waiting, played, heard>>

Deliver(n, d) ==
    /\ <<SenderOf[n], d>> \in bound
    /\ \A e \in Devices : <<n, e>> \notin waiting \cup played
    /\ waiting' = waiting \cup {<<n, d>>}
    /\ UNCHANGED <<bound, played, heard>>

Hear(n, d) ==
    /\ <<n, d>> \in waiting \cup played
    /\ heard' = heard \cup {<<n, d>>}
    /\ UNCHANGED <<bound, waiting, played>>

MarkPlayed(n, d) ==
    /\ <<n, d>> \in waiting
    /\ waiting' = waiting \ {<<n, d>>}
    /\ played' = played \cup {<<n, d>>}
    /\ UNCHANGED <<bound, heard>>

Next ==
    \/ \E s \in Senders, d \in Devices : Bind(s, d)
    \/ \E n \in Notes, d \in Devices : Deliver(n, d) \/ Hear(n, d) \/ MarkPlayed(n, d)

Spec == Init /\ [][Next]_vars
=============================================================================
