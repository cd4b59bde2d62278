------------------------------ MODULE Delivery ------------------------------
(***************************************************************************)
(* What the outbound half of the backend promises about a recording, without  *)
(* workers, claims, objects, timeouts or crashes: once queued it is           *)
(* delivered some number of times, at most CopyBound, and it is reported sent *)
(* only if it was delivered.  A copy may still arrive after the report: a     *)
(* provider can accept a request its client has given up on.                  *)
(***************************************************************************)
EXTENDS Integers

CONSTANTS
    Recordings,
    CopyBound    \* the most copies of one recording a parent may receive

VARIABLES
    phase,       \* what the backend reports of each recording
    copies       \* the copies of each recording delivered, by attempt number

vars == <<phase, copies>>

Phases == {"absent", "queued", "sent", "failed"}

Init ==
    /\ phase = [r \in Recordings |-> "absent"]
    /\ copies = [r \in Recordings |-> {}]

Enqueue(r) ==
    /\ phase[r] = "absent"
    /\ phase' = [phase EXCEPT ![r] = "queued"]
    /\ UNCHANGED copies

Deliver(r) ==
    /\ phase[r] # "absent"
    /\ \E n \in 1..CopyBound \ copies[r] :
          copies' = [copies EXCEPT ![r] = @ \cup {n}]
    /\ UNCHANGED phase

ReportSent(r) ==
    /\ phase[r] = "queued"
    /\ copies[r] # {}
    /\ phase' = [phase EXCEPT ![r] = "sent"]
    /\ UNCHANGED copies

ReportFailed(r) ==
    /\ phase[r] = "queued"
    /\ phase' = [phase EXCEPT ![r] = "failed"]
    /\ UNCHANGED copies

Next ==
    \E r \in Recordings :
        Enqueue(r) \/ Deliver(r) \/ ReportSent(r) \/ ReportFailed(r)

Spec == Init /\ [][Next]_vars
=============================================================================
