--------------------------- MODULE MCUploadCheck ----------------------------
(* Small instances of UploadCheck: every declared and present length around  *)
(* the limits, with no, an odd, an even and a long chunk before the data,    *)
(* and headers without a usable byte rate.                                   *)
EXTENDS UploadCheck

Lengths == {0, 1, 2, 7, 8, 9, 20, 31, 32, 33, 34, 35, 36}

SmallFiles ==
    {FileOf(list, d, n) : list \in {0, 3, 4, 40}, d \in Lengths, n \in Lengths}
        \cup {[riff |-> 4, bytes |-> 12, at |-> [p \in {} |-> None]],
              [riff |-> 40, bytes |-> 48,
               at |-> [p \in {12} |-> [id |-> "data", size |-> 28, rate |-> 0]]]}

\* The chunks of these files are where a writer puts them.
ASSUME SmallFilesAssumption == \A f \in SmallFiles : LaidOut(f)
=============================================================================
