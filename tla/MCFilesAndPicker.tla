------------------------- MODULE MCFilesAndPicker -------------------------
(***************************************************************************)
(* Bounds for FileTracker and SessionPicker.  The two share no state, so   *)
(* one run checks both: a behavior is one of the file tracker or one of    *)
(* the picker, as `part` says, while the other stays as it began.  The     *)
(* texts of a file are interchangeable; sessions have an order.            *)
(***************************************************************************)
EXTENDS FileTracker, SessionPicker

VARIABLE part   \* the component this behavior is one of

Init ==
    /\ part \in {"files", "picker"} /\ FInit /\ PInit
    /\ part = "picker" => disk = Absent

Next ==
    \/ part = "files" /\ FNext /\ UNCHANGED <<pvars, part>>
    \/ part = "picker" /\ PNext /\ UNCHANGED <<fvars, part>>

Spec == Init /\ [][Next]_<<fvars, pvars, part>>

Texts == Permutations(Text)
=============================================================================
