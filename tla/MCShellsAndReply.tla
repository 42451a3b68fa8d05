-------------------------- MODULE MCShellsAndReply --------------------------
(***************************************************************************)
(* Bounds for BackgroundShells and StreamedReply.  The two share no state, *)
(* so one run checks both: a behavior is one of the shells or one of a     *)
(* streamed request, as `part` says, while the other stays as it began,    *)
(* where nothing that is fair is enabled.                                  *)
(***************************************************************************)
EXTENDS BackgroundShells, StreamedReply

VARIABLE part   \* the component this behavior is one of

Init == part \in {"shells", "reply"} /\ BInit /\ SInit

Next ==
    \/ part = "shells" /\ BNext /\ UNCHANGED <<svars, part>>
    \/ part = "reply" /\ SNext /\ UNCHANGED <<bvars, part>>

Spec == Init /\ [][Next]_<<bvars, svars, part>> /\ BFairness /\ SFairness
=============================================================================
