--------------------------- MODULE MCTurnAndLogin ---------------------------
(***************************************************************************)
(* Bounds for AgentTurn and Credentials.  The two share no state, so one   *)
(* run checks both: a behavior is one of the engine's turns or one of the  *)
(* stored login, as `part` says, while the other stays as it began.        *)
(***************************************************************************)
EXTENDS AgentTurn, Credentials, TLC

VARIABLE part   \* the component this behavior is one of

Init == part \in {"turn", "login"} /\ AInit /\ CInit

Next ==
    \/ part = "turn" /\ ANext /\ UNCHANGED <<cvars, part>>
    \/ part = "login" /\ CNext /\ UNCHANGED <<tvars, part>>

Spec == Init /\ [][Next]_<<tvars, cvars, part>>

Interchangeable == Permutations(Mode) \cup Permutations(Proc)
=============================================================================
