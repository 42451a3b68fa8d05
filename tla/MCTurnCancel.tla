---------------------------- MODULE MCTurnCancel ----------------------------
(***************************************************************************)
(* Bounds for the liveness of TurnProtocol and for HeadlessRun.  The two   *)
(* share no state, so one run checks both: a behavior is one of the        *)
(* terminal UI and its engine or one of an `ox --print`, as `part` says,   *)
(* while the other stays as it began.  A UI that was not touched has       *)
(* nothing fair to do; a printed run has its prompt at once, so its        *)
(* fairness is of its own behaviors.                                       *)
(***************************************************************************)
EXTENDS TurnProtocol, HeadlessRun

VARIABLE part   \* the component this behavior is one of

BothInit ==
    /\ part \in {"terminal", "headless"} /\ Init /\ RunInit
    /\ part = "terminal" => format = "text"

\* The process of a finished run is gone, which is no deadlock.
Gone == driver.at = "exited" /\ UNCHANGED headvars

BothNext ==
    \/ part = "terminal" /\ Next /\ UNCHANGED <<headvars, part>>
    \/ part = "headless" /\ (RunNext \/ Gone) /\ UNCHANGED <<vars, part>>

BothSpec ==
    /\ BothInit /\ [][BothNext]_<<vars, headvars, part>>
    /\ WF_vars(HandleEvent) /\ WF_vars(Serve) /\ WF_vars(Absorb) /\ WF_vars(RunLocal)
    /\ WF_headvars(part = "headless" /\ EngineActs)
    /\ WF_headvars(part = "headless" /\ DriverActs)
=============================================================================
