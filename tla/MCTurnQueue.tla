---------------------------- MODULE MCTurnQueue ----------------------------
(***************************************************************************)
(* Bounds for the queue of TurnProtocol and for LiveTranscript.  The two   *)
(* share no state, so one run checks both: a behavior is one of the        *)
(* terminal UI and its engine or one of the messages of a session, as      *)
(* `part` says, while the other stays as it began.  Prompts are model      *)
(* values and interchangeable.                                             *)
(***************************************************************************)
EXTENDS TurnProtocol, LiveTranscript, TLC

VARIABLE part   \* the component this behavior is one of

PromptSymmetry == Permutations(Prompt)

-----------------------------------------------------------------------------
(* What a process that died may have left: a chain cut after any message, and *)
(* one of an older version that begins with any.                              *)
-----------------------------------------------------------------------------
Whole == <<
    Text,
    [role |-> "assistant", parts |-> {"thinking", "call"}, id |-> 1],
    [role |-> "user", parts |-> {"result"}, id |-> 1],
    [role |-> "assistant", parts |-> {"call"}, id |-> 2],
    [role |-> "user", parts |-> {"result", "text"}, id |-> 2]>>
Leftovers == {<<>>} \cup {SubSeq(Whole, i, j) : i \in 1..3, j \in 2..5}

-----------------------------------------------------------------------------
BothInit ==
    /\ part \in {"terminal", "messages"} /\ Init /\ LiveInit
    /\ part = "terminal" => saved = <<>>

BothNext ==
    \/ part = "terminal" /\ Next /\ UNCHANGED <<livevars, part>>
    \/ part = "messages" /\ LiveNext /\ UNCHANGED <<vars, part>>
=============================================================================
