-------------------------------- MODULE Wire --------------------------------
(***************************************************************************)
(* What a stream of one reply promises its consumer (the trait `Wire` and  *)
(* `ResponseEvent` of crates/ox-core/src/client.rs): pieces of the reply,  *)
(* then one end, the completed reply or a failure.  A retry starts the     *)
(* reply over only while nothing of it has come.                           *)
(***************************************************************************)
EXTENDS Naturals

CONSTANTS Piece, MaxRetries

VARIABLES came, tries, ending

wireVars == <<came, tries, ending>>

WireInit == came = {} /\ tries = 0 /\ ending = "none"

\* Another attempt; after a drop, one may still be on its way.
Attempt == /\ (ending = "none" /\ came = {}) \/ ending = "dropped"
           /\ tries <= MaxRetries
           /\ tries' = tries + 1
           /\ UNCHANGED <<came, ending>>

\* A new piece comes, each once.
Bring == /\ ending = "none" /\ tries > 0
         /\ \E p \in Piece \ came : came' = came \cup {p}
         /\ UNCHANGED <<tries, ending>>

\* The reply ends, whole or in a failure.
Conclude == /\ ending = "none"
            /\ ending' \in {"completed", "failed"}
            /\ UNCHANGED <<came, tries>>

\* The consumer leaves, and the pieces on their way are lost.
Leave == /\ ending = "none"
         /\ ending' = "dropped"
         /\ came' \in SUBSET came
         /\ UNCHANGED tries

WireSpec == WireInit /\ [][Attempt \/ Bring \/ Conclude \/ Leave]_wireVars
=============================================================================
