------------------------- MODULE MCSessionTransfer -------------------------
(***************************************************************************)
(* Bounds for SessionTransfer: two stores, a few sessions and messages.    *)
(***************************************************************************)
EXTENDS SessionTransfer, TLC

TSymmetry ==
    Permutations(Store) \cup Permutations(Session) \cup Permutations(Msg)
=============================================================================
