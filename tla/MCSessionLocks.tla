--------------------------- MODULE MCSessionLocks ---------------------------
(***************************************************************************)
(* Bounds for SessionLocks: one more inode than processes, so that each    *)
(* may hold an unlinked file while the path names another.                 *)
(***************************************************************************)
EXTENDS SessionLocks, TLC

LSymmetry == Permutations(Proc) \cup Permutations(Inode)
=============================================================================
