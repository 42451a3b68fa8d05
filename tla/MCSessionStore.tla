--------------------------- MODULE MCSessionStore ---------------------------
(***************************************************************************)
(* Bounds for SessionStore: a few processes, sessions and messages, those  *)
(* of a kind interchangeable.  A write needs an ID nobody used, so the     *)
(* message set bounds how much history a behavior makes.  The constraint   *)
(* leaves out states with two of: a long history with forks of forks,      *)
(* titles or archives, and a round that ends in bare tool results.         *)
(***************************************************************************)
EXTENDS SessionStore, TLC

Symmetry ==
    Permutations(Proc) \cup Permutations(Session) \cup Permutations(Msg \ Results)

Written == {m \in Msg : parent[m] # Unborn}
AtMostStored(n) == Cardinality({s \in Session : sess[s].stored}) <= n

\* No renames, AI titles or archiving, which never move a head.
HeadsOnly ==
    /\ \A s \in Session : sess[s].title \in {"none", "prompt"} /\ ~sess[s].archived
    /\ \A p \in Proc : proc[p].title \in {"none", "prompt"}

\* A long history, with nothing to repair in it.
LongHistory == HeadsOnly /\ Written \cap Results = {}

\* A round with bare tool results and one message after it, in two stored
\* sessions and without a failed write: enough to resume at the results, write
\* or fork there, and resume again.
BareResults ==
    /\ HeadsOnly /\ AtMostStored(2)
    /\ \A p \in Proc : ~proc[p].stopped

\* All of them, over two messages, the second no compaction, and two stored
\* sessions, without a failed write: enough to title a session, fork it and resume either.
Metadata ==
    /\ Cardinality({m \in Msg : parent[m] = None}) <= 1
    /\ Cardinality(Written) <= 2
    /\ AtMostStored(2)
    /\ \A p \in Proc : ~proc[p].stopped

OneDimension == LongHistory \/ BareResults \/ Metadata
=============================================================================
