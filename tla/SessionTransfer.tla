-------------------------- MODULE SessionTransfer --------------------------
(***************************************************************************)
(* Sessions that move between machines: `ox export` writes a session with  *)
(* every message it ever had, and `ox -r <file>` lands an export on a      *)
(* store.  Between transfers a session goes on in each store: appends,     *)
(* refused turns, compactions, and forks by a second process, each one     *)
(* commit (module SessionStore has the processes).  No session is deleted. *)
(***************************************************************************)
EXTENDS SessionRows, Sequences

CONSTANTS
    Store,          \* the stores of the machines
    MaxEdits,       \* commits a behavior makes
    MaxExports      \* export files it writes

ASSUME TransferAssumption == MaxEdits \in Nat /\ MaxExports \in Nat

VARIABLES
    sess,       \* the sessions of each store, with their messages
    updated,    \* updated_at of each
    parent,     \* parent_id of every message
    now,        \* the clock, counted in commits
    exports     \* the export files, in the order they were written

tvars == <<sess, updated, parent, now, exports>>

\* `from` is where the file was written, which the file does not say.
Exports ==
    [id : Session, row : Rows, updated : Nat, from : Store]

\* Every variable has its type, and a stored session is dated.
TTypeOK ==
    /\ sess \in [Store -> [Session -> Rows]]
    /\ updated \in [Store -> [Session -> Nat]]
    /\ parent \in Parents
    /\ now \in 0 .. MaxEdits
    /\ exports \in Seq(Exports) /\ Len(exports) <= MaxExports
    /\ \A b \in Store, s \in Session :
          sess[b][s].stored => updated[b][s] \in 1 .. now

TInit ==
    /\ sess = [b \in Store |-> [s \in Session |-> NoRow]]
    /\ updated = [b \in Store |-> [s \in Session |-> 0]]
    /\ parent = [m \in Msg |-> Unborn]
    /\ now = 0
    /\ exports = <<>>

-----------------------------------------------------------------------------
(***************************************************************************)
(* Commits of the sessions of one store                                    *)
(***************************************************************************)
New == {m \in Msg : parent[m] = Unborn}

\* Random UUIDs are new to every store.
FreshIds == {s \in Session : \A b \in Store : ~sess[b][s].stored}

\* No message here is bare tool results, after which a resume shows, and then
\* counts, a stub that is not stored: a commit counts the chain.
Length(par, row, tip) == Cardinality(Chain(par, row.msgs, tip))

\* A commit that leaves `row` at the head `tip`.
Commit(b, s, par, row, msgs, tip) ==
    /\ now < MaxEdits
    /\ Insertable(par, row, msgs)
    /\ parent' = par
    /\ now' = now + 1
    /\ LET whole == [row EXCEPT !.msgs = @ \cup msgs]
       IN  sess' = [sess EXCEPT ![b][s] =
                      Landed(row, Batch(msgs, "none", TRUE), row.head, tip,
                             Length(par, whole, tip))]
    /\ updated' = [updated EXCEPT ![b][s] = now + 1]
    /\ UNCHANGED exports

Begin(b) ==
    \E s \in FreshIds, m \in New :
        Commit(b, s, [parent EXCEPT ![m] = None], Inserted("prompt", None),
               {m}, m)

AppendMessage(b, s) ==
    \E m \in New :
        /\ sess[b][s].stored
        /\ Commit(b, s, [parent EXCEPT ![m] = sess[b][s].head], sess[b][s],
                  {m}, m)

\* A refused turn takes the head back along the chain.
Rewind(b, s) ==
    LET row == sess[b][s]
    IN  \E x \in (Transcript(parent, row) \cup {None}) \ {row.head} :
            row.stored /\ Commit(b, s, parent, row, {}, x)

Compact(b, s) ==
    \E m \in New :
        /\ sess[b][s].stored /\ sess[b][s].head # None
        /\ Commit(b, s, [parent EXCEPT ![m] = None], sess[b][s], {m}, m)

\* A process that opened the session at an earlier head writes on.
LocalFork(b, s) ==
    LET row == sess[b][s]
    IN  \E f \in FreshIds, m \in New, base \in row.msgs \ {row.head} :
            LET par == [parent EXCEPT ![m] = base]
            IN  /\ row.stored
                /\ Commit(b, f, par, ForkOf(par, s, row, base), {m}, m)

-----------------------------------------------------------------------------
(***************************************************************************)
(* Export                                                                  *)
(***************************************************************************)

\* Mutant: exports the active branch alone.
ExportBranch(b, s) ==
    LET row == sess[b][s]
    IN  /\ row.stored /\ Len(exports) < MaxExports
        /\ exports' = Append(exports,
              [id |-> s, row |-> [row EXCEPT !.msgs = Transcript(parent, row)],
               updated |-> updated[b][s], from |-> b])
        /\ UNCHANGED <<sess, updated, parent, now>>

Export(b, s) ==
    LET row == sess[b][s]
    IN  /\ row.stored /\ Len(exports) < MaxExports
        /\ exports' = Append(exports,
              [id |-> s, row |-> row, updated |-> updated[b][s], from |-> b])
        /\ UNCHANGED <<sess, updated, parent, now>>

-----------------------------------------------------------------------------
(***************************************************************************)
(* Import, one transaction.  `rows` and `times` are the store's tables.    *)
(***************************************************************************)

\* Mutant: the local session always moves to the exported head.
LandingForward(row, e) == "forward"

\* How export e lands on a local session with this row.
Landing(row, e) ==
    IF row.head = None \/ row.head \in e.row.msgs THEN "forward"
    ELSE IF e.row.head = None \/ e.row.head \in row.msgs THEN "keep"
    ELSE "diverged"

\* A row that export e relates to: it takes the exported head and metadata or
\* keeps its own, and holds the messages of both.
LandedImport(row, e) ==
    IF Landing(row, e) = "forward"
      THEN [e.row EXCEPT !.forkedFrom = row.forkedFrom,
                         !.msgs = row.msgs \cup e.row.msgs]
      ELSE [row EXCEPT !.msgs = @ \cup e.row.msgs]

\* The forks of the exported session it relates to.
Related(rows, e) ==
    {f \in Session : /\ rows[f].stored
                     /\ rows[f].forkedFrom = e.id
                     /\ Landing(rows[f], e) # "diverged"}

\* Mutant: forks of the session are not looked at.
NoForks(rows, times, e) == {}

\* The newest of them.
RelatedForks(rows, times, e) ==
    {f \in Related(rows, e) : \A g \in Related(rows, e) : times[g] <= times[f]}

\* The session a diverged export is inserted under.
ForkOfImport(e) == [e.row EXCEPT !.forkedFrom = e.id]

\* What the import may write: the session that receives the head, and its row.
Receivers(rows, times, e) ==
    IF ~rows[e.id].stored
      THEN {<<e.id, e.row>>}
    ELSE IF Landing(rows[e.id], e) # "diverged"
      THEN {<<e.id, LandedImport(rows[e.id], e)>>}
    ELSE IF RelatedForks(rows, times, e) # {}
      THEN {<<f, LandedImport(rows[f], e)>> : f \in RelatedForks(rows, times, e)}
    ELSE {<<f, ForkOfImport(e)>> : f \in FreshIds}

\* updated_at moves with the head.
Moved(rows, times, e, s) ==
    IF rows[s].stored /\ Landing(rows[s], e) = "keep" THEN times[s]
                                                    ELSE e.updated

Import(b, e) ==
    /\ \E r \in Receivers(sess[b], updated[b], e) :
          /\ sess' = [sess EXCEPT ![b][r[1]] = r[2]]
          /\ updated' = [updated EXCEPT ![b][r[1]] =
                            Moved(sess[b], updated[b], e, r[1])]
    /\ UNCHANGED <<parent, now, exports>>

-----------------------------------------------------------------------------
TNext ==
    \E b \in Store :
        \/ Begin(b)
        \/ \E s \in Session :
              \/ AppendMessage(b, s) \/ Rewind(b, s) \/ Compact(b, s)
              \/ LocalFork(b, s)
              \/ Export(b, s)
        \/ \E i \in DOMAIN exports : Import(b, exports[i])

TSpec == TInit /\ [][TNext]_tvars
-----------------------------------------------------------------------------
(***************************************************************************)
(* Correctness                                                             *)
(***************************************************************************)

\* In every store each message has its parent beside it, each head is stored,
\* and the message count is the length of the chain the head ends, whatever
\* mix of commits and imports made the session.
BranchesWhole ==
    \A b \in Store, s \in Session :
        LET row == sess[b][s]
        IN  /\ row.head \in row.msgs \cup {None}
            /\ \A m \in row.msgs : parent[m] \in row.msgs \cup {None}
            /\ row.count = Cardinality(Transcript(parent, row))

\* An import takes off an active branch only messages the export holds, so
\* nothing the exporting machine had not seen is dropped.
ImportKeepsUnseen ==
    [][\A b \in Store, i \in DOMAIN exports :
          LET e == exports[i]
          IN  Import(b, e) =>
                 \A s \in Session :
                     Transcript(parent, sess[b][s])
                         \ Transcript(parent, sess'[b][s]) \subseteq e.row.msgs]_tvars

\* A copy that still is what an earlier export of the session left follows a
\* later one, even when the other machine compacted or rewound in between.
NewerExportLands ==
    [][\A b \in Store, i, j \in DOMAIN exports :
          LET old == exports[i]
              e   == exports[j]
          IN  /\ i <= j /\ Import(b, e)
              /\ old.from = e.from /\ old.id = e.id
              /\ sess[b][e.id].stored /\ sess[b][e.id].head = old.row.head
              => sess'[b][e.id].head = e.row.head]_tvars

\* What an import may take away, and what it may not leave where it was.
ImportsSound == ImportKeepsUnseen /\ NewerExportLands

\* Importing an export again changes nothing of the session it landed on.  When
\* more forks of its session relate to it, it may land on another of them: the
\* first landing dates the fork back.
ImportIdempotent ==
    \A b \in Store, i \in DOMAIN exports :
        LET e == exports[i]
        IN  \A r \in Receivers(sess[b], updated[b], e) :
                LET rows  == [sess[b] EXCEPT ![r[1]] = r[2]]
                    times == [updated[b] EXCEPT ![r[1]] =
                                 Moved(sess[b], updated[b], e, r[1])]
                IN  \A again \in Receivers(rows, times, e) :
                        again = r \/ again[1] \in Related(sess[b], e) \ {r[1]}

\* Whatever mix of commits, exports and imports went before, every store can
\* resume each session it holds, and importing once is importing twice.
TransferSafe == TTypeOK /\ BranchesWhole /\ ImportIdempotent

\* The guide: an import keeps whichever copy is further along, even when one
\* side compacted or rewound since the other saw it.  An export a store wrote
\* itself is never further along than what the store holds.
OwnExportStays ==
    [][\A i \in DOMAIN exports :
          LET e == exports[i]
          IN  Import(e.from, e) =>
                 sess'[e.from][e.id].head = sess[e.from][e.id].head]_tvars
=============================================================================
