---------------------------- MODULE SessionRows ----------------------------
(***************************************************************************)
(* The two tables of the session store and the transactions over them, as  *)
(* operators on one `sessions` row with the `messages` rows it owns        *)
(* (crates/ox-core/src/session/store).  A row of `messages` never changes, *)
(* so a message is its ID: par[m] is its parent_id, fixed when the message *)
(* is made and carried unchanged by every copy.                            *)
(***************************************************************************)
EXTENDS Naturals, FiniteSets

CONSTANTS
    Session,    \* session IDs
    Msg,        \* message IDs
    None,       \* SQL NULL
    Unborn      \* the parent of a message nobody has written yet

ASSUME RowsAssumption ==
    /\ None \notin Msg /\ None \notin Session
    /\ Unborn \notin Msg \cup {None}
    /\ IsFiniteSet(Msg)     \* UUIDs

(***************************************************************************)
(* Titles by who set them: title_manual holds exactly for "user".          *)
(***************************************************************************)
Titles == {"none", "prompt", "ai", "user"}

MsgOrNull == Msg \cup {None}

Rows ==
    [stored     : BOOLEAN,
     forkedFrom : Session \cup {None},
     head       : MsgOrNull,
     count      : Nat,
     msgs       : SUBSET Msg,
     title      : Titles,
     archived   : BOOLEAN,
     snap       : MsgOrNull]     \* the head file_snapshots was saved at

NoRow ==
    [stored |-> FALSE, forkedFrom |-> None, head |-> None, count |-> 0,
     msgs |-> {}, title |-> "none", archived |-> FALSE, snap |-> None]

Parents == [Msg -> MsgOrNull \cup {Unborn}]

(***************************************************************************)
(* The chain CTE: the messages reached from m through parents inside the   *)
(* rows S of one session, as the smallest such set that is closed.         *)
(***************************************************************************)
Closed(par, S, C) == \A x \in C : par[x] \in S => par[x] \in C

Chain(par, S, m) ==
    IF m \in S
      THEN {x \in S : \A C \in SUBSET S :
                         m \in C /\ Closed(par, S, C) => x \in C}
      ELSE {}

\* The transcript a load of the row returns.
Transcript(par, row) == Chain(par, row.msgs, row.head)

\* Mutant: the last title written wins.
RetitledByLast(stored, record) == IF record = "none" THEN stored ELSE record

(***************************************************************************)
(* The UPDATE of a Title record.  An automatic title never replaces a      *)
(* manual one.  "none" is a batch without a Title record.                  *)
(***************************************************************************)
Retitled(stored, record) ==
    IF record = "none" \/ (stored = "user" /\ record # "user")
      THEN stored
      ELSE record

\* The row insert_session writes for a fresh session or a fork.
Inserted(title, forkedFrom) ==
    [NoRow EXCEPT !.stored = TRUE, !.title = title, !.forkedFrom = forkedFrom]

(***************************************************************************)
(* The row `fork` makes of `source`: its title, and the chain from `base`  *)
(* under the same message IDs.  The batch that forks then lands on it.     *)
(***************************************************************************)
ForkOf(par, s, source, base) ==
    [Inserted(source.title, s) EXCEPT !.msgs = Chain(par, source.msgs, base)]

(***************************************************************************)
(* A batch of records: the messages, a title ("none" for none), whether    *)
(* the head moves, an Archive record, and a FileSnapshots record.          *)
(***************************************************************************)
Batch(msgs, title, moves) ==
    [msgs |-> msgs, title |-> title, moves |-> moves,
     archive |-> FALSE, snapshots |-> FALSE]

\* Mutant: file snapshots are saved whatever the head is.
LandedUnchecked(row, b, base, tip, count) ==
    LET describe == IF b.moves THEN tip ELSE base
    IN  [row EXCEPT !.msgs     = @ \cup b.msgs,
                    !.title    = Retitled(@, b.title),
                    !.archived = @ \/ b.archive,
                    !.head     = IF b.moves THEN tip ELSE @,
                    !.count    = IF b.moves THEN count ELSE @,
                    !.snap     = IF b.snapshots THEN describe ELSE @]

(***************************************************************************)
(* The row after the records of batch b landed on `row` in order, leaving  *)
(* the head `tip` with `count` messages when the batch moves it.           *)
(* Snapshots come last and only while the head is the one they describe.   *)
(***************************************************************************)
Landed(row, b, base, tip, count) ==
    LET head     == IF b.moves THEN tip ELSE row.head
        describe == IF b.moves THEN tip ELSE base
    IN  [row EXCEPT !.msgs     = @ \cup b.msgs,
                    !.title    = Retitled(@, b.title),
                    !.archived = @ \/ b.archive,
                    !.head     = head,
                    !.count    = IF b.moves THEN count ELSE @,
                    !.snap     = IF b.snapshots /\ head = describe
                                   THEN describe ELSE @]

(***************************************************************************)
(* What SQLite refuses: a message ID the session holds already, and a      *)
(* message whose parent is not a message of the session.                   *)
(***************************************************************************)
Insertable(par, row, msgs) ==
    \A m \in msgs : /\ m \notin row.msgs
                    /\ par[m] \in row.msgs \cup msgs \cup {None}
=============================================================================
