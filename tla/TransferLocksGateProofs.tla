---------------------- MODULE TransferLocksGateProofs -----------------------
(***************************************************************************)
(* Proofs about SessionTransfer, SessionLocks and PermissionRules, which   *)
(* share no state.  For any stores, sessions and messages: imports and     *)
(* commits keep every session whole and drop nothing the exporter had not  *)
(* seen.  For any processes and lock files: a live session keeps its rows  *)
(* and artifacts and the lock is a hold as SessionHold has it.  For any    *)
(* words, directories, rules and calls: an allow rule never lets through   *)
(* what the same rule would not hold, a command is judged as strictly as   *)
(* its parts, and what the user allowed for a session stays allowed and    *)
(* goes no further.                                                        *)
(***************************************************************************)
EXTENDS SessionTransfer, SessionLocks, PermissionRules, TLAPS, FiniteSetTheorems,
        SequenceTheorems, WellFoundedInduction

-----------------------------------------------------------------------------
(***************************************************************************)
(* The transfers: TInv.  Every row, in a store or in a file, is whole, and *)
(* a store goes on holding what it ever exported.                          *)
(***************************************************************************)
-----------------------------------------------------------------------------

\* The rows S hold the parent of each of their messages.
Rooted(par, S) == \A x \in S : par[x] \in S \cup {None}

\* What BranchesWhole says of one row.
Whole(par, row) ==
    /\ row.head \in row.msgs \cup {None}
    /\ Rooted(par, row.msgs)
    /\ row.count = Cardinality(Transcript(par, row))

LEMMA ChainWithin ==
    ASSUME NEW par, NEW S, NEW m, NEW C \in SUBSET S, m \in C, Closed(par, S, C)
    PROVE  Chain(par, S, m) \subseteq C
BY DEF Chain

LEMMA ChainsUp ==
    ASSUME NEW par, NEW S, NEW m
    PROVE  /\ Chain(par, S, m) \subseteq S /\ Closed(par, S, Chain(par, S, m))
           /\ m \in S => m \in Chain(par, S, m)
<1>1. SUFFICES ASSUME NEW x \in Chain(par, S, m), par[x] \in S
               PROVE  par[x] \in Chain(par, S, m)
  BY DEF Closed, Chain
<1>2. m \in S /\ x \in S
  BY DEF Chain
<1>3. ASSUME NEW C \in SUBSET S, m \in C, Closed(par, S, C)
      PROVE  par[x] \in C
  BY <1>1, <1>2, <1>3 DEF Chain, Closed
<1>4. QED
  BY <1>1, <1>2, <1>3 DEF Chain

\* More messages, or parents given to other messages, change no chain of a row
\* that holds its parents.
LEMMA ChainSame ==
    ASSUME NEW par, NEW par2, NEW S \in SUBSET Msg, NEW T \in SUBSET Msg,
           S \subseteq T, Rooted(par, S), \A x \in S : par2[x] = par[x],
           NEW m \in S \cup {None}
    PROVE  Chain(par2, T, m) = Chain(par, S, m)
<1>1. CASE m = None
  BY <1>1, RowsAssumption DEF Chain
<1>2. CASE m \in S
  <2>1. Closed(par2, T, Chain(par, S, m)) /\ m \in Chain(par, S, m)
        /\ Chain(par, S, m) \in SUBSET T
    <3>1. Chain(par, S, m) \subseteq S /\ Closed(par, S, Chain(par, S, m))
          /\ m \in Chain(par, S, m)
      BY <1>2, ChainsUp
    <3>2. None \notin T
      BY RowsAssumption
    <3> HIDE DEF Chain
    <3>3. QED
      BY <3>1, <3>2 DEF Closed, Rooted
  <2>2. Chain(par2, T, m) \subseteq Chain(par, S, m)
    BY <2>1, ChainWithin
  <2>3. Closed(par, S, Chain(par2, T, m) \cap S)
    <3>1. Closed(par2, T, Chain(par2, T, m))
      BY ChainsUp
    <3>2. QED
      BY <3>1 DEF Closed
  <2>4. m \in Chain(par2, T, m) \cap S
    BY <1>2, ChainsUp
  <2>5. Chain(par, S, m) \subseteq Chain(par2, T, m) \cap S
    BY <2>3, <2>4, ChainWithin
  <2>6. QED
    BY <2>2, <2>5
<1>3. QED
  BY <1>1, <1>2

LEMMA ChainLength ==
    ASSUME NEW par, NEW S \in SUBSET Msg, NEW m
    PROVE  Cardinality(Chain(par, S, m)) \in Nat
<1>1. Chain(par, S, m) \subseteq Msg
  BY ChainsUp
<1>2. QED
  BY <1>1, RowsAssumption, FS_Subset, FS_CardinalityType

\* A whole row stays whole under a wider parent function.
Keeps(par, par2) == \A x \in Msg : par[x] # Unborn => par2[x] = par[x]

LEMMA WholeKept ==
    ASSUME NEW par, NEW par2, Keeps(par, par2), NEW row \in Rows, Whole(par, row)
    PROVE  Whole(par2, row)
<1>1. /\ row.msgs \in SUBSET Msg /\ Rooted(par, row.msgs)
      /\ row.head \in row.msgs \cup {None}
  BY DEF Whole, Rows
<1>2. \A x \in row.msgs : par2[x] = par[x]
  BY <1>1, RowsAssumption DEF Keeps, Rooted
<1>3. Transcript(par2, row) = Transcript(par, row)
  BY <1>1, <1>2, ChainSame DEF Transcript
<1>4. QED
  BY <1>1, <1>2, <1>3 DEF Whole, Rooted

-----------------------------------------------------------------------------
(***************************************************************************)
(* A commit                                                                *)
(***************************************************************************)

\* The row a commit leaves.
Committed(par, row, msgs, tip) ==
    Landed(row, Batch(msgs, "none", TRUE), row.head, tip,
           Length(par, [row EXCEPT !.msgs = @ \cup msgs], tip))

LEMMA CommittedRow ==
    ASSUME NEW par, NEW row \in Rows, Rooted(par, row.msgs),
           NEW msgs \in SUBSET Msg, Insertable(par, row, msgs),
           NEW tip \in row.msgs \cup msgs \cup {None}, row.stored
    PROVE  /\ Committed(par, row, msgs, tip) \in Rows
           /\ Whole(par, Committed(par, row, msgs, tip))
           /\ Committed(par, row, msgs, tip).stored
           /\ row.msgs \subseteq Committed(par, row, msgs, tip).msgs
<1> DEFINE all   == row.msgs \cup msgs
           whole == [row EXCEPT !.msgs = @ \cup msgs]
           size  == Cardinality(Chain(par, all, tip))
<1>1. row.msgs \in SUBSET Msg /\ all \in SUBSET Msg /\ tip \in MsgOrNull
  BY DEF Rows, MsgOrNull
<1>2. whole.msgs = all
  BY DEF Rows
<1>3. Length(par, whole, tip) = size
  BY <1>2 DEF Length
<1>4. size \in Nat
  BY <1>1, ChainLength
<1>5. Committed(par, row, msgs, tip) =
        [row EXCEPT !.msgs = all, !.head = tip, !.count = size]
  <2> HIDE DEF size
  <2>1. Committed(par, row, msgs, tip) =
          Landed(row, Batch(msgs, "none", TRUE), row.head, tip, size)
    BY <1>3 DEF Committed
  <2>2. QED
    BY <2>1 DEF Landed, Batch, Retitled, Rows
<1> HIDE DEF size
<1>6. /\ Committed(par, row, msgs, tip) \in Rows
      /\ Committed(par, row, msgs, tip).stored = row.stored
      /\ Committed(par, row, msgs, tip).msgs = all
      /\ Committed(par, row, msgs, tip).head = tip
      /\ Committed(par, row, msgs, tip).count = size
  <2> HIDE DEF all
  <2>1. QED
    BY <1>1, <1>4, <1>5 DEF Rows
<1>7. Rooted(par, all)
  BY DEF Rooted, Insertable
<1>8. Transcript(par, Committed(par, row, msgs, tip)) = Chain(par, all, tip)
  BY <1>6 DEF Transcript
<1>9. Whole(par, Committed(par, row, msgs, tip))
  BY <1>6, <1>7, <1>8 DEF Whole, size
<1>10. QED
  BY <1>6, <1>9

-----------------------------------------------------------------------------
(***************************************************************************)
(* The invariant                                                           *)
(***************************************************************************)

\* A file written at `clock` by a store that holds what the file holds.
FileHeld(store, par, clock, e) ==
    /\ e \in Exports
    /\ e.row.stored /\ Whole(par, e.row)
    /\ e.updated \in 1 .. clock
    /\ store[e.from][e.id].stored
    /\ e.row.msgs \subseteq store[e.from][e.id].msgs

\* Later files of a session hold what earlier ones do.
Accumulate(files) ==
    \A i, j \in DOMAIN files :
        i <= j /\ files[i].from = files[j].from /\ files[i].id = files[j].id
            => files[i].row.msgs \subseteq files[j].row.msgs

RowsHeld(store, times, par, clock) ==
    \A b \in Store, s \in Session :
        /\ store[b][s] \in Rows
        /\ Whole(par, store[b][s])
        /\ ~store[b][s].stored => store[b][s].head = None
        /\ store[b][s].stored => times[b][s] \in 1 .. clock

TInv ==
    /\ TTypeOK
    /\ RowsHeld(sess, updated, parent, now)
    /\ \A i \in DOMAIN exports : FileHeld(sess, parent, now, exports[i])
    /\ Accumulate(exports)

LEMMA TBegin == ASSUME TInit PROVE TInv
<1>1. NoRow \in Rows /\ NoRow.head = None /\ NoRow.msgs = {} /\ NoRow.count = 0 /\ ~NoRow.stored
  BY DEF NoRow, Rows, Titles, MsgOrNull
<1>2. Transcript(parent, NoRow) = {}
  BY <1>1 DEF Transcript, Chain
<1>3. Whole(parent, NoRow)
  BY <1>1, <1>2, FS_EmptySet DEF Whole, Rooted
<1>4. parent \in Parents /\ updated \in [Store -> [Session -> Nat]]
      /\ sess \in [Store -> [Session -> Rows]] /\ now \in 0 .. MaxEdits
  BY <1>1, TransferAssumption DEF TInit, Parents, MsgOrNull
<1>5. \A b \in Store, s \in Session : sess[b][s] = NoRow
  BY DEF TInit
<1>6. exports \in Seq(Exports) /\ Len(exports) <= MaxExports /\ DOMAIN exports = {}
  BY TransferAssumption DEF TInit
<1>7. RowsHeld(sess, updated, parent, now)
  BY <1>1, <1>3, <1>5 DEF RowsHeld
<1>8. TTypeOK
  BY <1>1, <1>4, <1>5, <1>6 DEF TTypeOK
<1>9. QED
  BY <1>6, <1>7, <1>8 DEF TInv, Accumulate

\* The files are kept while rows, messages and clock only grow.
LEMMA FilesKept ==
    ASSUME NEW store, NEW store2, NEW par, NEW par2, NEW clock \in Nat,
           NEW clock2 \in Nat, NEW e,
           FileHeld(store, par, clock, e), Keeps(par, par2), clock <= clock2,
           \A b \in Store, s \in Session :
               store[b][s].stored => /\ store2[b][s].stored
                                    /\ store[b][s].msgs \subseteq store2[b][s].msgs
    PROVE  FileHeld(store2, par2, clock2, e)
<1>1. e \in Exports /\ e.from \in Store /\ e.id \in Session /\ e.row \in Rows
  BY DEF FileHeld, Exports
<1>2. Whole(par2, e.row)
  BY <1>1, WholeKept DEF FileHeld
<1>3. e.updated \in 1 .. clock2
  BY DEF FileHeld
<1>4. QED
  BY <1>1, <1>2, <1>3 DEF FileHeld

\* One session of one store gets the row r, dated t, and none gets older.
LEMMA RowMoves ==
    ASSUME TInv, NEW b \in Store, NEW s \in Session, NEW r \in Rows,
           NEW t \in 1 .. now', NEW par \in Parents, Keeps(parent, par),
           Whole(par, r), r.stored,
           sess[b][s].stored => sess[b][s].msgs \subseteq r.msgs,
           now' \in now .. MaxEdits, parent' = par,
           sess' = [sess EXCEPT ![b][s] = r],
           updated' = [updated EXCEPT ![b][s] = t],
           exports' = exports
    PROVE  TInv'
<1>1. /\ sess \in [Store -> [Session -> Rows]]
      /\ updated \in [Store -> [Session -> Nat]]
      /\ parent \in Parents /\ now \in Nat /\ now' \in Nat /\ now <= now'
      /\ exports \in Seq(Exports)
  BY TransferAssumption DEF TInv, TTypeOK
<1>2. \A c \in Store, x \in Session :
         /\ sess'[c][x] = IF c = b /\ x = s THEN r ELSE sess[c][x]
         /\ updated'[c][x] = IF c = b /\ x = s THEN t ELSE updated[c][x]
  BY <1>1
<1>3. RowsHeld(sess', updated', parent', now')
  <2>1. SUFFICES ASSUME NEW c \in Store, NEW x \in Session
                 PROVE  /\ sess'[c][x] \in Rows
                        /\ Whole(par, sess'[c][x])
                        /\ ~sess'[c][x].stored => sess'[c][x].head = None
                        /\ sess'[c][x].stored => updated'[c][x] \in 1 .. now'
    BY DEF RowsHeld
  <2>2. CASE c = b /\ x = s
    BY <1>2, <2>2
  <2>3. CASE ~(c = b /\ x = s)
    <3>1. sess'[c][x] = sess[c][x] /\ updated'[c][x] = updated[c][x]
      BY <1>2, <2>3
    <3>2. /\ sess[c][x] \in Rows /\ Whole(parent, sess[c][x])
          /\ ~sess[c][x].stored => sess[c][x].head = None
          /\ sess[c][x].stored => updated[c][x] \in 1 .. now
      BY DEF TInv, RowsHeld
    <3>3. Whole(par, sess[c][x])
      BY <3>2, WholeKept
    <3>4. QED
      BY <1>1, <3>1, <3>2, <3>3
  <2>4. QED
    BY <2>2, <2>3
<1>4. ASSUME NEW i \in DOMAIN exports
      PROVE  FileHeld(sess', parent', now', exports[i])
  <2>1. FileHeld(sess, parent, now, exports[i])
    BY DEF TInv
  <2>2. \A c \in Store, x \in Session :
           sess[c][x].stored => /\ sess'[c][x].stored
                                /\ sess[c][x].msgs \subseteq sess'[c][x].msgs
    BY <1>2
  <2>3. QED
    BY <1>1, <2>1, <2>2, FilesKept
<1>5. TTypeOK'
  <2>1. sess' \in [Store -> [Session -> Rows]]
    BY <1>1
  <2>2. updated' \in [Store -> [Session -> Nat]]
    BY <1>1
  <2>3. now' \in 0 .. MaxEdits
    BY <1>1, TransferAssumption
  <2>4. exports' \in Seq(Exports) /\ Len(exports') <= MaxExports
    BY DEF TInv, TTypeOK
  <2>5. QED
    BY <1>3, <2>1, <2>2, <2>3, <2>4 DEF TTypeOK, RowsHeld
<1>6. Accumulate(exports')
  BY DEF TInv
<1>7. QED
  BY <1>3, <1>4, <1>5, <1>6 DEF TInv

LEMMA CommitKeeps ==
    ASSUME TInv, NEW b \in Store, NEW s \in Session, NEW par \in Parents,
           Keeps(parent, par), NEW row \in Rows, Rooted(par, row.msgs),
           row.stored, NEW msgs \in SUBSET Msg,
           NEW tip \in row.msgs \cup msgs \cup {None},
           sess[b][s].stored => row = sess[b][s],
           Commit(b, s, par, row, msgs, tip)
    PROVE  TInv'
<1>1. /\ now \in Nat /\ now < MaxEdits /\ now' = now + 1 /\ parent' = par
      /\ Insertable(par, row, msgs) /\ exports' = exports
      /\ sess' = [sess EXCEPT ![b][s] = Committed(par, row, msgs, tip)]
      /\ updated' = [updated EXCEPT ![b][s] = now + 1]
  BY DEF Commit, Committed, TInv, TTypeOK
<1>2. /\ Committed(par, row, msgs, tip) \in Rows
      /\ Whole(par, Committed(par, row, msgs, tip))
      /\ Committed(par, row, msgs, tip).stored
      /\ row.msgs \subseteq Committed(par, row, msgs, tip).msgs
  BY <1>1, CommittedRow
<1>3. now + 1 \in 1 .. now' /\ now' \in now .. MaxEdits
  BY <1>1, TransferAssumption
<1>4. QED
  BY <1>1, <1>2, <1>3, RowMoves

\* A message nobody has written is in no row.
LEMMA NewMessages ==
    ASSUME TInv, NEW m \in New, NEW p \in MsgOrNull
    PROVE  /\ [parent EXCEPT ![m] = p] \in Parents
           /\ Keeps(parent, [parent EXCEPT ![m] = p])
           /\ m \in Msg /\ [parent EXCEPT ![m] = p][m] = p
BY DEF New, Keeps, Parents, TInv, TTypeOK

LEMMA SessionRow ==
    ASSUME TInv, NEW b \in Store, NEW s \in Session, NEW par, Keeps(parent, par)
    PROVE  /\ sess[b][s] \in Rows /\ sess[b][s].msgs \in SUBSET Msg
           /\ Whole(parent, sess[b][s]) /\ Whole(par, sess[b][s])
           /\ Rooted(par, sess[b][s].msgs)
           /\ sess[b][s].head \in sess[b][s].msgs \cup {None}
           /\ sess[b][s].head \in MsgOrNull
<1>1. /\ sess[b][s] \in Rows /\ Whole(parent, sess[b][s])
  BY DEF TInv, RowsHeld
<1>2. Whole(par, sess[b][s])
  BY <1>1, WholeKept
<1>3. QED
  BY <1>1, <1>2 DEF Whole, Rows

LEMMA FreshRow ==
    ASSUME NEW title \in Titles, NEW from \in Session \cup {None}
    PROVE  /\ Inserted(title, from) \in Rows
           /\ Inserted(title, from).stored
           /\ Inserted(title, from).msgs = {}
BY DEF Inserted, NoRow, Rows, MsgOrNull, Titles

LEMMA CommitsKeep ==
    ASSUME TInv, NEW b \in Store,
           \/ Begin(b)
           \/ \E s \in Session : AppendMessage(b, s) \/ Rewind(b, s) \/ Compact(b, s)
                                 \/ LocalFork(b, s)
    PROVE  TInv'
<1>1. CASE Begin(b)
  <2>1. PICK s \in FreshIds, m \in New :
           Commit(b, s, [parent EXCEPT ![m] = None], Inserted("prompt", None), {m}, m)
    BY <1>1 DEF Begin
  <2> DEFINE par == [parent EXCEPT ![m] = None]
             row == Inserted("prompt", None)
  <2>2. par \in Parents /\ Keeps(parent, par) /\ m \in Msg
    BY NewMessages DEF MsgOrNull
  <2>3. row \in Rows /\ row.stored /\ row.msgs = {}
    BY FreshRow DEF Titles
  <2>4. s \in Session /\ ~sess[b][s].stored
    BY DEF FreshIds
  <2> HIDE DEF row, par
  <2>5. Commit(b, s, par, row, {m}, m)
    BY <2>1 DEF par, row
  <2>6. Rooted(par, row.msgs)
    BY <2>3 DEF Rooted
  <2>7. QED
    BY <2>2, <2>3, <2>4, <2>5, <2>6, CommitKeeps
<1>2. ASSUME NEW s \in Session, AppendMessage(b, s) \/ Compact(b, s)
      PROVE  TInv'
  <2>1. PICK m \in New, p \in {sess[b][s].head, None} :
           /\ sess[b][s].stored
           /\ Commit(b, s, [parent EXCEPT ![m] = p], sess[b][s], {m}, m)
    BY <1>2 DEF AppendMessage, Compact
  <2> DEFINE par == [parent EXCEPT ![m] = p]
  <2>2. p \in MsgOrNull
    <3>1. sess[b][s] \in Rows
      BY DEF TInv, RowsHeld
    <3>2. QED
      BY <3>1 DEF Rows, MsgOrNull
  <2>3. par \in Parents /\ Keeps(parent, par) /\ m \in Msg
    BY <2>2, NewMessages
  <2> HIDE DEF par
  <2>4. sess[b][s] \in Rows /\ Rooted(par, sess[b][s].msgs)
    BY <2>3, SessionRow
  <2>5. Commit(b, s, par, sess[b][s], {m}, m)
    BY <2>1 DEF par
  <2>6. QED
    BY <2>1, <2>3, <2>4, <2>5, CommitKeeps
<1>3. ASSUME NEW s \in Session, Rewind(b, s)
      PROVE  TInv'
  <2>1. PICK x \in Transcript(parent, sess[b][s]) \cup {None} :
           sess[b][s].stored /\ Commit(b, s, parent, sess[b][s], {}, x)
    BY <1>3 DEF Rewind
  <2>2. parent \in Parents /\ Keeps(parent, parent)
    BY DEF TInv, TTypeOK, Keeps
  <2>3. sess[b][s] \in Rows /\ Rooted(parent, sess[b][s].msgs)
    BY <2>2, SessionRow
  <2>4. x \in sess[b][s].msgs \cup {} \cup {None}
    BY ChainsUp DEF Transcript
  <2>5. QED
    BY <2>1, <2>2, <2>3, <2>4, CommitKeeps
<1>4. ASSUME NEW s \in Session, LocalFork(b, s)
      PROVE  TInv'
  <2>1. PICK f \in FreshIds, m \in New, base \in sess[b][s].msgs \ {sess[b][s].head} :
           Commit(b, f, [parent EXCEPT ![m] = base],
                  ForkOf([parent EXCEPT ![m] = base], s, sess[b][s], base), {m}, m)
    BY <1>4 DEF LocalFork
  <2> DEFINE par == [parent EXCEPT ![m] = base]
             row == ForkOf(par, s, sess[b][s], base)
  <2>2. sess[b][s] \in Rows /\ base \in MsgOrNull
    <3>1. sess[b][s] \in Rows
      BY DEF TInv, RowsHeld
    <3>2. QED
      BY <3>1 DEF Rows, MsgOrNull
  <2>3. par \in Parents /\ Keeps(parent, par) /\ m \in Msg
    BY <2>2, NewMessages
  <2>4. f \in Session /\ ~sess[b][f].stored
    BY DEF FreshIds
  <2>5. Commit(b, f, par, row, {m}, m)
    BY <2>1
  <2> HIDE DEF par
  <2>6. Rooted(par, sess[b][s].msgs)
    BY <2>3, SessionRow
  <2>7. row \in Rows /\ row.stored /\ row.msgs = Chain(par, sess[b][s].msgs, base)
    <3> DEFINE chain == Chain(par, sess[b][s].msgs, base)
    <3>1. chain \in SUBSET Msg
      BY <2>2, ChainsUp DEF Rows
    <3>2. sess[b][s].title \in Titles
      BY <2>2 DEF Rows
    <3>3. Inserted(sess[b][s].title, s) \in Rows /\ Inserted(sess[b][s].title, s).stored
      BY <3>2, FreshRow
    <3>4. row = [Inserted(sess[b][s].title, s) EXCEPT !.msgs = chain]
      BY DEF ForkOf
    <3> HIDE DEF chain, row
    <3>5. row \in Rows /\ row.stored /\ row.msgs = chain
      BY <3>1, <3>3, <3>4 DEF Rows
    <3>6. QED
      BY <3>5 DEF chain
  <2> HIDE DEF row
  <2>8. Rooted(par, row.msgs)
    <3>1. Chain(par, sess[b][s].msgs, base) \subseteq sess[b][s].msgs
          /\ Closed(par, sess[b][s].msgs, Chain(par, sess[b][s].msgs, base))
      BY ChainsUp
    <3>2. QED
      BY <2>6, <2>7, <3>1 DEF Rooted, Closed
  <2>9. QED
    BY <2>3, <2>4, <2>5, <2>7, <2>8, CommitKeeps
<1>5. QED
  BY <1>1, <1>2, <1>3, <1>4
-----------------------------------------------------------------------------
(***************************************************************************)
(* An import                                                               *)
(***************************************************************************)

\* What landing export e on the row does: it keeps every message, takes off the
\* active branch only messages of the export, and lands again as it did.
LandedWell(par, row, e, r) ==
    /\ r \in Rows /\ Whole(par, r) /\ r.stored
    /\ row.msgs \subseteq r.msgs
    /\ Transcript(par, row) \ Transcript(par, r) \subseteq e.row.msgs
    /\ r.forkedFrom = row.forkedFrom
    /\ Landing(r, e) # "diverged" /\ LandedImport(r, e) = r

\* A message of the export chains to messages of the export alone.
LEMMA ExportHasChain ==
    ASSUME NEW par, NEW S \in SUBSET Msg, Rooted(par, S), NEW T \in SUBSET Msg,
           Rooted(par, T), NEW m \in T
    PROVE  Chain(par, S, m) \subseteq T
<1>1. CASE m \in S
  <2>1. Closed(par, S, S \cap T)
    BY RowsAssumption DEF Closed, Rooted
  <2>2. Chain(par, S, m) \subseteq S \cap T
    BY <1>1, <2>1, ChainWithin
  <2>3. QED
    BY <2>2
<1>2. CASE m \notin S
  BY <1>2 DEF Chain
<1>3. QED
  BY <1>1, <1>2

LEMMA ForwardLands ==
    ASSUME NEW par, NEW row \in Rows, Whole(par, row), row.stored, NEW e \in Exports,
           e.row.stored, Whole(par, e.row), Landing(row, e) = "forward"
    PROVE  LandedWell(par, row, e, LandedImport(row, e))
<1> DEFINE r == LandedImport(row, e)
           all == row.msgs \cup e.row.msgs
<1>1. /\ e.row \in Rows /\ e.row.msgs \in SUBSET Msg /\ row.msgs \in SUBSET Msg
      /\ Rooted(par, e.row.msgs) /\ Rooted(par, row.msgs)
      /\ e.row.head \in e.row.msgs \cup {None} /\ all \in SUBSET Msg
      /\ row.head = None \/ row.head \in e.row.msgs
  BY DEF Exports, Rows, Whole, Landing
<1>2. r = [e.row EXCEPT !.forkedFrom = row.forkedFrom, !.msgs = all]
  BY DEF LandedImport
<1> HIDE DEF r, all
<1>3. /\ r \in Rows /\ r.stored /\ r.forkedFrom = row.forkedFrom /\ r.msgs = all
      /\ r.head = e.row.head /\ r.count = e.row.count
  BY <1>1, <1>2 DEF Rows
<1>4. Rooted(par, all)
  BY <1>1 DEF Rooted, all
<1>5. Chain(par, all, e.row.head) = Chain(par, e.row.msgs, e.row.head)
  BY <1>1, ChainSame DEF all
<1>6. Whole(par, r)
  <2>1. Transcript(par, r) = Transcript(par, e.row)
    BY <1>3, <1>5 DEF Transcript
  <2>2. r.count = Cardinality(Transcript(par, r))
    BY <1>3, <2>1 DEF Whole
  <2>3. r.head \in all \cup {None}
    BY <1>1, <1>3 DEF all
  <2>4. QED
    BY <1>3, <1>4, <2>2, <2>3 DEF Whole
<1>7. Transcript(par, row) \subseteq e.row.msgs
  <2>1. CASE row.head = None
    BY <1>1, <2>1, RowsAssumption DEF Transcript, Chain
  <2>2. CASE row.head \in e.row.msgs
    BY <1>1, <2>2, ExportHasChain DEF Transcript
  <2>3. QED
    BY <1>1, <2>1, <2>2
<1>8. Landing(r, e) = "forward"
  BY <1>1, <1>3 DEF Landing
<1>9. LandedImport(r, e) = r
  <2>1. LandedImport(r, e) =
          [e.row EXCEPT !.forkedFrom = r.forkedFrom, !.msgs = r.msgs \cup e.row.msgs]
    BY <1>8 DEF LandedImport
  <2>2. r.msgs \cup e.row.msgs = all
    BY <1>3 DEF all
  <2>3. QED
    BY <1>2, <1>3, <2>1, <2>2
<1>10. QED
  BY <1>3, <1>6, <1>7, <1>8, <1>9 DEF LandedWell, r, all

LEMMA KeepLands ==
    ASSUME NEW par, NEW row \in Rows, Whole(par, row), row.stored, NEW e \in Exports,
           e.row.stored, Whole(par, e.row), Landing(row, e) = "keep"
    PROVE  LandedWell(par, row, e, LandedImport(row, e))
<1> DEFINE r == LandedImport(row, e)
           all == row.msgs \cup e.row.msgs
<1>1. /\ e.row \in Rows /\ e.row.msgs \in SUBSET Msg /\ row.msgs \in SUBSET Msg
      /\ Rooted(par, e.row.msgs) /\ Rooted(par, row.msgs)
      /\ row.head \in row.msgs \cup {None} /\ all \in SUBSET Msg
      /\ ~(row.head = None \/ row.head \in e.row.msgs)
      /\ e.row.head = None \/ e.row.head \in row.msgs
  BY DEF Exports, Rows, Whole, Landing
<1>2. r = [row EXCEPT !.msgs = all]
  BY DEF LandedImport
<1> HIDE DEF r, all
<1>3. /\ r \in Rows /\ r.stored /\ r.forkedFrom = row.forkedFrom /\ r.msgs = all
      /\ r.head = row.head /\ r.count = row.count
  BY <1>1, <1>2 DEF Rows
<1>4. Rooted(par, all)
  BY <1>1 DEF Rooted, all
<1>5. Chain(par, all, row.head) = Chain(par, row.msgs, row.head)
  BY <1>1, ChainSame DEF all
<1>6. Transcript(par, r) = Transcript(par, row)
  BY <1>3, <1>5 DEF Transcript
<1>7. Whole(par, r)
  <2>1. r.count = Cardinality(Transcript(par, r))
    BY <1>3, <1>6 DEF Whole
  <2>2. r.head \in all \cup {None}
    BY <1>1, <1>3 DEF all
  <2>3. QED
    BY <1>3, <1>4, <2>1, <2>2 DEF Whole
<1>8. Landing(r, e) = "keep"
  BY <1>1, <1>3 DEF Landing, all
<1>9. LandedImport(r, e) = r
  <2>1. LandedImport(r, e) = [r EXCEPT !.msgs = r.msgs \cup e.row.msgs]
    BY <1>8 DEF LandedImport
  <2>2. r.msgs \cup e.row.msgs = all
    BY <1>3 DEF all
  <2>3. QED
    BY <1>2, <1>3, <2>1, <2>2
<1>10. QED
  BY <1>3, <1>6, <1>7, <1>8, <1>9 DEF LandedWell, r, all

LEMMA Lands ==
    ASSUME NEW par, NEW row \in Rows, Whole(par, row), row.stored, NEW e \in Exports,
           e.row.stored, Whole(par, e.row), Landing(row, e) # "diverged"
    PROVE  LandedWell(par, row, e, LandedImport(row, e))
BY ForwardLands, KeepLands DEF Landing

\* An export under an ID of its own, the session's or a new fork's.
LEMMA FreshLands ==
    ASSUME NEW par, NEW e \in Exports, e.row.stored, Whole(par, e.row),
           NEW r \in {e.row, ForkOfImport(e)}
    PROVE  /\ r \in Rows /\ Whole(par, r) /\ r.stored
           /\ r = ForkOfImport(e) => r.forkedFrom = e.id
           /\ Landing(r, e) # "diverged" /\ LandedImport(r, e) = r
<1>1. e.row \in Rows /\ e.id \in Session /\ Rooted(par, e.row.msgs)
      /\ e.row.head \in e.row.msgs \cup {None} /\ e.row.msgs \in SUBSET Msg
  BY DEF Exports, Whole, Rows
<1>2. PICK from \in Session \cup {None} :
         /\ r = [e.row EXCEPT !.forkedFrom = from]
         /\ r = ForkOfImport(e) => from = e.id
  <2>1. CASE r = e.row
    <3>1. e.row = [e.row EXCEPT !.forkedFrom = e.row.forkedFrom]
      BY <1>1 DEF Rows
    <3>2. e.row.forkedFrom \in Session \cup {None}
      BY <1>1 DEF Rows
    <3>3. r = ForkOfImport(e) => e.row.forkedFrom = e.id
      <4>1. SUFFICES ASSUME e.row = [e.row EXCEPT !.forkedFrom = e.id]
                     PROVE  e.row.forkedFrom = e.id
        BY <2>1 DEF ForkOfImport
      <4>2. [e.row EXCEPT !.forkedFrom = e.id].forkedFrom = e.id
        BY <1>1 DEF Rows
      <4>3. QED
        BY <4>1, <4>2
    <3>4. QED
      BY <2>1, <3>1, <3>2, <3>3
  <2>2. CASE r = ForkOfImport(e)
    BY <1>1, <2>2 DEF ForkOfImport
  <2>3. QED
    BY <2>1, <2>2
<1>3. /\ r \in Rows /\ r.stored /\ r.forkedFrom = from /\ r.msgs = e.row.msgs
      /\ r.head = e.row.head /\ r.count = e.row.count
  BY <1>1, <1>2 DEF Rows
<1>4. Transcript(par, r) = Transcript(par, e.row)
  BY <1>3 DEF Transcript
<1>5. Whole(par, r)
  BY <1>3, <1>4 DEF Whole
<1>6. Landing(r, e) = "forward"
  BY <1>1, <1>3 DEF Landing
<1>7. LandedImport(r, e) = r
  <2>1. LandedImport(r, e) =
          [e.row EXCEPT !.forkedFrom = r.forkedFrom, !.msgs = r.msgs \cup e.row.msgs]
    BY <1>6 DEF LandedImport
  <2>2. r.msgs \cup e.row.msgs = e.row.msgs
    BY <1>3
  <2>3. LandedImport(r, e) = [e.row EXCEPT !.forkedFrom = from, !.msgs = e.row.msgs]
    BY <1>3, <2>1, <2>2
  <2>4. [e.row EXCEPT !.forkedFrom = from, !.msgs = e.row.msgs] = [e.row EXCEPT !.forkedFrom = from]
    BY <1>1 DEF Rows
  <2>5. QED
    BY <1>2, <2>3, <2>4
<1>8. QED
  BY <1>2, <1>3, <1>5, <1>6, <1>7

\* Among dated forks one is newest.
LEMMA NewestExists ==
    ASSUME NEW clock \in Nat, NEW S, S # {}, NEW times, \A s \in S : times[s] \in 1 .. clock
    PROVE  \E f \in S : \A g \in S : times[g] <= times[f]
<1> DEFINE R == {ss \in Nat \X Nat : ss[1] < ss[2]}
           T == {clock - times[s] : s \in S}
<1>1. IsWellFoundedOn(R, Nat)
  BY NatLessThanWellFounded DEF OpToRel
<1>2. \A s \in S : times[s] \in Nat /\ clock - times[s] \in Nat
  OBVIOUS
<1>3. T \subseteq Nat /\ T # {}
  BY <1>2
<1> HIDE DEF R, T
<1>4. PICK x \in T : \A y \in T : ~ (<<y, x>> \in R)
  BY <1>1, <1>3, WFMin
<1>5. PICK f \in S : x = clock - times[f]
  BY DEF T
<1>6. ASSUME NEW g \in S
      PROVE  times[g] <= times[f]
  <2>1. clock - times[g] \in T
    BY DEF T
  <2>2. ~(clock - times[g] < clock - times[f])
    BY <1>2, <1>3, <1>4, <1>5, <2>1 DEF R
  <2>3. QED
    BY <1>2, <2>2
<1>7. QED
  BY <1>6

\* What the invariant says of the store an import goes to, and of the file.
ImportsInto(store, times, e) ==
    /\ e \in Exports /\ e.row.stored /\ Whole(parent, e.row) /\ e.updated \in 1 .. now
    /\ now \in Nat
    /\ \A s \in Session :
          /\ store[s] \in Rows
          /\ Whole(parent, store[s])
          /\ ~store[s].stored => store[s].head = None
          /\ store[s].stored => times[s] \in 1 .. now

LEMMA ImportFacts ==
    ASSUME TInv, NEW b \in Store, NEW i \in DOMAIN exports
    PROVE  ImportsInto(sess[b], updated[b], exports[i])
BY DEF TInv, TTypeOK, RowsHeld, FileHeld, ImportsInto

LEMMA ForksExist ==
    ASSUME NEW store, NEW times, NEW e, ImportsInto(store, times, e), Related(store, e) # {}
    PROVE  RelatedForks(store, times, e) # {}
<1>1. \A f \in Related(store, e) : times[f] \in 1 .. now
  BY DEF Related, ImportsInto
<1>2. PICK f \in Related(store, e) : \A g \in Related(store, e) : times[g] <= times[f]
  BY <1>1, NewestExists DEF ImportsInto
<1>3. QED
  BY <1>2 DEF RelatedForks

\* How a receiver came to be one.
Received(store, e, s, r) ==
    \/ s = e.id /\ ~store[s].stored /\ r = e.row
    \/ /\ s = e.id /\ store[s].stored /\ Landing(store[s], e) # "diverged"
       /\ r = LandedImport(store[s], e)
    \/ /\ store[e.id].stored /\ Landing(store[e.id], e) = "diverged"
       /\ s \in Related(store, e) /\ s # e.id
       /\ r = LandedImport(store[s], e)
    \/ /\ store[e.id].stored /\ Landing(store[e.id], e) = "diverged"
       /\ Related(store, e) = {}
       /\ s \in FreshIds /\ r = ForkOfImport(e)

LEMMA Receives ==
    ASSUME NEW store, NEW times, NEW e, ImportsInto(store, times, e),
           NEW r \in Receivers(store, times, e)
    PROVE  /\ r = <<r[1], r[2]>> /\ r[1] \in Session
           /\ Received(store, e, r[1], r[2])
<1>0. e.id \in Session
  BY DEF ImportsInto, Exports
<1>1. CASE ~store[e.id].stored
  <2>1. r = <<e.id, e.row>>
    BY <1>1 DEF Receivers
  <2>2. QED
    BY <1>0, <1>1, <2>1 DEF Received
<1>2. CASE store[e.id].stored /\ Landing(store[e.id], e) # "diverged"
  <2>1. r = <<e.id, LandedImport(store[e.id], e)>>
    BY <1>2 DEF Receivers
  <2>2. QED
    BY <1>0, <1>2, <2>1 DEF Received
<1>3. CASE /\ store[e.id].stored /\ Landing(store[e.id], e) = "diverged"
           /\ RelatedForks(store, times, e) # {}
  <2>1. PICK f \in RelatedForks(store, times, e) : r = <<f, LandedImport(store[f], e)>>
    BY <1>3 DEF Receivers
  <2>2. f \in Related(store, e) /\ f \in Session /\ f # e.id
    BY <1>3 DEF RelatedForks, Related
  <2>3. QED
    BY <1>3, <2>1, <2>2 DEF Received
<1>4. CASE /\ store[e.id].stored /\ Landing(store[e.id], e) = "diverged"
           /\ RelatedForks(store, times, e) = {}
  <2>1. PICK f \in FreshIds : r = <<f, ForkOfImport(e)>>
    BY <1>4 DEF Receivers
  <2>2. Related(store, e) = {}
    BY <1>4, ForksExist
  <2>3. f \in Session
    BY DEF FreshIds
  <2>4. QED
    BY <1>4, <2>1, <2>2, <2>3 DEF Received
<1>5. QED
  BY <1>1, <1>2, <1>3, <1>4

\* What a receiver gets.
LEMMA ReceivedWell ==
    ASSUME NEW store, NEW times, NEW e, ImportsInto(store, times, e),
           NEW s \in Session, NEW r, Received(store, e, s, r),
           \A f \in FreshIds : ~store[f].stored
    PROVE  /\ r \in Rows /\ Whole(parent, r) /\ r.stored
           /\ store[s].stored => store[s].msgs \subseteq r.msgs
           /\ Transcript(parent, store[s]) \ Transcript(parent, r) \subseteq e.row.msgs
           /\ store[s].stored => r.forkedFrom = store[s].forkedFrom
           /\ Landing(r, e) # "diverged" /\ LandedImport(r, e) = r
           /\ Moved(store, times, e, s) \in 1 .. now
<1>1. /\ e \in Exports /\ e.row.stored /\ Whole(parent, e.row)
      /\ store[s] \in Rows /\ Whole(parent, store[s])
      /\ ~store[s].stored => store[s].head = None
  BY DEF ImportsInto
<1>2. Moved(store, times, e, s) \in 1 .. now
  BY DEF ImportsInto, Moved
<1>3. CASE ~store[s].stored /\ r \in {e.row, ForkOfImport(e)}
  <2>1. store[s].msgs \in SUBSET Msg /\ store[s].head = None
    BY <1>1, <1>3 DEF Rows
  <2>2. Transcript(parent, store[s]) = {}
    BY <2>1, RowsAssumption DEF Transcript, Chain
  <2>3. QED
    BY <1>1, <1>2, <1>3, <2>2, FreshLands
<1>4. CASE store[s].stored /\ Landing(store[s], e) # "diverged" /\ r = LandedImport(store[s], e)
  BY <1>1, <1>2, <1>4, Lands DEF LandedWell
<1>5. QED
  BY <1>3, <1>4 DEF Received, Related

LEMMA ImportKeeps ==
    ASSUME TInv, NEW b \in Store, NEW i \in DOMAIN exports, Import(b, exports[i])
    PROVE  TInv'
<1> DEFINE e == exports[i]
<1>1. PICK r \in Receivers(sess[b], updated[b], e) :
         /\ sess' = [sess EXCEPT ![b][r[1]] = r[2]]
         /\ updated' = [updated EXCEPT ![b][r[1]] = Moved(sess[b], updated[b], e, r[1])]
         /\ parent' = parent /\ now' = now /\ exports' = exports
  BY DEF Import
<1>2. ImportsInto(sess[b], updated[b], e)
  BY ImportFacts
<1>3. \A f \in FreshIds : ~sess[b][f].stored
  BY DEF FreshIds
<1> HIDE DEF e
<1>4. r[1] \in Session /\ Received(sess[b], e, r[1], r[2])
  BY <1>2, Receives
<1>5. /\ r[2] \in Rows /\ Whole(parent, r[2]) /\ r[2].stored
      /\ sess[b][r[1]].stored => sess[b][r[1]].msgs \subseteq r[2].msgs
      /\ Moved(sess[b], updated[b], e, r[1]) \in 1 .. now
  BY <1>2, <1>3, <1>4, ReceivedWell
<1>6. parent \in Parents /\ Keeps(parent, parent) /\ now' \in now .. MaxEdits
  BY <1>1, TransferAssumption DEF TInv, TTypeOK, Keeps
<1>7. Moved(sess[b], updated[b], e, r[1]) \in 1 .. now'
  BY <1>1, <1>5
<1>8. QED
  BY <1>1, <1>4, <1>5, <1>6, <1>7, RowMoves

LEMMA ExportKeeps ==
    ASSUME TInv, NEW b \in Store, NEW s \in Session, Export(b, s)
    PROVE  TInv'
<1> DEFINE e == [id |-> s, row |-> sess[b][s], updated |-> updated[b][s], from |-> b]
<1>1. /\ sess[b][s].stored /\ Len(exports) < MaxExports
      /\ exports' = Append(exports, e)
      /\ sess' = sess /\ updated' = updated /\ parent' = parent /\ now' = now
      /\ exports \in Seq(Exports) /\ now \in Nat
  BY DEF Export, TInv, TTypeOK
<1>2. /\ sess[b][s] \in Rows /\ Whole(parent, sess[b][s]) /\ updated[b][s] \in 1 .. now
  BY <1>1 DEF TInv, RowsHeld
<1>3. e \in Exports /\ FileHeld(sess, parent, now, e)
  BY <1>1, <1>2 DEF Exports, FileHeld
<1>4. e.from = b /\ e.id = s /\ e.row = sess[b][s]
  OBVIOUS
<1> HIDE DEF e
<1>5. /\ exports' \in Seq(Exports) /\ Len(exports') = Len(exports) + 1
      /\ DOMAIN exports' = 1 .. Len(exports) + 1 /\ DOMAIN exports = 1 .. Len(exports)
      /\ Len(exports) \in Nat
      /\ \A i \in DOMAIN exports : exports'[i] = exports[i]
      /\ exports'[Len(exports) + 1] = e
  BY <1>1, <1>3
<1>6. \A i \in DOMAIN exports' : FileHeld(sess', parent', now', exports'[i])
  <2>1. SUFFICES ASSUME NEW i \in DOMAIN exports'
                 PROVE  FileHeld(sess, parent, now, exports'[i])
    BY <1>1
  <2>2. CASE i \in DOMAIN exports
    BY <1>5, <2>2 DEF TInv
  <2>3. CASE i = Len(exports) + 1
    BY <1>3, <1>5, <2>3
  <2>4. QED
    BY <1>5, <2>2, <2>3
<1>7. Accumulate(exports')
  <2>1. SUFFICES ASSUME NEW i \in DOMAIN exports', NEW j \in DOMAIN exports', i <= j,
                        exports'[i].from = exports'[j].from,
                        exports'[i].id = exports'[j].id
                 PROVE  exports'[i].row.msgs \subseteq exports'[j].row.msgs
    BY DEF Accumulate
  <2>2. CASE j \in DOMAIN exports
    <3>1. i \in DOMAIN exports
      BY <1>5, <2>1, <2>2
    <3>2. QED
      BY <1>5, <2>1, <2>2, <3>1 DEF TInv, Accumulate
  <2>3. CASE j = Len(exports) + 1 /\ i \in DOMAIN exports
    <3>1. FileHeld(sess, parent, now, exports[i])
      BY <2>3 DEF TInv
    <3>2. exports[i].row.msgs \subseteq sess[b][s].msgs
      BY <1>4, <1>5, <2>1, <2>3, <3>1 DEF FileHeld
    <3>3. QED
      BY <1>4, <1>5, <2>3, <3>2
  <2>4. CASE i = j
    BY <2>4
  <2>5. QED
    BY <1>5, <2>1, <2>2, <2>3, <2>4
<1>8. TTypeOK'
  <2>1. Len(exports') <= MaxExports
    BY <1>1, <1>5, TransferAssumption
  <2>2. QED
    BY <1>1, <1>5, <2>1 DEF TInv, TTypeOK
<1>9. RowsHeld(sess', updated', parent', now')
  BY <1>1 DEF TInv
<1>10. QED
  BY <1>6, <1>7, <1>8, <1>9 DEF TInv

LEMMA TStep == ASSUME TInv, [TNext]_tvars PROVE TInv'
<1>1. CASE UNCHANGED tvars
  <2>1. sess' = sess /\ updated' = updated /\ parent' = parent /\ now' = now /\ exports' = exports
    BY <1>1 DEF tvars
  <2>2. TTypeOK'
    BY <2>1 DEF TInv, TTypeOK
  <2>3. QED
    BY <2>1, <2>2 DEF TInv
<1>2. ASSUME NEW b \in Store, NEW s \in Session, Export(b, s)
      PROVE  TInv'
  BY <1>2, ExportKeeps
<1>3. ASSUME NEW b \in Store, NEW i \in DOMAIN exports, Import(b, exports[i])
      PROVE  TInv'
  BY <1>3, ImportKeeps
<1>4. CASE TNext
  BY <1>2, <1>3, <1>4, CommitsKeep DEF TNext
<1>5. QED
  BY <1>1, <1>4

LEMMA TransferInvariant == TSpec => []TInv
<1>1. TInit => TInv
  BY TBegin
<1>2. TInv /\ [TNext]_tvars => TInv'
  BY TStep
<1>3. QED
  BY <1>1, <1>2, PTL DEF TSpec

-----------------------------------------------------------------------------
(***************************************************************************)
(* Importing again                                                         *)
(***************************************************************************)

LEMMA Repeats ==
    ASSUME NEW store, NEW times, NEW e, ImportsInto(store, times, e),
           \A f \in FreshIds : ~store[f].stored, store \in [Session -> Rows],
           times \in [Session -> Nat],
           NEW r \in Receivers(store, times, e),
           NEW again \in Receivers([store EXCEPT ![r[1]] = r[2]],
                            [times EXCEPT ![r[1]] = Moved(store, times, e, r[1])], e)
    PROVE  again = r \/ again[1] \in Related(store, e) \ {r[1]}
<1> DEFINE store2  == [store EXCEPT ![r[1]] = r[2]]
           times2 == [times EXCEPT ![r[1]] = Moved(store, times, e, r[1])]
<1>1. r = <<r[1], r[2]>> /\ r[1] \in Session /\ Received(store, e, r[1], r[2])
  BY Receives
<1>2. /\ r[2] \in Rows /\ Whole(parent, r[2]) /\ r[2].stored
      /\ store[r[1]].stored => r[2].forkedFrom = store[r[1]].forkedFrom
      /\ Landing(r[2], e) # "diverged" /\ LandedImport(r[2], e) = r[2]
      /\ Moved(store, times, e, r[1]) \in 1 .. now
  BY <1>1, ReceivedWell
<1>3. \A s \in Session : /\ store2[s] = IF s = r[1] THEN r[2] ELSE store[s]
                         /\ times2[s] = IF s = r[1] THEN Moved(store, times, e, r[1])
                                                    ELSE times[s]
  BY <1>1
<1>4. again \in Receivers(store2, times2, e)
  OBVIOUS
<1> HIDE DEF store2, times2
<1>5. ImportsInto(store2, times2, e)
  BY <1>2, <1>3 DEF ImportsInto
<1>6. again = <<again[1], again[2]>> /\ again[1] \in Session
      /\ Received(store2, e, again[1], again[2])
  BY <1>4, <1>5, Receives
<1>7. e.id \in Session
  BY DEF ImportsInto, Exports
<1>8. CASE r[1] = e.id
  <2>1. store2[e.id] = r[2]
    BY <1>3, <1>7, <1>8
  <2>2. again[1] = e.id /\ again[2] = r[2]
    BY <1>2, <1>6, <2>1 DEF Received
  <2>3. QED
    BY <1>1, <1>6, <1>8, <2>2
<1>9. CASE r[1] # e.id
  <2>1. store2[e.id] = store[e.id] /\ store[e.id].stored /\ Landing(store[e.id], e) = "diverged"
    BY <1>1, <1>3, <1>7, <1>9 DEF Received
  <2>2. r[2].forkedFrom = e.id
    <3>1. CASE r[1] \in Related(store, e)
      BY <1>2, <3>1 DEF Related
    <3>2. CASE r[2] = ForkOfImport(e)
      BY <3>2, FreshLands DEF ImportsInto
    <3>3. QED
      BY <1>1, <1>9, <3>1, <3>2 DEF Received
  <2>3. r[1] \in Related(store2, e)
    BY <1>1, <1>2, <1>3, <2>2 DEF Related
  <2>4. again[1] \in Related(store2, e) /\ again[2] = LandedImport(store2[again[1]], e)
    BY <1>6, <2>1, <2>3 DEF Received
  <2>5. CASE again[1] = r[1]
    BY <1>1, <1>2, <1>3, <1>6, <2>4, <2>5
  <2>6. CASE again[1] # r[1]
    BY <1>3, <1>6, <2>4, <2>6 DEF Related
  <2>7. QED
    BY <2>5, <2>6
<1>10. QED
  BY <1>8, <1>9

\* Whatever mix of commits, exports and imports went before, every session a
\* store holds has whole branches and the right count, and importing an export
\* again changes nothing of where it landed.
THEOREM TransfersAlwaysSafe == TSpec => []TransferSafe
<1>1. TInv => TransferSafe
  <2>1. ASSUME TInv PROVE BranchesWhole
    BY <2>1 DEF TInv, RowsHeld, BranchesWhole, Whole, Rooted
  <2>2. ASSUME TInv PROVE ImportIdempotent
    <3>1. SUFFICES ASSUME NEW b \in Store, NEW i \in DOMAIN exports,
                          NEW r \in Receivers(sess[b], updated[b], exports[i]),
                          NEW again \in
                              Receivers([sess[b] EXCEPT ![r[1]] = r[2]],
                                        [updated[b] EXCEPT ![r[1]] =
                                            Moved(sess[b], updated[b], exports[i], r[1])],
                                        exports[i])
                   PROVE  again = r \/ again[1] \in Related(sess[b], exports[i]) \ {r[1]}
      BY DEF ImportIdempotent
    <3>2. ImportsInto(sess[b], updated[b], exports[i])
      BY <2>2, ImportFacts
    <3>3. sess[b] \in [Session -> Rows] /\ updated[b] \in [Session -> Nat]
      BY <2>2 DEF TInv, TTypeOK
    <3>4. \A f \in FreshIds : ~sess[b][f].stored
      BY DEF FreshIds
    <3>5. QED
      BY <3>2, <3>3, <3>4, Repeats
  <2>3. QED
    BY <2>1, <2>2 DEF TInv, TransferSafe
<1>2. QED
  BY <1>1, TransferInvariant, PTL

\* An import takes off an active branch only messages the export holds, and a
\* copy that is what an earlier export left follows a later one.
THEOREM ImportsAlwaysSound == TSpec => ImportsSound
<1> DEFINE Unseen == \A b \in Store, i \in DOMAIN exports :
                        LET e == exports[i]
                        IN  Import(b, e) =>
                               \A s \in Session :
                                   Transcript(parent, sess[b][s])
                                       \ Transcript(parent, sess'[b][s]) \subseteq e.row.msgs
           Newer == \A b \in Store, i, j \in DOMAIN exports :
                       LET old == exports[i]
                           e   == exports[j]
                       IN  /\ i <= j /\ Import(b, e)
                           /\ old.from = e.from /\ old.id = e.id
                           /\ sess[b][e.id].stored /\ sess[b][e.id].head = old.row.head
                           => sess'[b][e.id].head = e.row.head
<1>1. ASSUME TInv PROVE Unseen
  <2>1. SUFFICES ASSUME NEW b \in Store, NEW i \in DOMAIN exports, Import(b, exports[i]),
                        NEW s \in Session
                 PROVE  Transcript(parent, sess[b][s]) \ Transcript(parent, sess'[b][s])
                            \subseteq exports[i].row.msgs
    OBVIOUS
  <2>2. PICK r \in Receivers(sess[b], updated[b], exports[i]) :
           sess' = [sess EXCEPT ![b][r[1]] = r[2]]
    BY <2>1 DEF Import
  <2>3. ImportsInto(sess[b], updated[b], exports[i])
    BY <1>1, ImportFacts
  <2>4. \A f \in FreshIds : ~sess[b][f].stored
    BY DEF FreshIds
  <2>5. r[1] \in Session /\ Received(sess[b], exports[i], r[1], r[2])
    BY <2>3, Receives
  <2>6. Transcript(parent, sess[b][r[1]]) \ Transcript(parent, r[2]) \subseteq exports[i].row.msgs
    BY <2>3, <2>4, <2>5, ReceivedWell
  <2>7. sess'[b][s] = IF s = r[1] THEN r[2] ELSE sess[b][s]
    BY <1>1, <2>2, <2>5 DEF TInv, TTypeOK
  <2>8. QED
    BY <2>6, <2>7
<1>2. ASSUME TInv PROVE Newer
  <2>1. SUFFICES ASSUME NEW b \in Store, NEW i \in DOMAIN exports, NEW j \in DOMAIN exports,
                        i <= j, Import(b, exports[j]), exports[i].from = exports[j].from,
                        exports[i].id = exports[j].id, sess[b][exports[j].id].stored,
                        sess[b][exports[j].id].head = exports[i].row.head
                 PROVE  sess'[b][exports[j].id].head = exports[j].row.head
    OBVIOUS
  <2> DEFINE e == exports[j]
             row == sess[b][e.id]
  <2>2. e.id \in Session /\ e.row \in Rows /\ row \in Rows
    BY <1>2 DEF TInv, FileHeld, Exports, RowsHeld
  <2>3. row.head \in e.row.msgs \cup {None}
    <3>1. exports[i].row.head \in exports[i].row.msgs \cup {None}
      BY <1>2 DEF TInv, FileHeld, Whole
    <3>2. exports[i].row.msgs \subseteq e.row.msgs
      BY <1>2, <2>1 DEF TInv, Accumulate
    <3>3. QED
      BY <2>1, <3>1, <3>2
  <2>4. Landing(row, e) = "forward"
    BY <2>3 DEF Landing
  <2>5. Receivers(sess[b], updated[b], e) = {<<e.id, LandedImport(row, e)>>}
    BY <2>1, <2>4 DEF Receivers
  <2>6. sess' = [sess EXCEPT ![b][e.id] = LandedImport(row, e)]
    <3>1. PICK r \in Receivers(sess[b], updated[b], e) : sess' = [sess EXCEPT ![b][r[1]] = r[2]]
      BY <2>1 DEF Import
    <3>2. r = <<e.id, LandedImport(row, e)>>
      BY <2>5, <3>1
    <3>3. r[1] = e.id /\ r[2] = LandedImport(row, e)
      BY <3>2
    <3>4. QED
      BY <3>1, <3>3
  <2>7. sess'[b][e.id] = LandedImport(row, e)
    BY <1>2, <2>2, <2>6 DEF TInv, TTypeOK
  <2>8. LandedImport(row, e).head = e.row.head
    BY <2>2, <2>4 DEF LandedImport, Rows
  <2>9. QED
    BY <2>7, <2>8
<1>3. TInv => [Unseen]_tvars /\ [Newer]_tvars
  BY <1>1, <1>2
<1> HIDE DEF Unseen, Newer
<1>4. TSpec => [][Unseen]_tvars /\ [][Newer]_tvars
  BY <1>3, TransferInvariant, PTL
<1>5. QED
  BY <1>4 DEF ImportsSound, ImportKeepsUnseen, NewerExportLands, Unseen, Newer

-----------------------------------------------------------------------------
(***************************************************************************)
(* The locks: LInv.  The lock files that are open are one file, and a process *)
(* has the lock its step says.                                             *)
(***************************************************************************)
-----------------------------------------------------------------------------
(***************************************************************************)
(* The lock a process has is the one its step says, and it excludes.       *)
(***************************************************************************)
Locks ==
    \A i \in Inode, p \in Proc :
        /\ p \in shared[i] <=> fd[p] = i /\ pc[p] \in {"loading", "live"}
        /\ p \in exclusive[i] <=> fd[p] = i /\ pc[p] \in {"removing", "clearing"}

Excludes == \A i \in Inode : exclusive[i] # {} => shared[i] = {}

(***************************************************************************)
(* The open lock files are one, the path's while the session has its rows. *)
(***************************************************************************)
OneFile ==
    /\ \A p, q \in Proc : fd[p] # NoFile /\ fd[q] # NoFile => fd[p] = fd[q]
    /\ rows => \A p \in Proc : fd[p] # NoFile => fd[p] = path
    /\ rows => \A p \in Proc : pc[p] \notin {"clearing", "unlinking"}

LInv == LTypeOK /\ Locks /\ Excludes /\ OneFile /\ LiveHasRows

LEMMA LocksBegin == ASSUME LInit PROVE LInv
<1>1. LTypeOK
  BY DEF LInit, LTypeOK, Steps
<1>2. Locks /\ Excludes
  BY LocksAssumption DEF LInit, Locks, Excludes
<1>3. OneFile /\ LiveHasRows
  BY DEF LInit, OneFile, LiveHasRows
<1>4. QED
  BY <1>1, <1>2, <1>3 DEF LInv

(***************************************************************************)
(* A process goes on to its next step with the files and locks as they     *)
(* are, or with one lock more.                                             *)
(***************************************************************************)
LEMMA LTypes ==
    ASSUME LInv
    PROVE  /\ rows \in BOOLEAN /\ artifacts \in BOOLEAN
           /\ path \in Inode \cup {NoFile}
           /\ pc \in [Proc -> Steps] /\ fd \in [Proc -> Inode \cup {NoFile}]
           /\ shared \in [Inode -> SUBSET Proc] /\ exclusive \in [Inode -> SUBSET Proc]
           /\ \A p \in Proc : fd[p] = NoFile <=> pc[p] \in {"idle", "unlinking"}
           /\ Locks /\ Excludes /\ OneFile /\ LiveHasRows
BY DEF LInv, LTypeOK

\* What Locks and the types of the parts make of LTypeOK.
LEMMA LTyped ==
    ASSUME rows \in BOOLEAN, artifacts \in BOOLEAN, path \in Inode \cup {NoFile},
           pc \in [Proc -> Steps], fd \in [Proc -> Inode \cup {NoFile}],
           shared \in [Inode -> SUBSET Proc], exclusive \in [Inode -> SUBSET Proc],
           \A p \in Proc : fd[p] = NoFile <=> pc[p] \in {"idle", "unlinking"},
           Locks
    PROVE  LTypeOK
BY DEF LTypeOK, Locks

LEMMA Opens ==
    ASSUME LInv, NEW p \in Proc, pc[p] = "idle", rows, OpenLockFile(p),
           NEW s \in {"opening", "checking"}, Goto(p, s),
           rows' = rows, artifacts' = artifacts, shared' = shared, exclusive' = exclusive
    PROVE  LInv'
<1> USE LTypes
<1>1. PICK i \in Inode :
        /\ IF path = NoFile THEN \A q \in Proc : fd[q] # i ELSE i = path
        /\ path' = i /\ fd' = [fd EXCEPT ![p] = i]
  BY DEF OpenLockFile
<1>2. i # NoFile
  BY LocksAssumption
<1>3. /\ pc' \in [Proc -> Steps] /\ fd' \in [Proc -> Inode \cup {NoFile}]
      /\ pc'[p] = s /\ fd'[p] = i
      /\ \A q \in Proc \ {p} : pc'[q] = pc[q] /\ fd'[q] = fd[q]
  BY <1>1 DEF Goto, Steps
<1>4. fd[p] = NoFile /\ \A q \in Proc : fd[q] # NoFile => fd[q] = i
  BY <1>1, <1>2 DEF OneFile
<1>5. Locks'
  <2>1. \A j \in Inode, q \in Proc \ {p} :
          /\ q \in shared'[j] <=> fd'[q] = j /\ pc'[q] \in {"loading", "live"}
          /\ q \in exclusive'[j] <=> fd'[q] = j /\ pc'[q] \in {"removing", "clearing"}
    BY <1>3 DEF Locks
  <2>2. \A j \in Inode : p \notin shared[j] /\ p \notin exclusive[j]
    BY DEF Locks
  <2>3. QED
    BY <1>3, <2>1, <2>2 DEF Locks
<1>6. Excludes'
  BY DEF Excludes
<1>7. OneFile'
  BY <1>1, <1>2, <1>3, <1>4 DEF OneFile
<1>8. LiveHasRows'
  BY DEF LiveHasRows
<1>9. \A q \in Proc : fd'[q] = NoFile <=> pc'[q] \in {"idle", "unlinking"}
  BY <1>2, <1>3
<1>10. LTypeOK'
  BY <1>1, <1>3, <1>5, <1>9, LTyped DEF LTypeOK, Locks
<1>11. QED
  BY <1>5, <1>6, <1>7, <1>8, <1>10 DEF LInv

\* The process closes its file, and is done or about to unlink it.
LEMMA Releases ==
    ASSUME LInv, NEW p \in Proc, fd[p] # NoFile, Release(p),
           NEW s \in {"idle", "unlinking"}, Goto(p, s), s = "unlinking" => ~rows,
           rows' = rows, artifacts' \in BOOLEAN, path' = path
    PROVE  LInv'
<1> USE LTypes
<1>1. /\ pc' \in [Proc -> Steps] /\ fd' \in [Proc -> Inode \cup {NoFile}]
      /\ pc'[p] = s /\ fd'[p] = NoFile
      /\ \A q \in Proc \ {p} : pc'[q] = pc[q] /\ fd'[q] = fd[q]
  BY DEF Goto, Release, Steps
<1>2. /\ shared' \in [Inode -> SUBSET Proc] /\ exclusive' \in [Inode -> SUBSET Proc]
      /\ \A i \in Inode : shared'[i] = shared[i] \ {p} /\ exclusive'[i] = exclusive[i] \ {p}
  BY DEF Release
<1>3. Locks'
  <2>1. \A i \in Inode, q \in Proc \ {p} :
          /\ q \in shared'[i] <=> fd'[q] = i /\ pc'[q] \in {"loading", "live"}
          /\ q \in exclusive'[i] <=> fd'[q] = i /\ pc'[q] \in {"removing", "clearing"}
    BY <1>1, <1>2 DEF Locks
  <2>2. \A i \in Inode : p \notin shared'[i] /\ p \notin exclusive'[i] /\ i # NoFile
    BY <1>2, LocksAssumption
  <2>3. QED
    BY <1>1, <2>1, <2>2 DEF Locks
<1>4. Excludes'
  BY <1>2 DEF Excludes
<1>5. OneFile'
  BY <1>1 DEF OneFile
<1>6. LiveHasRows'
  BY <1>1 DEF LiveHasRows, Live
<1>7. \A q \in Proc : fd'[q] = NoFile <=> pc'[q] \in {"idle", "unlinking"}
  BY <1>1
<1>8. LTypeOK'
  BY <1>1, <1>2, <1>3, <1>7 DEF LTypeOK, Locks
<1>9. QED
  BY <1>3, <1>4, <1>5, <1>6, <1>8 DEF LInv

\* The process goes on with its file open.
LEMMA GoesOn ==
    ASSUME LInv, NEW p \in Proc, fd[p] # NoFile, NEW s \in Steps \ {"idle", "unlinking"},
           Goto(p, s), path' = path, fd' = fd, artifacts' = artifacts, rows' \in BOOLEAN,
           rows' => rows, shared' \in [Inode -> SUBSET Proc], exclusive' \in [Inode -> SUBSET Proc],
           \A i \in Inode, q \in Proc \ {p} :
              (q \in shared'[i] <=> q \in shared[i]) /\ (q \in exclusive'[i] <=> q \in exclusive[i]),
           \A i \in Inode : /\ p \in shared'[i] <=> fd[p] = i /\ s \in {"loading", "live"}
                            /\ p \in exclusive'[i] <=> fd[p] = i /\ s \in {"removing", "clearing"},
           Excludes', s = "clearing" => ~rows', s = "live" => rows',
           rows' = rows \/ Live = {}
    PROVE  LInv'
<1> USE LTypes
<1>1. /\ pc' \in [Proc -> Steps] /\ pc'[p] = s
      /\ \A q \in Proc \ {p} : pc'[q] = pc[q]
  BY DEF Goto
<1>2. Locks'
  BY <1>1 DEF Locks
<1>3. OneFile'
  BY <1>1 DEF OneFile
<1>4. LiveHasRows'
  BY <1>1 DEF LiveHasRows, Live
<1>5. \A q \in Proc : fd'[q] = NoFile <=> pc'[q] \in {"idle", "unlinking"}
  BY <1>1
<1>6. LTypeOK'
  BY <1>1, <1>2, <1>5 DEF LTypeOK, Locks
<1>7. QED
  BY <1>2, <1>3, <1>4, <1>6 DEF LInv

\* A process that may pull the rows or clear the artifacts leaves nobody live.
LEMMA NobodyLive ==
    ASSUME LInv, NEW p \in Proc, pc[p] \in {"removing", "clearing"}
    PROVE  Live = {}
<1> USE LTypes
<1>1. fd[p] \in Inode /\ fd[p] # NoFile /\ p \in exclusive[fd[p]]
  BY DEF Locks
<1>2. shared[fd[p]] = {}
  BY <1>1 DEF Excludes
<1>3. ASSUME NEW q \in Live PROVE FALSE
  <2>1. q \in Proc /\ pc[q] = "live" /\ fd[q] # NoFile
    BY <1>3 DEF Live
  <2>2. fd[q] = fd[p]
    BY <1>1, <2>1 DEF OneFile
  <2>3. QED
    BY <1>1, <1>2, <2>1, <2>2 DEF Locks
<1>4. QED
  BY <1>3

LEMMA LocksStep ==
    ASSUME LInv, [LNext]_lvars, Reimports = "alone"
    PROVE  LInv'
<1> USE LTypes
<1>1. CASE UNCHANGED lvars
  <2>1. LTypeOK'
    BY <1>1 DEF LInv, LTypeOK, lvars
  <2>2. Locks' /\ Excludes'
    BY <1>1 DEF Locks, Excludes, lvars
  <2>3. OneFile' /\ LiveHasRows'
    BY <1>1 DEF OneFile, LiveHasRows, Live, lvars
  <2>4. QED
    BY <2>1, <2>2, <2>3 DEF LInv
<1>2. ASSUME NEW p \in Proc, ResumeOpen(p) \/ DeleteOpen(p) PROVE LInv'
  BY <1>2, Opens DEF ResumeOpen, DeleteOpen
<1>3. ASSUME NEW p \in Proc, ResumeLock(p) PROVE LInv'
  <2>1. /\ pc[p] = "opening" /\ exclusive[fd[p]] = {} /\ fd[p] # NoFile /\ fd[p] \in Inode
        /\ Goto(p, "loading") /\ shared' = [shared EXCEPT ![fd[p]] = @ \cup {p}]
        /\ rows' = rows /\ artifacts' = artifacts /\ path' = path /\ fd' = fd
        /\ exclusive' = exclusive
    BY <1>3 DEF ResumeLock
  <2>2. /\ shared' \in [Inode -> SUBSET Proc] /\ shared'[fd[p]] = shared[fd[p]] \cup {p}
        /\ \A i \in Inode \ {fd[p]} : shared'[i] = shared[i]
    BY <2>1
  <2>3. \A i \in Inode : p \notin shared[i] /\ p \notin exclusive[i]
    BY <2>1 DEF Locks
  <2>4. /\ \A i \in Inode : /\ p \in shared'[i] <=> fd[p] = i
                            /\ p \notin exclusive'[i]
        /\ \A i \in Inode, q \in Proc \ {p} : q \in shared'[i] <=> q \in shared[i]
    BY <2>1, <2>2, <2>3
  <2>5. Excludes'
    BY <2>1, <2>2 DEF Excludes
  <2>6. QED
    BY <2>1, <2>2, <2>4, <2>5, GoesOn DEF Steps
<1>4. ASSUME NEW p \in Proc, ResumeLoad(p) PROVE LInv'
  <2>1. /\ pc[p] = "loading" /\ rows /\ fd[p] # NoFile
        /\ Goto(p, "live") /\ rows' = rows /\ artifacts' = artifacts /\ path' = path /\ fd' = fd
        /\ shared' = shared /\ exclusive' = exclusive
    BY <1>4 DEF ResumeLoad
  <2>2. \A i \in Inode : /\ p \in shared'[i] <=> fd[p] = i
                         /\ p \notin exclusive'[i]
    BY <2>1 DEF Locks
  <2>3. Excludes'
    BY <2>1 DEF Excludes
  <2>4. QED
    BY <2>1, <2>2, <2>3, GoesOn DEF Steps
<1>5. ASSUME NEW p \in Proc, ResumeFails(p) \/ Close(p) \/ DeleteRefused(p) PROVE LInv'
  BY <1>5, Releases DEF ResumeFails, Close, DeleteRefused
<1>6. ASSUME NEW p \in Proc, Spill(p) PROVE LInv'
  <2>1. /\ artifacts' = TRUE /\ rows' = rows /\ path' = path /\ pc' = pc /\ fd' = fd
        /\ shared' = shared /\ exclusive' = exclusive
    BY <1>6 DEF Spill
  <2>2. LTypeOK'
    BY <2>1 DEF LInv, LTypeOK
  <2>3. Locks' /\ Excludes'
    BY <2>1 DEF Locks, Excludes
  <2>4. OneFile' /\ LiveHasRows'
    BY <2>1 DEF OneFile, LiveHasRows, Live
  <2>5. QED
    BY <2>2, <2>3, <2>4 DEF LInv
<1>7. ASSUME NEW p \in Proc, DeleteLocks(p) PROVE LInv'
  <2>1. /\ pc[p] = "checking" /\ Free(fd[p]) /\ fd[p] # NoFile /\ fd[p] \in Inode
        /\ Goto(p, "removing") /\ exclusive' = [exclusive EXCEPT ![fd[p]] = {p}]
        /\ rows' = rows /\ artifacts' = artifacts /\ path' = path /\ fd' = fd
        /\ shared' = shared
    BY <1>7 DEF DeleteLocks
  <2>2. /\ exclusive' \in [Inode -> SUBSET Proc] /\ exclusive'[fd[p]] = {p}
        /\ \A i \in Inode \ {fd[p]} : exclusive'[i] = exclusive[i]
    BY <2>1
  <2>3. \A i \in Inode : p \notin shared[i] /\ p \notin exclusive[i]
    BY <2>1 DEF Locks
  <2>4. /\ \A i \in Inode : /\ p \in exclusive'[i] <=> fd[p] = i
                            /\ p \notin shared'[i]
        /\ \A i \in Inode, q \in Proc \ {p} : q \in exclusive'[i] <=> q \in exclusive[i]
    BY <2>1, <2>2, <2>3 DEF Free
  <2>5. Excludes'
    BY <2>1, <2>2 DEF Excludes, Free
  <2>6. QED
    BY <2>1, <2>2, <2>4, <2>5, GoesOn DEF Steps
<1>8. ASSUME NEW p \in Proc, DeleteRows(p) PROVE LInv'
  <2>1. /\ pc[p] = "removing" /\ fd[p] # NoFile
        /\ Goto(p, "clearing") /\ rows' = FALSE /\ artifacts' = artifacts /\ path' = path /\ fd' = fd
        /\ shared' = shared /\ exclusive' = exclusive
    BY <1>8 DEF DeleteRows
  <2>2. \A i \in Inode : /\ p \in exclusive'[i] <=> fd[p] = i
                         /\ p \notin shared'[i]
    BY <2>1 DEF Locks
  <2>3. Excludes'
    BY <2>1 DEF Excludes
  <2>4. Live = {}
    BY <2>1, NobodyLive
  <2>5. rows' \in BOOLEAN /\ ~rows'
    BY <2>1
  <2>6. "clearing" \in Steps \ {"idle", "unlinking"}
    BY DEF Steps
  <2>7. QED
    BY <2>1, <2>2, <2>3, <2>4, <2>5, <2>6, GoesOn
<1>9. ASSUME NEW p \in Proc, DeleteArtifacts(p) PROVE LInv'
  <2>1. pc[p] = "clearing" /\ ~rows /\ fd[p] # NoFile
    BY <1>9 DEF DeleteArtifacts, OneFile
  <2>2. QED
    BY <1>9, <2>1, Releases DEF DeleteArtifacts
<1>10. ASSUME NEW p \in Proc, DeleteFails(p) PROVE LInv'
  BY <1>10, Releases DEF DeleteFails
<1>11. ASSUME NEW p \in Proc, DeleteUnlinks(p) PROVE LInv'
  <2>1. /\ pc[p] = "unlinking" /\ fd[p] = NoFile /\ ~rows
        /\ path' = NoFile /\ pc' = [pc EXCEPT ![p] = "idle"]
        /\ rows' = rows /\ artifacts' = artifacts /\ fd' = fd /\ shared' = shared
        /\ exclusive' = exclusive
    BY <1>11 DEF DeleteUnlinks, OneFile, Goto
  <2>2. /\ pc' \in [Proc -> Steps] /\ pc'[p] = "idle" /\ \A q \in Proc \ {p} : pc'[q] = pc[q]
    BY <2>1 DEF Steps
  <2>3. Locks'
    BY <2>1, <2>2, LocksAssumption DEF Locks
  <2>4. Excludes' /\ OneFile' /\ LiveHasRows'
    BY <2>1, <2>2 DEF Excludes, OneFile, LiveHasRows, Live
  <2>5. LTypeOK'
    BY <2>1, <2>2, <2>3 DEF LTypeOK, Locks
  <2>6. QED
    BY <2>3, <2>4, <2>5 DEF LInv
<1>12. ASSUME NEW p \in Proc, Crash(p) PROVE LInv'
  <2>1. CASE fd[p] # NoFile
    BY <1>12, <2>1, Releases DEF Crash
  <2>2. CASE fd[p] = NoFile
    <3>1. /\ pc[p] = "unlinking" /\ pc' = [pc EXCEPT ![p] = "idle"]
          /\ rows' = rows /\ artifacts' = artifacts /\ path' = path
      BY <1>12, <2>2 DEF Crash, Goto
    <3>2. /\ pc' \in [Proc -> Steps] /\ pc'[p] = "idle" /\ \A q \in Proc \ {p} : pc'[q] = pc[q]
      BY <3>1 DEF Steps
    <3>3. \A i \in Inode : p \notin shared[i] /\ p \notin exclusive[i]
      BY <3>1 DEF Locks
    <3>4. /\ \A i \in Inode : shared'[i] = shared[i] /\ exclusive'[i] = exclusive[i]
          /\ shared' \in [Inode -> SUBSET Proc] /\ exclusive' \in [Inode -> SUBSET Proc]
      BY <1>12, <3>3 DEF Crash, Release
    <3>5. fd' = fd
      BY <1>12, <2>2 DEF Crash, Release
    <3>6. Locks'
      BY <3>2, <3>4, <3>5, LocksAssumption, <2>2 DEF Locks
    <3>7. Excludes' /\ OneFile' /\ LiveHasRows'
      BY <3>1, <3>2, <3>4, <3>5 DEF Excludes, OneFile, LiveHasRows, Live
    <3>8. LTypeOK'
      BY <2>2, <3>1, <3>2, <3>4, <3>5, <3>6 DEF LTypeOK, Locks
    <3>9. QED
      BY <3>6, <3>7, <3>8 DEF LInv
  <2>3. QED
    BY <2>1, <2>2
<1>13. ASSUME NEW p \in Proc, Reimport(p) PROVE LInv'
  <2>1. /\ \A q \in Proc : pc[q] = "idle" /\ fd[q] = NoFile
        /\ rows' = TRUE /\ artifacts' = artifacts /\ path' = path /\ pc' = pc /\ fd' = fd
        /\ shared' = shared /\ exclusive' = exclusive
    BY <1>13 DEF Reimport
  <2>2. LTypeOK'
    BY <2>1 DEF LInv, LTypeOK
  <2>3. Locks' /\ Excludes'
    BY <2>1 DEF Locks, Excludes
  <2>4. OneFile' /\ LiveHasRows'
    BY <2>1 DEF OneFile, LiveHasRows
  <2>5. QED
    BY <2>2, <2>3, <2>4 DEF LInv
<1>14. QED
  BY <1>1, <1>2, <1>3, <1>4, <1>5, <1>6, <1>7, <1>8, <1>9, <1>10, <1>11, <1>12, <1>13 DEF LNext

\* The invariant of the locks, where the deleted session is imported again only
\* while no process resumes or deletes it.
THEOREM LocksInvariant == ASSUME Reimports = "alone" PROVE LSpec => []LInv
<1>1. LInit => LInv
  BY LocksBegin
<1>2. LInv /\ [LNext]_lvars => LInv'
  BY LocksStep
<1>3. QED
  BY <1>1, <1>2, PTL DEF LSpec

\* While a process has the session open no step clears its artifacts.
THEOREM ArtifactsAlwaysKept == ASSUME Reimports = "alone" PROVE LSpec => LiveKeepsArtifacts
<1>1. LInv => LTypeOK
  BY DEF LInv
<1>2. LInv /\ [LNext]_lvars => [artifacts /\ ~artifacts' => Live = {}]_lvars
  <2>1. ASSUME LInv, LNext, artifacts, ~artifacts' PROVE Live = {}
    <3>1. PICK p \in Proc : DeleteArtifacts(p)
      BY <2>1 DEF LNext, ResumeOpen, ResumeLock, ResumeLoad, ResumeFails, Spill, Close, DeleteOpen,
         DeleteLocks, DeleteRefused, DeleteRows, DeleteFails, DeleteUnlinks, Crash, Reimport
    <3>2. pc[p] = "clearing"
      BY <3>1 DEF DeleteArtifacts
    <3>3. QED
      BY <2>1, <3>2, NobodyLive
  <2>2. QED
    BY <2>1
<1>3. QED
  BY <1>1, <1>2, LocksInvariant, PTL DEF LSpec, LiveKeepsArtifacts

\* How a step moves the processes that have the session open.
LEMMA LiveMoves ==
    ASSUME LInv, NEW p \in Proc, NEW s \in Steps, Goto(p, s)
    PROVE  Live' = IF s = "live" THEN Live \cup {p} ELSE Live \ {p}
<1>1. /\ pc' \in [Proc -> Steps] /\ pc'[p] = s /\ \A q \in Proc \ {p} : pc'[q] = pc[q]
  BY LTypes DEF Goto
<1>2. QED
  BY <1>1 DEF Live

\* A resume and a delete, with all their steps, act as one step each.
THEOREM HoldImplemented == ASSUME Reimports = "alone" PROVE LSpec => HoldSpec
<1>1. LInit => ImplementsHold!HInit
  BY DEF LInit, ImplementsHold!HInit, Live
<1>2. LInv /\ [LNext]_lvars => [ImplementsHold!HNext]_(ImplementsHold!hvars)
  <2>1. SUFFICES ASSUME LInv, [LNext]_lvars
                 PROVE  ImplementsHold!HNext \/ (rows' = rows /\ Live' = Live)
    BY DEF ImplementsHold!hvars
  <2> USE LTypes
  <2>2. CASE UNCHANGED lvars
    BY <2>2 DEF lvars, Live
  <2>3. ASSUME NEW p \in Proc,
               ResumeOpen(p) \/ ResumeLock(p) \/ ResumeFails(p) \/ DeleteOpen(p) \/ DeleteLocks(p)
               \/ DeleteRefused(p) \/ DeleteArtifacts(p) \/ DeleteFails(p) \/ DeleteUnlinks(p)
        PROVE  rows' = rows /\ Live' = Live
    <3>1. pc[p] # "live" /\ rows' = rows /\ \E s \in Steps \ {"live"} : Goto(p, s)
      BY <2>3 DEF ResumeOpen, ResumeLock, ResumeFails, DeleteOpen, DeleteLocks, DeleteRefused,
         DeleteArtifacts, DeleteFails, DeleteUnlinks, Steps
    <3>2. Live' = Live \ {p} /\ p \notin Live
      BY <2>1, <3>1, LiveMoves DEF Live
    <3>3. QED
      BY <3>1, <3>2
  <2>4. ASSUME NEW p \in Proc, ResumeLoad(p) PROVE ImplementsHold!Open(p)
    <3>1. pc[p] = "loading" /\ rows /\ rows' = rows /\ Goto(p, "live") /\ "live" \in Steps
      BY <2>4 DEF ResumeLoad, Steps
    <3>2. Live' = Live \cup {p} /\ p \notin Live
      BY <2>1, <3>1, LiveMoves DEF Live
    <3>3. QED
      BY <3>1, <3>2 DEF ImplementsHold!Open
  <2>5. ASSUME NEW p \in Proc, Close(p) \/ Crash(p)
        PROVE  ImplementsHold!Leave(p) \/ (rows' = rows /\ Live' = Live)
    <3>1. rows' = rows /\ Goto(p, "idle") /\ "idle" \in Steps
      BY <2>5 DEF Close, Crash, Steps
    <3>2. Live' = Live \ {p}
      BY <2>1, <3>1, LiveMoves
    <3>3. QED
      BY <3>1, <3>2 DEF ImplementsHold!Leave
  <2>6. ASSUME NEW p \in Proc, Spill(p) PROVE rows' = rows /\ Live' = Live
    BY <2>6 DEF Spill, Live
  <2>7. ASSUME NEW p \in Proc, DeleteRows(p)
        PROVE  ImplementsHold!Delete \/ (rows' = rows /\ Live' = Live)
    <3>1. pc[p] = "removing" /\ rows' = FALSE /\ Goto(p, "clearing") /\ "clearing" \in Steps
      BY <2>7 DEF DeleteRows, Steps
    <3>2. Live = {} /\ Live' = Live
      BY <2>1, <3>1, LiveMoves, NobodyLive
    <3>3. CASE rows
      BY <3>1, <3>2, <3>3 DEF ImplementsHold!Delete
    <3>4. CASE ~rows
      <4>1. rows \in BOOLEAN
        BY <2>1
      <4>2. rows = FALSE
        BY <3>4, <4>1
      <4>3. QED
        BY <3>1, <3>2, <4>2
    <3>5. QED
      BY <3>3, <3>4
  <2>8. ASSUME NEW p \in Proc, Reimport(p) PROVE ImplementsHold!Restore
    BY <2>8 DEF Reimport, ImplementsHold!Restore, Live
  <2>9. QED
    BY <2>1, <2>2, <2>3, <2>4, <2>5, <2>6, <2>7, <2>8 DEF LNext, ImplementsHold!HNext
<1>3. QED
  BY <1>1, <1>2, LocksInvariant, PTL DEF LSpec, HoldSpec, ImplementsHold!HSpec

-----------------------------------------------------------------------------
(***************************************************************************)
(* The permission gate.                                                    *)
(***************************************************************************)
-----------------------------------------------------------------------------
Target == Command \cup Path \cup Other

LEMMA AccessTarget == Accesses \subseteq Target
  BY RulesAssumption DEF Target

-----------------------------------------------------------------------------
(* The two disciplines.                                                    *)
-----------------------------------------------------------------------------
\* Words an allow pattern lets through are held by it: each literal word of the
\* pattern has its place, the one it was matched at.
LEMMA AllowedWordsHeld ==
    ASSUME NEW pattern \in Seq(Word \cup {Star}), NEW words \in Seq(ShellWord),
           words # <<>>, WordsAllowed(pattern, words)
    PROVE  WordsHeld(pattern, words)
<1> DEFINE open  == pattern # <<>> /\ pattern[Len(pattern)] = Star
           fixed == IF open THEN Len(pattern) - 1 ELSE Len(pattern)
           later == {i \in DOMAIN pattern : i > 1 /\ pattern[i] # Star}
<1>1. /\ Len(pattern) \in Nat /\ Len(words) \in Nat
      /\ DOMAIN pattern = 1..Len(pattern) /\ DOMAIN words = 1..Len(words)
      /\ Len(words) > 0
  OBVIOUS
<1>2. /\ IF open THEN fixed <= Len(words) ELSE fixed = Len(words)
      /\ \A i \in 1..fixed : words[i].literal /\ pattern[i] \in {Star, words[i].text}
  BY DEF WordsAllowed
<1>3. pattern # <<>> /\ Len(pattern) > 0
  <2>1. CASE pattern = <<>>
    <3>1. Len(pattern) = 0 /\ ~open
      BY <2>1
    <3>2. fixed = Len(pattern) /\ fixed = Len(words)
      BY <1>2, <3>1
    <3>3. QED
      BY <1>1, <3>1, <3>2
  <2>2. QED
    BY <1>1, <2>1
<1>4. \A i \in 1..fixed : WordHeld(pattern[i], words[i])
  BY <1>2 DEF WordHeld
<1>5. \A i \in DOMAIN pattern : i \in 1..fixed \/ pattern[i] = Star
  BY <1>1
<1>6. WordHeld(pattern[1], words[1])
  BY <1>1, <1>3, <1>4, <1>5 DEF WordHeld
<1>7. \A i \in later : i \in 1..fixed /\ i \in DOMAIN words
  <2>1. fixed \in Nat /\ fixed <= Len(words)
    <3>1. CASE open
      BY <1>1, <1>2, <1>3, <3>1
    <3>2. CASE ~open
      <4>1. fixed = Len(pattern)
        BY <3>2
      <4>2. fixed = Len(words)
        BY <1>2, <3>2
      <4> HIDE DEF fixed
      <4>3. QED
        BY <1>1, <4>1, <4>2
    <3>3. QED
      BY <3>1, <3>2
  <2>2. \A i \in later : i \in 1..fixed
    BY <1>5
  <2>3. \A i \in 1..fixed : i \in DOMAIN words
    BY <1>1, <2>1
  <2>4. QED
    BY <2>2, <2>3
<1>8. \E place \in [later -> DOMAIN words] :
         \A i \in later :
             /\ place[i] > 1 /\ WordHeld(pattern[i], words[place[i]])
             /\ \A j \in later : i < j => place[i] < place[j]
  <2> DEFINE place == [i \in later |-> i]
  <2>1. place \in [later -> DOMAIN words]
    BY <1>7
  <2>2. \A i \in later :
             /\ place[i] > 1 /\ WordHeld(pattern[i], words[place[i]])
             /\ \A j \in later : i < j => place[i] < place[j]
    BY <1>4, <1>7
  <2>3. QED
    BY <2>1, <2>2
<1>9. QED
  BY <1>1, <1>3, <1>6, <1>8 DEF WordsHeld

\* What a rule allows it holds, when it is a deny or an ask rule instead.
LEMMA AllowImpliesHold ==
    ASSUME NEW r \in Rule, NEW a \in Target, Allows(r, a)
    PROVE  Holds(r, a)
<1>1. CASE r.pattern = Star
  BY <1>1 DEF Allows, Holds
<1>2. CASE a.kind = "path" /\ PathAllowed(r.pattern, a)
  <2>1. a \in Path
    BY <1>2 DEF Target, Command, Path, Other
  <2>2. PICK n \in Word : r.pattern = <<n>> /\ a.canonical \in Under(n)
    BY <1>2 DEF PathAllowed
  <2>3. a.canonical \in Word
    BY <2>1 DEF Path
  <2>4. Fold[a.canonical] \in Under(Fold[n])
    BY <2>2, <2>3, RulesAssumption DEF Under
  <2>5. QED
    BY <1>2, <2>2, <2>4 DEF Allows, Holds, PathHeld
<1>3. CASE /\ r.pattern # Star
           /\ a.kind = "command" /\ a.segments # <<>>
           /\ \A i \in DOMAIN a.segments : AllowsSegment(r, a.segments[i])
  <2>1. a \in Command
    BY <1>3 DEF Target, Command, Path, Other
  <2>2. a.segments \in Seq(Segment) /\ 1 \in DOMAIN a.segments
    BY <1>3, <2>1 DEF Command
  <2>3. a.segments[1] \in Segment
    BY <2>2
  <2>4. /\ a.segments[1].named \in Seq(ShellWord) /\ a.segments[1].named # <<>>
    BY <2>3 DEF Segment
  <2>5. WordsAllowed(r.pattern, a.segments[1].named)
    BY <1>3, <2>2 DEF AllowsSegment
  <2>6. r.pattern \in Seq(Word \cup {Star})
    BY <1>3 DEF Rule
  <2>7. WordsHeld(r.pattern, a.segments[1].named)
    BY <2>4, <2>5, <2>6, AllowedWordsHeld
  <2>8. QED
    BY <1>3, <2>2, <2>7 DEF Allows, Holds, SegmentHeld
<1>4. QED
  BY <1>1, <1>2, <1>3 DEF Allows

-----------------------------------------------------------------------------
(* Commands and their parts.                                               *)
-----------------------------------------------------------------------------
\* A part of a command is a command of one segment.
LEMMA PartIsCommand ==
    ASSUME NEW a \in Target, a.kind = "command", NEW i \in DOMAIN a.segments, NEW whole
    PROVE  /\ Part(a, i, whole).class = "exec" /\ Part(a, i, whole).kind = "command"
           /\ a.class = "exec"
           /\ Part(a, i, whole).segments = <<a.segments[i]>>
           /\ Part(a, i, whole).complete = whole
<1>1. a \in Command
  BY DEF Target, Command, Path, Other
<1>2. QED
  BY <1>1 DEF Part, Command

LEMMA PartHeld ==
    ASSUME NEW r, NEW a \in Target, a.kind = "command", NEW i \in DOMAIN a.segments,
           NEW whole, Holds(r, Part(a, i, whole))
    PROVE  Holds(r, a)
  BY PartIsCommand DEF Holds

LEMMA PartAllowed ==
    ASSUME NEW rules, NEW a \in Target, a.kind = "command", NEW i \in DOMAIN a.segments,
           NEW whole \in {TRUE, a.complete}, Allowed(rules, a)
    PROVE  Allowed(rules, Part(a, i, whole))
<1> DEFINE part == Part(a, i, whole)
<1>1. /\ part.kind = "command" /\ part.segments = <<a.segments[i]>> /\ part.complete = whole
  BY PartIsCommand
<1> HIDE DEF part
<1>2. CASE \E r \in rules : r.class = "exec" /\ r.pattern = Star
  BY <1>1, <1>2 DEF Allowed, part
<1>3. CASE /\ a.complete
           /\ \A j \in DOMAIN a.segments :
                 \E r \in rules : AllowsSegment(r, a.segments[j])
  <2>1. whole = TRUE
    BY <1>3 DEF Target, Command, Path, Other
  <2>2. /\ part.segments # <<>>
        /\ \A j \in DOMAIN part.segments : j = 1 /\ part.segments[j] = a.segments[i]
    BY <1>1, <1>3
  <2>3. Allowed(rules, part)
    BY <1>1, <1>3, <2>1, <2>2 DEF Allowed
  <2>4. QED
    BY <2>3 DEF part
<1>4. QED
  BY <1>2, <1>3 DEF Allowed

\* The whole is at least as strict as the part, rule by rule and mode by mode.
LEMMA PartLessStrict ==
    ASSUME NEW a \in Target, a.kind = "command", NEW i \in DOMAIN a.segments,
           NEW whole \in {TRUE, a.complete}
    PROVE  Strictness(Verdict(Part(a, i, whole))) <= Strictness(Verdict(a))
<1> DEFINE part == Part(a, i, whole)
<1>1. part.class = "exec" /\ part.kind = "command" /\ a.class = "exec"
  BY PartIsCommand
<1>2. \A r : Holds(r, part) => Holds(r, a)
  BY PartHeld
<1>3. Allowed(config.allow \cup session, a) => Allowed(config.allow \cup session, part)
  BY PartAllowed
<1> SUFFICES Strictness(Verdict(part)) <= Strictness(Verdict(a))
  OBVIOUS
<1> HIDE DEF part
<1>4. CASE Settle(session, part) = "Allow"
  BY <1>4 DEF Verdict, Attended, Strictness
<1>5. CASE Settle(session, a) = "Deny"
  BY <1>5 DEF Verdict, Attended, Strictness, Settle, Fallback
<1>6. CASE Settle(session, part) # "Allow" /\ Settle(session, a) # "Deny"
  <2>1. /\ ~ \E r \in config.deny : Holds(r, a)
        /\ ~ Denies(mode, "exec")
    BY <1>1, <1>6 DEF Settle
  <2>2. Settle(session, part) \in {"Ask", Fallback(mode)}
    BY <1>1, <1>2, <1>6, <2>1 DEF Settle
  <2>3. CASE \E r \in config.ask : Holds(r, a)
    <3>1. Settle(session, a) = "Ask"
      BY <1>1, <2>1, <2>3 DEF Settle
    <3>2. QED
      BY <2>2, <3>1 DEF Verdict, Attended, Strictness, Fallback
  <2>4. CASE ~ \E r \in config.ask : Holds(r, a)
    <3>1. ~ Allowed(config.allow \cup session, part)
      BY <1>1, <1>2, <1>6, <2>1, <2>4 DEF Settle
    <3>2. Settle(session, part) = Fallback(mode) /\ Settle(session, a) = Fallback(mode)
      BY <1>1, <1>2, <1>3, <2>1, <2>4, <3>1 DEF Settle
    <3>3. QED
      BY <3>2 DEF Verdict, Attended, Strictness, Fallback
  <2>5. QED
    BY <2>3, <2>4
<1>7. QED
  BY <1>4, <1>5, <1>6

-----------------------------------------------------------------------------
(* Rules granted for a session.                                            *)
-----------------------------------------------------------------------------
LEMMA AllowsAllowed ==
    ASSUME NEW rules, NEW r \in rules, NEW a \in Target, Allows(r, a)
    PROVE  Allowed(rules, a)
  BY DEF Allows, Allowed, Target, Command, Path, Other

\* The texts of words are a sequence of as many.
LEMMA TextsOfWords ==
    ASSUME NEW words \in Seq(ShellWord)
    PROVE  LET texts == [i \in DOMAIN words |-> words[i].text]
           IN  /\ texts \in Seq(Word) /\ Len(texts) = Len(words)
               /\ \A i \in 1..Len(words) : texts[i] = words[i].text /\ texts[i] \in Word
<1> DEFINE texts == [i \in DOMAIN words |-> words[i].text]
<1>1. /\ Len(words) \in Nat /\ DOMAIN words = 1..Len(words)
      /\ \A i \in 1..Len(words) : words[i] \in ShellWord
  OBVIOUS
<1>2. texts \in [1..Len(words) -> Word]
  BY <1>1 DEF ShellWord
<1>3. texts \in Seq(Word)
  BY <1>1, <1>2, SeqDef
<1>4. Len(texts) = Len(words)
  <2>1. Len(texts) \in Nat /\ DOMAIN texts = 1..Len(texts)
    BY <1>3, LenProperties
  <2>2. DOMAIN texts = 1..Len(words)
    BY <1>2
  <2>3. \A m, n \in Nat : 1..m = 1..n => m = n
    <3> SUFFICES ASSUME NEW m \in Nat, NEW n \in Nat, 1..m = 1..n, m < n PROVE FALSE
      OBVIOUS
    <3>1. n \in 1..n /\ n \notin 1..m
      OBVIOUS
    <3>2. QED
      BY <3>1
  <2> HIDE DEF texts
  <2>4. QED
    BY <1>1, <2>1, <2>2, <2>3
<1>5. QED
  BY <1>1, <1>2, <1>3, <1>4

LEMMA ForCallRule ==
    ASSUME NEW a \in Target
    PROVE  ForCall(a) \subseteq Rule
<1> SUFFICES ASSUME NEW r \in ForCall(a) PROVE r \in Rule
  OBVIOUS
<1>1. CASE a.kind = "path"
  <2>1. a \in Path
    BY <1>1 DEF Target, Command, Path, Other
  <2>2. r \in [class : {a.class}, pattern : {<<a.canonical>>}]
    BY <1>1 DEF ForCall
  <2>3. <<a.canonical>> \in Seq(Word \cup {Star}) /\ a.class \in Classes
    BY <2>1 DEF Path, Classes
  <2>4. QED
    BY <2>2, <2>3 DEF Rule
<1>2. CASE a.kind = "command" /\ Len(a.segments) = 1
  <2> DEFINE words == a.segments[1].named
             texts == [i \in DOMAIN words |-> words[i].text]
  <2>1. a \in Command
    BY <1>2 DEF Target, Command, Path, Other
  <2>2. a.segments \in Seq(Segment) /\ 1 \in DOMAIN a.segments
    BY <1>2, <2>1 DEF Command
  <2>3. a.segments[1] \in Segment
    BY <2>2
  <2>4. words \in Seq(ShellWord)
    BY <2>3 DEF Segment
  <2>5. texts \in Seq(Word \cup {Star})
    BY <2>4, TextsOfWords, SeqMonotonic
  <2>6. r \in [class : {a.class}, pattern : {texts}]
    BY <1>2 DEF ForCall
  <2>7. a.class \in Classes
    BY <2>1 DEF Command, Classes
  <2>8. QED
    BY <2>5, <2>6, <2>7 DEF Rule
<1>3. QED
  BY <1>1, <1>2 DEF ForCall

LEMMA SameWord ==
    ASSUME NEW v \in ShellWord, NEW w \in ShellWord, v.text = w.text, v.literal = w.literal
    PROVE  v = w
  BY DEF ShellWord

\* The texts of literal words name exactly these words: no text is a Star.
LEMMA TextsNameWords ==
    ASSUME NEW words \in Seq(ShellWord), NEW others \in Seq(ShellWord), words # <<>>,
           WordsAllowed([i \in DOMAIN words |-> words[i].text], words),
           WordsAllowed([i \in DOMAIN words |-> words[i].text], others)
    PROVE  others = words
<1> DEFINE pattern == [i \in DOMAIN words |-> words[i].text]
<1>1. /\ Len(words) \in Nat /\ Len(words) > 0 /\ DOMAIN words = 1..Len(words)
      /\ Len(others) \in Nat /\ DOMAIN others = 1..Len(others)
      /\ \A i \in DOMAIN words : words[i] \in ShellWord
      /\ \A i \in DOMAIN others : others[i] \in ShellWord
  OBVIOUS
<1>2. /\ pattern \in Seq(Word) /\ Len(pattern) = Len(words)
      /\ \A i \in 1..Len(words) : pattern[i] = words[i].text /\ pattern[i] \in Word
  BY TextsOfWords
<1>3. \A i \in 1..Len(words) : pattern[i] # Star
  BY <1>2, RulesAssumption
<1> HIDE DEF pattern
<1>4. pattern[Len(pattern)] # Star
  BY <1>1, <1>2, <1>3
<1>5. ASSUME NEW ws, WordsAllowed(pattern, ws)
      PROVE  /\ Len(pattern) = Len(ws)
             /\ \A i \in 1..Len(pattern) : ws[i].literal /\ pattern[i] \in {Star, ws[i].text}
  BY <1>4, <1>5 DEF WordsAllowed
<1>6. /\ Len(words) = Len(others)
      /\ \A i \in 1..Len(words) : /\ words[i].literal /\ others[i].literal
                                  /\ words[i].text = others[i].text
  BY <1>2, <1>3, <1>5 DEF pattern
<1>7. ASSUME NEW i \in 1..Len(words)
      PROVE  words[i] = others[i]
  <2>1. words[i] \in ShellWord /\ others[i] \in ShellWord
    BY <1>1, <1>6
  <2>2. words[i].literal = TRUE /\ others[i].literal = TRUE
    BY <1>6, <2>1 DEF ShellWord
  <2>3. words[i].text = others[i].text
    BY <1>6
  <2>4. QED
    BY <2>1, <2>2, <2>3, SameWord
<1>8. QED
  BY <1>1, <1>6, <1>7

\* The suggested rule allows that call, and a directory's what is below it.
LEMMA ForCallNarrow ==
    ASSUME NEW a \in Target, NEW b \in Target, NEW r \in ForCall(a), Allows(r, b)
    PROVE  SameAccess(a, b)
<1>1. r.class = a.class /\ Allows(r, a) /\ b.class = a.class
  BY DEF ForCall, Allows
<1>2. r \in Rule /\ Star \notin Seq(Word \cup {Star})
  BY ForCallRule, RulesAssumption
<1>3. CASE a.kind = "path"
  <2>1. a \in Path /\ r.pattern = <<a.canonical>>
    BY <1>3 DEF ForCall, Target, Command, Path, Other
  <2>2. a.canonical \in Word /\ a.class \in {"read", "edit"}
    BY <2>1 DEF Path
  <2>3. <<a.canonical>> \in Seq(Word \cup {Star})
    BY <2>2
  <2>4. r.pattern # Star
    BY <1>2, <2>1, <2>3
  <2>5. b.kind = "path" /\ PathAllowed(<<a.canonical>>, b)
    BY <1>1, <2>1, <2>2, <2>4 DEF Allows, Target, Command, Path, Other
  <2>6. PICK n \in Word : <<a.canonical>> = <<n>> /\ b.canonical \in Under(n)
    BY <2>5 DEF PathAllowed
  <2>7. a.canonical = n
    BY <2>6
  <2>8. QED
    BY <1>1, <1>3, <2>5, <2>6, <2>7 DEF SameAccess
<1>4. CASE a.kind = "command" /\ Len(a.segments) = 1
  <2> DEFINE words == a.segments[1].named
             texts == [i \in DOMAIN words |-> words[i].text]
  <2>1. a \in Command
    BY <1>4 DEF Target, Command, Path, Other
  <2>2. a.segments \in Seq(Segment) /\ 1 \in DOMAIN a.segments /\ a.class = "exec"
    BY <1>4, <2>1 DEF Command
  <2>3. a.segments[1] \in Segment
    BY <2>2
  <2>4. words \in Seq(ShellWord) /\ words # <<>>
    BY <2>3 DEF Segment
  <2>5. texts \in Seq(Word \cup {Star})
    BY <2>4, TextsOfWords, SeqMonotonic
  <2>6. r.pattern = texts
    BY <1>4 DEF ForCall
  <2>7. r.pattern # Star
    BY <1>2, <2>5, <2>6
  <2> HIDE DEF texts
  <2>8. WordsAllowed(texts, words)
    BY <1>1, <1>4, <2>2, <2>6, <2>7 DEF Allows, AllowsSegment
  <2>9. b \in Command
    BY <1>1, <2>2, <2>7 DEF Allows, Target, Command, Path, Other
  <2>10. /\ b.kind = "command"
         /\ \A i \in DOMAIN b.segments : WordsAllowed(texts, b.segments[i].named)
    BY <2>6, <2>7, <2>9 DEF Allows, AllowsSegment, Command
  <2>11. ASSUME NEW i \in DOMAIN b.segments
         PROVE  b.segments[i].named = words
    <3>1. b.segments[i].named \in Seq(ShellWord)
      BY <2>9 DEF Command, Segment
    <3>2. WordsAllowed(texts, b.segments[i].named)
      BY <2>10
    <3>3. QED
      BY <2>4, <2>8, <3>1, <3>2, TextsNameWords DEF texts
  <2>12. QED
    BY <1>1, <1>4, <2>10, <2>11 DEF SameAccess
<1>5. QED
  BY <1>3, <1>4 DEF ForCall

-----------------------------------------------------------------------------
(* The inductive invariant.                                                *)
-----------------------------------------------------------------------------
\* No deny or ask rule holds a granted call, and a rule of the session lets it
\* through; each rule of the session lets a granted call through.
Covered ==
    /\ \A a \in granted :
          /\ \A r \in config.deny \cup config.ask : ~Holds(r, a)
          /\ \E r \in session : Allows(r, a)
    /\ \A r \in session : \E a \in granted : Allows(r, a)

PermInv == PermTypeOK /\ Covered

LEMMA JudgedType ==
    ASSUME NEW a \in Accesses, NEW decision, Judged(a, decision)
    PROVE  gate' = Idle \/ gate' \in [step : {"Classify", "Ask"}, access : Accesses]
  BY DEF Judged

LEMMA CallAtGate ==
    ASSUME PermTypeOK, gate.step # "idle"
    PROVE  gate.access \in Accesses
  BY DEF PermTypeOK, Idle

LEMMA GateKeeps ==
    ASSUME PermInv, Gate \/ Assess \/ ReplyOnce \/ SwitchMode \/ UNCHANGED permvars
    PROVE  PermInv'
<1>1. CASE Gate
  BY <1>1, JudgedType DEF Gate, PermInv, PermTypeOK, Covered, policy
<1>2. CASE Assess
  <2>1. gate.access \in Accesses
    BY <1>2, CallAtGate DEF Assess, PermInv
  <2>2. gate' = Idle \/ gate' \in [step : {"Classify", "Ask"}, access : Accesses]
    BY <1>2, <2>1, JudgedType DEF Assess
  <2>3. UNCHANGED <<config, attended, mode, session, granted>>
    BY <1>2 DEF Assess, policy
  <2>4. QED
    BY <2>2, <2>3 DEF PermInv, PermTypeOK, Covered
<1>3. CASE ReplyOnce
  BY <1>3 DEF ReplyOnce, PermInv, PermTypeOK, Covered, policy
<1>4. CASE SwitchMode
  BY <1>4 DEF SwitchMode, PermInv, PermTypeOK, Covered
<1>5. CASE UNCHANGED permvars
  BY <1>5 DEF permvars, policy, PermInv, PermTypeOK, Covered
<1>6. QED
  BY <1>1, <1>2, <1>3, <1>4, <1>5

LEMMA AdoptKeeps ==
    ASSUME PermInv, Adopt
    PROVE  PermInv'
  BY DEF Adopt, PermInv, PermTypeOK, Covered

\* A rule is admitted for a call that no deny or ask rule holds and that it allows.
LEMMA AllowKeeps ==
    ASSUME PermInv, AllowForSession
    PROVE  PermInv'
<1> DEFINE a == gate.access
<1>1. a \in Accesses /\ a \in Target
  BY CallAtGate, AccessTarget DEF AllowForSession, PermInv
<1>2. /\ gate' = Idle /\ config' = config /\ attended' = attended /\ mode' = mode
  BY DEF AllowForSession
<1>3. PICK r \in Rules \cup ForCall(a) :
          IF Admits(a, r)
          THEN session' = session \cup {r} /\ granted' = granted \cup {a}
          ELSE UNCHANGED <<session, granted>>
  BY DEF AllowForSession
<1> HIDE DEF a
<1>4. CASE ~Admits(a, r)
  BY <1>2, <1>3, <1>4 DEF PermInv, PermTypeOK, Covered
<1>5. CASE Admits(a, r)
  <2>1. session' = session \cup {r} /\ granted' = granted \cup {a}
    BY <1>3, <1>5
  <2>2. r \in Rule
    BY <1>1, ForCallRule, RulesAssumption
  <2>3. PICK s \in ForCall(a) : Settle(session \cup {s}, a) = "Allow"
    BY <1>5 DEF Admits, SessionGrant
  <2>4. \A d \in config.deny \cup config.ask : ~Holds(d, a)
    BY <2>3 DEF Settle
  <2>5. Allows(r, a)
    BY <1>5 DEF Admits
  <2>6. PermTypeOK'
    BY <1>1, <1>2, <2>1, <2>2 DEF PermInv, PermTypeOK
  <2>7. Covered'
    BY <1>2, <2>1, <2>4, <2>5 DEF PermInv, Covered
  <2>8. QED
    BY <2>6, <2>7 DEF PermInv
<1>6. QED
  BY <1>4, <1>5

\* The granted calls are covered in every reachable state.
THEOREM GrantsInductive == PermSpec => []PermInv
<1>1. PermInit => PermInv
  BY DEF PermInit, PermInv, PermTypeOK, Covered
<1>2. PermInv /\ [PermNext]_permvars => PermInv'
  BY GateKeeps, AdoptKeeps, AllowKeeps DEF PermNext
<1>3. QED
  BY <1>1, <1>2, PTL DEF PermSpec

\* Whatever a rule lets through as an allow rule, of any call, it would hold as a
\* deny or an ask rule.
THEOREM AllowedAlwaysHeld == PermSpec => []AllowedIsHeld
<1>1. PermInv => AllowedIsHeld
  <2> SUFFICES ASSUME PermInv, NEW r \in Rules \cup session, NEW a \in Accesses, Allows(r, a)
               PROVE  Holds(r, a)
    BY DEF AllowedIsHeld
  <2>1. r \in Rule /\ a \in Target
    BY RulesAssumption, AccessTarget DEF PermInv, PermTypeOK
  <2>2. QED
    BY <2>1, AllowImpliesHold
<1>2. QED
  BY <1>1, GrantsInductive, PTL

\* No command, however long, is judged less strictly than one of its parts.
THEOREM PartsAlwaysJudged == PermSpec => []PartsJudged
<1>1. PartsJudged
  BY PartLessStrict, AccessTarget DEF PartsJudged
<1>2. QED
  BY <1>1, PTL

\* What the user allowed for a session stays allowed in it, nothing else is, and
\* the suggested rule covers its call alone.
THEOREM GrantsAlwaysHold == PermSpec => []GrantsHold
<1>1. PermInv => GrantsHold
  <2> SUFFICES ASSUME PermInv PROVE GrantsHold
    OBVIOUS
  <2>1. ASSUME NEW a \in granted, ~Denies(mode, a.class)
        PROVE  Verdict(a) = "Allow"
    <3>1. a \in Target
      BY AccessTarget DEF PermInv, PermTypeOK
    <3>2. PICK r \in session : Allows(r, a)
      BY DEF PermInv, Covered
    <3>3. Allowed(config.allow \cup session, a)
      BY <3>1, <3>2, AllowsAllowed
    <3>4. \A d \in config.deny \cup config.ask : ~Holds(d, a)
      BY DEF PermInv, Covered
    <3>5. Settle(session, a) = "Allow"
      BY <2>1, <3>3, <3>4 DEF Settle
    <3>6. QED
      BY <3>5 DEF Verdict, Attended
  <2>2. ASSUME gate.step = "Ask", NEW r \in ForCall(gate.access), NEW b \in Accesses,
               Allows(r, b)
        PROVE  SameAccess(gate.access, b)
    <3>1. gate.access \in Target /\ b \in Target
      BY <2>2, CallAtGate, AccessTarget DEF PermInv
    <3>2. QED
      BY <2>2, <3>1, ForCallNarrow
  <2>3. QED
    BY <2>1, <2>2 DEF GrantsHold, PermInv, Covered
<1>2. QED
  BY <1>1, GrantsInductive, PTL
=============================================================================
