---------------------------- MODULE SessionStore ----------------------------
(***************************************************************************)
(* Every ox process keeps the conversation of one session in memory and    *)
(* commits each write to the one shared database.  Two processes may hold  *)
(* the same session open, and the second of them to move the head forks.   *)
(*                                                                         *)
(* A write runs on a blocking thread with its session's mutex held and     *)
(* commits under BEGIN IMMEDIATE, so it is one step here: what it queues,  *)
(* the head check, the commit or its failure, and what the memory keeps.   *)
(* Liveness locks are held exactly by the processes with a saved session   *)
(* open; the lock files themselves are module SessionLocks.                *)
(***************************************************************************)
EXTENDS SessionRows

CONSTANTS
    Proc,       \* ox processes
    Results     \* the messages with nothing but tool results in them

ASSUME ResultsAssumption == Results \subseteq Msg

VARIABLES
    sess,       \* the sessions table, each row with its messages
    proc,       \* the SessionState each process holds
    parent      \* parent_id of every message written so far

vars == <<sess, proc, parent>>

-----------------------------------------------------------------------------
(***************************************************************************)
(* SessionState.  `mark` is the rollback point of the open turn, a         *)
(* Checkpoint.  `titling` holds while an AI title request the session      *)
(* spawned may still write: aborting it leaves a started write running.    *)
(* `stub` holds while the transcript in memory has the message in it that  *)
(* a resume put after bare tool results and that is stored nowhere.        *)
(***************************************************************************)
Checkpoints == [tip : MsgOrNull, count : Nat, seen : BOOLEAN]

States ==
    [open : BOOLEAN, id : Session \cup {None}, saved : BOOLEAN,
     base : MsgOrNull, tip : MsgOrNull, count : Nat, stub : BOOLEAN, seen : BOOLEAN,
     title : Titles, stopped : BOOLEAN,
     turn : BOOLEAN, mark : Checkpoints, titling : BOOLEAN]

NoMark == [tip |-> None, count |-> 0, seen |-> FALSE]

Off ==
    [open |-> FALSE, id |-> None, saved |-> FALSE, base |-> None, tip |-> None,
     count |-> 0, stub |-> FALSE, seen |-> FALSE, title |-> "none", stopped |-> FALSE,
     turn |-> FALSE, mark |-> NoMark, titling |-> FALSE]

Checkpoint(st) == [tip |-> st.tip, count |-> st.count, seen |-> st.seen]

Fresh(id) == [Off EXCEPT !.open = TRUE, !.id = id]

Extra(stub) == IF stub THEN 1 ELSE 0

\* Mutant: the messages are counted before the repair.
ResumedUnrepaired(s) ==
    [Fresh(s) EXCEPT !.saved = TRUE,
                     !.base  = sess[s].head,
                     !.tip   = sess[s].head,
                     !.count = Cardinality(Transcript(parent, sess[s])),
                     !.stub  = sess[s].head \in Results,
                     !.seen  = sess[s].head # None,
                     !.title = sess[s].title]

(***************************************************************************)
(* resume counts the messages that sanitize_resumed_messages leaves, and   *)
(* the next message chains from the stored head.  What this store holds    *)
(* was written by rounds, whose calls have their results, on chains that   *)
(* begin with a prompt or a compaction root.  So the repair drops nothing  *)
(* and puts nothing first; its one effect is the stub after a transcript   *)
(* that was cut off at bare tool results.  (LiveTranscript has all of it.) *)
(* first_user_prompt_seen holds for every chain that has a message.        *)
(***************************************************************************)
Resumed(s) ==
    LET cut == sess[s].head \in Results
    IN  [Fresh(s) EXCEPT !.saved = TRUE,
                         !.base  = sess[s].head,
                         !.tip   = sess[s].head,
                         !.count = Cardinality(Transcript(parent, sess[s])) + Extra(cut),
                         !.stub  = cut,
                         !.seen  = sess[s].head # None,
                         !.title = sess[s].title]

\* A random UUID: no row has it and no process holds it.  The ID of a
\* deleted session stands for a new one.
FreshIds == {s \in Session : ~sess[s].stored /\ \A p \in Proc : proc[p].id # s}

Holders(s) == {p \in Proc : proc[p].open /\ proc[p].saved /\ proc[p].id = s}

TypeOK ==
    /\ sess \in [Session -> Rows]
    /\ proc \in [Proc -> States]
    /\ parent \in Parents

Init ==
    /\ sess = [s \in Session |-> NoRow]
    /\ proc = [p \in Proc |-> Off]
    /\ parent = [m \in Msg |-> Unborn]

-----------------------------------------------------------------------------
(***************************************************************************)
(* flush and commit.  st is the state of process p after the operation     *)
(* queued batch b; par gives the parents, those of new messages included.  *)
(***************************************************************************)

\* Mutant: the base stays where the session was opened.
LandOnKeepingBase(p, st, b, par, s, row, readBack) ==
    LET landed == Landed(row, b, st.base, st.tip, st.count)
    IN  /\ Insertable(par, row, b.msgs)
        /\ sess' = [sess EXCEPT ![s] = landed]
        /\ proc' = [proc EXCEPT ![p] =
                      [st EXCEPT !.id    = s,
                                 !.saved = TRUE,
                                 !.base  = IF st.saved THEN @ ELSE st.tip,
                                 !.title = IF readBack THEN landed.title
                                                       ELSE @]]

\* The batch lands on `row` as session s, and the memory follows it: the base
\* moves with the head, and a batch with a title, or a fork, reads it back.
LandOn(p, st, b, par, s, row, readBack) ==
    LET landed == Landed(row, b, st.base, st.tip, st.count)
    IN  /\ Insertable(par, row, b.msgs)
        /\ sess' = [sess EXCEPT ![s] = landed]
        /\ proc' = [proc EXCEPT ![p] =
                      [st EXCEPT !.id    = s,
                                 !.saved = TRUE,
                                 !.base  = IF b.moves THEN st.tip ELSE @,
                                 !.title = IF readBack THEN landed.title
                                                       ELSE @]]

\* Nothing to commit: persistence stopped, so the records are discarded, or
\* the session is fresh and no message makes its row.
Skip(p, st, b) ==
    /\ st.stopped \/ (~st.saved /\ b.msgs = {})
    /\ proc' = [proc EXCEPT ![p] = st]
    /\ UNCHANGED sess

Writes(st, b) == ~st.stopped /\ (st.saved \/ b.msgs # {})

\* The first message of a fresh session inserts its row.
Create(p, st, b, par) ==
    /\ Writes(st, b) /\ ~st.saved
    /\ LandOn(p, st, b, par, st.id, Inserted(st.title, None), FALSE)

\* Mutant: the head is not compared with the base.
InPlaceUnchecked(p, st, b, par) ==
    /\ Writes(st, b) /\ st.saved
    /\ sess[st.id].stored
    /\ LandOn(p, st, b, par, st.id, sess[st.id], b.title # "none")

\* Without a head move, or with the head this process last saw.
InPlace(p, st, b, par) ==
    /\ Writes(st, b) /\ st.saved
    /\ sess[st.id].stored
    /\ b.moves => sess[st.id].head = st.base
    /\ LandOn(p, st, b, par, st.id, sess[st.id], b.title # "none")

\* Another process moved the head since.
Fork(p, st, b, par) ==
    /\ Writes(st, b) /\ st.saved
    /\ sess[st.id].stored
    /\ b.moves /\ sess[st.id].head # st.base
    /\ \E f \in FreshIds :
          LandOn(p, st, b, par, f,
                 ForkOf(par, st.id, sess[st.id], st.base), TRUE)

\* A full disk, an I/O error, a lock held past the busy timeout or a
\* constraint: the transaction rolls back and persistence stops for good.
Fail(p, st, b) ==
    /\ Writes(st, b)
    /\ proc' = [proc EXCEPT ![p] = [st EXCEPT !.stopped = TRUE]]
    /\ UNCHANGED sess

Flush(p, st, b, par) ==
    \/ Skip(p, st, b)
    \/ Create(p, st, b, par)
    \/ InPlace(p, st, b, par)
    \/ Fork(p, st, b, par)
    \/ Fail(p, st, b)

-----------------------------------------------------------------------------
(***************************************************************************)
(* Writes of a turn.  A new message chains from the tip.                   *)
(***************************************************************************)
New == {m \in Msg : parent[m] = Unborn}

\* New messages with text in them: prompts, replies, markers, summaries.
Spoken == New \ Results

\* Mutant: counts the wrong way.
ChainedDown(st, m) ==
    [st EXCEPT !.tip = m, !.count = @ - 1]

Chained(st, m) ==
    [st EXCEPT !.tip = m, !.count = @ + 1]

\* record_prompt, which opens a turn with its rollback point.  The first
\* prompt of the branch titles the session, unless the user did, and seeds
\* the AI title request.
Prompt(p, m) ==
    LET old    == proc[p]
        titles == ~old.seen /\ old.title # "user"
        par    == [parent EXCEPT ![m] = old.tip]
        st     == [Chained(old, m) EXCEPT
                      !.seen    = TRUE,
                      !.title   = IF titles THEN "prompt" ELSE @,
                      !.titling = @ \/ titles,
                      !.turn    = TRUE,
                      !.mark    = Checkpoint(old)]
        record == IF titles /\ old.saved THEN "prompt" ELSE "none"
    IN  /\ old.open /\ ~old.turn
        /\ parent' = par
        /\ Flush(p, st, Batch({m}, record, TRUE), par)

\* record_message: a reply, an interruption marker or a queued prompt.
Message(p, m) ==
    LET old == proc[p]
        par == [parent EXCEPT ![m] = old.tip]
    IN  /\ old.open /\ old.turn
        /\ parent' = par
        /\ Flush(p, Chained(old, m), Batch({m}, "none", TRUE), par)

\* record_round: the assistant message a and its tool results r, one commit.
\* The results may come with a text that tells a mode.
Round(p, a, r) ==
    LET old == proc[p]
        par == [parent EXCEPT ![a] = old.tip, ![r] = a]
    IN  /\ old.open /\ old.turn
        /\ a # r
        /\ parent' = par
        /\ Flush(p, Chained(Chained(old, a), r), Batch({a, r}, "none", TRUE),
                 par)

\* Mutant: the rollback point stays before the compacted messages.
CompactKeepingMark(p, m) ==
    LET old == proc[p]
        par == [parent EXCEPT ![m] = None]
        st  == [old EXCEPT !.tip = m, !.count = 1, !.stub = FALSE, !.seen = TRUE]
    IN  /\ old.open /\ old.count > 0
        /\ parent' = par
        /\ Flush(p, st, Batch({m}, "none", TRUE), par)

\* Mutant: the message count goes on from before the compaction.
CompactKeepingCount(p, m) ==
    LET old == proc[p]
        par == [parent EXCEPT ![m] = None]
        new == [old EXCEPT !.tip = m, !.count = @ + 1, !.stub = FALSE, !.seen = TRUE]
        st  == [new EXCEPT !.mark = IF old.turn THEN Checkpoint(new) ELSE @]
    IN  /\ old.open /\ old.count > 0
        /\ parent' = par
        /\ Flush(p, st, Batch({m}, "none", TRUE), par)

\* /compact between turns, or a compaction in the middle of one, which moves
\* the rollback point to the summary.  The root has no parent, takes effect
\* whether or not its commit lands, and replaces a stub with all before it.
Compact(p, m) ==
    LET old == proc[p]
        par == [parent EXCEPT ![m] = None]
        new == [old EXCEPT !.tip = m, !.count = 1, !.stub = FALSE, !.seen = TRUE]
        st  == [new EXCEPT !.mark = IF old.turn THEN Checkpoint(new) ELSE @]
    IN  /\ old.open /\ old.count > 0
        /\ parent' = par
        /\ Flush(p, st, Batch({m}, "none", TRUE), par)

\* A refused turn moves the head back to its rollback point and ends.
Rewind(p) ==
    LET old == proc[p]
        st  == [old EXCEPT !.tip   = old.mark.tip,
                           !.count = old.mark.count,
                           !.seen  = old.mark.seen,
                           !.turn  = FALSE,
                           !.mark  = NoMark]
    IN  /\ old.open /\ old.turn
        /\ UNCHANGED parent
        /\ Flush(p, st, Batch({}, "none", TRUE), parent)

EndTurn(p) ==
    /\ proc[p].open /\ proc[p].turn
    /\ proc' = [proc EXCEPT ![p] = [@ EXCEPT !.turn = FALSE, !.mark = NoMark]]
    /\ UNCHANGED <<sess, parent>>

-----------------------------------------------------------------------------
(***************************************************************************)
(* Titles and the archive flag                                             *)
(***************************************************************************)
SetTitle(p, st, title) ==
    Flush(p, [st EXCEPT !.title = title],
          Batch({}, IF st.saved THEN title ELSE "none", FALSE), parent)

\* /rename, an operation of an idle engine.
Rename(p) ==
    /\ proc[p].open /\ ~proc[p].turn
    /\ UNCHANGED parent
    /\ SetTitle(p, proc[p], "user")

\* append_ai_title, from the title task at any time after it was spawned.
AiTitle(p) ==
    LET st == [proc[p] EXCEPT !.titling = FALSE]
    IN  /\ proc[p].open /\ proc[p].titling
        /\ UNCHANGED parent
        /\ IF st.title = "user"
             THEN proc' = [proc EXCEPT ![p] = st] /\ UNCHANGED sess
             ELSE SetTitle(p, st, "ai")

\* /archive <prefix>, /unarchive <prefix> and the picker, from any process
\* that does not have the session live itself.
SetArchived(s, archive) ==
    /\ sess[s].stored /\ sess[s].archived # archive
    /\ \E p \in Proc : proc[p].open /\ proc[p].id # s
    /\ sess' = [sess EXCEPT ![s].archived = archive]
    /\ UNCHANGED <<proc, parent>>

-----------------------------------------------------------------------------
(***************************************************************************)
(* Opening and closing sessions                                            *)
(***************************************************************************)

\* A launch without a session to continue.
Start(p) ==
    /\ ~proc[p].open
    /\ \E f \in FreshIds : proc' = [proc EXCEPT ![p] = Fresh(f)]
    /\ UNCHANGED <<sess, parent>>

\* ox -c and ox -r: load the session and unarchive it.
StartResumed(p, s) ==
    /\ ~proc[p].open
    /\ sess[s].stored
    /\ proc' = [proc EXCEPT ![p] = Resumed(s)]
    /\ sess' = [sess EXCEPT ![s].archived = FALSE]
    /\ UNCHANGED parent

(***************************************************************************)
(* finalize: the file snapshots of the old session land while its head is  *)
(* still the base.  Its failure is reported and nothing else: the handle   *)
(* is gone.  `rows` is the table the old session is closed in.             *)
(***************************************************************************)
Finalized(rows, st) ==
    IF st.saved /\ ~st.stopped /\ rows[st.id].stored
      THEN [rows EXCEPT ![st.id] =
              Landed(@, [Batch({}, "none", FALSE) EXCEPT !.snapshots = TRUE],
                     st.base, st.tip, st.count)]
      ELSE rows

Idle(p) == proc[p].open /\ ~proc[p].turn

\* /clear.
Roll(p) ==
    /\ Idle(p)
    /\ \E f \in FreshIds : proc' = [proc EXCEPT ![p] = Fresh(f)]
    /\ sess' \in {sess, Finalized(sess, proc[p])}
    /\ UNCHANGED parent

\* /archive: the archive commits before the session is rolled away.
Archive(p) ==
    LET st == proc[p]
    IN  /\ Idle(p) /\ st.count > 0 /\ ~st.stopped
        /\ sess[st.id].stored
        /\ LET archived == [sess EXCEPT ![st.id].archived = TRUE]
           IN  sess' \in {archived, Finalized(archived, st)}
        /\ \E f \in FreshIds : proc' = [proc EXCEPT ![p] = Fresh(f)]
        /\ UNCHANGED parent

\* An archive that does not commit leaves the session open.
ArchiveFails(p) ==
    /\ Idle(p) /\ proc[p].count > 0 /\ ~proc[p].stopped
    /\ proc' = [proc EXCEPT ![p].stopped = TRUE]
    /\ UNCHANGED <<sess, parent>>

\* /resume <prefix>: the target is resumed first, then the old session closed.
RollInto(p, s) ==
    /\ Idle(p)
    /\ s # proc[p].id /\ sess[s].stored
    /\ proc' = [proc EXCEPT ![p] = Resumed(s)]
    /\ LET resumed == [sess EXCEPT ![s].archived = FALSE]
       IN  sess' \in {resumed, Finalized(resumed, proc[p])}
    /\ UNCHANGED parent

\* Shutdown finalizes the session once the turn in flight has ended.
Quit(p) ==
    /\ Idle(p)
    /\ proc' = [proc EXCEPT ![p] = Off]
    /\ sess' \in {sess, Finalized(sess, proc[p])}
    /\ UNCHANGED parent

\* The process dies between two commits.  The kernel drops its locks.
Crash(p) ==
    /\ proc[p].open
    /\ proc' = [proc EXCEPT ![p] = Off]
    /\ UNCHANGED <<sess, parent>>

\* /delete, refused while any process holds the session.
Delete(s) ==
    /\ sess[s].stored /\ Holders(s) = {}
    /\ \E p \in Proc : proc[p].open
    /\ sess' = [sess EXCEPT ![s] = NoRow]
    /\ UNCHANGED <<proc, parent>>

-----------------------------------------------------------------------------
Turn(p) ==
    \/ \E m \in Spoken : Prompt(p, m) \/ Message(p, m) \/ Compact(p, m)
    \/ \E a \in Spoken, r \in New : Round(p, a, r)
    \/ Rewind(p)
    \/ EndTurn(p)

Next ==
    \/ \E p \in Proc :
          \/ Turn(p)
          \/ Rename(p) \/ AiTitle(p)
          \/ Start(p) \/ Roll(p) \/ Archive(p) \/ ArchiveFails(p)
          \/ Quit(p) \/ Crash(p)
          \/ \E s \in Session : StartResumed(p, s) \/ RollInto(p, s)
    \/ \E s \in Session :
          Delete(s) \/ \E archive \in BOOLEAN : SetArchived(s, archive)

Spec == Init /\ [][Next]_vars
-----------------------------------------------------------------------------
(***************************************************************************)
(* Correctness                                                             *)
(***************************************************************************)
Writing(p) == proc[p].open /\ proc[p].saved /\ ~proc[p].stopped

\* The transcript process p holds: from its tip through every parent.
View(p) == Chain(parent, Msg, proc[p].tip)

\* Every stored message has its parent in the same session, and every head
\* names a stored message, so a walk from the head ends at a root.  A fork
\* that copied too little of its base chain would break it.
ChainsComplete ==
    \A s \in Session :
        /\ sess[s].head \in sess[s].msgs \cup {None}
        /\ \A m \in sess[s].msgs : parent[m] \in sess[s].msgs \cup {None}

\* While a process has a saved session open its row exists, however other
\* processes fork, roll and delete: the delete check and the lock agree.
LiveSessionStored == \A p \in Proc : proc[p].saved => sess[proc[p].id].stored

\* A process whose writes land has its whole transcript in its session, and
\* the head the next commit compares with is its own tip, so a resume from
\* that head reads exactly what the process shows.
ViewDurable ==
    \A p \in Proc : Writing(p) =>
        /\ proc[p].base = proc[p].tip
        /\ Chain(parent, sess[proc[p].id].msgs, proc[p].tip) = View(p)

\* The rollback point of an open turn stays on the chain of the tip, through
\* forks and compactions, so a refused turn can always be taken back.
RollbackOnChain ==
    \A p \in Proc : proc[p].open /\ proc[p].turn =>
        proc[p].mark.tip \in View(p) \cup {None}

\* A process whose writes land can be closed and resumed at any time, and its
\* open turn taken back, with nothing of its transcript missing.
StoreSafety ==
    TypeOK /\ ChainsComplete /\ LiveSessionStored /\ ViewDurable /\ RollbackOnChain

\* n counts chain C, or C and a stub that was shown after its tool results.
Counts(n, C) ==
    \/ n = Cardinality(C)
    \/ n = Cardinality(C) + 1 /\ C \cap Results # {}

\* A process counts the messages it shows, which are its chain and the stub a
\* resume gave it, after any rewinds, compactions and forks.  A session's
\* message_count is what a process that moved its head counted: it is never
\* less than the chain, and only a stub ever makes it more, by one.
CountsShown ==
    /\ \A p \in Proc : proc[p].count = Cardinality(View(p)) + Extra(proc[p].stub)
    /\ \A s \in Session : Counts(sess[s].count, Transcript(parent, sess[s]))

\* A message leaves a session's active branch only by a write of a process
\* that held it in memory, never unseen by the process that drops it.
NoUnseenDrop ==
    [][\A s \in Session :
          sess[s].stored /\ sess'[s].stored /\ sess'[s] # sess[s] =>
          \A m \in Transcript(parent, sess[s])
                  \ Transcript(parent', sess'[s]) :
              \E p \in Holders(s) :
                  m \in View(p) /\ proc'[p] # proc[p]]_vars

\* Once a title is the user's no prompt or AI title replaces it, in the
\* session or in a fork of it.
ManualTitleSticks ==
    [][\A s \in Session : sess'[s].stored =>
          /\ sess[s].stored /\ sess[s].title = "user"
                => sess'[s].title = "user"
          /\ LET source == sess'[s].forkedFrom
             IN  ~sess[s].stored /\ source # None
                   /\ sess[source].title = "user"
                   => sess'[s].title = "user"]_vars

\* File snapshots are saved only for the transcript the head names then: a
\* process that another one overtook never overwrites them.
SnapshotsDescribeHead ==
    [][\A s \in Session :
          sess'[s].stored /\ sess'[s].snap # sess[s].snap =>
              sess'[s].snap = sess'[s].head]_vars
-----------------------------------------------------------------------------
(***************************************************************************)
(* The store implements Conversations: a session's branch is the chain of  *)
(* its head, and a process is at its session while its writes land.        *)
(***************************************************************************)
Promised ==
    INSTANCE Conversations WITH
        exists  <- {s \in Session : sess[s].stored},
        branch  <- [s \in Session |-> Transcript(parent, sess[s])],
        at      <- [p \in Proc |-> IF Writing(p) THEN proc[p].id ELSE None],
        view    <- [p \in Proc |-> IF Writing(p) THEN View(p) ELSE {}]

\* The head check and the lazy fork together act as the compare-and-swap of
\* whole branches that Conversations states, although a commit compares one
\* message ID and every process and session names its branch by a tip.
ImplementsConversations == Promised!CSpec
=============================================================================
