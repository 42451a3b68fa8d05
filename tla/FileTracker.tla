---------------------------- MODULE FileTracker ----------------------------
(***************************************************************************)
(* The file tracker (crates/ox-core/src/file_tracker.rs) and the file      *)
(* tools it gates, for one file: what Read, Edit and Write calls record,   *)
(* the Read-before-Edit gate, a rewrite step by step with other programs   *)
(* changing the file between the steps, writes that outlive their          *)
(* interrupted call, and what happens to the record when a turn rolls      *)
(* back, the conversation is compacted, or the session ends, crashes and   *)
(* resumes.  A content is a text for each line; edits keep the line count. *)
(***************************************************************************)
EXTENDS Naturals, FiniteSets

CONSTANTS
    Text,         \* what a line may hold
    Absent,       \* the file does not exist
    NoEntry,      \* the tracker holds no entry of the file
    NoMark,       \* no turn is open
    MaxCalls,     \* bound: calls the model makes
    MaxForeign,   \* bound: changes other programs make
    MaxRuns       \* bound: times the session starts or resumes

Line    == {1, 2}
Content == [Line -> Text]
View    == (SUBSET Line) \ {{}}
Call    == 1 .. MaxCalls

ASSUME TrackerAssumption ==
    /\ Text # {} /\ Absent \notin Content
    /\ MaxCalls \in Nat /\ MaxForeign \in Nat /\ MaxRuns \in Nat \ {0}

VARIABLES
    disk,     \* the file: its content, or Absent
    entry,    \* FileTracker.by_path of the file
    talk,     \* what the conversation holds about the file
    draft,    \* `talk`, with the finished calls of the round in flight
    running,  \* the calls in flight
    cut,      \* the round was interrupted and waits for its writes
    mark,     \* the rollback point of the open turn
    saved,    \* the session in the store: conversation and file snapshot
    up,       \* the process: "down", "saving", or "stopped" after a failed write
    made,     \* number of calls made
    foreign,  \* number of changes other programs made
    runs,     \* number of starts
    author    \* history: the call that wrote the file last, 0 for none

fvars == <<disk, entry, talk, draft, running, cut, mark, saved, up, made,
           foreign, runs, author>>

Entry == [content : Content, view : View, source : {"read", "modify"}, call : Call]

(***************************************************************************)
(* The conversation, by what the model can know from it: the calls with a  *)
(* result in it, for each content the lines it tells, the lines Read       *)
(* results show, and the contents a Read answered with the stub.           *)
(***************************************************************************)
Talk == [calls : SUBSET Call, known : [Content -> SUBSET Line],
         shown : [Content -> SUBSET Line], stubs : SUBSET Content]

NoTalk == [calls |-> {}, known |-> [c \in Content |-> {}],
           shown |-> [c \in Content |-> {}], stubs |-> {}]

Running == [id : Call, op : {"read", "edit", "write", "create"},
            phase : {"open", "checked", "written"},
            held : Content \cup {Absent}, new : Content, view : View,
            steady : BOOLEAN]

ASSUME NullAssumption ==
    /\ NoEntry \notin Entry
    /\ NoMark \notin [talk : Talk, entry : Entry \cup {NoEntry}]

\* A call has its result.
Ended(t, id) == [t EXCEPT !.calls = @ \cup {id}]

\* A Read result shows lines `view` of `c`.
Shown(t, id, c, view) ==
    [Ended(t, id) EXCEPT !.known[c] = @ \cup view, !.shown[c] = @ \cup view]

Stubbed(t, id, c) == [Ended(t, id) EXCEPT !.stubs = @ \cup {c}]

\* The call rewrote lines `view` of `old` and left the others as they were.
Rewritten(t, id, old, new, view) ==
    [Ended(t, id) EXCEPT
        !.known[new] = @ \cup view \cup (IF old = Absent THEN {} ELSE t.known[old] \ view)]

-----------------------------------------------------------------------------
(***************************************************************************)
(* The tracker                                                             *)
(***************************************************************************)
Holds(c) == entry # NoEntry /\ entry.content = c

\* A full Read of content that Reads already showed in full.
CacheHit(c, view) ==
    Holds(c) /\ entry.source = "read" /\ entry.view = Line /\ view = Line

RecordRead(c, view, id) ==
    IF Holds(c)
      THEN [entry EXCEPT !.view   = @ \cup view,
                         !.call   = IF CacheHit(c, view) THEN @ ELSE id,
                         !.source = IF view = Line THEN "read" ELSE @]
      ELSE [content |-> c, view |-> view, source |-> "read", call |-> id]

\* An edit of content seen in full leaves the new content seen in full.
RecordModify(new, view, id) ==
    [content |-> new, source |-> "modify", call |-> id,
     view    |-> IF entry # NoEntry /\ entry.view = Line THEN Line ELSE view]

\* The Read-before-Edit gate.
Passes(op, c) == Holds(c) /\ (op = "write" => entry.view = Line)

-----------------------------------------------------------------------------
(***************************************************************************)
(* Calls.  Reads of one batch run together; an edit or a write runs alone. *)
(***************************************************************************)
Live == up # "down"

Admits(op) ==
    /\ Live /\ mark # NoMark /\ ~cut /\ made < MaxCalls
    /\ IF op = "read" THEN \A r \in running : r.op = "read" ELSE running = {}

Started(op, held, new, view) ==
    /\ Admits(op)
    /\ made'    = made + 1
    /\ running' = running \cup
         {[id |-> made + 1, op |-> op, phase |-> "open", held |-> held,
           new |-> new, view |-> view, steady |-> TRUE]}
    /\ UNCHANGED <<disk, entry, talk, draft, cut, mark, saved, up, foreign, runs, author>>

\* A Read takes the file's bytes.
Read == /\ disk # Absent
        /\ \E view \in View : Started("read", disk, disk, view)

\* It records what it shows, and returns that or the stub.
FinishRead(r) ==
    /\ r.op = "read"
    /\ entry' = RecordRead(r.held, r.view, r.id)
    /\ draft' = IF CacheHit(r.held, r.view) THEN Stubbed(draft, r.id, r.held)
                                            ELSE Shown(draft, r.id, r.held, r.view)
    /\ running' = running \ {r}
    /\ UNCHANGED <<disk, talk, cut, mark, saved, up, made, foreign, runs, author>>

\* An Edit passes the gate with the bytes it opened, and its write starts.
Edit == /\ disk # Absent
        /\ Passes("edit", disk)
        /\ \E l \in Line : \E t \in Text \ {disk[l]} :
              Started("edit", disk, [disk EXCEPT ![l] = t], {l})

Overwrite == /\ disk # Absent
             /\ Passes("write", disk)
             /\ \E new \in Content : Started("write", disk, new, Line)

Create == /\ disk = Absent
          /\ \E new \in Content : Started("create", Absent, new, Line)

\* The gate refuses the call, or it fails for a reason of its own: no such
\* file, a range past its end, text to replace that is not there.
RefuseCall ==
    /\ Admits("read")
    /\ made'  = made + 1
    /\ draft' = Ended(draft, made + 1)
    /\ UNCHANGED <<disk, entry, talk, running, cut, mark, saved, up, foreign, runs, author>>

\* The call ends without a record.
Failed(r) ==
    /\ running' = running \ {r}
    /\ draft'   = Ended(draft, r.id)
    /\ UNCHANGED <<entry, talk, cut, mark, saved, up, made, foreign, runs>>

Advanced(r, phase) ==
    /\ running' = (running \ {r}) \cup {[r EXCEPT !.phase = phase, !.steady = TRUE]}
    /\ UNCHANGED <<entry, talk, draft, cut, mark, saved, up, made, foreign, runs>>

\* Mutant: the rewrite does not read the file again.
RecheckSkipped(r) ==
    /\ r.op \in {"edit", "write"} /\ r.phase = "open" /\ disk # Absent
    /\ Advanced(r, "checked") /\ UNCHANGED <<disk, author>>

\* Another program may have put another file in the place of the one opened.
Replaced(r) == ~r.steady

\* Checked::rewrite reads the file again and refuses another content or file.
Recheck(r) ==
    /\ r.op \in {"edit", "write"} /\ r.phase = "open"
    /\ \/ disk = r.held /\ Advanced(r, "checked")
       \/ (disk # r.held \/ Replaced(r)) /\ Failed(r)
    /\ UNCHANGED <<disk, author>>

\* It then truncates the file and writes the new bytes.
Truncate(r) ==
    /\ r.op \in {"edit", "write"} /\ r.phase = "checked" /\ disk # Absent
    /\ disk' = r.new
    /\ author' = r.id
    /\ Advanced(r, "written")

\* The write fails halfway and leaves some content.  Or it goes to a file that
\* the path no longer names, as the last check finds.
TruncateFails(r) ==
    /\ r.op \in {"edit", "write"} /\ r.phase = "checked"
    /\ \/ disk # Absent /\ disk' \in Content /\ author' = 0
       \/ Replaced(r) /\ UNCHANGED <<disk, author>>
    /\ Failed(r)

\* A new file is opened exclusively.
CreateNew(r) ==
    /\ r.op = "create" /\ r.phase = "open"
    /\ \/ /\ disk = Absent /\ disk' = r.new /\ author' = r.id
          /\ Advanced(r, "written")
       \/ /\ disk = Absent /\ disk' \in Content /\ author' = 0
          /\ Failed(r)
       \/ /\ disk # Absent /\ UNCHANGED <<disk, author>>
          /\ Failed(r)

\* A rewrite checks that its file is there and holds its bytes, and the task
\* records them.
Verify(r) ==
    /\ r.phase = "written"
    /\ \/ /\ r.op = "create" \/ disk = r.new
          /\ entry'   = RecordModify(r.new, r.view, r.id)
          /\ draft'   = Rewritten(draft, r.id, r.held, r.new, r.view)
          /\ running' = running \ {r}
          /\ UNCHANGED <<talk, cut, mark, saved, up, made, foreign, runs>>
       \/ r.op # "create" /\ (disk # r.new \/ Replaced(r)) /\ Failed(r)
    /\ UNCHANGED <<disk, author>>

-----------------------------------------------------------------------------
(***************************************************************************)
(* Turns, rounds and the session                                           *)
(***************************************************************************)

\* drain_writes has returned and no call runs.
Drained == running = {}

\* The messages changed, in the store too until a write of it fails.
Kept(t) ==
    \/ up = "saving" /\ saved' = [saved EXCEPT !.talk = t] /\ UNCHANGED up
    \/ up' = "stopped" /\ UNCHANGED saved

BeginTurn ==
    /\ Live /\ mark = NoMark
    /\ mark' = [talk |-> talk, entry |-> entry]
    /\ UNCHANGED <<disk, entry, talk, draft, running, cut, saved, up, made, foreign, runs, author>>

\* Mutant: a write is dropped with its call.
InterruptDropsWrites ==
    /\ Live /\ ~cut /\ running # {}
    /\ cut'     = TRUE
    /\ running' = {}
    /\ draft'   = [draft EXCEPT !.calls = @ \cup {r.id : r \in running}]
    /\ UNCHANGED <<disk, entry, talk, mark, saved, up, made, foreign, runs, author>>

\* The user interrupts: reads are dropped, writes go on in their own task.
Interrupt ==
    /\ Live /\ ~cut /\ running # {}
    /\ cut'     = TRUE
    /\ running' = {r \in running : r.op # "read"}
    /\ draft'   = [draft EXCEPT !.calls = @ \cup {r.id : r \in running \ running'}]
    /\ UNCHANGED <<disk, entry, talk, mark, saved, up, made, foreign, runs, author>>

\* The round commits with a result for every call; an interrupted one ends the turn.
CommitRound ==
    /\ Live /\ Drained /\ (draft # talk \/ cut)
    /\ talk' = draft
    /\ Kept(draft)
    /\ cut'  = FALSE
    /\ mark' = IF cut THEN NoMark ELSE mark
    /\ UNCHANGED <<disk, entry, draft, running, made, foreign, runs, author>>

EndTurn ==
    /\ Live /\ mark # NoMark /\ draft = talk /\ running = {} /\ ~cut
    /\ mark' = NoMark
    /\ UNCHANGED <<disk, entry, talk, draft, running, cut, saved, up, made, foreign, runs, author>>

\* Mutant: a rolled back turn keeps what its calls recorded.
RollBackUnreset ==
    /\ Live /\ mark # NoMark /\ draft = talk /\ Drained
    /\ talk' = mark.talk /\ draft' = mark.talk /\ Kept(mark.talk)
    /\ mark' = NoMark
    /\ UNCHANGED <<disk, entry, running, cut, made, foreign, runs, author>>

\* The service refuses the turn.
RollBack ==
    /\ Live /\ mark # NoMark /\ draft = talk /\ Drained
    /\ talk' = mark.talk /\ draft' = mark.talk /\ Kept(mark.talk)
    /\ entry' = mark.entry
    /\ mark'  = NoMark
    /\ UNCHANGED <<disk, running, cut, made, foreign, runs, author>>

\* A compaction clears the record with the transcript.
Compact ==
    /\ Live /\ draft = talk /\ Drained /\ talk # NoTalk
    /\ talk' = NoTalk /\ draft' = NoTalk /\ Kept(NoTalk)
    /\ entry' = NoEntry
    /\ mark'  = IF mark = NoMark THEN NoMark ELSE [talk |-> NoTalk, entry |-> NoEntry]
    /\ UNCHANGED <<disk, running, cut, made, foreign, runs, author>>

Gone ==
    /\ up' = "down"
    /\ entry' = NoEntry /\ talk' = NoTalk /\ draft' = NoTalk
    /\ running' = {} /\ cut' = FALSE /\ mark' = NoMark
    /\ UNCHANGED <<made, foreign, runs>>

\* The snapshot lands with the messages, or not at all.
Quit ==
    /\ Live /\ mark = NoMark /\ draft = talk /\ Drained
    /\ saved' \in {saved} \cup
         (IF up = "saving" THEN {[talk |-> talk, entry |-> entry]} ELSE {})
    /\ Gone
    /\ UNCHANGED <<disk, author>>

\* A crash may catch a write after it truncated the file.
Crash ==
    /\ Live
    /\ \/ UNCHANGED disk
       \/ \E r \in running :
             /\ IF r.op = "create" THEN r.phase = "open" /\ disk = Absent
                                   ELSE r.phase = "checked" /\ disk # Absent
             /\ disk' \in Content
    /\ Gone
    /\ UNCHANGED <<saved, author>>

\* The call that recorded the snapshot still has its result.
Visible(e, t) == e.call \in t.calls

\* Resume keeps a snapshot the transcript shows and the disk still matches.
Resume ==
    /\ up = "down" /\ runs < MaxRuns
    /\ up' = "saving" /\ runs' = runs + 1
    /\ talk' = saved.talk /\ draft' = saved.talk
    /\ entry' = IF /\ saved.entry # NoEntry
                   /\ Visible(saved.entry, saved.talk)
                   /\ disk = saved.entry.content
                  THEN saved.entry ELSE NoEntry
    /\ author' = 0
    /\ UNCHANGED <<disk, running, cut, mark, saved, made, foreign>>

\* Another program changes the file: `bash`, the user's editor.
Foreign ==
    /\ foreign < MaxForeign
    /\ foreign' = foreign + 1
    /\ disk' \in (Content \cup {Absent}) \ {disk}
    /\ author' = 0
    /\ running' = {[r EXCEPT !.steady = FALSE] : r \in running}
    /\ UNCHANGED <<entry, talk, draft, cut, mark, saved, up, made, runs>>

-----------------------------------------------------------------------------
FInit ==
    /\ disk \in {[l \in Line |-> t] : t \in Text} \cup {Absent}
    /\ entry = NoEntry /\ talk = NoTalk /\ draft = NoTalk
    /\ running = {} /\ cut = FALSE /\ mark = NoMark
    /\ saved = [talk |-> NoTalk, entry |-> NoEntry]
    /\ up = "saving" /\ made = 0 /\ foreign = 0 /\ runs = 1 /\ author = 0

FNext ==
    \/ Read \/ Edit \/ Overwrite \/ Create \/ RefuseCall
    \/ \E r \in running :
          \/ FinishRead(r) \/ Recheck(r) \/ Truncate(r) \/ TruncateFails(r)
          \/ CreateNew(r) \/ Verify(r)
    \/ BeginTurn \/ Interrupt \/ CommitRound \/ EndTurn \/ RollBack \/ Compact
    \/ Quit \/ Crash \/ Resume \/ Foreign

FSpec == FInit /\ [][FNext]_fvars

-----------------------------------------------------------------------------
(***************************************************************************)
(* Properties                                                              *)
(***************************************************************************)
FTypeOK ==
    /\ disk \in Content \cup {Absent}
    /\ entry \in Entry \cup {NoEntry}
    /\ talk \in Talk /\ draft \in Talk
    /\ running \subseteq Running
    /\ cut \in BOOLEAN /\ up \in {"down", "saving", "stopped"}
    /\ mark = NoMark \/ (mark.talk \in Talk /\ mark.entry \in Entry \cup {NoEntry})
    /\ saved.talk \in Talk /\ saved.entry \in Entry \cup {NoEntry}
    /\ made \in 0 .. MaxCalls /\ foreign \in 0 .. MaxForeign /\ runs \in 1 .. MaxRuns
    /\ author \in 0 .. MaxCalls

\* The tracker never holds a line the conversation does not tell the model, so
\* that the gate never lets through an overwrite of lines nobody read, whatever
\* was interrupted, rolled back, compacted or lost in a crash before.
TrackedSeen == entry # NoEntry => entry.view \subseteq draft.known[entry.content]

\* A Read answers "already read" only if Read results the conversation still
\* holds show the content in full.
StubsBacked == \A c \in draft.stubs : draft.shown[c] = Line

\* After a call of the conversation wrote the file, and nobody else since, the
\* tracker knows what it wrote, also when the user interrupted the call: the
\* next Edit needs no new Read.
OwnWritesTracked ==
    running = {} /\ author # 0 /\ author \in draft.calls => Holds(disk)

\* What the tracker lets the model do, or spares it, is backed by what the
\* conversation still tells it, and no more than that is asked of the model.
TrackerBacked == FTypeOK /\ TrackedSeen /\ StubsBacked /\ OwnWritesTracked

\* A call replaces only content the conversation tells: every line of it for a
\* Write, part of it for an Edit.  A change another program makes between the
\* last check and the truncation is out of the code's hands.
OverwritesKnown ==
    [][\A r \in running : Truncate(r) /\ r.steady =>
          IF r.op = "write" THEN draft.known[disk] = Line ELSE draft.known[disk] # {}]_fvars
=============================================================================
