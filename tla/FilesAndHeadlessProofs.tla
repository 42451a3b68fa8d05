---------------------- MODULE FilesAndHeadlessProofs ----------------------
(***************************************************************************)
(* Proofs about FileTracker and HeadlessRun, which share no state.         *)
(*                                                                         *)
(* FileTracker, for any texts and any number of calls, changes by other    *)
(* programs and starts.  The tracker is right because entry and            *)
(* conversation travel in pairs: the one in memory, the rollback point and *)
(* the saved one.  The inductive invariant says of each pair that the      *)
(* entry holds no line its conversation does not tell, and of a rewrite in *)
(* flight what its gate checked, which holds until it records because it   *)
(* runs alone.                                                             *)
(*                                                                         *)
(* HeadlessRun, for any output formats and any number of pieces: what a    *)
(* finished run says of itself, in its status and in its result, is what   *)
(* happened.  The inductive invariant splits what the turn did between     *)
(* what the driver has read of it and the events on their way while the    *)
(* driver reads, and says what the driver knew when it left.               *)
(***************************************************************************)
EXTENDS FileTracker, HeadlessRun, TLAPS, SequenceTheorems

-----------------------------------------------------------------------------
(***************************************************************************)
(* Conversations                                                           *)
(***************************************************************************)

\* The conversation tells what the entry holds, and Read results show it when
\* the entry claims a Read.
Tracked(e, t) ==
    e # NoEntry =>
        /\ e.view \subseteq t.known[e.content]
        /\ e.source = "read" => e.view \subseteq t.shown[e.content]

\* That, for an entry of an earlier run: only if its call is still there.
Backed(e, t) == e # NoEntry /\ e.call \in t.calls => Tracked(e, t)

StubsShown(t) == \A c \in t.stubs : t.shown[c] = Line

\* Conversation t2 is t with the result of call id.
Grows(t, t2, id) ==
    /\ t2 \in Talk
    /\ t2.calls = t.calls \cup {id}
    /\ \A c \in Content : /\ t.known[c] \subseteq t2.known[c]
                          /\ t.shown[c] \subseteq t2.shown[c]
    /\ StubsShown(t) => StubsShown(t2)

LEMMA EndedGrows ==
    ASSUME NEW t \in Talk, NEW id \in Call
    PROVE  /\ Grows(t, Ended(t, id), id)
           /\ Ended(t, id).known = t.known /\ Ended(t, id).shown = t.shown
           /\ Ended(t, id).stubs = t.stubs
BY DEF Ended, Grows, Talk, StubsShown

LEMMA ShownGrows ==
    ASSUME NEW t \in Talk, NEW id \in Call, NEW c \in Content,
           NEW view \in View
    PROVE  /\ Grows(t, Shown(t, id, c, view), id)
           /\ Shown(t, id, c, view).known[c] = t.known[c] \cup view
           /\ Shown(t, id, c, view).shown[c] = t.shown[c] \cup view
<1> DEFINE e     == Ended(t, id)
           known == [e.known EXCEPT ![c] = @ \cup view]
           shown == [e.shown EXCEPT ![c] = @ \cup view]
           t2    == Shown(t, id, c, view)
<1>1. /\ e \in Talk /\ e.calls = t.calls \cup {id}
      /\ e.known = t.known /\ e.shown = t.shown /\ e.stubs = t.stubs
  BY EndedGrows DEF Grows
<1>2. t2 = [e EXCEPT !.known = known, !.shown = shown]
  BY DEF Shown
<1>3. view \subseteq Line
  BY DEF View
<1>4. /\ known \in [Content -> SUBSET Line] /\ shown \in [Content -> SUBSET Line]
      /\ \A d \in Content : /\ known[d] = IF d = c THEN t.known[d] \cup view
                                                   ELSE t.known[d]
                            /\ shown[d] = IF d = c THEN t.shown[d] \cup view
                                                   ELSE t.shown[d]
  <2>1. /\ e.known \in [Content -> SUBSET Line]
        /\ e.shown \in [Content -> SUBSET Line]
    BY <1>1 DEF Talk
  <2>2. QED
    BY <1>1, <1>3, <2>1
<1> HIDE DEF known, shown, e
<1>5. /\ t2 \in Talk /\ t2.calls = e.calls /\ t2.stubs = e.stubs
      /\ t2.known = known /\ t2.shown = shown
  BY <1>1, <1>2, <1>4 DEF Talk
<1>6. StubsShown(t) => StubsShown(t2)
  <2>1. SUFFICES ASSUME StubsShown(t), NEW d \in t.stubs
                 PROVE  shown[d] = Line
    BY <1>1, <1>5 DEF StubsShown
  <2>2. d \in Content /\ t.shown[d] = Line
    BY <2>1 DEF Talk, StubsShown
  <2>3. shown[d] = t.shown[d] \/ shown[d] = Line \cup view
    BY <1>4, <2>2
  <2>4. QED
    BY <1>3, <2>2, <2>3
<1>7. QED
  BY <1>1, <1>4, <1>5, <1>6 DEF Grows

LEMMA StubbedGrows ==
    ASSUME NEW t \in Talk, NEW id \in Call, NEW c \in Content,
           t.shown[c] = Line
    PROVE  /\ Grows(t, Stubbed(t, id, c), id)
           /\ Stubbed(t, id, c).known = t.known
           /\ Stubbed(t, id, c).shown = t.shown
<1> DEFINE e  == Ended(t, id)
           t2 == Stubbed(t, id, c)
<1>1. /\ e \in Talk /\ e.calls = t.calls \cup {id}
      /\ e.known = t.known /\ e.shown = t.shown /\ e.stubs = t.stubs
  BY EndedGrows DEF Grows
<1>2. t2 = [e EXCEPT !.stubs = e.stubs \cup {c}]
  BY DEF Stubbed
<1> HIDE DEF e
<1>3. /\ t2 \in Talk /\ t2.calls = e.calls /\ t2.stubs = e.stubs \cup {c}
      /\ t2.known = e.known /\ t2.shown = e.shown
  BY <1>1, <1>2 DEF Talk
<1>4. QED
  BY <1>1, <1>3 DEF Grows, StubsShown

LEMMA RewrittenGrows ==
    ASSUME NEW t \in Talk, NEW id \in Call, NEW old \in Content \cup {Absent},
           NEW new \in Content, NEW view \in View
    PROVE  /\ Grows(t, Rewritten(t, id, old, new, view), id)
           /\ view \subseteq Rewritten(t, id, old, new, view).known[new]
           /\ old # Absent => t.known[old] \subseteq
                                Rewritten(t, id, old, new, view).known[new]
<1> DEFINE e     == Ended(t, id)
           kept  == IF old = Absent THEN {} ELSE t.known[old] \ view
           known == [e.known EXCEPT ![new] = @ \cup view \cup kept]
           t2    == Rewritten(t, id, old, new, view)
<1>1. /\ e \in Talk /\ e.calls = t.calls \cup {id}
      /\ e.known = t.known /\ e.shown = t.shown /\ e.stubs = t.stubs
  BY EndedGrows DEF Grows
<1>2. t2 = [e EXCEPT !.known = known]
  BY DEF Rewritten
<1>3. view \subseteq Line /\ kept \subseteq Line
  BY DEF View, Talk
<1>4. /\ known \in [Content -> SUBSET Line]
      /\ \A d \in Content : known[d] = IF d = new THEN t.known[d] \cup view \cup kept
                                                  ELSE t.known[d]
  <2>1. e.known \in [Content -> SUBSET Line]
    BY <1>1 DEF Talk
  <2> HIDE DEF e, kept
  <2>2. QED
    BY <1>1, <1>3, <2>1
<1> HIDE DEF known, e
<1>5. /\ t2 \in Talk /\ t2.calls = e.calls /\ t2.stubs = e.stubs
      /\ t2.known = known /\ t2.shown = e.shown
  BY <1>1, <1>2, <1>4 DEF Talk
<1>6. QED
  BY <1>1, <1>4, <1>5 DEF Grows, StubsShown

LEMMA NoTalkEmpty ==
    /\ NoTalk \in Talk /\ NoTalk.calls = {} /\ NoTalk.stubs = {}
BY DEF NoTalk, Talk

LEMMA TrackedGrows ==
    ASSUME NEW e \in Entry \cup {NoEntry}, NEW t, NEW t2, NEW id,
           Grows(t, t2, id), Tracked(e, t)
    PROVE  Tracked(e, t2)
BY DEF Tracked, Grows, Entry

\* A conversation whose stubs are backed, whose calls are over and which backs
\* the entry e of the store.
SaneIn(t, e, n, R) ==
    /\ t \in Talk
    /\ StubsShown(t)
    /\ Backed(e, t)
    /\ \A id \in t.calls : id <= n /\ \A r \in R : r.id # id

\* Calls in flight that were so already, or began after n calls.
Began(R, n, R2) == \A r \in R2 : (\E q \in R : q.id = r.id) \/ r.id = n + 1

LEMMA SaneKept ==
    ASSUME NEW t, NEW e, NEW n \in Nat, NEW n2 \in Nat, n <= n2, NEW R, NEW R2,
           Began(R, n, R2), SaneIn(t, e, n, R)
    PROVE  SaneIn(t, e, n2, R2)
<1>1. SUFFICES ASSUME NEW id \in t.calls
               PROVE  id <= n2 /\ \A r \in R2 : r.id # id
  BY DEF SaneIn
<1>2. id <= n /\ id \in Nat /\ \A r \in R : r.id # id
  BY <1>1 DEF SaneIn, Talk, Call
<1>3. QED
  BY <1>2 DEF Began

LEMMA SaneGrown ==
    ASSUME NEW t, NEW t2, NEW e \in Entry \cup {NoEntry}, NEW n \in Nat,
           NEW n2 \in Nat, n <= n2, NEW R, NEW R2, NEW id \in Call, id <= n2,
           Began(R, n, R2), SaneIn(t, e, n, R), Grows(t, t2, id),
           e # NoEntry => e.call # id,
           \A r \in R2 : r.id # id
    PROVE  SaneIn(t2, e, n2, R2)
<1>1. SaneIn(t, e, n2, R2)
  BY SaneKept
<1>2. Backed(e, t2)
  BY TrackedGrows DEF SaneIn, Backed, Grows
<1>3. QED
  BY <1>1, <1>2 DEF SaneIn, Grows

LEMMA SaneEmpty ==
    ASSUME NEW e, NEW n, NEW R
    PROVE  SaneIn(NoTalk, e, n, R)
BY NoTalkEmpty DEF SaneIn, StubsShown, Backed

-----------------------------------------------------------------------------
(***************************************************************************)
(* The invariant                                                           *)
(***************************************************************************)
Marks == [talk : Talk, entry : Entry \cup {NoEntry}]

Typed == FTypeOK /\ saved \in Marks /\ mark \in Marks \cup {NoMark}

\* Every conversation that is or may become the current one.
Sane(t) == SaneIn(t, saved.entry, made, running)
Talking == /\ Sane(talk) /\ Sane(draft) /\ Sane(saved.talk)
           /\ mark # NoMark => Sane(mark.talk)

\* An entry travels with a conversation that tells its lines.
Paired == /\ Tracked(entry, draft)
          /\ mark # NoMark => Tracked(mark.entry, mark.talk)

\* Calls run, and rounds have results of their own, only in a turn.
Quiet ==
    /\ Live /\ mark = NoMark => draft = talk /\ running = {}
    /\ ~Live => /\ running = {} /\ draft = NoTalk /\ talk = NoTalk
                /\ entry = NoEntry /\ mark = NoMark

Numbered ==
    /\ \A r \in running : \A q \in running : r.id = q.id => r = q
    /\ \A r \in running : r.id <= made
    /\ \A r \in running : saved.entry # NoEntry => saved.entry.call # r.id
    /\ saved.entry # NoEntry => saved.entry.call <= made
    /\ entry # NoEntry => entry.call <= made
    /\ mark # NoMark /\ mark.entry # NoEntry => mark.entry.call <= made
    /\ author <= made
    /\ \A r \in running : author = r.id => r.phase = "written"

\* What holds of a call in flight, given the file, the record and the calls.
Vouched(r, d, e, a, R) ==
    /\ r.op = "read" => r.phase = "open" /\ r.held # Absent
    /\ r.op # "read" => R = {r}
    /\ r.op \in {"edit", "write"} => /\ e # NoEntry /\ e.content = r.held
                                     /\ r.held # Absent
    /\ r.op = "write" => e.view = Line
    /\ r.op = "create" => /\ r.view = Line /\ r.held = Absent
                          /\ r.phase # "checked"
    /\ r.op = "read" /\ a # 0 => r.held = d
    /\ r.phase = "checked" /\ r.steady => d = r.held
    /\ r.phase = "written" /\ a # 0 => a = r.id /\ d = r.new /\ r.steady

Alone == \A r \in running : Vouched(r, disk, entry, author, running)

\* The file as a call of the conversation, or of its rollback point, wrote it.
Authors == Live /\ author # 0 =>
    /\ author \in draft.calls => Holds(disk)
    /\ mark # NoMark /\ author \in mark.talk.calls =>
         mark.entry # NoEntry /\ mark.entry.content = disk

FInv == Typed /\ Talking /\ Paired /\ Quiet /\ Numbered /\ Alone /\ Authors

LEMMA InitInv == FInit => FInv
<1>1. SUFFICES ASSUME FInit PROVE FInv
  OBVIOUS
<1>2. Typed
  <2>1. \A t \in Text : [l \in Line |-> t] \in Content
    BY DEF Content
  <2>2. saved \in Marks /\ saved.talk = NoTalk /\ saved.entry = NoEntry
    BY <1>1, NoTalkEmpty DEF FInit, Marks
  <2>3. disk \in Content \cup {Absent}
    BY <1>1, <2>1 DEF FInit
  <2>4. /\ made \in 0 .. MaxCalls /\ foreign \in 0 .. MaxForeign
        /\ runs \in 1 .. MaxRuns /\ author \in 0 .. MaxCalls
    BY <1>1, TrackerAssumption DEF FInit
  <2>5. /\ cut \in BOOLEAN /\ up \in {"down", "saving", "stopped"}
        /\ running \subseteq Running /\ mark = NoMark
        /\ talk \in Talk /\ draft \in Talk /\ entry \in Entry \cup {NoEntry}
    BY <1>1, NoTalkEmpty DEF FInit
  <2>6. QED
    BY <2>2, <2>3, <2>4, <2>5, NoTalkEmpty DEF Typed, FTypeOK
<1>3. Talking
  BY <1>1, SaneEmpty DEF FInit, Talking, Sane
<1>4. QED
  BY <1>1, <1>2, <1>3 DEF FInit, FInv, Paired, Tracked, Quiet, Numbered, Alone,
                          Authors, Live

-----------------------------------------------------------------------------
(***************************************************************************)
(* Calls                                                                   *)
(***************************************************************************)

\* What a call has when it starts.
Passed(op, held, view) ==
    /\ op = "read" => held = disk /\ held # Absent
    /\ op \in {"edit", "write"} => Holds(held) /\ held # Absent
    /\ op = "write" => entry.view = Line
    /\ op = "create" => view = Line /\ held = Absent

LEMMA StartedInv ==
    ASSUME FInv, NEW op \in {"read", "edit", "write", "create"},
           NEW held \in Content \cup {Absent}, NEW new \in Content,
           NEW view \in View, Started(op, held, new, view),
           Passed(op, held, view)
    PROVE  FInv'
<1> DEFINE c == [id |-> made + 1, op |-> op, phase |-> "open", held |-> held,
                 new |-> new, view |-> view, steady |-> TRUE]
<1>1. /\ made \in Nat /\ made' = made + 1 /\ made' \in 0 .. MaxCalls
      /\ made + 1 \in Call
      /\ running' = running \cup {c} /\ running \subseteq Running
      /\ op # "read" => running = {}
      /\ \A r \in running : r.op = "read" \/ op # "read"
      /\ mark # NoMark /\ Live
  BY TrackerAssumption DEF FInv, Typed, FTypeOK, Started, Admits, Call
<1>2. /\ c \in Running /\ c.id = made + 1 /\ c.op = op /\ c.phase = "open"
      /\ c.held = held /\ c.view = view
  BY <1>1 DEF Running
<1> HIDE DEF c
<1>3. UNCHANGED <<disk, entry, talk, draft, cut, mark, saved, up, foreign, runs,
                  author>>
  BY DEF Started
<1>4. Typed'
  BY <1>1, <1>2, <1>3 DEF FInv, Typed, FTypeOK
<1>5. Talking'
  <2>1. Began(running, made, running')
    BY <1>1, <1>2 DEF Began
  <2>2. QED
    BY <1>1, <1>3, <2>1, SaneKept DEF FInv, Talking, Sane
<1>6. Paired' /\ Quiet' /\ Authors'
  BY <1>1, <1>3 DEF FInv, Paired, Tracked, Quiet, Authors, Holds, Live
<1>7. Numbered'
  BY <1>1, <1>2, <1>3, TrackerAssumption
     DEF FInv, Typed, FTypeOK, Marks, Entry, Numbered, Running, Call
<1>8. Alone'
  <2>1. \A r \in running : Vouched(r, disk, entry, author, running')
    BY <1>1 DEF FInv, Alone, Vouched
  <2>2. Vouched(c, disk, entry, author, running')
    BY <1>1, <1>2 DEF Vouched, Passed, Holds
  <2>3. QED
    BY <1>1, <1>3, <2>1, <2>2 DEF Alone
<1>9. QED
  BY <1>4, <1>5, <1>6, <1>7, <1>8 DEF FInv

\* The result of a call keeps every conversation sane.
LEMMA TalkingEnds ==
    ASSUME FInv, NEW r \in running, running' = running \ {r},
           Grows(draft, draft', r.id), UNCHANGED <<talk, mark, saved, made>>
    PROVE  Talking'
<1>1. /\ made \in Nat /\ running \subseteq Running
      /\ saved.entry \in Entry \cup {NoEntry}
  BY DEF FInv, Typed, FTypeOK
<1>2. Began(running, made, running')
  BY DEF Began
<1>3. /\ r.id \in Call /\ r.id <= made
      /\ saved.entry # NoEntry => saved.entry.call # r.id
      /\ \A q \in running' : q.id # r.id
  BY <1>1 DEF FInv, Numbered, Running
<1>4. Sane(draft)'
  <2>1. SaneIn(draft, saved.entry, made, running)
    BY DEF FInv, Talking, Sane
  <2>2. SaneIn(draft', saved.entry, made, running')
    BY <1>1, <1>2, <1>3, <2>1, SaneGrown
  <2>3. QED
    BY <2>2 DEF Sane
<1>5. QED
  BY <1>1, <1>2, <1>4, SaneKept DEF FInv, Talking, Sane

LEMMA FinishReadInv ==
    ASSUME FInv, NEW r \in running, FinishRead(r)
    PROVE  FInv'
<1> DEFINE hit == CacheHit(r.held, r.view)
<1>1. /\ r.op = "read" /\ running' = running \ {r} /\ r \in Running
      /\ UNCHANGED <<disk, talk, cut, mark, saved, up, made, foreign, runs, author>>
  BY DEF FinishRead, FInv, Typed, FTypeOK
<1>2. /\ r.id \in Call /\ r.id <= made /\ r.held \in Content /\ r.view \in View
      /\ r.view \subseteq Line /\ r.phase = "open" /\ author # r.id
      /\ author # 0 => r.held = disk
  BY <1>1 DEF FInv, Numbered, Alone, Vouched, Running, View
<1>3. /\ draft \in Talk /\ entry \in Entry \cup {NoEntry} /\ Tracked(entry, draft)
  BY DEF FInv, Typed, FTypeOK, Paired
<1>4. hit => /\ entry # NoEntry /\ entry.content = r.held /\ entry.view = Line
             /\ entry.source = "read" /\ r.view = Line
             /\ draft.known[r.held] = Line /\ draft.shown[r.held] = Line
  BY <1>2, <1>3 DEF CacheHit, Holds, Tracked, Talk
<1>5. /\ Grows(draft, draft', r.id)
      /\ draft'.known[r.held] = draft.known[r.held] \cup r.view
      /\ draft'.shown[r.held] = draft.shown[r.held] \cup r.view
  <2>1. CASE hit
    <3>1. draft' = Stubbed(draft, r.id, r.held)
      BY <2>1 DEF FinishRead
    <3>2. QED
      BY <1>2, <1>3, <1>4, <2>1, <3>1, StubbedGrows
  <2>2. CASE ~hit
    <3>1. draft' = Shown(draft, r.id, r.held, r.view)
      BY <2>2 DEF FinishRead
    <3>2. QED
      BY <1>2, <1>3, <3>1, ShownGrows
  <2>3. QED
    BY <2>1, <2>2
<1>6. /\ entry' \in Entry /\ entry'.content = r.held
      /\ entry'.call = r.id \/ (entry # NoEntry /\ entry'.call = entry.call)
      /\ Tracked(entry', draft')
  <2>1. entry' = RecordRead(r.held, r.view, r.id)
    BY DEF FinishRead
  <2>2. CASE Holds(r.held)
    <3>1. /\ entry \in Entry /\ entry.content = r.held
          /\ entry.view \subseteq draft.known[r.held]
          /\ entry.source = "read" => entry.view \subseteq draft.shown[r.held]
      BY <1>3, <2>2 DEF Holds, Tracked
    <3>2. entry' = [entry EXCEPT !.view   = entry.view \cup r.view,
                                 !.call   = IF hit THEN entry.call ELSE r.id,
                                 !.source = IF r.view = Line THEN "read"
                                                             ELSE entry.source]
      BY <2>1, <2>2 DEF RecordRead
    <3> HIDE DEF hit
    <3>3. /\ entry' \in Entry /\ entry'.content = r.held
          /\ entry'.view = entry.view \cup r.view
          /\ entry'.call = r.id \/ entry'.call = entry.call
          /\ entry'.source = "read" => r.view = Line \/ entry.source = "read"
      BY <1>2, <3>1, <3>2 DEF Entry, View
    <3>4. Tracked(entry', draft')
      <4>1. entry.view \subseteq Line /\ draft.shown[r.held] \subseteq Line
        BY <1>2, <1>3, <3>1 DEF Entry, View, Talk
      <4>2. QED
        BY <1>2, <1>5, <3>1, <3>3, <4>1 DEF Tracked
    <3>5. QED
      BY <2>2, <3>3, <3>4 DEF Holds
  <2>3. CASE ~Holds(r.held)
    <3>1. entry' = [content |-> r.held, view |-> r.view, source |-> "read",
                    call |-> r.id]
      BY <2>1, <2>3 DEF RecordRead
    <3>2. QED
      BY <1>2, <1>5, <3>1 DEF Entry, Tracked
  <2>4. QED
    BY <2>2, <2>3
<1> HIDE DEF hit
<1>7. Typed'
  BY <1>1, <1>5, <1>6 DEF FInv, Typed, FTypeOK, Grows
<1>8. Talking'
  BY <1>1, <1>5, TalkingEnds
<1>9. Paired'
  BY <1>1, <1>6 DEF FInv, Paired
<1>10. Quiet'
  BY <1>1 DEF FInv, Quiet, Live
<1>11. Numbered'
  BY <1>1, <1>2, <1>6 DEF FInv, Numbered
<1>12. Alone'
  <2>1. \A q \in running' : q.op = "read"
    BY <1>1 DEF FInv, Alone, Vouched
  <2>2. QED
    BY <1>1, <2>1 DEF FInv, Alone, Vouched
<1>13. Authors'
  <2>1. author' # 0 => Holds(disk)'
    BY <1>1, <1>2, <1>6, NullAssumption DEF Holds
  <2>2. QED
    BY <1>1, <2>1 DEF FInv, Authors, Live
<1>14. QED
  BY <1>7, <1>8, <1>9, <1>10, <1>11, <1>12, <1>13 DEF FInv

\* Another result in a conversation: what it wrote has its record there.
LEMMA FailedInv ==
    ASSUME FInv, NEW r \in running, r.op # "read", Failed(r),
           \/ disk' \in Content /\ author' = 0
           \/ UNCHANGED <<disk, author>> /\ author # r.id
    PROVE  FInv'
<1>1. /\ running = {r} /\ running' = {} /\ running' = running \ {r}
      /\ draft' = Ended(draft, r.id)
      /\ UNCHANGED <<entry, talk, cut, mark, saved, up, made, foreign, runs>>
      /\ Live /\ mark # NoMark
  BY DEF Failed, FInv, Alone, Vouched, Quiet
<1>2. /\ r.id \in Call /\ draft \in Talk /\ entry \in Entry \cup {NoEntry}
      /\ author' = 0 \/ (author' = author /\ disk' = disk /\ author # r.id)
      /\ disk' \in Content \cup {Absent} /\ author' \in 0 .. MaxCalls
  BY TrackerAssumption DEF FInv, Typed, FTypeOK, Running
<1>3. Grows(draft, draft', r.id)
  BY <1>1, <1>2, EndedGrows
<1>4. Typed'
  BY <1>1, <1>2, <1>3 DEF FInv, Typed, FTypeOK, Grows
<1>5. Talking'
  BY <1>1, <1>3, TalkingEnds
<1>6. Paired'
  BY <1>1, <1>2, <1>3, TrackedGrows DEF FInv, Paired
<1>7. Quiet' /\ Alone'
  BY <1>1 DEF FInv, Quiet, Alone, Live
<1>8. Numbered'
  BY <1>1, <1>2, TrackerAssumption DEF FInv, Typed, FTypeOK, Numbered
<1>9. Authors'
  BY <1>1, <1>2, <1>3 DEF FInv, Authors, Live, Holds, Grows
<1>10. QED
  BY <1>4, <1>5, <1>6, <1>7, <1>8, <1>9 DEF FInv

LEMMA AdvancedInv ==
    ASSUME FInv, NEW r \in running, r.op # "read", r.phase # "written",
           NEW phase \in {"checked", "written"}, Advanced(r, phase),
           phase = "checked" => (/\ r.op # "create" /\ disk = r.held
                                 /\ UNCHANGED <<disk, author>>),
           phase = "written" => disk' = r.new /\ author' = r.id
    PROVE  FInv'
<1> DEFINE r2 == [r EXCEPT !.phase = phase, !.steady = TRUE]
<1>1. /\ running = {r} /\ r \in Running
      /\ UNCHANGED <<entry, talk, draft, cut, mark, saved, up, made, foreign, runs>>
      /\ Live /\ mark # NoMark /\ r.id <= made /\ author # r.id
  BY DEF Advanced, FInv, Typed, FTypeOK, Alone, Vouched, Quiet, Numbered
<1>2. /\ r2 \in Running /\ r2.id = r.id /\ r2.op = r.op /\ r2.held = r.held
      /\ r2.new = r.new /\ r2.view = r.view /\ r2.phase = phase /\ r2.steady = TRUE
      /\ r.id \in Call /\ r.new \in Content
  BY <1>1 DEF Running
<1>3. running' = {r2}
  BY <1>1 DEF Advanced
<1> HIDE DEF r2
<1>4. /\ disk' \in Content \cup {Absent} /\ author' \in 0 .. MaxCalls
      /\ author' = r.id \/ (author' = author /\ disk' = disk)
      /\ author' = r.id => phase = "written"
  BY <1>1, <1>2 DEF FInv, Typed, FTypeOK, Call
<1>5. Typed'
  BY <1>1, <1>2, <1>3, <1>4 DEF FInv, Typed, FTypeOK
<1>6. Talking'
  <2>1. Began(running, made, running')
    BY <1>1, <1>2, <1>3 DEF Began
  <2>2. made \in Nat
    BY DEF FInv, Typed, FTypeOK
  <2>3. QED
    BY <1>1, <2>1, <2>2, SaneKept DEF FInv, Talking, Sane
<1>7. Paired' /\ Quiet'
  BY <1>1 DEF FInv, Paired, Quiet, Live
<1>8. Numbered'
  BY <1>1, <1>2, <1>3, <1>4 DEF FInv, Numbered
<1>9. Alone'
  <2>1. Vouched(r, disk, entry, author, running)
    BY DEF FInv, Alone
  <2>2. Vouched(r2, disk', entry, author', {r2})
    BY <1>1, <1>2, <1>4, <2>1 DEF Vouched
  <2>3. QED
    BY <1>1, <1>3, <2>2 DEF Alone
<1>10. Authors'
  <2>1. r.id \notin draft.calls /\ r.id \notin mark.talk.calls
    BY <1>1 DEF FInv, Talking, Sane, SaneIn
  <2>2. QED
    BY <1>1, <1>4, <2>1 DEF FInv, Authors, Live, Holds
<1>11. QED
  BY <1>5, <1>6, <1>7, <1>8, <1>9, <1>10 DEF FInv

LEMMA RecordedInv ==
    ASSUME FInv, NEW r \in running, r.phase = "written",
           r.op = "create" \/ disk = r.new,
           entry' = RecordModify(r.new, r.view, r.id),
           draft' = Rewritten(draft, r.id, r.held, r.new, r.view),
           running' = running \ {r},
           UNCHANGED <<disk, talk, cut, mark, saved, up, made, foreign, runs, author>>
    PROVE  FInv'
<1>1. /\ running = {r} /\ running' = {} /\ r \in Running
      /\ Live /\ mark # NoMark /\ r.id <= made
      /\ author # 0 => author = r.id /\ disk = r.new
      /\ Vouched(r, disk, entry, author, running) /\ r.op # "read"
  BY DEF FInv, Typed, FTypeOK, Alone, Vouched, Quiet, Numbered
<1>2. /\ r.id \in Call /\ r.new \in Content /\ r.view \in View
      /\ r.held \in Content \cup {Absent} /\ r.view \subseteq Line
      /\ draft \in Talk /\ entry \in Entry \cup {NoEntry} /\ Tracked(entry, draft)
  BY <1>1 DEF FInv, Typed, FTypeOK, Running, Paired, View
<1>3. /\ Grows(draft, draft', r.id)
      /\ r.view \subseteq draft'.known[r.new]
      /\ r.held # Absent => draft.known[r.held] \subseteq draft'.known[r.new]
  BY <1>2, RewrittenGrows
<1>4. /\ entry' \in Entry /\ entry'.content = r.new /\ entry'.call = r.id
      /\ entry'.source = "modify"
      /\ entry'.view = IF entry # NoEntry /\ entry.view = Line THEN Line ELSE r.view
  BY <1>2 DEF RecordModify, Entry, View
<1>5. Tracked(entry', draft')
  <2>1. CASE r.op = "create"
    BY <1>1, <1>2, <1>3, <1>4, <2>1 DEF Vouched, Tracked
  <2>2. CASE r.op # "create"
    <3>1. /\ entry # NoEntry /\ entry.content = r.held /\ r.held # Absent
      BY <1>1, <1>2, <2>2 DEF Vouched, Running
    <3>2. entry.view \subseteq draft'.known[r.new]
      BY <1>2, <1>3, <3>1 DEF Tracked
    <3>3. QED
      BY <1>3, <1>4, <3>2 DEF Tracked
  <2>3. QED
    BY <2>1, <2>2
<1>6. Typed'
  BY <1>1, <1>3, <1>4 DEF FInv, Typed, FTypeOK, Grows
<1>7. Talking'
  BY <1>3, TalkingEnds
<1>8. Paired'
  BY <1>5 DEF FInv, Paired
<1>9. Quiet' /\ Alone'
  BY <1>1 DEF FInv, Quiet, Alone, Live
<1>10. Numbered'
  BY <1>1, <1>4 DEF FInv, Numbered
<1>11. Authors'
  <2>1. author' # 0 => Holds(disk)'
    BY <1>1, <1>4, NullAssumption DEF Holds
  <2>2. QED
    BY <2>1 DEF FInv, Authors, Live
<1>12. QED
  BY <1>6, <1>7, <1>8, <1>9, <1>10, <1>11 DEF FInv

\* Every step of a call in flight.
LEMMA CallInv ==
    ASSUME FInv, NEW r \in running,
           \/ FinishRead(r) \/ Recheck(r) \/ Truncate(r) \/ TruncateFails(r)
           \/ CreateNew(r) \/ Verify(r)
    PROVE  FInv'
<1> USE DEF FInv, Numbered
<1>1. /\ author = r.id => r.phase = "written"
      /\ r \in Running /\ disk \in Content \cup {Absent}
      /\ Vouched(r, disk, entry, author, running)
      /\ r.phase \in {"open", "checked", "written"}
      /\ r.op \in {"read", "edit", "write", "create"}
  BY DEF Typed, FTypeOK, Alone, Running
<1> HIDE DEF FInv, Numbered
<1>2. CASE FinishRead(r)
  BY <1>2, FinishReadInv
<1>3. CASE Recheck(r)
  <2>1. CASE disk = r.held /\ Advanced(r, "checked")
    BY <1>3, <2>1, AdvancedInv DEF Recheck
  <2>2. CASE Failed(r)
    BY <1>1, <1>3, <2>2, FailedInv DEF Recheck
  <2>3. QED
    BY <1>3, <2>1, <2>2 DEF Recheck
<1>4. CASE Truncate(r)
  BY <1>1, <1>4, AdvancedInv DEF Truncate
<1>5. CASE TruncateFails(r)
  BY <1>1, <1>5, FailedInv DEF TruncateFails
<1>6. CASE CreateNew(r)
  <2>1. r.op # "read" /\ r.phase # "written" /\ author # r.id
    BY <1>1, <1>6 DEF CreateNew
  <2>2. CASE /\ Failed(r)
             /\ \/ disk' \in Content /\ author' = 0
                \/ UNCHANGED <<disk, author>>
    BY <2>1, <2>2, FailedInv
  <2>3. CASE Advanced(r, "written") /\ disk' = r.new /\ author' = r.id
    BY <2>1, <2>3, AdvancedInv
  <2>4. QED
    BY <1>6, <2>2, <2>3 DEF CreateNew
<1>7. CASE Verify(r)
  <2>1. r.op # "read"
    BY <1>1, <1>7 DEF Verify, Vouched
  <2>2. CASE /\ r.op # "create" /\ (disk # r.new \/ Replaced(r)) /\ Failed(r)
    <3>1. author # r.id
      <4>1. r.id # 0
        BY <1>1 DEF Running, Call
      <4>2. QED
        BY <1>1, <1>7, <2>2, <4>1 DEF Verify, Vouched, Replaced
    <3>2. QED
      BY <1>7, <2>1, <2>2, <3>1, FailedInv DEF Verify
  <2>3. CASE ~(/\ r.op # "create" /\ (disk # r.new \/ Replaced(r)) /\ Failed(r))
    <3>1. /\ r.phase = "written"
          /\ r.op = "create" \/ disk = r.new
          /\ entry'   = RecordModify(r.new, r.view, r.id)
          /\ draft'   = Rewritten(draft, r.id, r.held, r.new, r.view)
          /\ running' = running \ {r}
          /\ UNCHANGED <<disk, talk, cut, mark, saved, up, made, foreign, runs,
                         author>>
      BY <1>7, <2>3 DEF Verify
    <3>2. QED
      BY <3>1, RecordedInv
  <2>4. QED
    BY <2>2, <2>3
<1>8. QED
  BY <1>2, <1>3, <1>4, <1>5, <1>6, <1>7

-----------------------------------------------------------------------------
(***************************************************************************)
(* Turns, rounds, the session and other programs                           *)
(***************************************************************************)
LEMMA RefuseCallInv == FInv /\ RefuseCall => FInv'
<1>1. SUFFICES ASSUME FInv, RefuseCall PROVE FInv'
  OBVIOUS
<1>2. /\ made \in Nat /\ made' = made + 1 /\ made' \in 0 .. MaxCalls
      /\ made + 1 \in Call /\ draft' = Ended(draft, made + 1)
      /\ mark # NoMark /\ Live /\ draft \in Talk
      /\ saved.entry \in Entry \cup {NoEntry} /\ entry \in Entry \cup {NoEntry}
      /\ UNCHANGED <<disk, entry, talk, running, cut, mark, saved, up, foreign,
                     runs, author>>
  BY <1>1, TrackerAssumption DEF FInv, Typed, FTypeOK, RefuseCall, Admits, Call
<1>3. Grows(draft, draft', made + 1)
  BY <1>2, EndedGrows
<1>4. Typed'
  BY <1>1, <1>2, <1>3 DEF FInv, Typed, FTypeOK, Grows
<1>5. Talking'
  <2>1. Began(running, made, running)
    BY DEF Began
  <2>2. /\ saved.entry # NoEntry => saved.entry.call # made + 1
        /\ \A r \in running : r.id # made + 1
    BY <1>1, <1>2 DEF FInv, Typed, FTypeOK, Numbered, Running, Call, Entry
  <2>3. SaneIn(draft, saved.entry, made, running)
    BY <1>1 DEF FInv, Talking, Sane
  <2>4. SaneIn(draft', saved.entry, made', running)
    BY <1>2, <1>3, <2>1, <2>2, <2>3, SaneGrown
  <2>5. QED
    BY <1>1, <1>2, <2>1, <2>4, SaneKept DEF FInv, Talking, Sane
<1>6. Paired'
  BY <1>1, <1>2, <1>3, TrackedGrows DEF FInv, Paired
<1>7. Quiet' /\ Alone'
  BY <1>1, <1>2 DEF FInv, Quiet, Alone, Live
<1>8. Numbered'
  BY <1>1, <1>2 DEF FInv, Typed, FTypeOK, Marks, Entry, Numbered, Running, Call
<1>9. Authors'
  <2>1. author # made + 1
    BY <1>1, <1>2 DEF FInv, Typed, FTypeOK, Numbered
  <2>2. QED
    BY <1>1, <1>2, <1>3, <2>1 DEF FInv, Authors, Live, Holds, Grows
<1>10. QED
  BY <1>4, <1>5, <1>6, <1>7, <1>8, <1>9 DEF FInv

LEMMA BeginTurnInv == FInv /\ BeginTurn => FInv'
<1>1. SUFFICES ASSUME FInv, BeginTurn PROVE FInv'
  OBVIOUS
<1>2. /\ mark' = [talk |-> talk, entry |-> entry] /\ Live
      /\ talk = draft /\ running = {}
      /\ talk \in Talk /\ entry \in Entry \cup {NoEntry}
      /\ UNCHANGED <<disk, entry, talk, draft, running, cut, saved, up, made,
                     foreign, runs, author>>
  BY <1>1 DEF FInv, Typed, FTypeOK, Quiet, BeginTurn
<1>3. mark' \in Marks /\ mark'.talk = talk /\ mark'.entry = entry /\ mark' # NoMark
  <2>1. mark' \in Marks /\ mark'.talk = talk /\ mark'.entry = entry
    BY <1>2 DEF Marks
  <2>2. QED
    BY <2>1, NullAssumption DEF Marks
<1>4. Typed'
  BY <1>1, <1>2, <1>3 DEF FInv, Typed, FTypeOK
<1>5. Talking'
  BY <1>1, <1>2, <1>3 DEF FInv, Talking, Sane
<1>6. Paired' /\ Quiet' /\ Numbered' /\ Alone' /\ Authors'
  BY <1>1, <1>2, <1>3
     DEF FInv, Paired, Quiet, Numbered, Alone, Authors, Live, Holds
<1>7. QED
  BY <1>4, <1>5, <1>6 DEF FInv

LEMMA InterruptInv == FInv /\ Interrupt => FInv'
<1>1. SUFFICES ASSUME FInv, Interrupt PROVE FInv'
  OBVIOUS
<1> DEFINE dropped == {r.id : r \in running \ running'}
<1>2. /\ running' = {r \in running : r.op # "read"} /\ running' \subseteq running
      /\ draft' = [draft EXCEPT !.calls = draft.calls \cup dropped]
      /\ running # {} /\ Live /\ mark # NoMark /\ cut' = TRUE
      /\ UNCHANGED <<disk, entry, talk, mark, saved, up, made, foreign, runs, author>>
  BY <1>1 DEF FInv, Quiet, Interrupt
<1>3. \A id \in dropped : /\ id \in Call /\ id <= made
                          /\ \A r \in running' : r.id # id
                          /\ saved.entry # NoEntry => saved.entry.call # id
                          /\ id # author
  <2>1. \A r \in running \ running' : r.op = "read" /\ r.phase = "open"
    BY <1>1, <1>2 DEF FInv, Alone, Vouched
  <2>2. QED
    BY <1>1, <1>2, <2>1 DEF FInv, Typed, FTypeOK, Numbered, Running
<1> HIDE DEF dropped
<1>4. /\ draft' \in Talk /\ draft'.calls = draft.calls \cup dropped
      /\ draft'.known = draft.known /\ draft'.shown = draft.shown
      /\ draft'.stubs = draft.stubs
  BY <1>1, <1>2, <1>3 DEF FInv, Typed, FTypeOK, Talk
<1>5. Typed'
  BY <1>1, <1>2, <1>4 DEF FInv, Typed, FTypeOK
<1>6. Talking'
  <2>1. Began(running, made, running') /\ made \in Nat
    BY <1>1, <1>2 DEF Began, FInv, Typed, FTypeOK
  <2>2. Sane(draft)'
    <3>1. SaneIn(draft, saved.entry, made, running')
      BY <1>1, <2>1, SaneKept DEF FInv, Talking, Sane
    <3>2. QED
      BY <1>2, <1>3, <1>4, <3>1 DEF Sane, SaneIn, StubsShown, Backed, Tracked
  <2>3. QED
    BY <1>1, <1>2, <2>1, <2>2, SaneKept DEF FInv, Talking, Sane
<1>7. Paired' /\ Quiet' /\ Numbered'
  BY <1>1, <1>2, <1>4 DEF FInv, Paired, Tracked, Quiet, Numbered, Live
<1>8. Alone'
  BY <1>1, <1>2 DEF FInv, Alone, Vouched
<1>9. Authors'
  BY <1>1, <1>2, <1>3, <1>4 DEF FInv, Authors, Live, Holds
<1>10. QED
  BY <1>5, <1>6, <1>7, <1>8, <1>9 DEF FInv

\* Messages the session keeps, or fails to: the saved entry stays.
LEMMA KeptMarks ==
    ASSUME Typed, NEW t \in Talk, Kept(t), Live
    PROVE  /\ saved' \in Marks /\ saved'.entry = saved.entry
           /\ saved'.talk = saved.talk \/ saved'.talk = t
           /\ Live' /\ up' \in {"down", "saving", "stopped"}
BY DEF Typed, FTypeOK, Marks, Kept, Live

LEMMA CommitRoundInv == FInv /\ CommitRound => FInv'
<1>1. SUFFICES ASSUME FInv, CommitRound PROVE FInv'
  OBVIOUS
<1>2. /\ Live /\ running = {} /\ talk' = draft /\ Kept(draft) /\ draft \in Talk
      /\ cut' = FALSE /\ mark' \in {mark, NoMark}
      /\ UNCHANGED <<disk, entry, draft, running, made, foreign, runs, author>>
  BY <1>1 DEF FInv, Typed, FTypeOK, CommitRound, Drained
<1>3. /\ saved' \in Marks /\ saved'.entry = saved.entry /\ Live'
      /\ saved'.talk = saved.talk \/ saved'.talk = draft
      /\ up' \in {"down", "saving", "stopped"}
  BY <1>1, <1>2, KeptMarks DEF FInv
<1>4. Typed'
  BY <1>1, <1>2, <1>3 DEF FInv, Typed, FTypeOK, Marks
<1>5. Talking'
  BY <1>1, <1>2, <1>3 DEF FInv, Talking, Sane
<1>6. Paired' /\ Quiet' /\ Numbered' /\ Alone' /\ Authors'
  BY <1>1, <1>2, <1>3 DEF FInv, Paired, Quiet, Numbered, Alone, Authors, Holds
<1>7. QED
  BY <1>4, <1>5, <1>6 DEF FInv

LEMMA EndTurnInv == FInv /\ EndTurn => FInv'
<1>1. SUFFICES ASSUME FInv, EndTurn PROVE FInv'
  OBVIOUS
<1>2. /\ Live /\ mark' = NoMark /\ draft = talk /\ running = {}
      /\ UNCHANGED <<disk, entry, talk, draft, running, cut, saved, up, made,
                     foreign, runs, author>>
  BY <1>1 DEF EndTurn
<1>3. Typed'
  BY <1>1, <1>2 DEF FInv, Typed, FTypeOK
<1>4. Talking'
  BY <1>1, <1>2 DEF FInv, Talking, Sane
<1>5. Paired' /\ Quiet' /\ Numbered' /\ Alone' /\ Authors'
  BY <1>1, <1>2 DEF FInv, Paired, Quiet, Numbered, Alone, Authors, Holds, Live
<1>6. QED
  BY <1>3, <1>4, <1>5 DEF FInv

LEMMA RollBackInv == FInv /\ RollBack => FInv'
<1>1. SUFFICES ASSUME FInv, RollBack PROVE FInv'
  OBVIOUS
<1>2. /\ Live /\ running = {} /\ mark # NoMark /\ mark \in Marks
      /\ talk' = mark.talk /\ draft' = mark.talk /\ Kept(mark.talk)
      /\ mark.talk \in Talk /\ mark.entry \in Entry \cup {NoEntry}
      /\ entry' = mark.entry /\ mark' = NoMark
      /\ UNCHANGED <<disk, running, cut, made, foreign, runs, author>>
  BY <1>1 DEF FInv, Typed, FTypeOK, Marks, RollBack, Drained
<1>3. /\ saved' \in Marks /\ saved'.entry = saved.entry /\ Live'
      /\ saved'.talk = saved.talk \/ saved'.talk = mark.talk
      /\ up' \in {"down", "saving", "stopped"}
  BY <1>1, <1>2, KeptMarks DEF FInv
<1>4. Typed'
  BY <1>1, <1>2, <1>3 DEF FInv, Typed, FTypeOK, Marks
<1>5. Talking'
  BY <1>1, <1>2, <1>3 DEF FInv, Talking, Sane
<1>6. Paired' /\ Quiet' /\ Numbered' /\ Alone' /\ Authors'
  BY <1>1, <1>2, <1>3 DEF FInv, Paired, Quiet, Numbered, Alone, Authors, Holds
<1>7. QED
  BY <1>4, <1>5, <1>6 DEF FInv

LEMMA CompactInv == FInv /\ Compact => FInv'
<1>1. SUFFICES ASSUME FInv, Compact PROVE FInv'
  OBVIOUS
<1>2. /\ Live /\ running = {} /\ entry' = NoEntry
      /\ talk' = NoTalk /\ draft' = NoTalk /\ Kept(NoTalk)
      /\ NoTalk \in Talk /\ NoTalk.calls = {}
      /\ mark' = IF mark = NoMark THEN NoMark
                                  ELSE [talk |-> NoTalk, entry |-> NoEntry]
      /\ UNCHANGED <<disk, running, cut, made, foreign, runs, author>>
  BY <1>1, NoTalkEmpty DEF Compact, Drained
<1>3. /\ saved' \in Marks /\ saved'.entry = saved.entry /\ Live'
      /\ saved'.talk = saved.talk \/ saved'.talk = NoTalk
      /\ up' \in {"down", "saving", "stopped"}
  BY <1>1, <1>2, KeptMarks DEF FInv
<1>4. /\ mark' = NoMark \/ (/\ mark' \in Marks /\ mark'.talk = NoTalk
                            /\ mark'.entry = NoEntry)
      /\ mark' = NoMark => mark = NoMark
  <2>1. LET m == [talk |-> NoTalk, entry |-> NoEntry]
        IN  m \in Marks /\ m.talk = NoTalk /\ m.entry = NoEntry /\ m # NoMark
    BY <1>2, NullAssumption DEF Marks
  <2>2. QED
    BY <1>2, <2>1
<1>5. Typed'
  BY <1>1, <1>2, <1>3, <1>4 DEF FInv, Typed, FTypeOK, Marks
<1>6. Talking'
  BY <1>1, <1>2, <1>3, <1>4, SaneEmpty DEF FInv, Talking, Sane
<1>7. Paired' /\ Quiet' /\ Numbered' /\ Alone' /\ Authors'
  BY <1>1, <1>2, <1>3, <1>4
     DEF FInv, Paired, Tracked, Quiet, Numbered, Alone, Authors, Holds
<1>8. QED
  BY <1>5, <1>6, <1>7 DEF FInv

\* A process that ends leaves the pair it saved.
LEMMA GoneInv ==
    ASSUME FInv, Gone, saved' \in Marks, disk' \in Content \cup {Absent},
           author' = author, Backed(saved'.entry, saved'.talk),
           \/ saved' = saved
           \/ running = {} /\ saved'.talk = talk /\ saved'.entry = entry
    PROVE  FInv'
<1>1. /\ up' = "down" /\ entry' = NoEntry /\ talk' = NoTalk /\ draft' = NoTalk
      /\ running' = {} /\ cut' = FALSE /\ mark' = NoMark
      /\ UNCHANGED <<made, foreign, runs>> /\ NoTalk \in Talk
  BY NoTalkEmpty DEF Gone
<1>2. Typed'
  BY <1>1 DEF FInv, Typed, FTypeOK, Marks
<1>3. Talking'
  <2>1. SaneIn(saved'.talk, saved'.entry, made, {})
    <3>1. /\ SaneIn(saved.talk, saved.entry, made, running)
          /\ SaneIn(talk, saved.entry, made, running)
      BY DEF FInv, Talking, Sane
    <3>2. QED
      BY <3>1 DEF SaneIn
  <2>2. QED
    BY <1>1, <2>1, SaneEmpty DEF Talking, Sane
<1>4. Paired' /\ Quiet' /\ Alone' /\ Authors'
  BY <1>1 DEF Paired, Tracked, Quiet, Alone, Authors, Live
<1>5. Numbered'
  BY <1>1 DEF FInv, Numbered
<1>6. QED
  BY <1>2, <1>3, <1>4, <1>5 DEF FInv

LEMMA QuitInv == FInv /\ Quit => FInv'
<1>1. SUFFICES ASSUME FInv, Quit PROVE FInv'
  OBVIOUS
<1>2. /\ Gone /\ UNCHANGED <<disk, author>> /\ running = {} /\ draft = talk
      /\ saved' = saved \/ saved' = [talk |-> talk, entry |-> entry]
      /\ saved \in Marks /\ talk \in Talk /\ entry \in Entry \cup {NoEntry}
      /\ disk \in Content \cup {Absent}
  BY <1>1 DEF FInv, Typed, FTypeOK, Quit, Drained
<1>3. CASE saved' = saved
  <2>1. Backed(saved'.entry, saved'.talk)
    BY <1>1, <1>3 DEF FInv, Talking, Sane, SaneIn
  <2>2. QED
    BY <1>1, <1>2, <1>3, <2>1, GoneInv
<1>4. CASE saved' = [talk |-> talk, entry |-> entry]
  <2>1. saved' \in Marks /\ saved'.talk = talk /\ saved'.entry = entry
    BY <1>2, <1>4 DEF Marks
  <2>2. Backed(saved'.entry, saved'.talk)
    BY <1>1, <1>2, <2>1 DEF FInv, Paired, Backed
  <2>3. QED
    BY <1>1, <1>2, <2>1, <2>2, GoneInv
<1>5. QED
  BY <1>2, <1>3, <1>4

LEMMA CrashInv == FInv /\ Crash => FInv'
<1>1. SUFFICES ASSUME FInv, Crash PROVE FInv'
  OBVIOUS
<1>2. /\ Gone /\ saved' = saved /\ author' = author /\ saved \in Marks
      /\ disk' \in Content \cup {Absent} /\ Backed(saved.entry, saved.talk)
  BY <1>1 DEF FInv, Typed, FTypeOK, Talking, Sane, SaneIn, Crash
<1>3. QED
  BY <1>1, <1>2, GoneInv

LEMMA ResumeInv == FInv /\ Resume => FInv'
<1>1. SUFFICES ASSUME FInv, Resume PROVE FInv'
  OBVIOUS
<1>2. /\ up' = "saving" /\ runs' = runs + 1 /\ runs' \in 1 .. MaxRuns
      /\ talk' = saved.talk /\ draft' = saved.talk /\ author' = 0
      /\ mark = NoMark /\ running = {}
      /\ saved \in Marks /\ saved.talk \in Talk
      /\ entry' = NoEntry \/ (/\ entry' = saved.entry
                              /\ saved.entry # NoEntry
                              /\ saved.entry.call \in saved.talk.calls)
      /\ UNCHANGED <<disk, running, cut, mark, saved, made, foreign>>
  BY <1>1, TrackerAssumption DEF FInv, Typed, FTypeOK, Quiet, Live, Resume, Visible
<1>3. Typed'
  BY <1>1, <1>2, TrackerAssumption DEF FInv, Typed, FTypeOK
<1>4. Talking'
  BY <1>1, <1>2 DEF FInv, Talking, Sane
<1>5. Paired'
  <2>1. Backed(saved.entry, saved.talk)
    BY <1>1 DEF FInv, Talking, Sane, SaneIn
  <2>2. QED
    BY <1>2, <2>1 DEF Paired, Backed, Tracked
<1>6. Quiet' /\ Numbered' /\ Alone' /\ Authors'
  BY <1>1, <1>2 DEF FInv, Typed, FTypeOK, Quiet, Numbered, Alone, Authors, Live
<1>7. QED
  BY <1>3, <1>4, <1>5, <1>6 DEF FInv

LEMMA ForeignInv == FInv /\ Foreign => FInv'
<1>1. SUFFICES ASSUME FInv, Foreign PROVE FInv'
  OBVIOUS
<1> DEFINE moved(r) == [r EXCEPT !.steady = FALSE]
<1>2. /\ foreign' \in 0 .. MaxForeign /\ disk' \in Content \cup {Absent}
      /\ author' = 0 /\ running' = {moved(r) : r \in running}
      /\ UNCHANGED <<entry, talk, draft, cut, mark, saved, up, made, runs>>
  BY <1>1, TrackerAssumption DEF FInv, Typed, FTypeOK, Foreign
<1>3. \A r \in running :
         /\ r \in Running /\ moved(r) \in Running /\ moved(r).id = r.id
         /\ moved(r).op = r.op /\ moved(r).phase = r.phase
         /\ moved(r).held = r.held /\ moved(r).view = r.view
         /\ moved(r).new = r.new /\ moved(r).steady = FALSE
  BY <1>1 DEF FInv, Typed, FTypeOK, Running
<1> HIDE DEF moved
<1>4. Typed'
  BY <1>1, <1>2, <1>3, TrackerAssumption DEF FInv, Typed, FTypeOK
<1>5. Talking'
  <2>1. Began(running, made, running') /\ made \in Nat
    BY <1>1, <1>2, <1>3 DEF Began, FInv, Typed, FTypeOK
  <2>2. QED
    BY <1>1, <1>2, <2>1, SaneKept DEF FInv, Talking, Sane
<1>6. Paired' /\ Quiet' /\ Authors'
  BY <1>1, <1>2 DEF FInv, Paired, Quiet, Authors, Live
<1>7. Numbered'
  <2>1. \A r \in running : r.id # 0
    BY <1>3 DEF Running, Call
  <2>2. QED
    BY <1>1, <1>2, <1>3, <2>1 DEF FInv, Typed, FTypeOK, Numbered
<1>8. Alone'
  <2>1. SUFFICES ASSUME NEW r \in running
                 PROVE  Vouched(moved(r), disk', entry, 0, running')
    BY <1>2 DEF Alone
  <2>2. Vouched(r, disk, entry, author, running)
    BY <1>1 DEF FInv, Alone
  <2>3. r.op # "read" => running' = {moved(r)}
    BY <1>2, <2>2 DEF Vouched
  <2>4. QED
    BY <1>3, <2>2, <2>3 DEF Vouched
<1>9. QED
  BY <1>4, <1>5, <1>6, <1>7, <1>8 DEF FInv

LEMMA StepInv == FInv /\ [FNext]_fvars => FInv'
<1>1. SUFFICES ASSUME FInv, [FNext]_fvars PROVE FInv'
  OBVIOUS
<1>2. /\ disk \in Content \cup {Absent}
      /\ disk # Absent => disk \in Content
      /\ Line \in View /\ \A l \in Line : {l} \in View
  <2>1. disk \in Content \cup {Absent}
    BY <1>1 DEF FInv, Typed, FTypeOK
  <2>2. /\ Line # {} /\ Line \subseteq Line
        /\ \A l \in Line : {l} # {} /\ {l} \subseteq Line
    BY DEF Line
  <2>3. QED
    BY <2>1, <2>2 DEF View
<1>3. CASE Read
  <2>1. PICK view \in View : Started("read", disk, disk, view)
    BY <1>3 DEF Read
  <2>2. QED
    BY <1>1, <1>2, <1>3, <2>1, StartedInv DEF Read, Passed
<1>4. CASE Edit
  <2>1. PICK l \in Line, t \in Text :
           Started("edit", disk, [disk EXCEPT ![l] = t], {l})
    BY <1>4 DEF Edit
  <2>2. [disk EXCEPT ![l] = t] \in Content
    BY <1>2, <1>4 DEF Edit, Content
  <2>3. QED
    BY <1>1, <1>2, <1>4, <2>1, <2>2, StartedInv DEF Edit, Passes, Passed
<1>5. CASE Overwrite
  <2>1. PICK new \in Content : Started("write", disk, new, Line)
    BY <1>5 DEF Overwrite
  <2>2. QED
    BY <1>1, <1>2, <1>5, <2>1, StartedInv DEF Overwrite, Passes, Passed
<1>6. CASE Create
  <2>1. PICK new \in Content : Started("create", Absent, new, Line)
    BY <1>6 DEF Create
  <2>2. QED
    BY <1>1, <1>2, <2>1, StartedInv DEF Passed
<1>7. CASE \E r \in running :
             \/ FinishRead(r) \/ Recheck(r) \/ Truncate(r) \/ TruncateFails(r)
             \/ CreateNew(r) \/ Verify(r)
  BY <1>1, <1>7, CallInv
<1>8. CASE RefuseCall \/ BeginTurn \/ Interrupt \/ CommitRound \/ EndTurn \/ RollBack
  BY <1>1, <1>8, RefuseCallInv, BeginTurnInv, InterruptInv, CommitRoundInv,
     EndTurnInv, RollBackInv
<1>9. CASE Compact \/ Quit \/ Crash \/ Resume \/ Foreign
  BY <1>1, <1>9, CompactInv, QuitInv, CrashInv, ResumeInv, ForeignInv
<1>10. CASE UNCHANGED fvars
  BY <1>1, <1>10 DEF fvars, FInv, Typed, FTypeOK, Talking, Sane, Paired, Quiet,
                     Numbered, Alone, Authors, Live, Holds
<1>11. QED
  BY <1>1, <1>3, <1>4, <1>5, <1>6, <1>7, <1>8, <1>9, <1>10 DEF FNext

-----------------------------------------------------------------------------
\* In every state of every run the record is backed by the conversation: no
\* line is held that the model was not told, every "already read" stub points
\* to a full text it still has, and what its own call wrote last is tracked.
THEOREM TrackerAlwaysBacked == FSpec => []TrackerBacked
<1>1. FInv => TrackerBacked
  <2>1. SUFFICES ASSUME FInv PROVE TrackerBacked
    OBVIOUS
  <2>2. FTypeOK /\ TrackedSeen
    BY <2>1 DEF FInv, Typed, Paired, Tracked, TrackedSeen
  <2>3. StubsBacked
    BY <2>1 DEF FInv, Talking, Sane, SaneIn, StubsShown, StubsBacked
  <2>4. OwnWritesTracked
    <3>1. ~Live => author \notin draft.calls
      BY <2>1, NoTalkEmpty DEF FInv, Quiet
    <3>2. QED
      BY <2>1, <3>1 DEF FInv, Authors, OwnWritesTracked
  <2>5. QED
    BY <2>2, <2>3, <2>4 DEF TrackerBacked
<1>2. QED
  BY InitInv, StepInv, <1>1, PTL DEF FSpec

\* A call that truncates the file, with nobody else writing in between, replaces
\* only content the conversation tells: all of it when it writes the whole file.
THEOREM OverwritesAlwaysKnown == FSpec => OverwritesKnown
<1> DEFINE Known == \A r \in running : Truncate(r) /\ r.steady =>
                      IF r.op = "write" THEN draft.known[disk] = Line
                                        ELSE draft.known[disk] # {}
<1>1. FInv /\ [FNext]_fvars => [Known]_fvars
  <2>1. SUFFICES ASSUME FInv, NEW r \in running, Truncate(r), r.steady
                 PROVE  IF r.op = "write" THEN draft.known[disk] = Line
                                          ELSE draft.known[disk] # {}
    OBVIOUS
  <2>2. /\ r.op \in {"edit", "write"} /\ r.phase = "checked" /\ disk # Absent
        /\ disk \in Content /\ disk = r.held
        /\ entry # NoEntry /\ entry.content = disk /\ entry \in Entry
        /\ r.op = "write" => entry.view = Line
    BY <2>1 DEF Truncate, FInv, Typed, FTypeOK, Alone, Vouched
  <2>3. entry.view \subseteq draft.known[disk]
    BY <2>1, <2>2 DEF FInv, Paired, Tracked
  <2>4. entry.view # {}
    BY <2>2 DEF Entry, View
  <2>5. draft.known[disk] \subseteq Line
    BY <2>1, <2>2 DEF FInv, Typed, FTypeOK, Talk
  <2>6. QED
    BY <2>2, <2>3, <2>4, <2>5
<1>2. QED
  BY InitInv, StepInv, <1>1, PTL DEF FSpec, OverwritesKnown

-----------------------------------------------------------------------------
(***************************************************************************)
(* HeadlessRun: what its events say                                        *)
(***************************************************************************)
Says(e)    == e.type = "token"
EndsTurn(e) == e.type = "ended" /\ e.op = "prompt"
EndsOther(e) == e.type = "ended" /\ e.op = "interrupt"

\* A piece is numbered by its place in what the turn said.
PiecesNumbered == \A i \in DOMAIN loop.said : loop.said[i] \in {i, ToolCall}

\* The prompt is sent once, before anything else.
PromptFirst ==
  \A i \in DOMAIN opline :
    opline[i] = "prompt" => i = 1 /\ loop.at \in {"idle", "panicked"} /\ loop.end = "none"

\* A turn ends in one of these.
LoopEnds == loop.end \in {"none", "completed", "cancelled", "failed"}

Stages ==
  /\ LoopEnds
  /\ hungup <=> driver.at # "running"
  /\ loop.at \in {"stopping", "stopped"} => hungup
  /\ loop.at = "turn" => loop.end = "none"
  /\ driver.at = "running" => driver.exit = "none"
  /\ driver.at = "exited" => EngineGone
  /\ driver.exit = "signal" => signalled

(* While the driver reads: of a line of events, what was printed and what was kept for the result, *)
(* the engine's loop and what it saved.                                                           *)

\* The end of the turn is told last, and as it was.
EndTold(line, lp) ==
  \A i \in DOMAIN line :
    EndsTurn(line[i]) =>
      /\ lp.at # "turn" /\ lp.end = line[i].end /\ lp.end # "none"
      /\ \A j \in DOMAIN line : j > i => EndsOther(line[j])

Mentions(line, kind) == \E i \in DOMAIN line : line[i].type = kind

FailureTold(line, told, lp) == told.error \/ Mentions(line, "turnFailed") <=> lp.end = "failed"
ForkTold(line, told, sv)    == told.forked \/ Mentions(line, "forked") <=> sv.forked

\* The pieces `read` and then those of `line` are in the order they were said.
Rises(read, line, said) ==
  /\ \A i \in DOMAIN read : i \in Nat /\ read[i] \in Nat /\ read[i] <= Len(said)
  /\ \A i \in DOMAIN line : Says(line[i]) => line[i].piece \in Nat /\ line[i].piece <= Len(said)
  /\ \A i, j \in DOMAIN read : i < j => read[i] < read[j]
  /\ \A j \in DOMAIN line : Says(line[j]) => \A i \in DOMAIN read : read[i] < line[j].piece
  /\ \A i, j \in DOMAIN line :
       i < j /\ Says(line[i]) /\ Says(line[j]) => line[i].piece < line[j].piece

PieceOf(read, line, piece) ==
  \/ \E i \in DOMAIN read : read[i] = piece
  \/ \E i \in DOMAIN line : Says(line[i]) /\ line[i].piece = piece

IsSpoken(said, piece) == \E i \in DOMAIN said : said[i] = piece /\ piece # ToolCall

Printing(line, read, said) ==
  /\ Rises(read, line, said)
  /\ \A piece \in Nat : PieceOf(read, line, piece) <=> IsSpoken(said, piece)

\* No call is in `line` from `i` on.
Uncut(line, i) == \A j \in DOMAIN line : j >= i => line[j].type # "toolCall"

ReplyOf(read, line, piece) ==
  \/ (\A j \in DOMAIN line : line[j].type # "toolCall") /\ \E i \in DOMAIN read : read[i] = piece
  \/ \E i \in DOMAIN line : Says(line[i]) /\ line[i].piece = piece /\ Uncut(line, i)

IsLast(said, piece) ==
  \E i \in DOMAIN said : said[i] = piece /\ \A j \in DOMAIN said : j >= i => said[j] # ToolCall

Replying(line, read, said) ==
  /\ Rises(read, line, said)
  /\ \A piece \in Nat : ReplyOf(read, line, piece) <=> IsLast(said, piece)

Reading(fmt, line, out, told, lp, sv) ==
  /\ EndTold(line, lp)
  /\ fmt # "text" =>
       FailureTold(line, told, lp) /\ ForkTold(line, told, sv) /\ Replying(line, told.message, lp.said)
  /\ fmt # "json" /\ ~out.failed => Printing(line, out.printed, lp.said)

(* Once it has left. *)

\* The status the driver left with, which the engine or the last write may change.
LeftWith ==
  /\ driver.end # "none"
  /\ driver.at = "joining" => driver.exit = IF driver.end = "completed" THEN "success"
                                            ELSE IF driver.end = "shutdown" THEN "signal" ELSE "failure"

Left ==
  /\ LeftWith
  /\ driver.end \in {"completed", "cancelled"} => loop.end = driver.end
  /\ driver.end = "failed" => loop.end = "failed" \/ loop.at = "panicked"
  /\ driver.end # "shutdown" =>
        /\ loop.at # "turn"
        /\ loop.at = "panicked" \/ \A i \in DOMAIN opline : opline[i] # "prompt"
        /\ format # "text" => summary.forked = saving.forked
  /\ driver.end = "failed" /\ format # "text" => summary.error
  /\ driver.end = "completed" /\ format # "text" =>
        ~summary.error /\ InOrder(summary.message, LastReply)
  /\ driver.end = "completed" /\ format # "json" /\ ~stdout.failed =>
        InOrder(stdout.printed, Spoken)

RInv ==
  /\ HeadTypeOK /\ PiecesNumbered /\ PromptFirst /\ Stages
  /\ driver.at = "running" => Reading(format, eventline, stdout, summary, loop, saving)
  /\ driver.at # "running" => Left
  /\ driver.at = "exited" => ExitTold

----------------------------------------------------------------------------
(* Sequences *)

\* `d` is `s` and then `e` at place `n`.
Appended(s, n, e, d) ==
  /\ n \in Nat /\ n \in DOMAIN d /\ d[n] = e
  /\ \A i \in DOMAIN s : i \in Nat /\ i < n /\ i \in DOMAIN d /\ d[i] = s[i]
  /\ \A i \in DOMAIN d : i = n \/ i \in DOMAIN s

\* `d` is `s` without its head.
Behead(s, d) ==
  /\ 1 \in DOMAIN s
  /\ \A i \in DOMAIN d : i \in Nat /\ i >= 1 /\ i + 1 \in DOMAIN s /\ d[i] = s[i + 1]
  /\ \A i \in DOMAIN s : i \in Nat /\ (i = 1 \/ (i > 1 /\ i - 1 \in DOMAIN d /\ s[i] = d[i - 1]))

LEMMA AppendFacts ==
  ASSUME NEW S, NEW s \in Seq(S), NEW e \in S
  PROVE  /\ Append(s, e) \in Seq(S) /\ s \o <<e>> = Append(s, e)
         /\ Appended(s, Len(s) + 1, e, Append(s, e)) /\ Len(Append(s, e)) = Len(s) + 1
<1> DEFINE d == Append(s, e)
           n == Len(s)
<1>1. /\ d \in Seq(S) /\ n \in Nat /\ Len(d) = n + 1 /\ DOMAIN s = 1..n /\ DOMAIN d = 1..n + 1
      /\ \A i \in 1..n : d[i] = s[i]
      /\ d[n + 1] = e
  OBVIOUS
<1>2. Appended(s, n + 1, e, d)
  <2> HIDE DEF d, n
  <2> QED BY <1>1 DEF Appended
<1>3. s \o <<e>> = Append(s, e)
  OBVIOUS
<1> QED BY <1>1, <1>2, <1>3

LEMMA TailFacts ==
  ASSUME NEW S, NEW s \in Seq(S), s # <<>>
  PROVE  Tail(s) \in Seq(S) /\ Head(s) \in S /\ Head(s) = s[1] /\ Behead(s, Tail(s))
<1> DEFINE d == Tail(s)
           n == Len(s)
<1>1. /\ d \in Seq(S) /\ n \in Nat /\ n >= 1 /\ Len(d) = n - 1
      /\ DOMAIN s = 1..n /\ DOMAIN d = 1..n - 1
      /\ \A i \in 1..n - 1 : d[i] = s[i + 1]
      /\ Head(s) = s[1] /\ s[1] \in S
  OBVIOUS
<1>2. Behead(s, d)
  <2> HIDE DEF d, n
  <2> QED BY <1>1 DEF Behead
<1> QED BY <1>1, <1>2

----------------------------------------------------------------------------
(* What a line lists, as it grows and as it is read *)

\* An event that is no piece and no call changes nothing of what was said.
LEMMA OtherTold ==
  ASSUME NEW line, NEW line2, NEW n, NEW e, NEW read, NEW said,
         Appended(line, n, e, line2), e.type \notin {"token", "toolCall"}
  PROVE  /\ Printing(line, read, said) => Printing(line2, read, said)
         /\ Replying(line, read, said) => Replying(line2, read, said)
<1>1. Rises(read, line, said) => Rises(read, line2, said)
  BY DEF Appended, Rises, Says
<1>2. \A piece : PieceOf(read, line, piece) <=> PieceOf(read, line2, piece)
  BY DEF Appended, PieceOf, Says
<1>3. \A i \in DOMAIN line : Uncut(line, i) <=> Uncut(line2, i)
  BY DEF Appended, Uncut
<1>4. (\A j \in DOMAIN line : line[j].type # "toolCall") <=> (\A j \in DOMAIN line2 : line2[j].type # "toolCall")
  BY DEF Appended
<1>5. \A piece : ReplyOf(read, line, piece) <=> ReplyOf(read, line2, piece)
  <2> TAKE piece
  <2>1. (\E i \in DOMAIN line : Says(line[i]) /\ line[i].piece = piece /\ Uncut(line, i))
           <=> (\E i \in DOMAIN line2 : Says(line2[i]) /\ line2[i].piece = piece /\ Uncut(line2, i))
    BY <1>3 DEF Appended, Says
  <2> QED BY <1>4, <2>1 DEF ReplyOf
<1> QED BY <1>1, <1>2, <1>5 DEF Printing, Replying

\* A piece is told: it is the next one.
LEMMA TokenTold ==
  ASSUME NEW line, NEW line2, NEW n, NEW e, NEW read, NEW said, NEW said2, NEW p,
         Appended(line, n, e, line2), Appended(said, p, p, said2),
         Len(said) \in Nat, p = Len(said) + 1, Len(said2) = p, Says(e), e.piece = p
  PROVE  /\ Printing(line, read, said) => Printing(line2, read, said2)
         /\ Replying(line, read, said) => Replying(line2, read, said2)
<1>1. Rises(read, line, said) => Rises(read, line2, said2)
  BY DEF Appended, Rises, Says
<1>2. \A piece : PieceOf(read, line2, piece) <=> PieceOf(read, line, piece) \/ piece = p
  BY DEF Appended, PieceOf, Says
<1>3. \A piece : IsSpoken(said2, piece) <=> IsSpoken(said, piece) \/ piece = p
  BY DEF Appended, IsSpoken, ToolCall
<1>4. \A i \in DOMAIN line : Uncut(line, i) <=> Uncut(line2, i)
  BY DEF Appended, Uncut, Says
<1>5. (\A j \in DOMAIN line : line[j].type # "toolCall") <=> (\A j \in DOMAIN line2 : line2[j].type # "toolCall")
  BY DEF Appended, Says
<1>6. \A piece : ReplyOf(read, line2, piece) <=> ReplyOf(read, line, piece) \/ piece = p
  <2> TAKE piece
  <2>1. Uncut(line2, n)
    <3> SUFFICES ASSUME NEW j \in DOMAIN line2, j >= n PROVE line2[j].type # "toolCall"
      BY DEF Uncut
    <3>1. j = n
      BY DEF Appended
    <3> QED BY <3>1 DEF Appended, Says
  <2>2. (\E i \in DOMAIN line2 : Says(line2[i]) /\ line2[i].piece = piece /\ Uncut(line2, i))
           <=> \/ (\E i \in DOMAIN line : Says(line[i]) /\ line[i].piece = piece /\ Uncut(line, i))
               \/ piece = p
    BY <1>4, <2>1 DEF Appended, Says
  <2> QED BY <1>5, <2>2 DEF ReplyOf
<1>7. \A piece : IsLast(said2, piece) <=> IsLast(said, piece) \/ piece = p
  BY DEF Appended, IsLast, ToolCall
<1> QED BY <1>1, <1>2, <1>3, <1>6, <1>7 DEF Printing, Replying

\* A call is told: nothing of the reply was said yet.
LEMMA CallTold ==
  ASSUME NEW line, NEW line2, NEW n, NEW e, NEW read, NEW said, NEW said2, NEW p,
         Appended(line, n, e, line2), Appended(said, p, ToolCall, said2),
         Len(said) \in Nat, p = Len(said) + 1, Len(said2) = p, e.type = "toolCall"
  PROVE  /\ Printing(line, read, said) => Printing(line2, read, said2)
         /\ Replying(line, read, said) => Replying(line2, read, said2)
<1>1. Rises(read, line, said) => Rises(read, line2, said2)
  BY DEF Appended, Rises, Says
<1>2. \A piece : PieceOf(read, line, piece) <=> PieceOf(read, line2, piece)
  BY DEF Appended, PieceOf, Says
<1>3. \A piece : IsSpoken(said2, piece) <=> IsSpoken(said, piece)
  BY DEF Appended, IsSpoken
<1>4. \A i \in DOMAIN line : ~Uncut(line2, i)
  BY DEF Appended, Uncut
<1>5. \A piece : ~ReplyOf(read, line2, piece)
  BY <1>4 DEF Appended, ReplyOf, Says
<1>6. \A piece : ~IsLast(said2, piece)
  BY DEF Appended, IsLast
<1> QED BY <1>1, <1>2, <1>3, <1>5, <1>6 DEF Printing, Replying

\* An event that is no piece and no call is read.
LEMMA OtherRead ==
  ASSUME NEW line, NEW line2, NEW read, NEW said, Behead(line, line2),
         line[1].type \notin {"token", "toolCall"}
  PROVE  /\ Printing(line, read, said) => Printing(line2, read, said)
         /\ Replying(line, read, said) => Replying(line2, read, said)
<1>1. Rises(read, line, said) => Rises(read, line2, said)
  <2> SUFFICES ASSUME Rises(read, line, said) PROVE Rises(read, line2, said)
    OBVIOUS
  <2>1. \A i, j \in DOMAIN line2 : i < j => i + 1 < j + 1
    BY DEF Behead
  <2>2. \A i, j \in DOMAIN line2 :
          i < j /\ Says(line2[i]) /\ Says(line2[j]) => line2[i].piece < line2[j].piece
    BY <2>1 DEF Behead, Rises
  <2>3. \A j \in DOMAIN line2 : Says(line2[j]) => \A i \in DOMAIN read : read[i] < line2[j].piece
    BY DEF Behead, Rises
  <2> QED BY <2>2, <2>3 DEF Behead, Rises
<1>2. \A piece : PieceOf(read, line, piece) <=> PieceOf(read, line2, piece)
  BY DEF Behead, PieceOf, Says
<1>3. \A i \in DOMAIN line2 : Uncut(line, i + 1) <=> Uncut(line2, i)
  BY DEF Behead, Uncut
<1>4. (\A j \in DOMAIN line : line[j].type # "toolCall") <=> (\A j \in DOMAIN line2 : line2[j].type # "toolCall")
  BY DEF Behead
<1>5. \A piece : ReplyOf(read, line, piece) <=> ReplyOf(read, line2, piece)
  <2> TAKE piece
  <2>1. (\E i \in DOMAIN line : Says(line[i]) /\ line[i].piece = piece /\ Uncut(line, i))
           <=> (\E i \in DOMAIN line2 : Says(line2[i]) /\ line2[i].piece = piece /\ Uncut(line2, i))
    BY <1>3 DEF Behead, Says
  <2> QED BY <1>4, <2>1 DEF ReplyOf
<1> QED BY <1>1, <1>2, <1>5 DEF Printing, Replying

\* A piece is read.
LEMMA TokenRead ==
  ASSUME NEW line, NEW line2, NEW read, NEW read2, NEW n, NEW said, Behead(line, line2),
         Says(line[1]), Appended(read, n, line[1].piece, read2)
  PROVE  /\ Printing(line, read, said) => Printing(line2, read2, said)
         /\ Replying(line, read, said) => Replying(line2, read2, said)
<1>1. Rises(read, line, said) => Rises(read2, line2, said)
  BY DEF Behead, Rises, Says, Appended
<1>2. \A piece : PieceOf(read, line, piece) <=> PieceOf(read2, line2, piece)
  BY DEF Behead, PieceOf, Says, Appended
<1>3. \A i \in DOMAIN line2 : Uncut(line, i + 1) <=> Uncut(line2, i)
  BY DEF Behead, Uncut
<1>4. (\A j \in DOMAIN line : line[j].type # "toolCall") <=> (\A j \in DOMAIN line2 : line2[j].type # "toolCall")
  BY DEF Behead, Says
<1>5. Uncut(line, 1) <=> (\A j \in DOMAIN line2 : line2[j].type # "toolCall")
  BY DEF Behead, Says, Uncut
<1>6. \A piece : ReplyOf(read, line, piece) <=> ReplyOf(read2, line2, piece)
  <2> TAKE piece
  <2>1. (\E i \in DOMAIN line : Says(line[i]) /\ line[i].piece = piece /\ Uncut(line, i))
           <=> \/ line[1].piece = piece /\ Uncut(line, 1)
               \/ \E i \in DOMAIN line2 : Says(line2[i]) /\ line2[i].piece = piece /\ Uncut(line2, i)
    BY <1>3 DEF Behead, Says
  <2>2. (\E i \in DOMAIN read2 : read2[i] = piece) <=> (\E i \in DOMAIN read : read[i] = piece) \/ line[1].piece = piece
    BY DEF Appended
  <2> QED BY <1>4, <1>5, <2>1, <2>2 DEF ReplyOf
<1> QED BY <1>1, <1>2, <1>6 DEF Printing, Replying

\* A call is read: the result forgets what was said before it.
LEMMA CallRead ==
  ASSUME NEW line, NEW line2, NEW read, NEW said, Behead(line, line2), line[1].type = "toolCall"
  PROVE  /\ Printing(line, read, said) => Printing(line2, read, said)
         /\ Replying(line, read, said) => Replying(line2, <<>>, said)
<1>1. Rises(read, line, said) => Rises(read, line2, said) /\ Rises(<<>>, line2, said)
  BY DEF Behead, Rises, Says
<1>2. \A piece : PieceOf(read, line, piece) <=> PieceOf(read, line2, piece)
  BY DEF Behead, PieceOf, Says
<1>3. \A i \in DOMAIN line2 : Uncut(line, i + 1) <=> Uncut(line2, i)
  BY DEF Behead, Uncut
<1>4. ~(\A j \in DOMAIN line : line[j].type # "toolCall")
  BY DEF Behead
<1>5. \A piece : ReplyOf(read, line, piece) <=> ReplyOf(<<>>, line2, piece)
  <2> TAKE piece
  <2>1. (\E i \in DOMAIN line : Says(line[i]) /\ line[i].piece = piece /\ Uncut(line, i))
           <=> (\E i \in DOMAIN line2 : Says(line2[i]) /\ line2[i].piece = piece /\ Uncut(line2, i))
    BY <1>3 DEF Behead, Says
  <2> QED BY <1>4, <2>1 DEF ReplyOf
<1> QED BY <1>1, <1>2, <1>5 DEF Printing, Replying

----------------------------------------------------------------------------
(* What the driver has and will read, as the engine goes on *)

NoEnd(line) == \A i \in DOMAIN line : ~EndsTurn(line[i])

LEMMA NoEndYet ==
  ASSUME NEW line, NEW lp, EndTold(line, lp), lp.end = "none"
  PROVE  NoEnd(line)
BY DEF EndTold, NoEnd

LEMMA NothingEnded ==
  ASSUME NEW line, NEW lp, NoEnd(line)
  PROVE  EndTold(line, lp)
BY DEF EndTold, NoEnd

\* The line grows by an event that is no piece and no call.
LEMMA ReadingGrows ==
  ASSUME NEW fmt, NEW line, NEW line2, NEW n, NEW e, NEW out, NEW told, NEW lp, NEW lp2, NEW sv, NEW sv2,
         Reading(fmt, line, out, told, lp, sv), Appended(line, n, e, line2),
         e.type \notin {"token", "toolCall"}, lp2.said = lp.said, EndTold(line2, lp2),
         fmt # "text" => FailureTold(line2, told, lp2) /\ ForkTold(line2, told, sv2)
  PROVE  Reading(fmt, line2, out, told, lp2, sv2)
<1>1. fmt # "text" => Replying(line2, told.message, lp2.said)
  BY OtherTold DEF Reading
<1>2. fmt # "json" /\ ~out.failed => Printing(line2, out.printed, lp2.said)
  BY OtherTold DEF Reading
<1> QED BY <1>1, <1>2 DEF Reading

LEMMA MentionsMore ==
  ASSUME NEW line, NEW line2, NEW n, NEW e, NEW kind, Appended(line, n, e, line2)
  PROVE  Mentions(line2, kind) <=> Mentions(line, kind) \/ e.type = kind
BY DEF Appended, Mentions

LEMMA NoEndMore ==
  ASSUME NEW line, NEW line2, NEW n, NEW e, Appended(line, n, e, line2), NoEnd(line), ~EndsTurn(e)
  PROVE  NoEnd(line2)
BY DEF Appended, NoEnd

LEMMA EventsTyped ==
  /\ [type |-> "forked"] \in EngineEvent /\ [type |-> "writeError"] \in EngineEvent
  /\ [type |-> "turnFailed"] \in EngineEvent /\ [type |-> "toolCall"] \in EngineEvent
  /\ \A piece \in 1..MaxPieces : [type |-> "token", piece |-> piece] \in EngineEvent
  /\ \A op \in {"prompt", "interrupt"}, end \in OpEnd : [type |-> "ended", op |-> op, end |-> end] \in EngineEvent
BY DEF EngineEvent

Savings == [stopped : BOOLEAN, surfaced : BOOLEAN, forked : BOOLEAN]

LEMMA SavesFacts ==
  ASSUME saving \in Savings, NEW outcome \in Outcomes, Saves(outcome)
  PROVE  /\ saving' \in Savings
         /\ saving'.forked = (saving.forked \/ outcome = "forks")
         /\ outcome \in {"lands", "fails", "forks"}
BY DEF Savings, Outcomes, Saves

\* A commit is told: the session forked, the first write failed, or nothing.
LEMMA ReadingSaves ==
  ASSUME saving \in Savings, NEW outcome \in Outcomes, Saves(outcome),
         NEW fmt, NEW line \in Seq(EngineEvent), NEW out, NEW told, NEW lp,
         Reading(fmt, line, out, told, lp, saving), NoEnd(line)
  PROVE  /\ line \o Told(outcome) \in Seq(EngineEvent)
         /\ Reading(fmt, line \o Told(outcome), out, told, lp, saving')
         /\ NoEnd(line \o Told(outcome))
<1>0. saving'.forked = (saving.forked \/ outcome = "forks")
  BY SavesFacts
<1>1. CASE outcome = "forks"
  <2> DEFINE e == [type |-> "forked"]
             line2 == line \o Told(outcome)
  <2>1. line2 = Append(line, e) /\ line2 \in Seq(EngineEvent) /\ Appended(line, Len(line) + 1, e, line2)
    <3>1. Told(outcome) = <<e>>
      BY <1>1 DEF Told
    <3> QED BY <3>1, AppendFacts, EventsTyped
  <2>2. e.type = "forked"
    OBVIOUS
  <2> HIDE DEF line2, e
  <2>3. NoEnd(line2)
    BY <2>1, <2>2, NoEndMore DEF EndsTurn
  <2>4. fmt # "text" => FailureTold(line2, told, lp) /\ ForkTold(line2, told, saving')
    <3>1. Mentions(line2, "turnFailed") <=> Mentions(line, "turnFailed")
      BY <2>1, <2>2, MentionsMore
    <3>2. Mentions(line2, "forked")
      BY <2>1, <2>2, MentionsMore
    <3>3. saving'.forked
      BY <1>0, <1>1
    <3> QED BY <3>1, <3>2, <3>3 DEF Reading, FailureTold, ForkTold
  <2>5. Reading(fmt, line2, out, told, lp, saving')
    BY <2>1, <2>2, <2>3, <2>4, NothingEnded, ReadingGrows
  <2> QED BY <2>1, <2>3, <2>5 DEF line2
<1>2. CASE outcome # "forks" /\ Told(outcome) = <<>>
  <2>1. line \o Told(outcome) = line
    BY <1>2
  <2>2. saving'.forked = saving.forked
    BY <1>0, <1>2 DEF Savings
  <2> QED BY <2>1, <2>2 DEF Reading, ForkTold
<1>3. CASE outcome # "forks" /\ Told(outcome) # <<>>
  <2> DEFINE e == [type |-> "writeError"]
             line2 == line \o Told(outcome)
  <2>1. line2 = Append(line, e) /\ line2 \in Seq(EngineEvent) /\ Appended(line, Len(line) + 1, e, line2)
    <3>1. Told(outcome) = <<e>>
      BY <1>3 DEF Told
    <3> QED BY <3>1, AppendFacts, EventsTyped
  <2>2. e.type = "writeError"
    OBVIOUS
  <2> HIDE DEF line2, e
  <2>3. NoEnd(line2)
    BY <2>1, <2>2, NoEndMore DEF EndsTurn
  <2>4. fmt # "text" => FailureTold(line2, told, lp) /\ ForkTold(line2, told, saving')
    <3>1. Mentions(line2, "turnFailed") <=> Mentions(line, "turnFailed")
      BY <2>1, <2>2, MentionsMore
    <3>2. Mentions(line2, "forked") <=> Mentions(line, "forked")
      BY <2>1, <2>2, MentionsMore
    <3>3. saving'.forked = saving.forked
      BY <1>0, <1>3 DEF Savings
    <3> QED BY <3>1, <3>2, <3>3 DEF Reading, FailureTold, ForkTold
  <2>5. Reading(fmt, line2, out, told, lp, saving')
    BY <2>1, <2>2, <2>3, <2>4, NothingEnded, ReadingGrows
  <2> QED BY <2>1, <2>3, <2>5 DEF line2
<1> QED BY <1>1, <1>2, <1>3

\* The turn is over and its end is told.
LEMMA ReadingEnds ==
  ASSUME NEW fmt, NEW line \in Seq(EngineEvent), NEW out, NEW told, NEW lp, NEW lp2, NEW sv, NEW end,
         end \in {"completed", "cancelled", "failed"},
         lp2.said = lp.said, lp2.at # "turn", lp2.end = end,
         Reading(fmt, line, out, told, lp, sv), NoEnd(line), lp.end = "none" \/ lp.end = end,
         end = "failed" <=> lp.end = "failed"
  PROVE  /\ line \o EndOf("prompt", end) \in Seq(EngineEvent)
         /\ Reading(fmt, line \o EndOf("prompt", end), out, told, lp2, sv)
<1> DEFINE e == [type |-> "ended", op |-> "prompt", end |-> end]
           line2 == line \o EndOf("prompt", end)
<1>1. line2 \in Seq(EngineEvent) /\ Appended(line, Len(line) + 1, e, line2)
  <2>1. EndOf("prompt", end) = <<e>>
    BY DEF EndOf
  <2>2. e \in EngineEvent
    BY EventsTyped DEF OpEnd
  <2> QED BY <2>1, <2>2, AppendFacts
<1>2. e.type = "ended" /\ e.op = "prompt" /\ e.end = end
  OBVIOUS
<1> HIDE DEF line2, e
<1>3. EndTold(line2, lp2)
  BY <1>1, <1>2 DEF Appended, EndTold, NoEnd
<1>4. \A kind \in {"turnFailed", "forked"} : Mentions(line2, kind) <=> Mentions(line, kind)
  BY <1>1, <1>2, MentionsMore
<1>5. fmt # "text" => FailureTold(line2, told, lp2) /\ ForkTold(line2, told, sv)
  BY <1>4 DEF Reading, FailureTold, ForkTold
<1>6. Reading(fmt, line2, out, told, lp2, sv)
  BY <1>1, <1>2, <1>3, <1>5, ReadingGrows
<1> QED BY <1>1, <1>6 DEF line2

\* A failure is told before its end.
LEMMA ReadingFails ==
  ASSUME NEW fmt, NEW line \in Seq(EngineEvent), NEW out, NEW told, NEW lp, NEW lp2, NEW sv,
         lp2.said = lp.said, lp2.end = "failed",
         Reading(fmt, line, out, told, lp, sv), NoEnd(line)
  PROVE  /\ line \o <<[type |-> "turnFailed"]>> \in Seq(EngineEvent)
         /\ Reading(fmt, line \o <<[type |-> "turnFailed"]>>, out, told, lp2, sv)
         /\ NoEnd(line \o <<[type |-> "turnFailed"]>>)
<1> DEFINE e == [type |-> "turnFailed"]
           line2 == line \o <<e>>
<1>1. line2 \in Seq(EngineEvent) /\ Appended(line, Len(line) + 1, e, line2)
  BY EventsTyped, AppendFacts
<1>2. e.type = "turnFailed"
  OBVIOUS
<1> HIDE DEF line2, e
<1>3. NoEnd(line2)
  BY <1>1, <1>2, NoEndMore DEF EndsTurn
<1>4. Mentions(line2, "turnFailed") /\ (Mentions(line2, "forked") <=> Mentions(line, "forked"))
  BY <1>1, <1>2, MentionsMore
<1>5. fmt # "text" => FailureTold(line2, told, lp2) /\ ForkTold(line2, told, sv)
  BY <1>4 DEF Reading, FailureTold, ForkTold
<1>6. Reading(fmt, line2, out, told, lp2, sv)
  BY <1>1, <1>2, <1>3, <1>5, NothingEnded, ReadingGrows
<1> QED BY <1>1, <1>3, <1>6 DEF line2, e

\* The end of an interrupt with nothing to stop.
LEMMA ReadingOther ==
  ASSUME NEW fmt, NEW line \in Seq(EngineEvent), NEW out, NEW told, NEW lp, NEW sv,
         Reading(fmt, line, out, told, lp, sv)
  PROVE  /\ line \o EndOf("interrupt", "completed") \in Seq(EngineEvent)
         /\ Reading(fmt, line \o EndOf("interrupt", "completed"), out, told, lp, sv)
<1> DEFINE e == [type |-> "ended", op |-> "interrupt", end |-> "completed"]
           line2 == line \o EndOf("interrupt", "completed")
<1>1. line2 \in Seq(EngineEvent) /\ Appended(line, Len(line) + 1, e, line2)
  <2>1. EndOf("interrupt", "completed") = <<e>>
    BY DEF EndOf
  <2>2. e \in EngineEvent
    BY EventsTyped DEF OpEnd
  <2> QED BY <2>1, <2>2, AppendFacts
<1>2. e.type = "ended" /\ e.op = "interrupt"
  OBVIOUS
<1> HIDE DEF line2, e
<1>3. EndTold(line2, lp)
  <2>1. EndTold(line, lp)
    BY DEF Reading
  <2> QED BY <1>1, <1>2, <2>1 DEF Appended, EndTold, EndsTurn, EndsOther
<1>4. \A kind \in {"turnFailed", "forked"} : Mentions(line2, kind) <=> Mentions(line, kind)
  BY <1>1, <1>2, MentionsMore
<1>5. fmt # "text" => FailureTold(line2, told, lp) /\ ForkTold(line2, told, sv)
  BY <1>4 DEF Reading, FailureTold, ForkTold
<1>6. Reading(fmt, line2, out, told, lp, sv)
  BY <1>1, <1>2, <1>3, <1>5, ReadingGrows
<1> QED BY <1>1, <1>6 DEF line2

\* A piece is said.
LEMMA ReadingSpeaks ==
  ASSUME NEW fmt, NEW line \in Seq(EngineEvent), NEW out, NEW told, NEW lp, NEW lp2, NEW sv, NEW p,
         lp.said \in Seq(0..MaxPieces), p = Len(lp.said) + 1, p \in 1..MaxPieces,
         lp2.said = Append(lp.said, p), lp2.end = lp.end,
         Reading(fmt, line, out, told, lp, sv), NoEnd(line)
  PROVE  /\ line \o <<[type |-> "token", piece |-> p]>> \in Seq(EngineEvent)
         /\ Reading(fmt, line \o <<[type |-> "token", piece |-> p]>>, out, told, lp2, sv)
<1> DEFINE e == [type |-> "token", piece |-> p]
           line2 == line \o <<e>>
           n == Len(line) + 1
<1>1. line2 \in Seq(EngineEvent) /\ Appended(line, n, e, line2)
  <2>1. e \in EngineEvent
    BY EventsTyped
  <2> HIDE DEF e
  <2> QED BY <2>1, AppendFacts
<1>2. e.type = "token" /\ e.piece = p
  OBVIOUS
<1>3. Appended(lp.said, p, p, lp2.said) /\ Len(lp.said) \in Nat /\ Len(lp2.said) = p
  <2> DEFINE s == lp.said
  <2>1. p \in 0..MaxPieces
    BY HeadlessAssumption DEF HeadlessAssumption
  <2>2. s \in Seq(0..MaxPieces)
    OBVIOUS
  <2>3. /\ Appended(s, Len(s) + 1, p, Append(s, p))
        /\ Len(Append(s, p)) = Len(s) + 1 /\ Len(s) \in Nat
    <3> DEFINE S == 0..MaxPieces
    <3> HIDE DEF s, S
    <3>1. s \in Seq(S) /\ p \in S
      BY <2>1, <2>2 DEF S
    <3>2. Appended(s, Len(s) + 1, p, Append(s, p)) /\ Len(Append(s, p)) = Len(s) + 1
      BY <3>1, AppendFacts
    <3> QED BY <3>1, <3>2
  <2> QED BY <2>3
<1> HIDE DEF line2, e, n
<1>4. EndTold(line2, lp2)
  BY <1>1, <1>2, NoEndMore, NothingEnded DEF EndsTurn
<1>5. \A kind \in {"turnFailed", "forked"} : Mentions(line2, kind) <=> Mentions(line, kind)
  BY <1>1, <1>2, MentionsMore
<1>6. fmt # "text" => FailureTold(line2, told, lp2) /\ ForkTold(line2, told, sv)
  BY <1>5 DEF Reading, FailureTold, ForkTold
<1>7. Says(e)
  BY <1>2 DEF Says
<1>8. fmt # "text" => Replying(line2, told.message, lp2.said)
  BY <1>1, <1>2, <1>3, <1>7, TokenTold DEF Reading
<1>9. fmt # "json" /\ ~out.failed => Printing(line2, out.printed, lp2.said)
  BY <1>1, <1>2, <1>3, <1>7, TokenTold DEF Reading
<1> QED BY <1>1, <1>4, <1>6, <1>8, <1>9 DEF Reading, line2, e

\* Tools are called.
LEMMA ReadingCalls ==
  ASSUME NEW fmt, NEW line \in Seq(EngineEvent), NEW out, NEW told, NEW lp, NEW lp2, NEW sv,
         lp.said \in Seq(0..MaxPieces), lp2.said = Append(lp.said, ToolCall), lp2.end = lp.end,
         Reading(fmt, line, out, told, lp, sv), NoEnd(line)
  PROVE  /\ line \o <<[type |-> "toolCall"]>> \in Seq(EngineEvent)
         /\ Reading(fmt, line \o <<[type |-> "toolCall"]>>, out, told, lp2, sv)
         /\ NoEnd(line \o <<[type |-> "toolCall"]>>)
<1> DEFINE e == [type |-> "toolCall"]
           line2 == line \o <<e>>
           n == Len(line) + 1
           p == Len(lp.said) + 1
<1>1. line2 \in Seq(EngineEvent) /\ Appended(line, n, e, line2)
  <2>1. e \in EngineEvent
    BY EventsTyped
  <2> QED BY <2>1, AppendFacts
<1>2. e.type = "toolCall"
  OBVIOUS
<1>3. Appended(lp.said, p, ToolCall, lp2.said) /\ Len(lp.said) \in Nat /\ Len(lp2.said) = p
  <2>1. ToolCall \in 0..MaxPieces
    BY HeadlessAssumption DEF ToolCall, HeadlessAssumption
  <2> DEFINE s == lp.said
  <2>2. s \in Seq(0..MaxPieces)
    OBVIOUS
  <2>3. /\ Appended(s, Len(s) + 1, ToolCall, Append(s, ToolCall))
        /\ Len(Append(s, ToolCall)) = Len(s) + 1 /\ Len(s) \in Nat
    <3> DEFINE S == 0..MaxPieces
    <3> HIDE DEF s, S
    <3>1. s \in Seq(S) /\ ToolCall \in S
      BY <2>1, <2>2 DEF S
    <3>2. Appended(s, Len(s) + 1, ToolCall, Append(s, ToolCall)) /\ Len(Append(s, ToolCall)) = Len(s) + 1
      BY <3>1, AppendFacts
    <3> QED BY <3>1, <3>2
  <2> QED BY <2>3
<1>a. p = Len(lp.said) + 1
  OBVIOUS
<1> HIDE DEF line2, e, n, p
<1>4. NoEnd(line2)
  BY <1>1, <1>2, NoEndMore DEF EndsTurn
<1>5. \A kind \in {"turnFailed", "forked"} : Mentions(line2, kind) <=> Mentions(line, kind)
  BY <1>1, <1>2, MentionsMore
<1>6. fmt # "text" => FailureTold(line2, told, lp2) /\ ForkTold(line2, told, sv)
  BY <1>5 DEF Reading, FailureTold, ForkTold
<1>8. fmt # "text" => Replying(line2, told.message, lp2.said)
  BY <1>1, <1>2, <1>3, <1>a, CallTold DEF Reading
<1>9. fmt # "json" /\ ~out.failed => Printing(line2, out.printed, lp2.said)
  BY <1>1, <1>2, <1>3, <1>a, CallTold DEF Reading
<1> QED BY <1>1, <1>4, <1>6, <1>8, <1>9, NothingEnded DEF Reading, line2, e

----------------------------------------------------------------------------
(* What the driver reads and writes *)

Stdouts   == [lost : BOOLEAN, failed : BOOLEAN, printed : Seq(1..MaxPieces)]
Summaries == [message : Seq(1..MaxPieces), error : BOOLEAN, unsaved : BOOLEAN,
              forked : BOOLEAN, result : BOOLEAN]

\* A write that leaves stdout sound found it sound, and printed its piece.
LEMMA WriteFacts ==
  ASSUME NEW out \in Stdouts, NEW does, NEW event, NEW out2 \in Write(out, does, event),
         Says(event) => event.piece \in 1..MaxPieces
  PROVE  /\ out2 \in Stdouts
         /\ ~out2.failed =>
              /\ ~out.failed
              /\ out2.printed = IF does /\ Says(event) THEN Append(out.printed, event.piece) ELSE out.printed
<1>1. CASE ~does
  BY <1>1 DEF Write
<1>2. CASE does
  <2>1. PICK lost \in {out.lost, TRUE} :
            \/ out2 = [lost |-> lost, failed |-> TRUE, printed |-> <<>>]
            \/ out2 = IF event.type = "token" /\ ~out.failed
                      THEN [out EXCEPT !.printed = Append(@, event.piece)] ELSE out
    BY <1>2 DEF Write
  <2>2. CASE out2 = [lost |-> lost, failed |-> TRUE, printed |-> <<>>]
    <3>1. <<>> \in Seq(1..MaxPieces)
      OBVIOUS
    <3>2. out2.failed /\ lost \in BOOLEAN
      BY <2>2 DEF Stdouts
    <3> QED BY <2>2, <3>1, <3>2 DEF Stdouts
  <2>3. CASE out2 = IF event.type = "token" /\ ~out.failed
                    THEN [out EXCEPT !.printed = Append(@, event.piece)] ELSE out
    <3>1. CASE event.type = "token" /\ ~out.failed
      <4>1. Append(out.printed, event.piece) \in Seq(1..MaxPieces)
        BY <3>1 DEF Stdouts, Says
      <4>2. out2 = [out EXCEPT !.printed = Append(out.printed, event.piece)]
        BY <2>3, <3>1
      <4>3. out2 \in Stdouts /\ out2.printed = Append(out.printed, event.piece)
        BY <4>1, <4>2 DEF Stdouts
      <4> QED BY <1>2, <3>1, <4>3 DEF Says
    <3>2. CASE ~(event.type = "token" /\ ~out.failed)
      BY <1>2, <2>3, <3>2 DEF Says
    <3> QED BY <3>1, <3>2
  <2> QED BY <2>1, <2>2, <2>3
<1> QED BY <1>1, <1>2

\* What is printed of an event: a piece is, outside of a json run.
LEMMA PrintedFacts ==
  ASSUME format \in {"text", "json", "stream-json"}, stdout \in Stdouts, NEW event,
         Says(event) => event.piece \in 1..MaxPieces, NEW out2 \in Printed(event)
  PROVE  /\ out2 \in Stdouts
         /\ ~out2.failed => ~stdout.failed
         /\ ~out2.failed /\ ~Says(event) => out2.printed = stdout.printed
         /\ ~out2.failed /\ Says(event) /\ format # "json" =>
              out2.printed = Append(stdout.printed, event.piece)
<1>1. PICK does \in Writes(event) : out2 \in Write(stdout, does, event)
  BY DEF Printed
<1>2. Says(event) /\ format # "json" => does
  BY <1>1 DEF Writes, Says
<1> QED BY <1>1, <1>2, WriteFacts

LEMMA ObservedFacts ==
  ASSUME summary \in Summaries, NEW event, Says(event) => event.piece \in 1..MaxPieces
  PROVE  /\ Observed(event) \in Summaries
         /\ Observed(event).message = IF Says(event) THEN Append(summary.message, event.piece)
                                      ELSE IF event.type = "toolCall" THEN <<>> ELSE summary.message
         /\ Observed(event).error <=> summary.error \/ event.type = "turnFailed"
         /\ Observed(event).forked <=> summary.forked \/ event.type = "forked"
<1> DEFINE m == IF Says(event) THEN Append(summary.message, event.piece)
                ELSE IF event.type = "toolCall" THEN <<>> ELSE summary.message
           err == summary.error \/ event.type = "turnFailed"
           fk == summary.forked \/ event.type = "forked"
<1>1. m \in Seq(1..MaxPieces)
  <2>1. <<>> \in Seq(1..MaxPieces) /\ summary.message \in Seq(1..MaxPieces)
    BY DEF Summaries
  <2>2. Says(event) => Append(summary.message, event.piece) \in Seq(1..MaxPieces)
    BY <2>1
  <2> QED BY <2>1, <2>2
<1>2. err \in BOOLEAN /\ fk \in BOOLEAN
  OBVIOUS
<1>3. Observed(event) = [summary EXCEPT !.message = m, !.error = err, !.forked = fk]
  BY DEF Observed, Says
<1> HIDE DEF m, err, fk
<1>4. /\ Observed(event) \in Summaries
      /\ Observed(event).message = m /\ Observed(event).error = err /\ Observed(event).forked = fk
  BY <1>1, <1>2, <1>3 DEF Summaries
<1> QED BY <1>4 DEF m, err, fk

LEMMA PieceTyped ==
  ASSUME NEW e \in EngineEvent
  PROVE  Says(e) => e.piece \in 1..MaxPieces
BY DEF EngineEvent, Says

\* What was told moves from the line to what the driver has.
LEMMA TakeReads ==
  ASSUME format \in {"text", "json", "stream-json"}, stdout \in Stdouts, summary \in Summaries,
         eventline \in Seq(EngineEvent), eventline # <<>>, eventline' = Tail(eventline),
         Rendered(Head(eventline)), NEW lp, NEW sv,
         Reading(format, eventline, stdout, summary, lp, sv)
  PROVE  /\ eventline' \in Seq(EngineEvent) /\ stdout' \in Stdouts /\ summary' \in Summaries
         /\ Reading(format, eventline', stdout', summary', lp, sv)
<1> DEFINE e == Head(eventline)
           d == eventline'
<1>1. /\ d \in Seq(EngineEvent) /\ e \in EngineEvent /\ e = eventline[1]
      /\ Behead(eventline, d)
  BY TailFacts
<1>2. Rendered(e)
  OBVIOUS
<1> HIDE DEF e, d
<1>3. Says(e) => e.piece \in 1..MaxPieces
  BY <1>1, PieceTyped
<1>4. /\ stdout' \in Stdouts
      /\ ~stdout'.failed => ~stdout.failed
      /\ ~stdout'.failed /\ ~Says(e) => stdout'.printed = stdout.printed
      /\ ~stdout'.failed /\ Says(e) /\ format # "json" => stdout'.printed = Append(stdout.printed, e.piece)
  BY <1>2, <1>3, PrintedFacts DEF Rendered
<1>5. /\ summary' \in Summaries
      /\ format # "text" =>
           /\ summary'.message = IF Says(e) THEN Append(summary.message, e.piece)
                                 ELSE IF e.type = "toolCall" THEN <<>> ELSE summary.message
           /\ summary'.error <=> summary.error \/ e.type = "turnFailed"
           /\ summary'.forked <=> summary.forked \/ e.type = "forked"
  <2>1. CASE format = "text"
    BY <1>2, <2>1 DEF Rendered
  <2>2. CASE format # "text"
    <3>1. summary' = Observed(e)
      BY <1>2, <2>2 DEF Rendered
    <3> QED BY <1>3, <3>1, ObservedFacts
  <2> QED BY <2>1, <2>2
<1>6. \A kind : Mentions(eventline, kind) <=> e.type = kind \/ Mentions(d, kind)
  BY <1>1 DEF Behead, Mentions
<1>7. format # "text" => FailureTold(d, summary', lp) /\ ForkTold(d, summary', sv)
  BY <1>5, <1>6 DEF Reading, FailureTold, ForkTold
<1>8. EndTold(d, lp)
  <2>1. EndTold(eventline, lp)
    BY DEF Reading
  <2>2. \A i, j \in DOMAIN d : j > i => j + 1 > i + 1
    BY <1>1 DEF Behead
  <2> QED BY <1>1, <2>1, <2>2 DEF Behead, EndTold
<1>9. CASE Says(e)
  <2>1. \A read \in Seq(1..MaxPieces) : Appended(read, Len(read) + 1, e.piece, Append(read, e.piece))
    BY <1>3, <1>9, AppendFacts
  <2>2. format # "text" => Replying(d, summary'.message, lp.said)
    <3> SUFFICES ASSUME format # "text" PROVE Replying(d, summary'.message, lp.said)
      OBVIOUS
    <3>1. summary'.message = Append(summary.message, e.piece) /\ summary.message \in Seq(1..MaxPieces)
      BY <1>5, <1>9 DEF Summaries
    <3>2. Replying(eventline, summary.message, lp.said)
      BY DEF Reading
    <3>3. Appended(summary.message, Len(summary.message) + 1, eventline[1].piece, summary'.message)
      BY <1>1, <2>1, <3>1
    <3> QED BY <1>1, <1>9, <3>2, <3>3, TokenRead
  <2>3. format # "json" /\ ~stdout'.failed => Printing(d, stdout'.printed, lp.said)
    <3> SUFFICES ASSUME format # "json", ~stdout'.failed PROVE Printing(d, stdout'.printed, lp.said)
      OBVIOUS
    <3>1. stdout'.printed = Append(stdout.printed, e.piece) /\ stdout.printed \in Seq(1..MaxPieces)
      BY <1>4, <1>9 DEF Stdouts
    <3>2. Printing(eventline, stdout.printed, lp.said)
      BY <1>4 DEF Reading
    <3>3. Appended(stdout.printed, Len(stdout.printed) + 1, eventline[1].piece, stdout'.printed)
      BY <1>1, <2>1, <3>1
    <3> QED BY <1>1, <1>9, <3>2, <3>3, TokenRead
  <2> QED BY <1>1, <1>4, <1>5, <1>7, <1>8, <2>2, <2>3 DEF Reading, d
<1>10. CASE e.type = "toolCall"
  <2>1. ~Says(e)
    BY <1>10 DEF Says
  <2>2. format # "text" => Replying(d, summary'.message, lp.said)
    BY <1>1, <1>5, <1>10, <2>1, CallRead DEF Reading
  <2>3. format # "json" /\ ~stdout'.failed => Printing(d, stdout'.printed, lp.said)
    BY <1>1, <1>4, <1>10, <2>1, CallRead DEF Reading
  <2> QED BY <1>1, <1>4, <1>5, <1>7, <1>8, <2>2, <2>3 DEF Reading, d
<1>11. CASE ~Says(e) /\ e.type # "toolCall"
  <2>1. e.type \notin {"token", "toolCall"}
    BY <1>11 DEF Says
  <2>2. format # "text" => Replying(d, summary'.message, lp.said)
    BY <1>1, <1>5, <1>11, <2>1, OtherRead DEF Reading
  <2>3. format # "json" /\ ~stdout'.failed => Printing(d, stdout'.printed, lp.said)
    BY <1>1, <1>4, <1>11, <2>1, OtherRead DEF Reading
  <2> QED BY <1>1, <1>4, <1>5, <1>7, <1>8, <2>2, <2>3 DEF Reading, d
<1> QED BY <1>9, <1>10, <1>11

\* With no piece and no call left to read, all that was said was read.
LEMMA AllRead ==
  ASSUME NEW line, NEW read \in Seq(1..MaxPieces), NEW said \in Seq(0..MaxPieces),
         \A i \in DOMAIN line : line[i].type = "ended"
  PROVE  /\ Printing(line, read, said) => InOrder(read, {said[i] : i \in DOMAIN said} \ {ToolCall})
         /\ Replying(line, read, said) =>
              InOrder(read, {said[i] : i \in {k \in DOMAIN said :
                                          \A j \in DOMAIN said : j >= k => said[j] # ToolCall}})
<1>1. /\ \A i \in DOMAIN read : read[i] \in Nat
      /\ \A i \in DOMAIN said : said[i] \in Nat
  BY HeadlessAssumption DEF HeadlessAssumption
<1>2. ASSUME Printing(line, read, said)
      PROVE  InOrder(read, {said[i] : i \in DOMAIN said} \ {ToolCall})
  <2>1. \A piece \in Nat : (\E i \in DOMAIN read : read[i] = piece) <=> IsSpoken(said, piece)
    BY <1>2 DEF Printing, PieceOf, Says
  <2>2. {read[i] : i \in DOMAIN read} = {said[i] : i \in DOMAIN said} \ {ToolCall}
    BY <1>1, <2>1 DEF IsSpoken
  <2> QED BY <1>2, <2>2 DEF Printing, Rises, InOrder
<1>3. ASSUME Replying(line, read, said)
      PROVE  InOrder(read, {said[i] : i \in {k \in DOMAIN said :
                                         \A j \in DOMAIN said : j >= k => said[j] # ToolCall}})
  <2>1. \A piece \in Nat : (\E i \in DOMAIN read : read[i] = piece) <=> IsLast(said, piece)
    BY <1>3 DEF Replying, ReplyOf, Says
  <2>2. {read[i] : i \in DOMAIN read}
          = {said[i] : i \in {k \in DOMAIN said : \A j \in DOMAIN said : j >= k => said[j] # ToolCall}}
    BY <1>1, <2>1 DEF IsLast
  <2> QED BY <1>3, <2>2 DEF Replying, Rises, InOrder
<1> QED BY <1>2, <1>3

----------------------------------------------------------------------------
(* The engine's steps *)

Loops == [at : {"idle", "turn", "stopping", "stopped", "panicked"},
          end : {"none"} \cup OpEnd, said : Seq(0..MaxPieces), failure : BOOLEAN]

LEMMA TypeFacts ==
  ASSUME HeadTypeOK
  PROVE  /\ format \in {"text", "json", "stream-json"}
         /\ stdout \in Stdouts /\ summary \in Summaries /\ saving \in Savings /\ loop \in Loops
         /\ opline \in Seq({"prompt", "interrupt"}) /\ eventline \in Seq(EngineEvent)
BY HeadlessAssumption DEF HeadTypeOK, Stdouts, Summaries, Savings, Loops, HeadlessAssumption

\* A step of the engine keeps its types if it does those of what it changes.
LEMMA EngineTyped ==
  ASSUME HeadTypeOK, EngineStep, loop' \in Loops, saving' \in Savings,
         opline' \in Seq({"prompt", "interrupt"}), eventline' \in Seq(EngineEvent)
  PROVE  HeadTypeOK'
<1>1. /\ format' = format /\ driver' = driver /\ signalled' = signalled /\ stdout' = stdout
      /\ summary' = summary /\ hungup' = hungup
  BY DEF EngineStep
<1> QED BY <1>1 DEF HeadTypeOK, Loops, Savings

\* An op is taken.
LEMMA OpTaken ==
  ASSUME HeadTypeOK, opline # <<>>, opline' = Tail(opline)
  PROVE  /\ opline' \in Seq({"prompt", "interrupt"}) /\ Head(opline) = opline[1] /\ 1 \in DOMAIN opline
         /\ \A i \in DOMAIN opline' : i \in Nat /\ i >= 1 /\ i + 1 \in DOMAIN opline /\ opline'[i] = opline[i + 1]
         /\ PromptFirst => \A i \in DOMAIN opline' : opline'[i] # "prompt"
<1>1. /\ Behead(opline, opline') /\ opline' \in Seq({"prompt", "interrupt"}) /\ Head(opline) = opline[1]
  BY TypeFacts, TailFacts
<1>2. ASSUME PromptFirst, NEW i \in DOMAIN opline' PROVE opline'[i] # "prompt"
  <2>1. i + 1 \in DOMAIN opline /\ opline'[i] = opline[i + 1] /\ i \in Nat /\ i >= 1
    BY <1>1 DEF Behead
  <2>2. i + 1 # 1
    BY <2>1
  <2> QED BY <1>2, <2>1, <2>2 DEF PromptFirst
<1> QED BY <1>1, <1>2 DEF Behead

LEMMA ServeOpKeeps ==
  ASSUME RInv, ServeOp
  PROVE  RInv'
<1>1. /\ HeadTypeOK /\ PiecesNumbered /\ PromptFirst /\ Stages /\ EngineStep
      /\ loop.at = "idle" /\ opline # <<>> /\ opline' = Tail(opline)
      /\ driver.at = "running" => Reading(format, eventline, stdout, summary, loop, saving)
      /\ driver.at # "running" => Left
  BY DEF RInv, ServeOp
<1>2. /\ format' = format /\ driver' = driver /\ signalled' = signalled /\ stdout' = stdout
      /\ summary' = summary /\ hungup' = hungup
  BY <1>1 DEF EngineStep
<1>3. /\ opline' \in Seq({"prompt", "interrupt"}) /\ Head(opline) = opline[1] /\ 1 \in DOMAIN opline
      /\ \A i \in DOMAIN opline' : opline'[i] # "prompt"
  BY <1>1, OpTaken
<1>4. PromptFirst'
  BY <1>3 DEF PromptFirst
<1>5. driver.at # "exited"
  BY <1>1 DEF Stages, EngineGone
<1>6. CASE Head(opline) = "prompt"
  <2>1. PICK outcome \in Outcomes : Saves(outcome) /\ Emits(Told(outcome))
    BY <1>6, <1>1 DEF ServeOp
  <2>2. loop' = [loop EXCEPT !.at = "turn"]
    BY <1>6 DEF ServeOp, Goes
  <2>3. loop' \in Loops /\ loop'.at = "turn" /\ loop'.end = loop.end /\ loop'.said = loop.said
    BY <1>1, <2>2, TypeFacts DEF Loops
  <2>4. loop.end = "none"
    BY <1>1, <1>3, <1>6 DEF PromptFirst
  <2>5. saving' \in Savings /\ eventline' = eventline \o Told(outcome)
    BY <1>1, <2>1, TypeFacts, SavesFacts DEF Emits
  <2>6. eventline' \in Seq(EngineEvent)
    BY <1>1, <2>5, TypeFacts, EventsTyped DEF Told
  <2>7. HeadTypeOK'
    BY <1>1, <1>3, <2>3, <2>5, <2>6, EngineTyped
  <2>8. PiecesNumbered' /\ Stages'
    BY <1>1, <1>2, <1>5, <2>3, <2>4 DEF PiecesNumbered, Stages, LoopEnds, EngineGone
  <2>9. ASSUME driver.at = "running"
        PROVE  Reading(format, eventline', stdout, summary, loop', saving')
    <3>1. NoEnd(eventline)
      BY <1>1, <2>4, <2>9, NoEndYet DEF Reading
    <3>2. Reading(format, eventline, stdout, summary, loop', saving)
      BY <1>1, <2>3, <2>9, <3>1, NothingEnded DEF Reading, FailureTold
    <3> QED BY <1>1, <2>1, <2>5, <3>1, <3>2, TypeFacts, ReadingSaves
  <2>10. ASSUME driver.at # "running" PROVE Left'
    <3>1. driver.end = "shutdown"
      BY <1>1, <1>3, <1>6, <2>10 DEF Left
    <3> QED BY <1>1, <1>2, <2>10, <3>1 DEF Left, LeftWith
  <2> QED BY <1>2, <1>4, <1>5, <2>7, <2>8, <2>9, <2>10 DEF RInv
<1>7. CASE Head(opline) # "prompt"
  <2>1. eventline' = eventline \o EndOf("interrupt", "completed") /\ loop' = loop /\ saving' = saving
    BY <1>7 DEF ServeOp, Emits
  <2>2. eventline' \in Seq(EngineEvent)
    BY <1>1, <2>1, TypeFacts, EventsTyped DEF EndOf, OpEnd
  <2>3. HeadTypeOK'
    BY <1>1, <1>3, <2>1, <2>2, TypeFacts, EngineTyped
  <2>4. PiecesNumbered' /\ Stages'
    BY <1>1, <1>2, <1>5, <2>1 DEF PiecesNumbered, Stages, LoopEnds, EngineGone
  <2>5. driver.at = "running" => Reading(format, eventline', stdout, summary, loop, saving)
    BY <1>1, <2>1, TypeFacts, ReadingOther
  <2>6. ASSUME driver.at # "running" PROVE Left'
    <3>1. LastReply' = LastReply /\ Spoken' = Spoken
      BY <2>1 DEF LastReply, Spoken
    <3>2. LeftWith' /\ Left
      BY <1>1, <1>2, <2>6 DEF Left, LeftWith
    <3> QED BY <1>1, <1>2, <1>3, <2>1, <3>1, <3>2 DEF Left
  <2> QED BY <1>2, <1>4, <1>5, <2>1, <2>3, <2>4, <2>5, <2>6 DEF RInv
<1> QED BY <1>6, <1>7

\* In a turn the driver reads, and nothing has ended.
LEMMA InTurnFacts ==
  ASSUME RInv, InTurn
  PROVE  /\ HeadTypeOK /\ driver.at = "running" /\ loop.end = "none" /\ NoEnd(eventline)
         /\ Reading(format, eventline, stdout, summary, loop, saving)
<1>1. HeadTypeOK /\ driver.at = "running" /\ loop.end = "none"
  BY DEF RInv, InTurn, Stages
<1>2. Reading(format, eventline, stdout, summary, loop, saving)
  BY <1>1 DEF RInv
<1> QED BY <1>1, <1>2, NoEndYet DEF Reading

\* A step of a turn keeps the invariant if it does the types, the order and what the driver reads.
LEMMA TurnKeeps ==
  ASSUME RInv, InTurn, EngineStep, opline' = opline, loop' \in Loops, saving' \in Savings,
         loop'.at \in {"turn", "idle"}, loop'.at = "turn" => loop'.end = "none", LoopEnds',
         eventline' \in Seq(EngineEvent), PiecesNumbered',
         Reading(format, eventline', stdout, summary, loop', saving')
  PROVE  RInv'
<1>1. HeadTypeOK /\ driver.at = "running" /\ PromptFirst /\ Stages /\ loop.at = "turn" /\ loop.end = "none"
  BY InTurnFacts DEF RInv, InTurn
<1>2. /\ format' = format /\ driver' = driver /\ signalled' = signalled /\ stdout' = stdout
      /\ summary' = summary /\ hungup' = hungup
  BY DEF EngineStep
<1>3. HeadTypeOK'
  BY <1>1, TypeFacts, EngineTyped
<1>4. PromptFirst'
  BY <1>1 DEF PromptFirst
<1>5. Stages'
  BY <1>1, <1>2 DEF Stages, LoopEnds
<1> QED BY <1>1, <1>2, <1>3, <1>4, <1>5 DEF RInv

LEMMA SpeakKeeps ==
  ASSUME RInv, Speak
  PROVE  RInv'
<1> DEFINE piece == Len(loop.said) + 1
<1>1. /\ InTurn /\ EngineStep /\ opline' = opline /\ saving' = saving
      /\ Len(loop.said) < MaxPieces
      /\ eventline' = eventline \o <<[type |-> "token", piece |-> piece]>>
      /\ loop' = [loop EXCEPT !.said = Append(loop.said, piece)]
  BY DEF Speak, Speaks, InTurn, Emits
<1>2. /\ HeadTypeOK /\ loop.end = "none" /\ NoEnd(eventline)
      /\ Reading(format, eventline, stdout, summary, loop, saving)
  BY <1>1, InTurnFacts
<1>3. loop.said \in Seq(0..MaxPieces) /\ loop \in Loops /\ piece \in 1..MaxPieces /\ piece \in 0..MaxPieces
  BY <1>1, <1>2, TypeFacts, HeadlessAssumption DEF Loops, HeadlessAssumption
<1>4. Append(loop.said, piece) \in Seq(0..MaxPieces)
  BY <1>3
<1>5. /\ loop' \in Loops /\ loop'.at = loop.at /\ loop'.end = loop.end
      /\ loop'.said = Append(loop.said, piece)
  <2> HIDE DEF piece
  <2> QED BY <1>1, <1>3, <1>4 DEF Loops
<1>6. /\ eventline' \in Seq(EngineEvent)
      /\ Reading(format, eventline', stdout, summary, loop', saving)
  <2>1. piece = Len(loop.said) + 1
    OBVIOUS
  <2> HIDE DEF piece
  <2> QED BY <1>1, <1>2, <1>3, <1>5, <2>1, TypeFacts, ReadingSpeaks
<1>7. PiecesNumbered'
  BY <1>3, <1>5 DEF RInv, PiecesNumbered
<1>8. loop.at = "turn" /\ saving' \in Savings
  BY <1>1, <1>2, TypeFacts DEF InTurn
<1> QED BY <1>1, <1>2, <1>5, <1>6, <1>7, <1>8, TurnKeeps DEF LoopEnds

LEMMA CallRoundKeeps ==
  ASSUME RInv, CallRound
  PROVE  RInv'
<1>1. /\ InTurn /\ EngineStep /\ opline' = opline
      /\ loop' = [loop EXCEPT !.said = Append(loop.said, ToolCall)]
  BY DEF CallRound, Speaks, InTurn
<1>2. PICK outcome \in Outcomes :
         Saves(outcome) /\ eventline' = eventline \o (<<[type |-> "toolCall"]>> \o Told(outcome))
  BY DEF CallRound, Emits
<1>3. /\ HeadTypeOK /\ loop.end = "none" /\ NoEnd(eventline)
      /\ Reading(format, eventline, stdout, summary, loop, saving)
  BY <1>1, InTurnFacts
<1>4. loop.said \in Seq(0..MaxPieces) /\ loop \in Loops /\ ToolCall \in 0..MaxPieces
      /\ eventline \in Seq(EngineEvent) /\ saving \in Savings
  BY <1>3, TypeFacts, HeadlessAssumption DEF Loops, HeadlessAssumption, ToolCall
<1>5. Append(loop.said, ToolCall) \in Seq(0..MaxPieces)
  BY <1>4
<1>6. /\ loop' \in Loops /\ loop'.at = loop.at /\ loop'.end = loop.end
      /\ loop'.said = Append(loop.said, ToolCall)
  BY <1>1, <1>4, <1>5 DEF Loops
<1> DEFINE called == eventline \o <<[type |-> "toolCall"]>>
<1>7. /\ called \in Seq(EngineEvent) /\ NoEnd(called)
      /\ Reading(format, called, stdout, summary, loop', saving)
  BY <1>3, <1>4, <1>6, ReadingCalls
<1>8. eventline' = called \o Told(outcome)
  <2>1. <<[type |-> "toolCall"]>> \in Seq(EngineEvent) /\ Told(outcome) \in Seq(EngineEvent)
    BY EventsTyped DEF Told
  <2>2. \A a, b, c \in Seq(EngineEvent) : (a \o b) \o c = a \o (b \o c)
    BY ConcatAssociative
  <2> QED BY <1>2, <1>4, <2>1, <2>2
<1> HIDE DEF called
<1>9. /\ eventline' \in Seq(EngineEvent) /\ saving' \in Savings
      /\ Reading(format, eventline', stdout, summary, loop', saving')
  BY <1>2, <1>4, <1>7, <1>8, ReadingSaves, SavesFacts
<1>10. PiecesNumbered'
  BY <1>4, <1>6 DEF RInv, PiecesNumbered
<1>11. loop.at = "turn"
  BY <1>1 DEF InTurn
<1> QED BY <1>1, <1>3, <1>6, <1>9, <1>10, <1>11, TurnKeeps DEF LoopEnds

\* A turn that ends: its commit, a failure if it is one, its end.
LEMMA TurnEnds ==
  ASSUME RInv, loop.at = "turn", loop.end = "none",
         NEW outcome \in Outcomes, Saves(outcome), NEW end, end \in {"completed", "cancelled"},
         eventline' = eventline \o (Told(outcome) \o EndOf("prompt", end)),
         loop' = [loop EXCEPT !.at = "idle", !.end = end]
  PROVE  /\ eventline' \in Seq(EngineEvent) /\ saving' \in Savings
         /\ loop' \in Loops /\ loop'.at = "idle" /\ loop'.end = end /\ loop'.said = loop.said
         /\ driver.at = "running" => Reading(format, eventline', stdout, summary, loop', saving')
<1>1. HeadTypeOK
  BY DEF RInv
<1>2. loop \in Loops /\ eventline \in Seq(EngineEvent) /\ saving \in Savings
  BY <1>1, TypeFacts
<1>3. loop' \in Loops /\ loop'.at = "idle" /\ loop'.end = end /\ loop'.said = loop.said
  BY <1>2 DEF Loops, OpEnd
<1>4. Told(outcome) \in Seq(EngineEvent) /\ EndOf("prompt", end) \in Seq(EngineEvent)
  BY EventsTyped DEF Told, EndOf, OpEnd
<1>5. eventline' = (eventline \o Told(outcome)) \o EndOf("prompt", end)
  <2>2. \A a, b, c \in Seq(EngineEvent) : (a \o b) \o c = a \o (b \o c)
    BY ConcatAssociative
  <2> QED BY <1>2, <1>4, <2>2
<1>6. eventline' \in Seq(EngineEvent) /\ saving' \in Savings
  BY <1>2, <1>4, <1>5, SavesFacts
<1>7. ASSUME driver.at = "running" PROVE Reading(format, eventline', stdout, summary, loop', saving')
  <2> DEFINE line == eventline \o Told(outcome)
  <2>1. Reading(format, eventline, stdout, summary, loop, saving) /\ NoEnd(eventline)
    BY <1>7, NoEndYet DEF RInv, Reading
  <2>2. /\ line \in Seq(EngineEvent) /\ NoEnd(line)
        /\ Reading(format, line, stdout, summary, loop, saving')
    BY <1>2, <2>1, ReadingSaves
  <2>3. eventline' = line \o EndOf("prompt", end)
    BY <1>5
  <2> HIDE DEF line
  <2>4. Reading(format, line \o EndOf("prompt", end), stdout, summary, loop', saving')
    BY <1>3, <2>2, ReadingEnds
  <2> QED BY <2>3, <2>4
<1> QED BY <1>3, <1>6, <1>7

LEMMA CompleteKeeps ==
  ASSUME RInv, Complete
  PROVE  RInv'
<1>1. /\ InTurn /\ EngineStep /\ opline' = opline
      /\ loop' = [loop EXCEPT !.at = "idle", !.end = "completed"]
  BY DEF Complete, InTurn
<1>2. PICK outcome \in Outcomes :
         Saves(outcome) /\ eventline' = eventline \o (Told(outcome) \o EndOf("prompt", "completed"))
  BY DEF Complete, Emits
<1>3. loop.end = "none" /\ loop.at = "turn" /\ driver.at = "running"
  BY <1>1, InTurnFacts DEF InTurn
<1>4. /\ eventline' \in Seq(EngineEvent) /\ saving' \in Savings
      /\ loop' \in Loops /\ loop'.at = "idle" /\ loop'.end = "completed" /\ loop'.said = loop.said
      /\ Reading(format, eventline', stdout, summary, loop', saving')
  BY <1>1, <1>2, <1>3, TurnEnds
<1>5. PiecesNumbered'
  BY <1>4 DEF RInv, PiecesNumbered
<1> QED BY <1>1, <1>4, <1>5, TurnKeeps DEF LoopEnds

LEMMA TurnFailsKeeps ==
  ASSUME RInv, TurnFails
  PROVE  RInv'
<1> DEFINE failed == <<[type |-> "turnFailed"]>>
           ended == EndOf("prompt", "failed")
<1>1. /\ InTurn /\ EngineStep /\ opline' = opline
      /\ loop' = [loop EXCEPT !.at = "idle", !.end = "failed"]
  BY DEF TurnFails, InTurn
<1>2. PICK outcome \in Outcomes :
         Saves(outcome) /\ eventline' = eventline \o ((Told(outcome) \o failed) \o ended)
  BY DEF TurnFails, Emits
<1>3. /\ HeadTypeOK /\ loop.end = "none" /\ NoEnd(eventline)
      /\ Reading(format, eventline, stdout, summary, loop, saving)
  BY <1>1, InTurnFacts
<1>4. loop \in Loops /\ eventline \in Seq(EngineEvent) /\ saving \in Savings
  BY <1>3, TypeFacts
<1>5. loop' \in Loops /\ loop'.at = "idle" /\ loop'.end = "failed" /\ loop'.said = loop.said
  BY <1>1, <1>4 DEF Loops, OpEnd
<1> DEFINE line1 == eventline \o Told(outcome)
           line2 == line1 \o failed
<1>6. eventline' = line2 \o ended
  <2>1. Told(outcome) \in Seq(EngineEvent) /\ failed \in Seq(EngineEvent) /\ ended \in Seq(EngineEvent)
    BY EventsTyped DEF Told, EndOf, OpEnd
  <2>2. \A a, b, c \in Seq(EngineEvent) : (a \o b) \o c = a \o (b \o c)
    BY ConcatAssociative
  <2>3. Told(outcome) \o failed \in Seq(EngineEvent)
    BY <2>1, ConcatProperties
  <2> HIDE DEF failed, ended
  <2>4. eventline' = (eventline \o (Told(outcome) \o failed)) \o ended
    BY <1>2, <1>4, <2>1, <2>2, <2>3
  <2>5. eventline \o (Told(outcome) \o failed) = (eventline \o Told(outcome)) \o failed
    BY <1>4, <2>1, <2>2
  <2> QED BY <2>4, <2>5
<1>7. /\ line1 \in Seq(EngineEvent) /\ NoEnd(line1)
      /\ Reading(format, line1, stdout, summary, loop, saving')
  BY <1>2, <1>3, <1>4, ReadingSaves
<1> HIDE DEF line1
<1>8. /\ line2 \in Seq(EngineEvent) /\ NoEnd(line2)
      /\ Reading(format, line2, stdout, summary, loop', saving')
  BY <1>5, <1>7, ReadingFails
<1> HIDE DEF line2
<1>9. /\ eventline' \in Seq(EngineEvent)
      /\ Reading(format, eventline', stdout, summary, loop', saving')
  <2>1. /\ line2 \o EndOf("prompt", "failed") \in Seq(EngineEvent)
        /\ Reading(format, line2 \o EndOf("prompt", "failed"), stdout, summary, loop', saving')
    BY <1>5, <1>8, ReadingEnds
  <2> QED BY <1>6, <2>1
<1>10. saving' \in Savings
  BY <1>2, <1>4, SavesFacts
<1>11. PiecesNumbered'
  BY <1>5 DEF RInv, PiecesNumbered
<1> QED BY <1>1, <1>5, <1>9, <1>10, <1>11, TurnKeeps DEF LoopEnds

LEMMA InterruptedKeeps ==
  ASSUME RInv, Interrupted
  PROVE  RInv'
<1>1. /\ HeadTypeOK /\ PiecesNumbered /\ PromptFirst /\ Stages /\ EngineStep
      /\ loop.at = "turn" /\ opline # <<>> /\ opline' = Tail(opline)
      /\ loop' = [loop EXCEPT !.at = "idle", !.end = "cancelled"]
      /\ driver.at # "running" => Left
  BY DEF RInv, Interrupted
<1>2. /\ format' = format /\ driver' = driver /\ signalled' = signalled /\ stdout' = stdout
      /\ summary' = summary /\ hungup' = hungup
  BY <1>1 DEF EngineStep
<1>3. PICK outcome \in Outcomes :
         Saves(outcome) /\ eventline' = eventline \o (Told(outcome) \o EndOf("prompt", "cancelled"))
  BY DEF Interrupted, Emits
<1>4. /\ opline' \in Seq({"prompt", "interrupt"}) /\ \A i \in DOMAIN opline' : opline'[i] # "prompt"
  BY <1>1, OpTaken
<1>5. loop.end = "none" /\ driver.at # "exited"
  BY <1>1 DEF Stages, EngineGone
<1>6. /\ eventline' \in Seq(EngineEvent) /\ saving' \in Savings
      /\ loop' \in Loops /\ loop'.at = "idle" /\ loop'.end = "cancelled" /\ loop'.said = loop.said
      /\ driver.at = "running" => Reading(format, eventline', stdout, summary, loop', saving')
  BY <1>1, <1>3, <1>5, TurnEnds
<1>7. HeadTypeOK'
  BY <1>1, <1>4, <1>6, EngineTyped
<1>8. PiecesNumbered' /\ PromptFirst' /\ Stages'
  BY <1>1, <1>2, <1>4, <1>5, <1>6 DEF PiecesNumbered, PromptFirst, Stages, LoopEnds, EngineGone
<1>9. ASSUME driver.at # "running" PROVE Left'
  <2>1. driver.end = "shutdown"
    BY <1>1, <1>9 DEF Left
  <2> QED BY <1>1, <1>2, <1>9, <2>1 DEF Left, LeftWith
<1> QED BY <1>2, <1>5, <1>6, <1>7, <1>8, <1>9 DEF RInv

LEMMA ShutDownKeeps ==
  ASSUME RInv, ShutDown
  PROVE  RInv'
<1>1. /\ HeadTypeOK /\ PiecesNumbered /\ PromptFirst /\ Stages /\ EngineStep
      /\ loop.at \in {"idle", "turn"} /\ opline = <<>> /\ hungup /\ opline' = opline
      /\ loop' = [loop EXCEPT !.at = "stopping"]
  BY DEF RInv, ShutDown, Goes
<1>2. /\ format' = format /\ driver' = driver /\ signalled' = signalled /\ stdout' = stdout
      /\ summary' = summary /\ hungup' = hungup
  BY <1>1 DEF EngineStep
<1>3. driver.at = "joining" /\ Left
  BY <1>1 DEF Stages, EngineGone, RInv, HeadTypeOK
<1>4. loop' \in Loops /\ loop'.at = "stopping" /\ loop'.end = loop.end /\ loop'.said = loop.said
  BY <1>1, TypeFacts DEF Loops
<1>5. /\ saving' \in Savings /\ eventline' \in Seq(EngineEvent)
      /\ loop.at # "turn" => saving' = saving
  <2>1. CASE loop.at = "turn"
    <3>1. PICK outcome \in Outcomes : Saves(outcome) /\ eventline' = eventline \o Told(outcome)
      BY <2>1 DEF ShutDown, Emits
    <3>2. Told(outcome) \in Seq(EngineEvent)
      BY EventsTyped DEF Told
    <3> QED BY <1>1, <2>1, <3>1, <3>2, TypeFacts, SavesFacts
  <2>2. CASE loop.at # "turn"
    BY <1>1, <2>2, TypeFacts DEF ShutDown
  <2> QED BY <2>1, <2>2
<1>6. HeadTypeOK'
  BY <1>1, <1>4, <1>5, TypeFacts, EngineTyped
<1>7. PiecesNumbered' /\ PromptFirst' /\ Stages'
  BY <1>1, <1>2, <1>3, <1>4 DEF PiecesNumbered, PromptFirst, Stages, LoopEnds
<1>8. Left'
  <2>1. LastReply' = LastReply /\ Spoken' = Spoken
    BY <1>4 DEF LastReply, Spoken
  <2>2. LeftWith'
    BY <1>2, <1>3 DEF Left, LeftWith
  <2> QED BY <1>1, <1>2, <1>3, <1>4, <1>5, <2>1, <2>2 DEF Left
<1> QED BY <1>2, <1>3, <1>6, <1>7, <1>8 DEF RInv

LEMMA FinalizeKeeps ==
  ASSUME RInv, Finalize
  PROVE  RInv'
<1>1. /\ HeadTypeOK /\ PiecesNumbered /\ PromptFirst /\ Stages /\ EngineStep
      /\ loop.at = "stopping" /\ opline' = opline /\ eventline' = eventline
  BY DEF RInv, Finalize
<1>2. /\ format' = format /\ driver' = driver /\ signalled' = signalled /\ stdout' = stdout
      /\ summary' = summary /\ hungup' = hungup
  BY <1>1 DEF EngineStep
<1>3. driver.at = "joining" /\ Left
  BY <1>1 DEF Stages, EngineGone, RInv, HeadTypeOK
<1>4. PICK outcome \in Outcomes \ {"forks"} :
        /\ Saves(outcome)
        /\ loop' = [loop EXCEPT !.at = "stopped",
                          !.failure = outcome = "fails" /\ ~saving.surfaced]
  BY DEF Finalize
<1>5. /\ loop' \in Loops /\ loop'.at = "stopped" /\ loop'.end = loop.end /\ loop'.said = loop.said
  <2>1. (outcome = "fails" /\ ~saving.surfaced) \in BOOLEAN
    OBVIOUS
  <2> QED BY <1>1, <1>4, <2>1, TypeFacts DEF Loops
<1>6. saving' \in Savings /\ saving'.forked = saving.forked
  <2>1. saving' \in Savings /\ saving'.forked = (saving.forked \/ outcome = "forks") /\ saving \in Savings
    BY <1>1, <1>4, TypeFacts, SavesFacts
  <2> QED BY <1>4, <2>1 DEF Savings
<1>7. HeadTypeOK'
  BY <1>1, <1>5, <1>6, TypeFacts, EngineTyped
<1>8. PiecesNumbered' /\ PromptFirst' /\ Stages'
  <2>1. \A i \in DOMAIN opline : opline[i] # "prompt"
    BY <1>1 DEF PromptFirst
  <2> QED BY <1>1, <1>2, <1>3, <1>5, <2>1 DEF PiecesNumbered, PromptFirst, Stages, LoopEnds
<1>9. Left'
  <2>1. LastReply' = LastReply /\ Spoken' = Spoken
    BY <1>5 DEF LastReply, Spoken
  <2>2. LeftWith'
    BY <1>2, <1>3 DEF Left, LeftWith
  <2> QED BY <1>1, <1>2, <1>3, <1>5, <1>6, <2>1, <2>2 DEF Left
<1> QED BY <1>2, <1>3, <1>7, <1>8, <1>9 DEF RInv

LEMMA PanicKeeps ==
  ASSUME RInv, Panic
  PROVE  RInv'
<1>1. /\ HeadTypeOK /\ PiecesNumbered /\ PromptFirst /\ Stages /\ EngineStep
      /\ loop.at \notin {"stopped", "panicked"} /\ opline' = opline /\ eventline' = eventline
      /\ saving' = saving /\ loop' = [loop EXCEPT !.at = "panicked"]
      /\ driver.at = "running" => Reading(format, eventline, stdout, summary, loop, saving)
      /\ driver.at # "running" => Left
  BY DEF RInv, Panic, Goes
<1>2. /\ format' = format /\ driver' = driver /\ signalled' = signalled /\ stdout' = stdout
      /\ summary' = summary /\ hungup' = hungup
  BY <1>1 DEF EngineStep
<1>3. driver.at # "exited"
  BY <1>1 DEF Stages, EngineGone
<1>4. loop' \in Loops /\ loop'.at = "panicked" /\ loop'.end = loop.end /\ loop'.said = loop.said
  BY <1>1, TypeFacts DEF Loops
<1>5. HeadTypeOK'
  BY <1>1, <1>4, TypeFacts, EngineTyped
<1>6. PiecesNumbered' /\ PromptFirst' /\ Stages'
  BY <1>1, <1>2, <1>3, <1>4 DEF PiecesNumbered, PromptFirst, Stages, LoopEnds
<1>7. driver.at = "running" => Reading(format, eventline', stdout, summary, loop', saving')
  BY <1>1, <1>4 DEF Reading, EndTold, FailureTold
<1>8. ASSUME driver.at # "running" PROVE Left'
  <2>1. LastReply' = LastReply /\ Spoken' = Spoken
    BY <1>4 DEF LastReply, Spoken
  <2>2. LeftWith' /\ Left
    BY <1>1, <1>2, <1>8 DEF Left, LeftWith
  <2> QED BY <1>1, <1>2, <1>4, <2>1, <2>2 DEF Left
<1> QED BY <1>2, <1>3, <1>5, <1>6, <1>7, <1>8 DEF RInv

----------------------------------------------------------------------------
(* The driver's steps *)

Drivers == [at : {"running", "joining", "exited"}, interrupted : BOOLEAN,
            end : {"none"} \cup OpEnd, exit : {"none", "success", "failure", "signal", "panic"}]

LEMMA DriverTyped ==
  ASSUME HeadTypeOK, DriverStep, driver' \in Drivers, hungup' \in BOOLEAN,
         stdout' \in Stdouts, summary' \in Summaries,
         opline' \in Seq({"prompt", "interrupt"}), eventline' \in Seq(EngineEvent)
  PROVE  HeadTypeOK'
<1>1. format' = format /\ signalled' = signalled /\ loop' = loop /\ saving' = saving
  BY DEF DriverStep
<1> QED BY <1>1 DEF HeadTypeOK, Drivers, Stdouts, Summaries

LEMMA LeavesFacts ==
  ASSUME HeadTypeOK, NEW end \in OpEnd, NEW exit \in {"success", "failure", "signal"}, Leaves(end, exit)
  PROVE  /\ driver' \in Drivers /\ driver'.at = "joining" /\ driver'.end = end /\ driver'.exit = exit
         /\ hungup' = TRUE
<1>1. driver \in Drivers /\ driver' = [driver EXCEPT !.at = "joining", !.end = end, !.exit = exit]
      /\ hungup' = TRUE
  BY DEF HeadTypeOK, Drivers, Leaves
<1> QED BY <1>1 DEF Drivers

\* A step that leaves the run keeps the invariant if it does the types, the order and what is known.
LEMMA LeavingKeeps ==
  ASSUME RInv, DriverStep, HeadTypeOK', hungup' = TRUE, driver'.at = "joining", Left',
         opline' = opline, driver'.exit = "signal" => signalled
  PROVE  RInv'
<1>1. format' = format /\ signalled' = signalled /\ loop' = loop /\ saving' = saving
  BY DEF DriverStep
<1>2. PiecesNumbered' /\ PromptFirst' /\ Stages'
  BY <1>1 DEF RInv, PiecesNumbered, PromptFirst, Stages, LoopEnds
<1> QED BY <1>1, <1>2 DEF RInv

LEMMA TakeEventKeeps ==
  ASSUME RInv, TakeEvent
  PROVE  RInv'
<1> DEFINE e == Head(eventline)
<1>1. /\ HeadTypeOK /\ PiecesNumbered /\ PromptFirst /\ Stages /\ DriverStep
      /\ driver.at = "running" /\ eventline # <<>> /\ eventline' = Tail(eventline)
      /\ Rendered(Head(eventline))
      /\ Reading(format, eventline, stdout, summary, loop, saving)
  BY DEF RInv, TakeEvent
<1>2. format' = format /\ signalled' = signalled /\ loop' = loop /\ saving' = saving
  BY <1>1 DEF DriverStep
<1>3. /\ eventline' \in Seq(EngineEvent) /\ stdout' \in Stdouts /\ summary' \in Summaries
      /\ Reading(format, eventline', stdout', summary', loop, saving)
  BY <1>1, TypeFacts, TakeReads
<1>4. /\ Head(eventline) \in EngineEvent /\ Head(eventline) = eventline[1]
      /\ Behead(eventline, eventline')
  BY <1>1, TypeFacts, TailFacts
<1>5. CASE EndsTurn(e)
  <2> DEFINE exit == IF e.end = "completed" THEN "success" ELSE "failure"
  <2>1. opline' = opline /\ Leaves(e.end, exit)
    BY <1>5 DEF TakeEvent, EndsTurn
  <2>2. e.end \in OpEnd /\ exit \in {"success", "failure", "signal"}
    BY <1>4, <1>5 DEF EngineEvent, EndsTurn
  <2>3. /\ driver' \in Drivers /\ driver'.at = "joining" /\ driver'.end = e.end /\ driver'.exit = exit
        /\ hungup' = TRUE
    BY <1>1, <2>1, <2>2, LeavesFacts
  <2>4. HeadTypeOK'
    BY <1>1, <1>3, <2>1, <2>3, TypeFacts, DriverTyped
  <2>5. /\ loop.at # "turn" /\ loop.end = e.end
        /\ \A i \in DOMAIN eventline' : eventline'[i].type = "ended"
    <3>1. EndTold(eventline, loop) /\ EndsTurn(eventline[1])
      BY <1>1, <1>4, <1>5 DEF Reading
    <3>2. \A i \in DOMAIN eventline' : i + 1 > 1
      BY <1>4 DEF Behead
    <3> QED BY <1>4, <3>1, <3>2 DEF EndTold, Behead, EndsOther
  <2>6. loop.end \in {"completed", "cancelled", "failed"}
    BY <1>1, <2>2, <2>5 DEF Stages, LoopEnds, OpEnd
  <2>7. /\ format # "text" => /\ summary'.error <=> loop.end = "failed"
                              /\ summary'.forked = saving.forked
                              /\ InOrder(summary'.message, LastReply)
        /\ format # "json" /\ ~stdout'.failed => InOrder(stdout'.printed, Spoken)
    <3>1. loop.said \in Seq(0..MaxPieces) /\ saving.forked \in BOOLEAN
      BY <1>1, TypeFacts DEF Loops, Savings
    <3>2. /\ summary'.message \in Seq(1..MaxPieces) /\ stdout'.printed \in Seq(1..MaxPieces)
          /\ summary'.forked \in BOOLEAN
      BY <1>3 DEF Summaries, Stdouts
    <3>3. ~Mentions(eventline', "turnFailed") /\ ~Mentions(eventline', "forked")
      BY <2>5 DEF Mentions
    <3>4. ASSUME format # "text"
          PROVE  /\ summary'.error <=> loop.end = "failed"
                 /\ summary'.forked = saving.forked
                 /\ InOrder(summary'.message, LastReply)
      <4>1. /\ FailureTold(eventline', summary', loop) /\ ForkTold(eventline', summary', saving)
            /\ Replying(eventline', summary'.message, loop.said)
        BY <1>3, <3>4 DEF Reading
      <4>2. InOrder(summary'.message, LastReply)
        BY <2>5, <3>1, <3>2, <4>1, AllRead DEF LastReply
      <4>3. summary'.forked = saving.forked
        BY <3>1, <3>2, <3>3, <4>1 DEF ForkTold
      <4>4. summary'.error <=> loop.end = "failed"
        BY <3>3, <4>1 DEF FailureTold
      <4> QED BY <4>2, <4>3, <4>4
    <3>5. ASSUME format # "json", ~stdout'.failed
          PROVE  InOrder(stdout'.printed, Spoken)
      <4>1. Printing(eventline', stdout'.printed, loop.said)
        BY <1>3, <3>5 DEF Reading
      <4> QED BY <2>5, <3>1, <3>2, <4>1, AllRead DEF Spoken
    <3> QED BY <3>4, <3>5
  <2>8. Left'
    <3>1. LastReply' = LastReply /\ Spoken' = Spoken
      BY <1>2 DEF LastReply, Spoken
    <3>2. driver'.end \in {"completed", "cancelled", "failed"} /\ driver'.end = loop.end
      BY <2>3, <2>5, <2>6
    <3>3. LeftWith'
      BY <2>3, <3>2 DEF LeftWith
    <3>4. \A i \in DOMAIN opline : loop.at = "panicked" \/ opline[i] # "prompt"
      BY <1>1, <2>5, <2>6 DEF PromptFirst
    <3> HIDE DEF e
    <3> QED BY <1>2, <2>1, <2>5, <2>7, <3>1, <3>2, <3>3, <3>4 DEF Left
  <2>9. driver'.exit # "signal"
    BY <2>3
  <2> QED BY <1>1, <2>1, <2>3, <2>4, <2>8, <2>9, LeavingKeeps
<1>6. CASE ~EndsTurn(e)
  <2>1. /\ hungup' = hungup
        /\ \/ driver' = driver /\ opline' = opline
           \/ /\ driver' = [driver EXCEPT !.interrupted = TRUE]
              /\ opline' \in {opline, Append(opline, "interrupt")}
    BY <1>6 DEF TakeEvent, EndsTurn
  <2>2. /\ driver' \in Drivers /\ driver'.at = driver.at /\ driver'.exit = driver.exit
    BY <1>1, <2>1 DEF HeadTypeOK, Drivers
  <2>3. /\ opline' \in Seq({"prompt", "interrupt"})
        /\ \A i \in DOMAIN opline' : opline'[i] = "prompt" => i \in DOMAIN opline /\ opline[i] = "prompt"
    <3>1. CASE opline' = opline
      BY <1>1, <3>1, TypeFacts
    <3>2. CASE opline' = Append(opline, "interrupt")
      <4>1. /\ Append(opline, "interrupt") \in Seq({"prompt", "interrupt"})
            /\ Appended(opline, Len(opline) + 1, "interrupt", Append(opline, "interrupt"))
        BY <1>1, TypeFacts, AppendFacts
      <4> QED BY <3>2, <4>1 DEF Appended
    <3> QED BY <2>1, <3>1, <3>2
  <2>4. HeadTypeOK'
    BY <1>1, <1>3, <2>1, <2>2, <2>3, DriverTyped DEF HeadTypeOK
  <2>5. PiecesNumbered' /\ PromptFirst' /\ Stages'
    BY <1>1, <1>2, <2>1, <2>2, <2>3 DEF PiecesNumbered, PromptFirst, Stages, LoopEnds, EngineGone
  <2> QED BY <1>1, <1>2, <1>3, <2>2, <2>4, <2>5 DEF RInv
<1> QED BY <1>5, <1>6

LEMMA TakeSignalKeeps ==
  ASSUME RInv, TakeSignal
  PROVE  RInv'
<1>1. /\ HeadTypeOK /\ driver.at = "running" /\ signalled /\ Leaves("shutdown", "signal") /\ DriverStep
      /\ summary' = summary /\ opline' = opline /\ eventline' = eventline
  BY DEF RInv, TakeSignal
<1>2. PICK does \in {FALSE, format = "text"} : stdout' \in Write(stdout, does, [type |-> "ended"])
  BY DEF TakeSignal
<1>3. stdout' \in Stdouts
  <2>1. ~Says([type |-> "ended"])
    BY DEF Says
  <2> QED BY <1>1, <1>2, <2>1, TypeFacts, WriteFacts
<1>4. /\ driver' \in Drivers /\ driver'.at = "joining" /\ driver'.end = "shutdown"
      /\ driver'.exit = "signal" /\ hungup' = TRUE
  BY <1>1, LeavesFacts DEF OpEnd
<1>5. HeadTypeOK'
  BY <1>1, <1>3, <1>4, TypeFacts, DriverTyped
<1>6. Left'
  BY <1>4 DEF Left, LeftWith
<1> QED BY <1>1, <1>4, <1>5, <1>6, LeavingKeeps

LEMMA EngineStoppedKeeps ==
  ASSUME RInv, EngineStopped
  PROVE  RInv'
<1> DEFINE e == [type |-> "turnFailed"]
<1>1. /\ HeadTypeOK /\ Stages /\ driver.at = "running" /\ eventline = <<>> /\ EngineGone
      /\ Rendered(e) /\ Leaves("failed", "failure") /\ DriverStep
      /\ opline' = opline /\ eventline' = eventline
      /\ Reading(format, eventline, stdout, summary, loop, saving)
  BY DEF RInv, EngineStopped
<1>2. format' = format /\ signalled' = signalled /\ loop' = loop /\ saving' = saving
  BY <1>1 DEF DriverStep
<1>3. loop.at = "panicked"
  BY <1>1 DEF Stages, EngineGone
<1>4. ~Says(e) /\ e.type = "turnFailed"
  BY DEF Says
<1> HIDE DEF e
<1>5. /\ stdout' \in Stdouts /\ summary' \in Summaries
      /\ format # "text" => summary'.error /\ (summary'.forked <=> summary.forked)
  <2>1. stdout' \in Stdouts
    BY <1>1, <1>4, TypeFacts, PrintedFacts DEF Rendered
  <2>2. CASE format = "text"
    BY <1>1, <2>1, <2>2, TypeFacts DEF Rendered
  <2>3. CASE format # "text"
    <3>1. summary' = Observed(e)
      BY <1>1, <2>3 DEF Rendered
    <3>2. summary \in Summaries
      BY <1>1, TypeFacts
    <3> QED BY <1>4, <2>1, <3>1, <3>2, ObservedFacts
  <2> QED BY <2>2, <2>3
<1>6. /\ driver' \in Drivers /\ driver'.at = "joining" /\ driver'.end = "failed"
      /\ driver'.exit = "failure" /\ hungup' = TRUE
  BY <1>1, LeavesFacts DEF OpEnd
<1>7. HeadTypeOK'
  BY <1>1, <1>5, <1>6, TypeFacts, DriverTyped
<1>8. format # "text" => summary'.forked = saving.forked
  <2>1. ~Mentions(eventline, "forked")
    BY <1>1 DEF Mentions
  <2>2. summary'.forked \in BOOLEAN /\ summary.forked \in BOOLEAN /\ saving.forked \in BOOLEAN
    BY <1>1, <1>5, TypeFacts DEF Summaries, Savings
  <2> QED BY <1>1, <1>5, <2>1, <2>2 DEF Reading, ForkTold
<1>9. Left'
  BY <1>2, <1>3, <1>5, <1>6, <1>8 DEF Left, LeftWith
<1>10. driver'.exit # "signal"
  BY <1>6
<1> QED BY <1>1, <1>6, <1>7, <1>9, <1>10, LeavingKeeps

LEMMA FinishKeeps ==
  ASSUME RInv, Finish
  PROVE  RInv'
<1>1. /\ HeadTypeOK /\ PiecesNumbered /\ PromptFirst /\ Stages /\ Left
      /\ driver.at = "joining" /\ EngineGone /\ DriverStep
      /\ summary' = [summary EXCEPT !.unsaved = loop.failure, !.result = TRUE]
      /\ opline' = opline /\ hungup' = hungup /\ eventline' = eventline
  BY DEF RInv, Finish, channels
<1>2. format' = format /\ signalled' = signalled /\ loop' = loop /\ saving' = saving
  BY <1>1 DEF DriverStep
<1>3. /\ stdout' \in Stdouts
      /\ ~stdout'.failed => ~stdout.failed /\ stdout'.printed = stdout.printed
  <2> DEFINE Dones == IF format = "text" THEN BOOLEAN ELSE {TRUE}
  <2>1. PICK told \in (IF loop.failure THEN Printed([type |-> "writeError"]) ELSE {stdout}),
             does \in Dones :
          stdout' \in Write(told, does, [type |-> "result"])
    BY DEF Finish
  <2>2. ~Says([type |-> "writeError"]) /\ ~Says([type |-> "result"])
    BY DEF Says
  <2>3. told \in Stdouts /\ (~told.failed => ~stdout.failed /\ told.printed = stdout.printed)
    BY <1>1, <2>1, <2>2, TypeFacts, PrintedFacts
  <2>4. /\ stdout' \in Stdouts
        /\ ~stdout'.failed => ~told.failed /\ stdout'.printed = told.printed
    BY <2>1, <2>2, <2>3, WriteFacts
  <2> QED BY <2>3, <2>4
<1>4. /\ summary' \in Summaries /\ summary'.message = summary.message
      /\ summary'.error = summary.error /\ summary'.forked = summary.forked
  BY <1>1, TypeFacts DEF Summaries, Loops
<1> DEFINE exit == IF loop.at = "panicked" THEN "panic"
                   ELSE IF driver.exit = "success" /\ (stdout'.failed \/ loop.failure)
                   THEN "failure" ELSE driver.exit
<1>5. driver' = [driver EXCEPT !.at = "exited", !.exit = exit]
  BY DEF Finish
<1>6. /\ driver' \in Drivers /\ driver'.at = "exited" /\ driver'.end = driver.end
      /\ driver'.exit = exit
  <2>1. driver \in Drivers /\ exit \in {"none", "success", "failure", "signal", "panic"}
    BY <1>1 DEF HeadTypeOK, Drivers
  <2> HIDE DEF exit
  <2> QED BY <1>5, <2>1 DEF Drivers
<1>7. HeadTypeOK'
  BY <1>1, <1>3, <1>4, <1>6, DriverTyped DEF HeadTypeOK
<1>8. LastReply' = LastReply /\ Spoken' = Spoken
  BY <1>2 DEF LastReply, Spoken
<1>9. Left'
  <2>1. LeftWith'
    BY <1>1, <1>6 DEF Left, LeftWith
  <2> HIDE DEF exit
  <2> QED BY <1>1, <1>2, <1>3, <1>4, <1>6, <1>8, <2>1 DEF Left
<1>10. driver.end \in {"completed", "cancelled", "failed", "shutdown"}
       /\ driver.exit = IF driver.end = "completed" THEN "success"
                        ELSE IF driver.end = "shutdown" THEN "signal" ELSE "failure"
  BY <1>1 DEF Left, LeftWith, HeadTypeOK, OpEnd
<1>11. PiecesNumbered' /\ PromptFirst' /\ Stages'
  BY <1>1, <1>2, <1>6, <1>10 DEF PiecesNumbered, PromptFirst, Stages, LoopEnds, EngineGone
<1>12. ExitTold'
  <2>1. ASSUME exit = "success"
        PROVE  /\ loop.end = "completed" /\ ~stdout'.failed /\ ~loop.failure
               /\ format # "json" => InOrder(stdout'.printed, Spoken)
    BY <1>1, <1>3, <1>10, <2>1 DEF Left
  <2>2. ASSUME exit = "failure"
        PROVE  loop.end # "completed" \/ stdout'.failed \/ loop.failure
    BY <1>1, <1>10, <2>2 DEF Left
  <2>3. exit = "signal" => signalled
    BY <1>1, <1>10 DEF Stages
  <2>4. exit = "panic" <=> loop.at = "panicked"
    BY <1>10
  <2> HIDE DEF exit
  <2> QED BY <1>2, <1>6, <1>8, <2>1, <2>2, <2>3, <2>4 DEF ExitTold
<1> QED BY <1>6, <1>7, <1>9, <1>11, <1>12 DEF RInv

LEMMA SignalKeeps ==
  ASSUME RInv, Signal
  PROVE  RInv'
<1>1. /\ driver.at = "running" /\ signalled' = TRUE
      /\ format' = format /\ driver' = driver /\ stdout' = stdout /\ summary' = summary
      /\ opline' = opline /\ hungup' = hungup /\ eventline' = eventline
      /\ loop' = loop /\ saving' = saving
  BY DEF Signal, channels
<1>2. HeadTypeOK'
  BY <1>1 DEF RInv, HeadTypeOK
<1>3. PiecesNumbered' /\ PromptFirst' /\ Stages'
  BY <1>1 DEF RInv, PiecesNumbered, PromptFirst, Stages, LoopEnds, EngineGone
<1> QED BY <1>1, <1>2, <1>3 DEF RInv

----------------------------------------------------------------------------

LEMMA RInvInit ==
  ASSUME RunInit
  PROVE  RInv
<1>1. /\ format \in Formats /\ signalled = FALSE /\ hungup = FALSE
      /\ driver = [at |-> "running", interrupted |-> FALSE, end |-> "none", exit |-> "none"]
      /\ stdout = [lost |-> FALSE, failed |-> FALSE, printed |-> <<>>]
      /\ summary = [message |-> <<>>, error |-> FALSE, unsaved |-> FALSE, forked |-> FALSE,
                    result |-> FALSE]
      /\ opline = <<"prompt">> /\ eventline = <<>>
      /\ loop = [at |-> "idle", end |-> "none", said |-> <<>>, failure |-> FALSE]
      /\ saving = [stopped |-> FALSE, surfaced |-> FALSE, forked |-> FALSE]
  BY DEF RunInit
<1>2. HeadTypeOK
  <2>1. /\ <<>> \in Seq(1..MaxPieces) /\ <<>> \in Seq(0..MaxPieces) /\ <<>> \in Seq(EngineEvent)
        /\ <<"prompt">> \in Seq({"prompt", "interrupt"})
    OBVIOUS
  <2> QED BY <1>1, <2>1 DEF HeadTypeOK
<1>3. PiecesNumbered /\ PromptFirst /\ Stages
  BY <1>1 DEF PiecesNumbered, PromptFirst, Stages, LoopEnds
<1>4. Reading(format, eventline, stdout, summary, loop, saving)
  <2>1. EndTold(eventline, loop)
    BY <1>1 DEF EndTold
  <2>2. FailureTold(eventline, summary, loop) /\ ForkTold(eventline, summary, saving)
    BY <1>1 DEF FailureTold, ForkTold, Mentions
  <2>3. Rises(<<>>, <<>>, <<>>)
    BY DEF Rises
  <2>4. \A piece : ~PieceOf(<<>>, <<>>, piece) /\ ~IsSpoken(<<>>, piece)
    BY DEF PieceOf, IsSpoken
  <2>5. \A piece : ~ReplyOf(<<>>, <<>>, piece) /\ ~IsLast(<<>>, piece)
    BY DEF ReplyOf, IsLast
  <2>6. Printing(<<>>, <<>>, <<>>) /\ Replying(<<>>, <<>>, <<>>)
    BY <2>3, <2>4, <2>5 DEF Printing, Replying
  <2>7. loop.said = <<>> /\ summary.message = <<>> /\ stdout.printed = <<>> /\ eventline = <<>>
    BY <1>1
  <2> QED BY <2>1, <2>2, <2>6, <2>7 DEF Reading
<1>5. driver.at = "running"
  BY <1>1
<1> QED BY <1>2, <1>3, <1>4, <1>5 DEF RInv

LEMMA RInvStep ==
  ASSUME RInv, [RunNext]_headvars
  PROVE  RInv'
<1>1. CASE RunNext
  BY <1>1, ServeOpKeeps, InterruptedKeeps, ShutDownKeeps, FinalizeKeeps, SpeakKeeps, CallRoundKeeps,
     CompleteKeeps, TurnFailsKeeps, PanicKeeps, TakeEventKeeps, TakeSignalKeeps, EngineStoppedKeeps,
     FinishKeeps, SignalKeeps
     DEF RunNext, EngineActs, DriverActs
<1>2. CASE UNCHANGED headvars
  <2>1. /\ format' = format /\ signalled' = signalled /\ driver' = driver /\ stdout' = stdout
        /\ summary' = summary /\ opline' = opline /\ hungup' = hungup /\ eventline' = eventline
        /\ loop' = loop /\ saving' = saving
    BY <1>2 DEF headvars, channels
  <2>2. HeadTypeOK' /\ PiecesNumbered' /\ PromptFirst' /\ Stages'
    BY <2>1 DEF RInv, HeadTypeOK, PiecesNumbered, PromptFirst, Stages, LoopEnds, EngineGone
  <2>3. LastReply' = LastReply /\ Spoken' = Spoken
    BY <2>1 DEF LastReply, Spoken
  <2>4. Left => Left'
    BY <2>1, <2>3 DEF Left, LeftWith
  <2>5. ExitTold => ExitTold'
    BY <2>1, <2>3 DEF ExitTold
  <2> QED BY <2>1, <2>2, <2>4, <2>5 DEF RInv
<1> QED BY <1>1, <1>2

\* RunTold holds: the status and the result of every finished run of `ox --print` say what
\* happened in it, however its signals, failed writes, forks, lost readers and panics fall.
THEOREM FinishedRunTold == RunSpec => []RunTold
<1>1. RunInit => RInv
  BY RInvInit
<1>2. RInv /\ [RunNext]_headvars => RInv'
  BY RInvStep
<1>3. RInv => RunTold
  <2> SUFFICES ASSUME RInv PROVE RunTold
    OBVIOUS
  <2>1. ASSUME driver.at = "exited" PROVE ResultTold
    <3>1. Left
      BY <2>1 DEF RInv
    <3> QED BY <3>1 DEF Left, ResultTold
  <2> QED BY <2>1 DEF RInv, RunTold
<1> QED BY <1>1, <1>2, <1>3, PTL DEF RunSpec
=============================================================================
