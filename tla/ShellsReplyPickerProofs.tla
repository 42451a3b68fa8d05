---------------------- MODULE ShellsReplyPickerProofs ----------------------
(***************************************************************************)
(* Proofs about BackgroundShells, StreamedReply and SessionPicker, which   *)
(* share no state.                                                         *)
(*                                                                         *)
(* BackgroundShells, for any number of shells, chunks and sessions: what   *)
(* the UI and the model are told of the shells is so, and a session that   *)
(* is over has none left.                                                  *)
(*                                                                         *)
(* StreamedReply, for any number of retries, blocks and frames and a       *)
(* channel of any size: what the UI showed is the reply, what was billed   *)
(* is what the server told, and the stream keeps the promise of Wire.      *)
(*                                                                         *)
(* SessionPicker, for any sessions, pages of any size and any number of    *)
(* keys, operations and writes of other processes: what the picker shows   *)
(* is the listing, and it waits for the one page of its own.               *)
(***************************************************************************)
EXTENDS BackgroundShells, StreamedReply, SessionPicker, TLAPS, FiniteSetTheorems,
        SequenceTheorems

-----------------------------------------------------------------------------
(***************************************************************************)
(* The shells: BInv.  A shell is followed from its start to the end of its *)
(* supervisor: the list, the end of the session, the bash_stop that removed it *)
(* or the interrupt that left it to itself answers for it until then.      *)
(***************************************************************************)
-----------------------------------------------------------------------------
Shells ==
    [tree : Trees, kin : Kins, printed : 0 .. MaxPrinted, unread : Nat, taken : Nat,
     state : States, sup : Sups, stop : BOOLEAN, clean : BOOLEAN, late : Int]

(***************************************************************************)
(* One shell: its pipe loses nothing, its supervisor lets go of what has   *)
(* ended, and an end it publishes has the pipe read, unless another        *)
(* process held it.                                                        *)
(***************************************************************************)
Sound(h) ==
    /\ InPipe(h) >= 0 /\ h.late = 0
    /\ h.clean => h.tree = "exited" /\ h.kin \notin {"holder", "escaped"}
    /\ h.state = "ended" => h.tree = "exited"
    /\ h.state = "ended" /\ h.clean => InPipe(h) = 0
    /\ h.sup \in {"drain", "publish", "held", "reap", "done"} => h.tree = "exited"
    /\ h.sup \in {"reap", "done"} => h.kin # "holder"

Unstarted(h) == h.tree = "none" /\ h.kin = "none" /\ h.sup = "none"

Calling ==
    [kind : {"none", "output", "take", "stop"}, id : 0 .. MaxStarts, seen : States]

BTyped ==
    /\ registry \in Seq(Shell) /\ Len(registry) <= MaxOpen
    /\ started \in 0 .. MaxStarts /\ dropped \subseteq Shell
    /\ shell \in [Shell -> Shells]
    /\ call \in Calling /\ (call.kind # "none" => call.id \in Shell)
    /\ session \in [number : 1 .. MaxSessions, ending : SUBSET Shell, over : BOOLEAN]

AllSound ==
    \A s \in Shell : Sound(shell[s]) /\ (s > started => Unstarted(shell[s]))

\* What a call was told of a shell is so.
ToldTrue == call.seen = "ended" => call.id \in Shell /\ shell[call.id].state = "ended"

(***************************************************************************)
(* A started shell is on the list, awaited by who stopped it, left to      *)
(* itself by an interrupt, or over.                                        *)
(***************************************************************************)
Placed ==
    \A s \in Shell :
        s <= started => \/ s \in Range(registry) \/ s \in session.ending
                        \/ call.kind = "stop" /\ call.id = s
                        \/ s \in dropped \/ shell[s].sup = "done"

AtEnd == session.over => registry = <<>> /\ call = NoCall

Shows ==
    ~session.over =>
        /\ listed \in Seq([id : Shell, state : States]) /\ Len(listed) = Len(registry)
        /\ \A i \in 1 .. Len(registry) :
              /\ listed[i].id = registry[i]
              /\ shell[registry[i]].sup # "publish" => listed[i].state = shell[registry[i]].state

BInv == BTyped /\ AllSound /\ ToldTrue /\ Placed /\ AtEnd /\ Shows

LEMMA BTypes ==
    ASSUME BInv
    PROVE  /\ registry \in Seq(Shell) /\ Len(registry) <= MaxOpen /\ Len(registry) \in Nat
           /\ \A i \in 1 .. Len(registry) : registry[i] \in Shell
           /\ Range(registry) = {registry[i] : i \in 1 .. Len(registry)}
           /\ Range(registry) \subseteq Shell
           /\ started \in 0 .. MaxStarts /\ started \in Nat /\ MaxStarts \in Nat
           /\ dropped \subseteq Shell
           /\ shell \in [Shell -> Shells]
           /\ call \in Calling /\ (call.kind # "none" => call.id \in Shell)
           /\ session.ending \subseteq Shell /\ session.over \in BOOLEAN
           /\ session.number \in 1 .. MaxSessions
           /\ session \in [number : 1 .. MaxSessions, ending : SUBSET Shell, over : BOOLEAN]
           /\ \A s \in Shell : shell[s] \in Shells /\ Sound(shell[s])
           /\ \A s \in Shell : s \in Nat /\ s >= 1 /\ s <= MaxStarts
           /\ \A s \in Shell : s > started => Unstarted(shell[s])
<1>1. DOMAIN registry = 1 .. Len(registry) /\ Len(registry) \in Nat
  BY DEF BInv, BTyped
<1>2. Range(registry) = {registry[i] : i \in 1 .. Len(registry)}
  BY <1>1 DEF Range
<1>3. \A i \in 1 .. Len(registry) : registry[i] \in Shell
  BY DEF BInv, BTyped
<1>4. \A s \in Shell : s \in Nat /\ s >= 1 /\ s <= MaxStarts
  BY ShellsAssumption DEF Shell
<1>5. started \in Nat /\ MaxStarts \in Nat
  BY ShellsAssumption DEF BInv, BTyped
<1>6. \A s \in Shell : shell[s] \in Shells
  BY DEF BInv, BTyped
<1>7. \A s \in Shell : Sound(shell[s]) /\ (s > started => Unstarted(shell[s]))
  BY DEF BInv, AllSound
<1>8. session \in [number : 1 .. MaxSessions, ending : SUBSET Shell, over : BOOLEAN]
  BY DEF BInv, BTyped
<1>9. QED
  BY <1>1, <1>2, <1>3, <1>4, <1>5, <1>6, <1>7, <1>8 DEF BInv, BTyped

\* The fields of one shell.
LEMMA ShellFields ==
    ASSUME NEW h \in Shells
    PROVE  /\ h.tree \in Trees /\ h.kin \in Kins /\ h.printed \in 0 .. MaxPrinted
           /\ h.unread \in Nat /\ h.taken \in Nat /\ h.state \in States /\ h.sup \in Sups
           /\ h.stop \in BOOLEAN /\ h.clean \in BOOLEAN /\ h.late \in Int
           /\ h.printed \in Nat /\ InPipe(h) \in Int /\ MaxPrinted \in Nat
           /\ h.printed <= MaxPrinted
<1>1. h.printed \in 0 .. MaxPrinted /\ h.unread \in Nat /\ h.taken \in Nat /\ MaxPrinted \in Nat
  BY ShellsAssumption DEF Shells
<1>2. h.printed \in Nat /\ h.printed <= MaxPrinted /\ InPipe(h) \in Int
  BY <1>1 DEF InPipe
<1>3. QED
  BY <1>1, <1>2 DEF Shells

LEMMA BBegin == ASSUME BInit PROVE BInv
<1>1. NoShell \in Shells /\ Sound(NoShell) /\ Unstarted(NoShell)
  BY ShellsAssumption DEF NoShell, Shells, Sound, Unstarted, InPipe, Trees, Kins, States, Sups
<1>2. /\ registry = <<>> /\ started = 0 /\ listed = <<>> /\ dropped = {}
      /\ shell = [s \in Shell |-> NoShell] /\ call = NoCall
      /\ session = [number |-> 1, ending |-> {}, over |-> FALSE]
  BY DEF BInit
<1>3. NoCall \in Calling /\ NoCall.kind = "none" /\ NoCall.seen = "running"
  BY ShellsAssumption DEF NoCall, Calling, States
<1>4. BTyped
  BY <1>1, <1>2, <1>3, ShellsAssumption DEF BTyped
<1>5. \A s \in Shell : s \in Nat /\ s >= 1
  BY DEF Shell
<1>6. AllSound
  BY <1>1, <1>2 DEF AllSound
<1>7. ToldTrue /\ AtEnd
  BY <1>2, <1>3 DEF ToldTrue, AtEnd
<1>8. Placed
  BY <1>2, <1>5 DEF Placed
<1>9. Shows
  <2>1. <<>> \in Seq([id : Shell, state : States]) /\ Len(<<>>) = 0
    OBVIOUS
  <2>2. QED
    BY <1>2, <2>1 DEF Shows
<1>10. QED
  BY <1>4, <1>6, <1>7, <1>8, <1>9 DEF BInv

(***************************************************************************)
(* A step of one shell alone.                                              *)
(***************************************************************************)
LEMMA ShellMoves ==
    ASSUME BInv, NEW s \in Shell, NEW h \in Shells, Becomes(s, h), Sound(h),
           s > started => Unstarted(h),
           shell[s].sup = "done" => h.sup = "done",
           shell[s].state = "ended" => h.state = "ended",
           h.sup # "publish" => shell[s].sup # "publish" /\ h.state = shell[s].state
    PROVE  BInv'
<1>1. /\ shell' = [shell EXCEPT ![s] = h] /\ registry' = registry /\ started' = started
      /\ call' = call /\ session' = session /\ listed' = listed /\ dropped' = dropped
  BY DEF Becomes
<1>2. /\ shell' \in [Shell -> Shells] /\ shell'[s] = h
      /\ \A q \in Shell \ {s} : shell'[q] = shell[q]
  BY <1>1, BTypes
<1>3. BTyped'
  BY <1>1, <1>2 DEF BInv, BTyped
<1>4. AllSound'
  BY <1>1, <1>2 DEF BInv, AllSound
<1>5. ToldTrue'
  BY <1>1, <1>2 DEF BInv, ToldTrue
<1>6. Placed'
  BY <1>1, <1>2 DEF BInv, Placed
<1>7. AtEnd'
  BY <1>1 DEF BInv, AtEnd
<1>8. Shows'
  BY <1>1, <1>2, BTypes DEF BInv, Shows
<1>9. QED
  BY <1>3, <1>4, <1>5, <1>6, <1>7, <1>8 DEF BInv

LEMMA EmitKeeps == ASSUME BInv, NEW s \in Shell, Emit(s) PROVE BInv'
<1> DEFINE g == shell[s]
           h == [g EXCEPT !.printed = @ + 1]
<1>1. /\ g.printed < MaxPrinted /\ PipeOpen(g) /\ g.sup # "done" /\ Becomes(s, h)
  BY DEF Emit
<1>2. /\ g \in Shells /\ Sound(g) /\ (s > started => Unstarted(g))
  BY BTypes
<1> HIDE DEF g
<1>3. g.printed + 1 \in 0 .. MaxPrinted
  BY <1>1, <1>2, ShellFields
<1>4. h \in Shells
  BY <1>2, <1>3 DEF Shells
<1>5. /\ h.tree = g.tree /\ h.kin = g.kin /\ h.printed = g.printed + 1 /\ h.unread = g.unread
      /\ h.taken = g.taken /\ h.state = g.state /\ h.sup = g.sup /\ h.clean = g.clean
      /\ h.late = g.late
  BY <1>2 DEF Shells
<1> HIDE DEF h
<1>6. ~g.clean \/ g.tree # "exited"
  BY <1>1, <1>2 DEF PipeOpen, Sound
<1>7. InPipe(h) = InPipe(g) + 1
  BY <1>2, <1>5, ShellFields DEF InPipe
<1>8. Sound(h)
  BY <1>2, <1>5, <1>6, <1>7, ShellFields DEF Sound
<1>9. ~Unstarted(g)
  BY <1>1 DEF Unstarted, PipeOpen
<1>10. QED
  BY <1>1, <1>2, <1>4, <1>5, <1>8, <1>9, ShellMoves DEF g

LEMMA ExitKeeps == ASSUME BInv, NEW s \in Shell, Exit(s) PROVE BInv'
<1> DEFINE g == shell[s]
<1>1. g.tree = "running"
  BY DEF Exit
<1>2. PICK kin \in Kins :
        Becomes(s, [g EXCEPT !.tree = "exited", !.kin = kin,
                             !.clean = kin \notin {"holder", "escaped"}])
  BY DEF Exit
<1> DEFINE c == kin \notin {"holder", "escaped"}
           h == [g EXCEPT !.tree = "exited", !.kin = kin, !.clean = c]
<1>3. /\ g \in Shells /\ Sound(g) /\ (s > started => Unstarted(g))
  BY BTypes
<1> HIDE DEF g
<1>4. c \in BOOLEAN /\ (c => kin \notin {"holder", "escaped"})
  OBVIOUS
<1>5. Becomes(s, h)
  BY <1>2
<1> HIDE DEF c
<1>6. h \in Shells
  BY <1>3, <1>4 DEF Shells, Trees
<1>7. /\ h.tree = "exited" /\ h.kin = kin /\ h.printed = g.printed /\ h.unread = g.unread
      /\ h.taken = g.taken /\ h.state = g.state /\ h.sup = g.sup /\ h.late = g.late
      /\ h.clean = c
  BY <1>3 DEF Shells
<1> HIDE DEF h
<1>8. g.state # "ended" /\ g.sup \notin {"drain", "publish", "held", "reap", "done"}
  BY <1>1, <1>3 DEF Sound
<1>9. Sound(h)
  <2>1. InPipe(h) >= 0 /\ h.late = 0
    BY <1>3, <1>7 DEF Sound, InPipe
  <2>2. h.clean => h.kin \notin {"holder", "escaped"}
    BY <1>4, <1>7, Zenon
  <2>3. QED
    BY <1>7, <1>8, <2>1, <2>2 DEF Sound
<1>10. ~Unstarted(g)
  BY <1>1 DEF Unstarted
<1>11. QED
  BY <1>3, <1>5, <1>6, <1>7, <1>8, <1>9, <1>10, ShellMoves DEF g

LEMMA KinExitsKeeps == ASSUME BInv, NEW s \in Shell, KinExits(s) PROVE BInv'
<1> DEFINE g == shell[s]
           h == [g EXCEPT !.kin = "none"]
<1>1. g.tree = "exited" /\ g.sup # "done" /\ Becomes(s, h)
  BY DEF KinExits
<1>2. /\ g \in Shells /\ Sound(g) /\ (s > started => Unstarted(g))
  BY BTypes
<1> HIDE DEF g
<1>3. h \in Shells
  BY <1>2 DEF Shells, Kins
<1>4. /\ h.tree = g.tree /\ h.kin = "none" /\ h.printed = g.printed /\ h.unread = g.unread
      /\ h.taken = g.taken /\ h.state = g.state /\ h.sup = g.sup /\ h.late = g.late
      /\ h.clean = g.clean
  BY <1>2 DEF Shells
<1> HIDE DEF h
<1>5. InPipe(h) = InPipe(g)
  BY <1>4 DEF InPipe
<1>6. Sound(h)
  BY <1>2, <1>4, <1>5 DEF Sound
<1>7. ~Unstarted(g)
  BY <1>1 DEF Unstarted
<1>8. QED
  BY <1>1, <1>2, <1>3, <1>4, <1>6, <1>7, ShellMoves DEF g

LEMMA PumpKeeps == ASSUME BInv, NEW s \in Shell, Pump(s) PROVE BInv'
<1> DEFINE g == shell[s]
           h == [g EXCEPT !.unread = @ + 1]
<1>1. g.sup # "none" /\ InPipe(g) > 0 /\ Becomes(s, h)
  BY DEF Pump
<1>2. /\ g \in Shells /\ Sound(g) /\ (s > started => Unstarted(g))
  BY BTypes
<1> HIDE DEF g
<1>3. h \in Shells
  BY <1>2 DEF Shells
<1>4. /\ h.tree = g.tree /\ h.kin = g.kin /\ h.printed = g.printed /\ h.unread = g.unread + 1
      /\ h.taken = g.taken /\ h.state = g.state /\ h.sup = g.sup /\ h.late = g.late
      /\ h.clean = g.clean
  BY <1>2 DEF Shells
<1> HIDE DEF h
<1>5. InPipe(h) = InPipe(g) - 1 /\ InPipe(g) \in Int
  BY <1>2, <1>4, ShellFields DEF InPipe
<1>6. Sound(h)
  BY <1>1, <1>2, <1>4, <1>5 DEF Sound
<1>7. ~Unstarted(g)
  BY <1>1 DEF Unstarted
<1>8. QED
  BY <1>1, <1>2, <1>3, <1>4, <1>6, <1>7, ShellMoves DEF g

\* The supervisor moves on without a word.
LEMMA SupMoves ==
    ASSUME BInv, NEW s \in Shell, NEW to \in {"drain", "done"}, shell[s].sup \notin {"none", "done", "publish"},
           shell[s].tree = "exited", to = "done" => shell[s].kin # "holder",
           Becomes(s, [shell[s] EXCEPT !.sup = to])
    PROVE  BInv'
<1> DEFINE g == shell[s]
           h == [g EXCEPT !.sup = to]
<1>1. g.sup \notin {"none", "done", "publish"} /\ Becomes(s, h) /\ g.tree = "exited"
      /\ (to = "done" => g.kin # "holder")
  OBVIOUS
<1>2. /\ g \in Shells /\ Sound(g) /\ (s > started => Unstarted(g))
  BY BTypes
<1> HIDE DEF g
<1>3. h \in Shells
  BY <1>2 DEF Shells, Sups
<1>4. /\ h.tree = g.tree /\ h.kin = g.kin /\ h.printed = g.printed /\ h.unread = g.unread
      /\ h.taken = g.taken /\ h.state = g.state /\ h.sup = to /\ h.late = g.late
      /\ h.clean = g.clean
  BY <1>2 DEF Shells
<1> HIDE DEF h
<1>5. InPipe(h) = InPipe(g)
  BY <1>4 DEF InPipe
<1>6. Sound(h)
  BY <1>1, <1>2, <1>4, <1>5 DEF Sound
<1>7. ~Unstarted(g)
  BY <1>1 DEF Unstarted
<1>8. QED
  BY <1>1, <1>2, <1>3, <1>4, <1>6, <1>7, ShellMoves DEF g

LEMMA SeesExitKeeps == ASSUME BInv, NEW s \in Shell, SeesExit(s) PROVE BInv'
BY SupMoves DEF SeesExit, Moves

LEMMA ReleasesKeeps == ASSUME BInv, NEW s \in Shell, Releases(s) PROVE BInv'
<1>1. /\ shell[s].sup = "held" /\ Becomes(s, [shell[s] EXCEPT !.sup = "done"])
      /\ ~PipeOpen(shell[s]) /\ Sound(shell[s])
  BY BTypes DEF Releases, Moves, Pumped
<1>2. shell[s].tree = "exited" /\ shell[s].kin # "holder"
  BY <1>1 DEF PipeOpen, Sound
<1>3. QED
  BY <1>1, <1>2, SupMoves

LEMMA ReapsKeeps == ASSUME BInv, NEW s \in Shell, Reaps(s) PROVE BInv'
<1>1. /\ shell[s].sup = "reap" /\ Becomes(s, [shell[s] EXCEPT !.sup = "done"]) /\ Sound(shell[s])
  BY BTypes DEF Reaps, Moves
<1>2. shell[s].tree = "exited" /\ shell[s].kin # "holder"
  BY <1>1 DEF Sound
<1>3. QED
  BY <1>1, <1>2, SupMoves

LEMMA AnnounceKeeps == ASSUME BInv, NEW s \in Shell, Announce(s) PROVE BInv'
<1> DEFINE g == shell[s]
           h == [g EXCEPT !.state = "ended", !.sup = "publish"]
<1>1. g.sup = "drain" /\ InPipe(g) = 0 /\ Becomes(s, h)
  BY DEF Announce, GraceOver
<1>2. /\ g \in Shells /\ Sound(g) /\ (s > started => Unstarted(g))
  BY BTypes
<1> HIDE DEF g
<1>3. h \in Shells
  BY <1>2 DEF Shells, Sups, States
<1>4. /\ h.tree = g.tree /\ h.kin = g.kin /\ h.printed = g.printed /\ h.unread = g.unread
      /\ h.taken = g.taken /\ h.state = "ended" /\ h.sup = "publish" /\ h.late = g.late
      /\ h.clean = g.clean
  BY <1>2 DEF Shells
<1> HIDE DEF h
<1>5. InPipe(h) = 0
  BY <1>1, <1>4 DEF InPipe
<1>6. Sound(h)
  BY <1>1, <1>2, <1>4, <1>5 DEF Sound
<1>7. ~Unstarted(g)
  BY <1>1 DEF Unstarted
<1>8. QED
  BY <1>1, <1>2, <1>3, <1>4, <1>6, <1>7, ShellMoves DEF g

LEMMA KillKeeps == ASSUME BInv, NEW s \in Shell, Kill(s) PROVE BInv'
<1> DEFINE g == shell[s]
           kin == IF g.kin = "escaped" THEN g.kin ELSE "none"
           h == [g EXCEPT !.tree = "exited", !.kin = kin, !.sup = "reap"]
<1>1. g.sup \in {"watch", "held"} /\ Becomes(s, [g EXCEPT !.tree = "exited",
                                   !.kin  = IF @ = "escaped" THEN @ ELSE "none",
                                   !.sup  = "reap"])
  BY DEF Kill
<1>2. /\ g \in Shells /\ Sound(g) /\ (s > started => Unstarted(g))
  BY BTypes
<1> HIDE DEF g
<1>3. Becomes(s, h)
  BY <1>1
<1>4. kin \in Kins /\ kin \notin {"holder"} /\ (kin = "none" \/ kin = g.kin)
  BY <1>2 DEF Shells, Kins
<1> HIDE DEF kin
<1>5. h \in Shells
  BY <1>2, <1>4 DEF Shells, Sups, Trees
<1>6. /\ h.tree = "exited" /\ h.kin = kin /\ h.printed = g.printed /\ h.unread = g.unread
      /\ h.taken = g.taken /\ h.state = g.state /\ h.sup = "reap" /\ h.late = g.late
      /\ h.clean = g.clean
  BY <1>2 DEF Shells
<1> HIDE DEF h
<1>7. InPipe(h) = InPipe(g)
  BY <1>6 DEF InPipe
<1>8. Sound(h)
  BY <1>2, <1>4, <1>6, <1>7 DEF Sound
<1>9. ~Unstarted(g)
  BY <1>1 DEF Unstarted
<1>10. QED
  BY <1>1, <1>2, <1>3, <1>5, <1>6, <1>8, <1>9, ShellMoves DEF g

(***************************************************************************)
(* The list.                                                               *)
(***************************************************************************)
Tells(l, r, sh) == l = [i \in 1 .. Len(r) |-> [id |-> r[i], state |-> sh[r[i]].state]]

\* An entry for each shell of the registry, with its state.
Shown(l, r, sh) ==
    /\ l \in Seq([id : Shell, state : States]) /\ Len(l) = Len(r)
    /\ \A i \in 1 .. Len(r) : l[i].id = r[i] /\ l[i].state = sh[r[i]].state

LEMMA Lists ==
    ASSUME NEW r, NEW sh, NEW l, r \in Seq(Shell), sh \in [Shell -> Shells], Tells(l, r, sh)
    PROVE  Shown(l, r, sh)
<1> DEFINE n == Len(r)
           S == [id : Shell, state : States]
<1>1. n \in Nat /\ \A i \in 1 .. n : r[i] \in Shell
  OBVIOUS
<1>2. \A i \in 1 .. n : sh[r[i]].state \in States
  BY <1>1 DEF Shells
<1> HIDE DEF n
<1>3. l = [i \in 1 .. n |-> [id |-> r[i], state |-> sh[r[i]].state]]
  BY DEF n, Tells
<1>4. /\ l \in [1 .. n -> S]
      /\ \A i \in 1 .. n : l[i].id = r[i] /\ l[i].state = sh[r[i]].state
  BY <1>1, <1>2, <1>3
<1> HIDE DEF S
<1>5. l \in Seq(S) /\ Len(l) = n
  BY <1>1, <1>4
<1>6. QED
  BY <1>4, <1>5 DEF n, S, Shown

LEMMA PublishesKeeps == ASSUME BInv, NEW s \in Shell, Publishes(s) PROVE BInv'
<1> DEFINE g == shell[s]
           to == IF Pumped(g) THEN "done" ELSE "held"
           h == [g EXCEPT !.sup = to]
<1>1. /\ g.sup = "publish" /\ shell' = [shell EXCEPT ![s].sup = to] /\ listed' = List
      /\ registry' = registry /\ started' = started /\ call' = call /\ session' = session
      /\ dropped' = dropped
  BY DEF Publishes
<1>2. g \in Shells /\ Sound(g) /\ (s > started => Unstarted(g)) /\ shell \in [Shell -> Shells]
  BY BTypes
<1>3. shell' = [shell EXCEPT ![s] = h]
  BY <1>1
<1> HIDE DEF g
<1>4. to \in {"done", "held"} /\ (to = "done" => ~PipeOpen(g))
  BY DEF Pumped
<1> HIDE DEF to
<1>5. h \in Shells
  BY <1>2, <1>4 DEF Shells, Sups
<1>6. /\ h.tree = g.tree /\ h.kin = g.kin /\ h.printed = g.printed /\ h.unread = g.unread
      /\ h.taken = g.taken /\ h.state = g.state /\ h.sup = to /\ h.late = g.late
      /\ h.clean = g.clean
  BY <1>2 DEF Shells
<1> HIDE DEF h
<1>7. InPipe(h) = InPipe(g)
  BY <1>6 DEF InPipe
<1>8. Sound(h)
  BY <1>1, <1>2, <1>4, <1>6, <1>7 DEF Sound, PipeOpen
<1>9. ~(s > started)
  BY <1>1, <1>2 DEF Unstarted
<1>10. /\ shell' \in [Shell -> Shells] /\ shell'[s] = h
       /\ \A q \in Shell \ {s} : shell'[q] = shell[q]
  BY <1>2, <1>3, <1>5
<1>11. BTyped'
  BY <1>1, <1>10 DEF BInv, BTyped
<1>12. AllSound'
  BY <1>1, <1>8, <1>9, <1>10 DEF BInv, AllSound
<1>13. ToldTrue'
  BY <1>1, <1>6, <1>10 DEF BInv, ToldTrue, g
<1>14. Placed'
  BY <1>1, <1>10 DEF BInv, Placed, g
<1>15. AtEnd'
  BY <1>1 DEF BInv, AtEnd
<1>16. Shows'
  <2>1. /\ listed' \in Seq([id : Shell, state : States]) /\ Len(listed') = Len(registry)
        /\ \A i \in 1 .. Len(registry) :
              listed'[i].id = registry[i] /\ listed'[i].state = shell[registry[i]].state
    <3>1. Tells(listed', registry, shell)
      BY <1>1 DEF List, Tells
    <3>2. Shown(listed', registry, shell)
      BY <1>2, <3>1, BTypes, Lists
    <3>3. QED
      BY <3>2 DEF Shown
  <2>2. \A q \in Shell : shell'[q].state = shell[q].state
    BY <1>6, <1>10 DEF g
  <2>3. QED
    BY <1>1, <2>1, <2>2, BTypes DEF Shows
<1>17. QED
  BY <1>11, <1>12, <1>13, <1>14, <1>15, <1>16 DEF BInv

(***************************************************************************)
(* Calls                                                                   *)
(***************************************************************************)
LEMMA StartKeeps == ASSUME BInv, Start, ~session.over PROVE BInv'
<1> DEFINE n == started + 1
           h == [NoShell EXCEPT !.tree = "running", !.sup = "watch"]
<1>1. /\ Len(registry) < MaxOpen /\ started < MaxStarts /\ started' = n
      /\ registry' = Append(registry, n) /\ shell' = [shell EXCEPT ![n] = h]
      /\ listed' = List' /\ call = NoCall /\ session.ending = {}
      /\ call' = call /\ session' = session /\ dropped' = dropped
  BY DEF Start, Idle
<1>2. n \in Shell /\ n \in 0 .. MaxStarts /\ n \in Nat
  BY <1>1, BTypes DEF Shell
<1>3. /\ h \in Shells /\ h.tree = "running" /\ h.sup = "watch" /\ h.state = "running"
      /\ Sound(h)
  <2> DEFINE g == NoShell
  <2>1. /\ g \in Shells /\ Sound(g) /\ g.tree = "none" /\ g.state = "running" /\ g.sup = "none"
        /\ g.kin = "none" /\ ~g.clean
    BY ShellsAssumption DEF NoShell, Shells, Sound, InPipe, Trees, Kins, States, Sups
  <2> HIDE DEF g
  <2>2. [g EXCEPT !.tree = "running", !.sup = "watch"] \in Shells
    BY <2>1 DEF Shells, Trees, Sups
  <2>3. h = [g EXCEPT !.tree = "running", !.sup = "watch"]
    BY DEF g
  <2> HIDE DEF h
  <2>4. /\ h.tree = "running" /\ h.kin = g.kin /\ h.printed = g.printed /\ h.unread = g.unread
        /\ h.taken = g.taken /\ h.state = g.state /\ h.sup = "watch" /\ h.late = g.late
        /\ h.clean = g.clean
    BY <2>1, <2>3 DEF Shells
  <2>5. InPipe(h) = InPipe(g)
    BY <2>4 DEF InPipe
  <2>6. Sound(h)
    BY <2>1, <2>4, <2>5 DEF Sound
  <2>7. QED
    BY <2>1, <2>2, <2>3, <2>4, <2>6
<1> HIDE DEF h
<1>4. /\ registry' \in Seq(Shell) /\ Len(registry') = Len(registry) + 1
      /\ registry'[Len(registry) + 1] = n
      /\ \A i \in 1 .. Len(registry) : registry'[i] = registry[i]
  BY <1>1, <1>2, BTypes
<1>5. Len(registry') <= MaxOpen
  BY <1>1, <1>4, BTypes, ShellsAssumption
<1>6. /\ shell' \in [Shell -> Shells] /\ shell'[n] = h
      /\ \A q \in Shell \ {n} : shell'[q] = shell[q]
  BY <1>1, <1>2, <1>3, BTypes
<1>7. BTyped'
  BY <1>1, <1>2, <1>4, <1>5, <1>6 DEF BInv, BTyped
<1>8. AllSound'
  <2>1. ASSUME NEW q \in Shell PROVE Sound(shell'[q]) /\ (q > started' => Unstarted(shell'[q]))
    <3>1. q \in Nat /\ started \in Nat
      BY BTypes
    <3>2. CASE q = n
      BY <1>1, <1>2, <1>3, <1>6, <3>2
    <3>3. CASE q # n
      BY <1>1, <1>6, <3>1, <3>3, BTypes
    <3>4. QED
      BY <3>2, <3>3
  <2>2. QED
    BY <2>1 DEF AllSound
<1>9. ToldTrue'
  BY <1>1 DEF ToldTrue, NoCall
<1>10. Placed'
  <2>1. Range(registry') = Range(registry) \cup {n}
    <3>1. DOMAIN registry' = 1 .. Len(registry) + 1
      BY <1>4
    <3>2. \A i \in 1 .. Len(registry) + 1 : i \in 1 .. Len(registry) \/ i = Len(registry) + 1
      BY BTypes
    <3>3. \A i \in 1 .. Len(registry) : i \in 1 .. Len(registry) + 1
      BY BTypes
    <3>4. Len(registry) + 1 \in 1 .. Len(registry) + 1
      BY BTypes
    <3>5. Range(registry) = {registry[i] : i \in 1 .. Len(registry)}
      BY BTypes
    <3>6. Range(registry') = {registry'[i] : i \in 1 .. Len(registry) + 1}
      BY <3>1 DEF Range
    <3>7. QED
      BY <1>4, <3>2, <3>3, <3>4, <3>5, <3>6
  <2>2. ASSUME NEW q \in Shell, q <= started'
        PROVE  \/ q \in Range(registry') \/ q \in session'.ending
               \/ call'.kind = "stop" /\ call'.id = q
               \/ q \in dropped' \/ shell'[q].sup = "done"
    <3>1. CASE q = n
      BY <2>1, <3>1
    <3>2. CASE q # n
      <4>1. q <= started
        BY <1>1, <2>2, <3>2, BTypes
      <4>2. QED
        BY <1>1, <1>6, <2>1, <3>2, <4>1 DEF BInv, Placed
    <3>3. QED
      BY <3>1, <3>2
  <2>3. QED
    BY <2>2 DEF Placed
<1>11. AtEnd'
  BY <1>1 DEF AtEnd
<1>12. Shows'
  <2>1. Tells(listed', registry', shell')
    BY <1>1 DEF List, Tells
  <2>2. Shown(listed', registry', shell')
    BY <1>4, <1>6, <2>1, Lists
  <2>3. QED
    BY <2>2 DEF Shows, Shown
<1>13. QED
  BY <1>7, <1>8, <1>9, <1>10, <1>11, <1>12 DEF BInv

\* A step of the call alone.
LEMMA CallMoves ==
    ASSUME BInv, ~session.over,
           registry' = registry, started' = started, shell' = shell, session' = session,
           listed' = listed, dropped \subseteq dropped', dropped' \subseteq Shell,
           call' \in Calling, call'.kind # "none" => call'.id \in Shell,
           call'.seen = "ended" => call'.id \in Shell /\ shell[call'.id].state = "ended",
           call.kind = "stop" => \/ call'.kind = "stop" /\ call'.id = call.id
                                 \/ call.id \in dropped' \/ shell[call.id].sup = "done"
    PROVE  BInv'
<1>1. BTyped'
  BY DEF BInv, BTyped
<1>2. AllSound' /\ ToldTrue'
  BY DEF BInv, AllSound, ToldTrue
<1>3. Placed'
  BY DEF BInv, Placed
<1>4. AtEnd' /\ Shows'
  BY DEF BInv, AtEnd, Shows
<1>5. QED
  BY <1>1, <1>2, <1>3, <1>4 DEF BInv

\* A call runs before the end of its session.
LEMMA CallsBefore == ASSUME BInv, call.kind # "none" PROVE ~session.over
BY DEF BInv, AtEnd, NoCall

LEMMA OutputKeeps == ASSUME BInv, Output, ~session.over PROVE BInv'
<1>1. PICK i \in 1 .. Len(registry) :
        call' = [kind |-> "output", id |-> registry[i], seen |-> "running"]
  BY DEF Output
<1>2. registry[i] \in Shell /\ registry[i] \in 0 .. MaxStarts
  BY BTypes DEF Shell
<1>3. call' \in Calling /\ call'.kind = "output" /\ call'.id \in Shell /\ call'.seen = "running"
  BY <1>1, <1>2 DEF Calling, States
<1>4. call.kind = "none"
  BY DEF Output, Idle, NoCall
<1>5. QED
  BY <1>3, <1>4, BTypes, CallMoves DEF Output

\* The call reads the state of its shell.
LEMMA SeenKeeps ==
    ASSUME BInv, call.kind \in {"output", "stop"}, call.kind = "stop" => shell[call.id].sup = "done",
           call' = [call EXCEPT !.kind = "take", !.seen = shell[call.id].state],
           registry' = registry, started' = started, shell' = shell, session' = session,
           listed' = listed, dropped' = dropped
    PROVE  BInv'
<1>1. call.id \in Shell /\ call \in Calling
  BY BTypes
<1>2. shell[call.id].state \in States
  BY <1>1, BTypes, ShellFields
<1>3. call' \in Calling /\ call'.kind = "take" /\ call'.id = call.id /\ call'.seen = shell[call.id].state
  BY <1>1, <1>2 DEF Calling
<1>4. QED
  BY <1>1, <1>3, BTypes, CallsBefore, CallMoves

LEMMA DropCallKeeps == ASSUME BInv, DropCall PROVE BInv'
<1>1. /\ call.kind \in {"output", "stop"} /\ call' = NoCall
      /\ dropped' = IF call.kind = "stop" THEN dropped \cup {call.id} ELSE dropped
      /\ registry' = registry /\ started' = started /\ shell' = shell /\ session' = session
      /\ listed' = listed
  BY DEF DropCall
<1>2. call' \in Calling /\ call'.kind = "none" /\ call'.seen = "running"
  BY <1>1, ShellsAssumption DEF Calling, NoCall, States
<1>3. QED
  BY <1>1, <1>2, BTypes, CallsBefore, CallMoves

\* The call takes the output: after an end nothing is due.
LEMMA TakeKeeps == ASSUME BInv, Take PROVE BInv'
<1> DEFINE s == call.id
           g == shell[s]
           due == IF call.seen = "ended" /\ g.late = 0 /\ g.clean
                    THEN g.printed - g.taken - g.unread ELSE g.late
           h == [g EXCEPT !.taken  = @ + g.unread,
                          !.unread = 0,
                          !.late   = IF call.seen = "ended" /\ @ = 0 /\ g.clean
                                       THEN g.printed - g.taken - g.unread
                                       ELSE @]
<1>1. /\ call.kind = "take" /\ call' = NoCall
      /\ shell' = [shell EXCEPT ![s] = h]
      /\ registry' = registry /\ started' = started /\ session' = session
      /\ listed' = listed /\ dropped' = dropped
  BY DEF Take
<1>2. s \in Shell
  BY <1>1, BTypes
<1>3. g \in Shells /\ Sound(g) /\ (s > started => Unstarted(g)) /\ shell \in [Shell -> Shells]
  BY <1>2, BTypes
<1>4. call.seen = "ended" => g.state = "ended"
  BY DEF BInv, ToldTrue
<1> HIDE DEF g
<1>5. g.printed \in Nat /\ g.unread \in Nat /\ g.taken \in Nat /\ g.late = 0
  BY <1>3, ShellFields DEF Sound
<1>6. due = 0
  <2>1. CASE call.seen = "ended" /\ g.late = 0 /\ g.clean
    <3>1. g.printed - g.unread - g.taken = 0
      BY <1>3, <1>4, <2>1 DEF Sound, InPipe
    <3>2. QED
      BY <1>5, <2>1, <3>1
  <2>2. CASE ~(call.seen = "ended" /\ g.late = 0 /\ g.clean)
    BY <1>5, <2>2
  <2>3. QED
    BY <2>1, <2>2
<1>7. h = [g EXCEPT !.taken = g.taken + g.unread, !.unread = 0, !.late = due]
  BY <1>3 DEF Shells
<1> HIDE DEF due, h
<1>7a. g.taken + g.unread \in Nat /\ 0 \in Nat /\ 0 \in Int
  BY <1>5
<1>7b. h \in Shells
  BY <1>3, <1>6, <1>7, <1>7a DEF Shells
<1>8. /\ h.tree = g.tree /\ h.kin = g.kin /\ h.printed = g.printed /\ h.unread = 0
      /\ h.taken = g.taken + g.unread /\ h.state = g.state /\ h.sup = g.sup /\ h.late = 0
      /\ h.clean = g.clean
  BY <1>3, <1>6, <1>7 DEF Shells
<1> HIDE DEF s
<1>9. InPipe(h) = InPipe(g)
  BY <1>5, <1>8 DEF InPipe
<1>10. Sound(h)
  BY <1>3, <1>8, <1>9 DEF Sound
<1>11. Unstarted(g) => Unstarted(h)
  BY <1>8 DEF Unstarted
<1>12. /\ shell' \in [Shell -> Shells] /\ shell'[s] = h
       /\ \A q \in Shell \ {s} : shell'[q] = shell[q]
  BY <1>1, <1>2, <1>3, <1>7b
<1>13. \A q \in Shell : shell'[q].sup = shell[q].sup /\ shell'[q].state = shell[q].state
  BY <1>8, <1>12 DEF g
<1>14. call' \in Calling /\ call'.kind = "none" /\ call'.seen = "running"
  BY <1>1, ShellsAssumption DEF Calling, NoCall, States
<1>15. BTyped'
  BY <1>1, <1>12, <1>14 DEF BInv, BTyped
<1>16. AllSound'
  BY <1>1, <1>3, <1>10, <1>11, <1>12 DEF BInv, AllSound
<1>17. ToldTrue' /\ AtEnd'
  BY <1>1, <1>14 DEF BInv, ToldTrue, AtEnd
<1>18. Placed'
  BY <1>1, <1>13 DEF BInv, Placed
<1>19. Shows'
  BY <1>1, <1>13, BTypes DEF BInv, Shows
<1>20. QED
  BY <1>15, <1>16, <1>17, <1>18, <1>19 DEF BInv

\* What is left of a list without its i-th entry.
LEMMA Removed ==
    ASSUME NEW r \in Seq(Shell), NEW i \in 1 .. Len(r)
    PROVE  /\ RemoveAt(r, i) \in Seq(Shell) /\ Len(RemoveAt(r, i)) = Len(r) - 1
           /\ \A q \in Range(r) : q = r[i] \/ q \in Range(RemoveAt(r, i))
<1> DEFINE l == SubSeq(r, 1, i - 1)
           m == SubSeq(r, i + 1, Len(r))
           n == Len(r)
<1>1. n \in Nat /\ i \in Nat /\ i >= 1 /\ i <= n
  OBVIOUS
<1>2. /\ l \in Seq(Shell) /\ Len(l) = i - 1
      /\ \A j \in 1 .. i - 1 : l[j] = r[j]
  BY <1>1
<1>3. /\ m \in Seq(Shell) /\ Len(m) = n - i
      /\ \A j \in 1 .. n - i : m[j] = r[i + j]
  BY <1>1
<1>4. RemoveAt(r, i) = l \o m
  BY DEF RemoveAt
<1> HIDE DEF l, m
<1>5. l \o m \in Seq(Shell) /\ Len(l \o m) = n - 1
  <2>1. l \o m \in Seq(Shell) /\ Len(l \o m) = Len(l) + Len(m)
    BY <1>2, <1>3, ConcatProperties
  <2>2. QED
    BY <1>1, <1>2, <1>3, <2>1
<1>6. \A j \in 1 .. i - 1 : (l \o m)[j] = r[j]
  BY <1>1, <1>2, <1>3
<1>7. \A j \in i + 1 .. n : (l \o m)[j - 1] = r[j]
  <2>1. TAKE j \in i + 1 .. n
  <2>2. j - i \in 1 .. n - i /\ i + (j - i) = j /\ j - 1 \in 1 .. n - 1 /\ j - 1 > i - 1
    BY <1>1
  <2>3. (l \o m)[j - 1] = m[(j - 1) - (i - 1)] /\ (j - 1) - (i - 1) = j - i
    BY <1>1, <1>2, <1>3, <2>2
  <2>4. QED
    BY <1>3, <2>2, <2>3
<1>8. ASSUME NEW q \in Range(r) PROVE q = r[i] \/ q \in Range(l \o m)
  <2>1. PICK j \in 1 .. n : q = r[j]
    BY DEF Range
  <2>2. DOMAIN (l \o m) = 1 .. n - 1
    BY <1>5
  <2>3. CASE j < i
    <3>1. j \in 1 .. i - 1 /\ j \in 1 .. n - 1
      BY <1>1, <2>3
    <3>2. QED
      BY <1>6, <2>1, <2>2, <3>1 DEF Range
  <2>4. CASE j = i
    BY <2>1, <2>4
  <2>5. CASE j > i
    <3>1. j \in i + 1 .. n /\ j - 1 \in 1 .. n - 1
      BY <1>1, <2>5
    <3>2. QED
      BY <1>7, <2>1, <2>2, <3>1 DEF Range
  <2>6. QED
    BY <1>1, <2>3, <2>4, <2>5
<1>9. QED
  BY <1>4, <1>5, <1>8 DEF n

LEMMA StopKeeps == ASSUME BInv, Stop, ~session.over PROVE BInv'
<1>1. PICK i \in 1 .. Len(registry) :
        /\ registry' = RemoveAt(registry, i)
        /\ call' = [kind |-> "stop", id |-> registry[i], seen |-> "running"]
        /\ shell' = [shell EXCEPT ![registry[i]].stop = TRUE]
  BY DEF Stop
<1> DEFINE s == registry[i]
           g == shell[s]
           h == [g EXCEPT !.stop = TRUE]
<1>2. /\ listed' = List' /\ started' = started /\ session' = session /\ dropped' = dropped
      /\ call.kind = "none"
  BY DEF Stop, Idle, NoCall
<1>3. s \in Shell /\ s \in 0 .. MaxStarts
  BY BTypes DEF Shell
<1>4. g \in Shells /\ Sound(g) /\ (s > started => Unstarted(g)) /\ shell \in [Shell -> Shells]
  BY <1>3, BTypes
<1>5. shell' = [shell EXCEPT ![s] = h]
  BY <1>1
<1> HIDE DEF g
<1>6. h \in Shells
  BY <1>4 DEF Shells
<1>7. /\ h.tree = g.tree /\ h.kin = g.kin /\ h.printed = g.printed /\ h.unread = g.unread
      /\ h.taken = g.taken /\ h.state = g.state /\ h.sup = g.sup /\ h.late = g.late
      /\ h.clean = g.clean
  BY <1>4 DEF Shells
<1> HIDE DEF h
<1>8. InPipe(h) = InPipe(g)
  BY <1>7 DEF InPipe
<1>9. Sound(h) /\ (Unstarted(g) => Unstarted(h))
  BY <1>4, <1>7, <1>8 DEF Sound, Unstarted
<1>10. /\ registry' \in Seq(Shell) /\ Len(registry') = Len(registry) - 1
       /\ \A q \in Range(registry) : q = s \/ q \in Range(registry')
  BY <1>1, BTypes, Removed
<1>11. /\ call' \in Calling /\ call'.kind = "stop" /\ call'.id = s
       /\ call'.seen = "running"
  BY <1>1, <1>3 DEF Calling, States
<1> HIDE DEF s
<1>12. /\ shell' \in [Shell -> Shells] /\ shell'[s] = h
       /\ \A q \in Shell \ {s} : shell'[q] = shell[q]
  BY <1>3, <1>4, <1>5, <1>6
<1>13. Len(registry') <= MaxOpen
  BY <1>10, BTypes, ShellsAssumption
<1>14. BTyped'
  BY <1>2, <1>3, <1>10, <1>11, <1>12, <1>13 DEF BInv, BTyped
<1>15. AllSound'
  BY <1>2, <1>4, <1>9, <1>12 DEF BInv, AllSound
<1>16. ToldTrue' /\ AtEnd'
  BY <1>2, <1>11 DEF ToldTrue, AtEnd
<1>17. Placed'
  <2>1. ASSUME NEW q \in Shell, q <= started
        PROVE  q = s \/ q \in Range(registry') \/ q \in session'.ending
               \/ q \in dropped' \/ shell'[q].sup = "done"
    BY <1>2, <1>7, <1>10, <1>12, <2>1 DEF BInv, Placed, g
  <2>2. QED
    BY <1>2, <1>11, <2>1 DEF Placed
<1>18. Shows'
  <2>1. Tells(listed', registry', shell')
    BY <1>2 DEF List, Tells
  <2>2. Shown(listed', registry', shell')
    BY <1>10, <1>12, <2>1, Lists
  <2>3. QED
    BY <2>2 DEF Shows, Shown
<1>19. QED
  BY <1>14, <1>15, <1>16, <1>17, <1>18 DEF BInv

LEMMA WaitedKeeps == ASSUME BInv, Waited PROVE BInv'
BY SeenKeeps DEF Waited

LEMMA StoppedKeeps == ASSUME BInv, Stopped PROVE BInv'
BY SeenKeeps DEF Stopped

(***************************************************************************)
(* The end of a session, and the next one.                                 *)
(***************************************************************************)
LEMMA StopAllKeeps == ASSUME BInv, StopAll PROVE BInv'
<1>1. /\ call = NoCall /\ session.ending = {} /\ ~session.over
      /\ session' = [session EXCEPT !.ending = Range(registry), !.over = TRUE]
      /\ registry' = <<>> /\ started' = started /\ call' = call /\ listed' = listed
      /\ dropped' = dropped
      /\ shell' = [s \in Shell |->
            IF s \in Range(registry) THEN [shell[s] EXCEPT !.stop = TRUE] ELSE shell[s]]
  BY DEF StopAll, Idle
<1>2. /\ session' \in [number : 1 .. MaxSessions, ending : SUBSET Shell, over : BOOLEAN]
      /\ session'.ending = Range(registry) /\ session'.over
  BY <1>1, BTypes
<1>3. ASSUME NEW s \in Shell
      PROVE  /\ shell'[s] \in Shells /\ Sound(shell'[s])
             /\ s > started => Unstarted(shell'[s])
             /\ shell'[s].sup = shell[s].sup /\ shell'[s].state = shell[s].state
  <2> DEFINE g == shell[s]
             h == [g EXCEPT !.stop = TRUE]
  <2>1. shell'[s] = h \/ shell'[s] = g
    BY <1>1
  <2>2. g \in Shells /\ Sound(g) /\ (s > started => Unstarted(g))
    BY BTypes
  <2> HIDE DEF g
  <2>3. h \in Shells
    BY <2>2 DEF Shells
  <2>4. /\ h.tree = g.tree /\ h.kin = g.kin /\ h.printed = g.printed /\ h.unread = g.unread
        /\ h.taken = g.taken /\ h.state = g.state /\ h.sup = g.sup /\ h.late = g.late
        /\ h.clean = g.clean
    BY <2>2 DEF Shells
  <2> HIDE DEF h
  <2>5. InPipe(h) = InPipe(g)
    BY <2>4 DEF InPipe
  <2>6. Sound(h) /\ (Unstarted(g) => Unstarted(h))
    BY <2>2, <2>4, <2>5 DEF Sound, Unstarted
  <2>7. CASE shell'[s] = h
    <3>1. h.sup = shell[s].sup /\ h.state = shell[s].state
      BY <2>4 DEF g
    <3>2. QED
      BY <2>2, <2>3, <2>6, <2>7, <3>1
  <2>8. CASE shell'[s] = g
    BY <2>2, <2>8 DEF g
  <2>9. QED
    BY <2>1, <2>7, <2>8
<1>4. shell' \in [Shell -> Shells]
  <2>1. DOMAIN shell' = Shell /\ shell' = [s \in Shell |-> shell'[s]]
    BY <1>1
  <2>2. QED
    BY <1>3, <2>1
<1>5. BTyped'
  <2>1. registry' \in Seq(Shell) /\ Len(registry') <= MaxOpen
    BY <1>1, ShellsAssumption
  <2>2. QED
    BY <1>1, <1>2, <1>4, <2>1 DEF BInv, BTyped
<1>6. AllSound'
  BY <1>1, <1>3 DEF AllSound
<1>7. ToldTrue' /\ AtEnd' /\ Shows'
  BY <1>1, <1>2 DEF ToldTrue, AtEnd, Shows, NoCall
<1>8. Placed'
  <2>1. ASSUME NEW q \in Shell, q <= started
        PROVE  q \in Range(registry) \/ q \in dropped \/ shell[q].sup = "done"
    BY <1>1, <2>1 DEF BInv, Placed, NoCall
  <2>2. QED
    BY <1>1, <1>2, <1>3, <2>1 DEF Placed
<1>9. QED
  BY <1>5, <1>6, <1>7, <1>8 DEF BInv

LEMMA AllStoppedKeeps == ASSUME BInv, AllStopped PROVE BInv'
<1>1. /\ \A s \in session.ending : shell[s].sup = "done"
      /\ session' = [session EXCEPT !.ending = {}]
      /\ registry' = registry /\ started' = started /\ shell' = shell /\ call' = call
      /\ listed' = listed /\ dropped' = dropped
  BY DEF AllStopped
<1>2. /\ session' \in [number : 1 .. MaxSessions, ending : SUBSET Shell, over : BOOLEAN]
      /\ session'.ending = {} /\ session'.over = session.over
  BY <1>1, BTypes
<1>3. BTyped'
  BY <1>1, <1>2 DEF BInv, BTyped
<1>4. AllSound' /\ ToldTrue'
  BY <1>1 DEF BInv, AllSound, ToldTrue
<1>5. Placed'
  BY <1>1, <1>2 DEF BInv, Placed
<1>6. AtEnd' /\ Shows'
  BY <1>1, <1>2 DEF BInv, AtEnd, Shows
<1>7. QED
  BY <1>3, <1>4, <1>5, <1>6 DEF BInv

LEMMA RollKeeps == ASSUME BInv, Roll PROVE BInv'
<1>1. /\ session.over /\ session.ending = {} /\ session.number < MaxSessions
      /\ session' = [number |-> session.number + 1, ending |-> {}, over |-> FALSE]
      /\ listed' = <<>> /\ registry' = registry /\ started' = started /\ shell' = shell
      /\ call' = call /\ dropped' = dropped
  BY DEF Roll
<1>2. registry = <<>> /\ call = NoCall
  BY <1>1 DEF BInv, AtEnd
<1>3. /\ session' \in [number : 1 .. MaxSessions, ending : SUBSET Shell, over : BOOLEAN]
      /\ session'.ending = {} /\ ~session'.over
  BY <1>1, BTypes, ShellsAssumption
<1>4. BTyped'
  BY <1>1, <1>3 DEF BInv, BTyped
<1>5. AllSound' /\ ToldTrue'
  BY <1>1 DEF BInv, AllSound, ToldTrue
<1>6. Placed'
  BY <1>1, <1>3 DEF BInv, Placed
<1>7. AtEnd'
  BY <1>3 DEF AtEnd
<1>8. Shows'
  <2>1. <<>> \in Seq([id : Shell, state : States]) /\ Len(<<>>) = 0
    OBVIOUS
  <2>2. QED
    BY <1>1, <1>2, <2>1 DEF Shows
<1>9. QED
  BY <1>4, <1>5, <1>6, <1>7, <1>8 DEF BInv

LEMMA ShellsAtRest == ASSUME BInv, UNCHANGED bvars PROVE BInv'
<1>1. /\ registry' = registry /\ started' = started /\ shell' = shell /\ call' = call
      /\ session' = session /\ listed' = listed /\ dropped' = dropped
  BY DEF bvars
<1>2. BTyped'
  BY <1>1 DEF BInv, BTyped
<1>3. AllSound' /\ ToldTrue'
  BY <1>1 DEF BInv, AllSound, ToldTrue
<1>4. Placed' /\ AtEnd'
  BY <1>1 DEF BInv, Placed, AtEnd
<1>5. Shows'
  BY <1>1 DEF BInv, Shows
<1>6. QED
  BY <1>2, <1>3, <1>4, <1>5 DEF BInv

LEMMA ShellsKeep == ASSUME BInv, [BNext]_bvars PROVE BInv'
<1>1. ASSUME NEW s \in Shell, Emit(s) \/ Exit(s) \/ KinExits(s) \/ Pump(s) PROVE BInv'
  BY <1>1, EmitKeeps, ExitKeeps, KinExitsKeeps, PumpKeeps
<1>2. ASSUME NEW s \in Shell, Supervise(s) PROVE BInv'
  BY <1>2, SeesExitKeeps, AnnounceKeeps, PublishesKeeps, ReleasesKeeps, KillKeeps, ReapsKeeps
     DEF Supervise
<1>3. CASE ~session.over /\ (Start \/ Output \/ Stop)
  BY <1>3, StartKeeps, OutputKeeps, StopKeeps
<1>4. CASE Waited \/ Take \/ Stopped \/ DropCall
  BY <1>4, WaitedKeeps, TakeKeeps, StoppedKeeps, DropCallKeeps
<1>5. CASE StopAll \/ AllStopped \/ Roll
  BY <1>5, StopAllKeeps, AllStoppedKeeps, RollKeeps
<1>6. CASE UNCHANGED bvars
  BY <1>6, ShellsAtRest
<1>7. QED
  BY <1>1, <1>2, <1>3, <1>4, <1>5, <1>6 DEF BNext

\* The invariant of the shells, their calls and their session.
THEOREM ShellsInvariant == BSpec => []BInv
<1>1. BInit => BInv
  BY BBegin
<1>2. BInv /\ [BNext]_bvars => BInv'
  BY ShellsKeep
<1>3. QED
  BY <1>1, <1>2, PTL DEF BSpec

(***************************************************************************)
(* What the invariant says to the UI, to the model and to the next session.*)
(***************************************************************************)
LEMMA ListIsTrue == ASSUME BInv PROVE ListAgrees
<1> SUFFICES ASSUME ~session.over, \A s \in Shell : shell[s].sup # "publish"
             PROVE  listed = List
  BY DEF ListAgrees
<1> DEFINE n == Len(registry)
<1>1. n \in Nat /\ \A i \in 1 .. n : registry[i] \in Shell
  BY BTypes
<1>2. /\ listed \in Seq([id : Shell, state : States]) /\ Len(listed) = n
      /\ \A i \in 1 .. n : listed[i].id = registry[i] /\ listed[i].state = shell[registry[i]].state
  BY <1>1 DEF BInv, Shows
<1>3. List = [i \in 1 .. n |-> [id |-> registry[i], state |-> shell[registry[i]].state]]
  BY DEF List
<1> DEFINE S == [id : Shell, state : States]
<1> HIDE DEF n, S
<1>4a. listed \in Seq(S) /\ Len(listed) = n
  BY <1>2 DEF S
<1>4b. listed = [i \in 1 .. n |-> listed[i]] /\ \A i \in 1 .. n : listed[i] \in S
  BY <1>1, <1>4a
<1>4. /\ listed = [i \in 1 .. n |-> listed[i]]
      /\ \A i \in 1 .. n : listed[i] \in [id : Shell, state : States]
  BY <1>4b DEF S
<1>5. \A i \in 1 .. n : listed[i] = [id |-> registry[i], state |-> shell[registry[i]].state]
  BY <1>2, <1>4
<1>6. QED
  BY <1>3, <1>4, <1>5

LEMMA NoneSurvives == ASSUME BInv PROVE NoShellSurvives
<1> SUFFICES ASSUME session.over, session.ending = {}, NEW s \in Shell \ dropped
             PROVE  shell[s].tree # "running" /\ shell[s].kin # "holder"
  BY DEF NoShellSurvives
<1>1. registry = <<>> /\ call.kind = "none"
  BY DEF BInv, AtEnd, NoCall
<1>2. CASE s <= started
  <2>1. Range(registry) = {}
    BY <1>1 DEF Range
  <2>2. shell[s].sup = "done"
    BY <1>1, <1>2, <2>1 DEF BInv, Placed
  <2>3. QED
    BY <2>2, BTypes DEF Sound
<1>3. CASE s > started
  BY <1>3, BTypes DEF Unstarted
<1>4. QED
  BY <1>2, <1>3, BTypes

\* What the UI and the model are told of the shells is how the shells are, and
\* a session that is over has none left.
THEOREM ShellsAlwaysReported == BSpec => []ShellsReported
<1>1. ASSUME BInv PROVE ShellsTypeOK
  <2>1. /\ registry \in Seq(Shell) /\ Len(registry) <= MaxOpen
        /\ started \in 0 .. MaxStarts /\ dropped \subseteq Shell
        /\ session.number \in 1 .. MaxSessions /\ session.ending \subseteq Shell
    BY <1>1, BTypes
  <2>2. call.kind \in {"none", "output", "take", "stop"} /\ call.id \in 0 .. MaxStarts
    BY <1>1, BTypes DEF Calling
  <2>3. ASSUME NEW s \in Shell
        PROVE  /\ shell[s].tree \in Trees /\ shell[s].kin \in Kins
               /\ shell[s].state \in States /\ shell[s].sup \in Sups
               /\ shell[s].printed \in 0 .. MaxPrinted
               /\ InPipe(shell[s]) \in 0 .. MaxPrinted
    <3> DEFINE g == shell[s]
    <3>1. g \in Shells /\ Sound(g)
      BY <1>1, BTypes
    <3> HIDE DEF g
    <3>2. InPipe(g) >= 0 /\ InPipe(g) <= g.printed
      BY <3>1, ShellFields DEF Sound, InPipe
    <3>3. InPipe(g) \in 0 .. MaxPrinted
      BY <3>1, <3>2, ShellFields
    <3>4. QED
      BY <3>1, <3>3, ShellFields DEF g
  <2>4. QED
    BY <2>1, <2>2, <2>3 DEF ShellsTypeOK
<1>2. ASSUME BInv PROVE EndBringsAll
  BY <1>2, BTypes DEF EndBringsAll, Sound
<1>3. BInv => ShellsReported
  BY <1>1, <1>2, ListIsTrue, NoneSurvives DEF ShellsReported
<1>4. QED
  BY <1>3, ShellsInvariant, PTL

-----------------------------------------------------------------------------
(***************************************************************************)
(* The streamed reply: SInv says where the pieces and the usage of an attempt *)
(* are on their way from the server to the consumer.                       *)
(***************************************************************************)
-----------------------------------------------------------------------------
Events == [kind  : {"piece", "progress", "usage", "limits", "retrying", "completed", "err"},
           piece : 0 .. MaxFrames, usage : Usage]

\* The pieces in `c`.
Pieces(c) == {c[i].piece : i \in {j \in DOMAIN c : c[j].kind = "piece"}}

\* The pieces of `b` that stream.
Streaming(b) == UNION {b[i].pieces : i \in {j \in DOMAIN b : Streams(b[j].kind)}}

\* Once `c` has been read, `usage` is `v`.
LastIs(c, usage, v) ==
    \/ (\A i \in DOMAIN c : c[i].kind # "usage") /\ v = usage
    \/ \E i \in DOMAIN c :
          /\ c[i].kind = "usage" /\ c[i].usage = v
          /\ \A j \in DOMAIN c : j > i => c[j].kind # "usage"

\* Only the last of `c` ends the stream.
EndsLast(c) == \A i \in DOMAIN c : c[i].kind \in {"completed", "err"} => i = Len(c)
NoEnd(c)    == \A i \in DOMAIN c : c[i].kind \notin {"completed", "err"}

Typed == ReplyTypeOK /\ channel \in Seq(Events)

\* Before the request nothing has happened.
Unopened ==
    /\ consumer = "none" <=> pump = "none"
    /\ consumer = "none" =>
          /\ attempts = 0 /\ retry = 0 /\ blocks = <<>> /\ channel = <<>>
          /\ shown = {} /\ billed = NoUsage /\ told = NoUsage /\ counted = NoUsage

\* An attempt follows every retry that was counted, and starts with no block.
Attempts ==
    /\ pump \in {"request", "head", "frames", "failing"} => attempts = retry + 1
    /\ pump = "backoff" => attempts = retry
    /\ pump \in {"request", "head", "backoff"} => blocks = <<>>

\* What streams is with the consumer or on its way to it.
OnItsWay ==
    consumer = "waiting" =>
        /\ shown \cup Pieces(channel) = Streaming(blocks)
        /\ LastIs(channel, billed, told)
        /\ EndsLast(channel)
        /\ pump # "ended" => NoEnd(channel)

SInv ==
    /\ Typed /\ Unopened /\ Attempts /\ OnItsWay
    /\ \A i \in DOMAIN blocks : blocks[i].pieces \subseteq 1 .. frames
    /\ counted # NoUsage => counted = told
    /\ consumer \in {"completed", "failed"} => pump = "ended"
    /\ ShownIsReply /\ EndBillsTold

-----------------------------------------------------------------------------
(***************************************************************************)
(* The channel and the blocks                                              *)
(***************************************************************************)
LEMMA AppendedEvents ==
    ASSUME NEW c \in Seq(Events), NEW e \in Events
    PROVE  /\ Append(c, e) \in Seq(Events) /\ Len(Append(c, e)) = Len(c) + 1
           /\ Pieces(Append(c, e)) = Pieces(c) \cup (IF e.kind = "piece" THEN {e.piece} ELSE {})
           /\ NoEnd(c) => EndsLast(Append(c, e))
           /\ NoEnd(c) /\ e.kind \notin {"completed", "err"} => NoEnd(Append(c, e))
           /\ \A usage, v : e.kind # "usage" /\ LastIs(c, usage, v) => LastIs(Append(c, e), usage, v)
           /\ \A usage : e.kind = "usage" => LastIs(Append(c, e), usage, e.usage)
<1> DEFINE d == Append(c, e)
           n == Len(c)
<1>1. /\ d \in Seq(Events) /\ Len(d) = n + 1 /\ n \in Nat /\ d[n + 1] = e
      /\ DOMAIN c = 1 .. n /\ DOMAIN d = 1 .. n + 1
  OBVIOUS
<1>2. \A i \in 1 .. n : d[i] = c[i]
  OBVIOUS
<1> HIDE DEF d, n
<1>3. Pieces(d) = Pieces(c) \cup (IF e.kind = "piece" THEN {e.piece} ELSE {})
  <2>1. ASSUME NEW p \in Pieces(d)
        PROVE  p \in Pieces(c) \/ (e.kind = "piece" /\ p = e.piece)
    BY <1>1, <1>2 DEF Pieces
  <2>2. Pieces(c) \subseteq Pieces(d)
    BY <1>1, <1>2 DEF Pieces
  <2>3. e.kind = "piece" => e.piece \in Pieces(d)
    BY <1>1, <1>2 DEF Pieces
  <2>4. QED
    BY <2>1, <2>2, <2>3
<1>4. /\ NoEnd(c) => EndsLast(d)
      /\ NoEnd(c) /\ e.kind \notin {"completed", "err"} => NoEnd(d)
  BY <1>1, <1>2 DEF NoEnd, EndsLast
<1>5. ASSUME NEW usage, NEW v, e.kind # "usage", LastIs(c, usage, v)
      PROVE  LastIs(d, usage, v)
  <2>1. CASE \A i \in DOMAIN c : c[i].kind # "usage"
    BY <1>1, <1>2, <1>5, <2>1 DEF LastIs
  <2>2. CASE ~(\A i \in DOMAIN c : c[i].kind # "usage")
    <3>1. PICK i \in DOMAIN c :
             /\ c[i].kind = "usage" /\ c[i].usage = v
             /\ \A j \in DOMAIN c : j > i => c[j].kind # "usage"
      BY <1>5, <2>2 DEF LastIs
    <3>2. /\ i \in DOMAIN d /\ d[i].kind = "usage" /\ d[i].usage = v
          /\ \A j \in DOMAIN d : j > i => d[j].kind # "usage"
      BY <1>1, <1>2, <1>5, <3>1
    <3>3. QED
      BY <3>2 DEF LastIs
  <2>3. QED
    BY <2>1, <2>2
<1>6. ASSUME NEW usage, e.kind = "usage"
      PROVE  LastIs(d, usage, e.usage)
  <2>1. /\ n + 1 \in DOMAIN d /\ d[n + 1].kind = "usage" /\ d[n + 1].usage = e.usage
        /\ \A j \in DOMAIN d : j > n + 1 => d[j].kind # "usage"
    BY <1>1, <1>6
  <2>2. QED
    BY <2>1 DEF LastIs
<1>7. QED
  BY <1>1, <1>3, <1>4, <1>5, <1>6 DEF d, n

LEMMA Received ==
    ASSUME NEW c \in Seq(Events), c # <<>>
    PROVE  /\ c[1] \in Events /\ Tail(c) \in Seq(Events) /\ Len(Tail(c)) <= Len(c)
           /\ Pieces(c) = Pieces(Tail(c)) \cup (IF c[1].kind = "piece" THEN {c[1].piece} ELSE {})
           /\ EndsLast(c) => EndsLast(Tail(c))
           /\ EndsLast(c) /\ c[1].kind \in {"completed", "err"} => Tail(c) = <<>>
           /\ NoEnd(c) => NoEnd(Tail(c)) /\ c[1].kind \notin {"completed", "err"}
           /\ \A usage, v : LastIs(c, usage, v) =>
                 LastIs(Tail(c), IF c[1].kind = "usage" THEN c[1].usage ELSE usage, v)
<1> DEFINE d == Tail(c)
           n == Len(c)
<1>1. /\ d \in Seq(Events) /\ n \in Nat \ {0} /\ Len(d) = n - 1 /\ c[1] \in Events
      /\ DOMAIN c = 1 .. n /\ DOMAIN d = 1 .. n - 1
  OBVIOUS
<1>2. \A i \in 1 .. n - 1 : d[i] = c[i + 1]
  OBVIOUS
<1> HIDE DEF d, n
<1>3. n = 1 => d = <<>>
  BY <1>1, EmptySeq
<1>4. \A j \in DOMAIN c : j = 1 \/ (j - 1 \in DOMAIN d /\ d[j - 1] = c[j])
  BY <1>1, <1>2
<1>5. Pieces(c) = Pieces(d) \cup (IF c[1].kind = "piece" THEN {c[1].piece} ELSE {})
  <2>1. ASSUME NEW p \in Pieces(c)
        PROVE  p \in Pieces(d) \/ (c[1].kind = "piece" /\ p = c[1].piece)
    BY <1>1, <1>4 DEF Pieces
  <2>2. Pieces(d) \subseteq Pieces(c)
    <3>1. ASSUME NEW p \in Pieces(d)
          PROVE  p \in Pieces(c)
      <4>1. PICK i \in DOMAIN d : d[i].kind = "piece" /\ p = d[i].piece
        BY <3>1 DEF Pieces
      <4>2. i + 1 \in DOMAIN c /\ c[i + 1] = d[i]
        BY <1>1, <1>2, <4>1
      <4>3. QED
        BY <4>1, <4>2 DEF Pieces
    <3>2. QED
      BY <3>1
  <2>3. c[1].kind = "piece" => c[1].piece \in Pieces(c)
    BY <1>1 DEF Pieces
  <2>4. QED
    BY <2>1, <2>2, <2>3
<1>6. /\ EndsLast(c) => EndsLast(d)
      /\ EndsLast(c) /\ c[1].kind \in {"completed", "err"} => d = <<>>
      /\ NoEnd(c) => NoEnd(d) /\ c[1].kind \notin {"completed", "err"}
  <2>1. EndsLast(c) => EndsLast(d)
    <3>1. ASSUME EndsLast(c), NEW i \in DOMAIN d, d[i].kind \in {"completed", "err"}
          PROVE  i = Len(d)
      <4>1. i + 1 \in DOMAIN c /\ c[i + 1] = d[i]
        BY <1>1, <1>2
      <4>2. i + 1 = Len(c)
        BY <3>1, <4>1 DEF EndsLast
      <4>3. QED
        BY <1>1, <4>2 DEF n
    <3>2. QED
      BY <3>1 DEF EndsLast
  <2>2. EndsLast(c) /\ c[1].kind \in {"completed", "err"} => d = <<>>
    BY <1>1, <1>3 DEF EndsLast, n
  <2>3. NoEnd(c) => NoEnd(d) /\ c[1].kind \notin {"completed", "err"}
    <3>1. \A i \in DOMAIN d : i + 1 \in DOMAIN c /\ c[i + 1] = d[i]
      BY <1>1, <1>2
    <3>2. 1 \in DOMAIN c
      BY <1>1
    <3>3. QED
      BY <3>1, <3>2 DEF NoEnd
  <2>4. QED
    BY <2>1, <2>2, <2>3
<1>7. ASSUME NEW usage, NEW v, LastIs(c, usage, v)
      PROVE  LastIs(d, IF c[1].kind = "usage" THEN c[1].usage ELSE usage, v)
  <2>1. CASE \A i \in DOMAIN c : c[i].kind # "usage"
    <3>1. c[1].kind # "usage" /\ v = usage
      BY <1>1, <1>7, <2>1 DEF LastIs
    <3>2. \A i \in DOMAIN d : d[i].kind # "usage"
      <4>1. \A i \in DOMAIN d : i + 1 \in DOMAIN c /\ c[i + 1] = d[i]
        BY <1>1, <1>2
      <4>2. QED
        BY <2>1, <4>1
    <3>3. QED
      BY <3>1, <3>2 DEF LastIs
  <2>2. CASE ~(\A i \in DOMAIN c : c[i].kind # "usage")
    <3>1. PICK i \in DOMAIN c :
             /\ c[i].kind = "usage" /\ c[i].usage = v
             /\ \A j \in DOMAIN c : j > i => c[j].kind # "usage"
      BY <1>7, <2>2 DEF LastIs
    <3>2. \A j \in DOMAIN d : j > i - 1 => d[j].kind # "usage"
      BY <1>1, <1>2, <3>1
    <3>3. CASE i = 1
      BY <1>1, <3>1, <3>2, <3>3 DEF LastIs
    <3>4. CASE i # 1
      <4>1. i - 1 \in DOMAIN d /\ d[i - 1] = c[i]
        BY <1>4, <3>4
      <4>2. QED
        BY <3>1, <3>2, <4>1 DEF LastIs
    <3>5. QED
      BY <3>3, <3>4
  <2>3. QED
    BY <2>1, <2>2
<1>8. QED
  BY <1>1, <1>5, <1>6, <1>7 DEF d, n

\* Where there is nothing, nothing streams and nothing is on its way.
LEMMA NoBlocks ==
    /\ Streaming(<<>>) = {} /\ Pieces(<<>>) = {}
    /\ \A usage : LastIs(<<>>, usage, usage)
    /\ EndsLast(<<>>) /\ NoEnd(<<>>)
BY DEF Streaming, Pieces, LastIs, EndsLast, NoEnd

\* A new block streams its pieces after those of the blocks before it.
LEMMA BlockAdded ==
    ASSUME NEW b \in Seq(Block), NEW x \in Block
    PROVE  /\ Append(b, x) \in Seq(Block) /\ Len(Append(b, x)) = Len(b) + 1
           /\ Streaming(Append(b, x)) =
                 Streaming(b) \cup (IF Streams(x.kind) THEN x.pieces ELSE {})
           /\ \A i \in DOMAIN Append(b, x) : Append(b, x)[i] = x \/ (i \in DOMAIN b /\ Append(b, x)[i] = b[i])
<1> DEFINE d == Append(b, x)
           n == Len(b)
<1>1. /\ d \in Seq(Block) /\ Len(d) = n + 1 /\ n \in Nat /\ d[n + 1] = x
      /\ DOMAIN b = 1 .. n /\ DOMAIN d = 1 .. n + 1
  OBVIOUS
<1>2. \A i \in 1 .. n : d[i] = b[i]
  OBVIOUS
<1> HIDE DEF d, n
<1>3. \A i \in DOMAIN d : d[i] = x \/ (i \in DOMAIN b /\ d[i] = b[i])
  BY <1>1, <1>2
<1>4. ASSUME NEW p
      PROVE  p \in Streaming(d) <=>
                p \in Streaming(b) \/ (Streams(x.kind) /\ p \in x.pieces)
  <2>1. p \in Streaming(d) <=> \E i \in DOMAIN d : Streams(d[i].kind) /\ p \in d[i].pieces
    BY DEF Streaming
  <2>2. p \in Streaming(b) <=> \E i \in DOMAIN b : Streams(b[i].kind) /\ p \in b[i].pieces
    BY DEF Streaming
  <2>3. QED
    BY <1>1, <1>2, <1>3, <2>1, <2>2
<1>5. Streaming(d) = Streaming(b) \cup (IF Streams(x.kind) THEN x.pieces ELSE {})
  BY <1>4
<1>6. QED
  BY <1>1, <1>3, <1>5 DEF d, n

\* A delta streams its piece if its block does.
LEMMA BlockExtended ==
    ASSUME NEW b \in Seq(Block), NEW k \in DOMAIN b, NEW f \in Frame
    PROVE  LET d == [b EXCEPT ![k].pieces = @ \cup {f}] IN
           /\ d \in Seq(Block) /\ Len(d) = Len(b) /\ DOMAIN d = DOMAIN b
           /\ Streaming(d) = Streaming(b) \cup (IF Streams(b[k].kind) THEN {f} ELSE {})
           /\ \A i \in DOMAIN d : d[i].pieces \subseteq b[i].pieces \cup {f}
<1> DEFINE x == [b[k] EXCEPT !.pieces = @ \cup {f}]
           d == [b EXCEPT ![k] = x]
<1>a. b[k] \in Block
  OBVIOUS
<1>1. b[k] \in Block /\ x \in Block /\ x.kind = b[k].kind /\ x.pieces = b[k].pieces \cup {f}
  BY <1>a DEF Block
<1>2. d = [b EXCEPT ![k].pieces = @ \cup {f}]
  OBVIOUS
<1> HIDE DEF x
<1>3. d \in Seq(Block) /\ Len(d) = Len(b) /\ DOMAIN d = DOMAIN b /\ d[k] = x
  BY <1>1, ExceptSeq
<1>4. \A i \in DOMAIN b : i # k => d[i] = b[i]
  OBVIOUS
<1> HIDE DEF d
<1>5. ASSUME NEW p
      PROVE  p \in Streaming(d) <=> p \in Streaming(b) \/ (Streams(b[k].kind) /\ p = f)
  <2>1. p \in Streaming(d) <=> \E i \in DOMAIN d : Streams(d[i].kind) /\ p \in d[i].pieces
    BY DEF Streaming
  <2>2. p \in Streaming(b) <=> \E i \in DOMAIN b : Streams(b[i].kind) /\ p \in b[i].pieces
    BY DEF Streaming
  <2>3. QED
    BY <1>1, <1>3, <1>4, <2>1, <2>2
<1>6. Streaming(d) = Streaming(b) \cup (IF Streams(b[k].kind) THEN {f} ELSE {})
  BY <1>5
<1>7. \A i \in DOMAIN d : d[i].pieces \subseteq b[i].pieces \cup {f}
  BY <1>1, <1>3, <1>4
<1>8. QED
  BY <1>2, <1>3, <1>6, <1>7

-----------------------------------------------------------------------------
(***************************************************************************)
(* Steps of one kind                                                       *)
(***************************************************************************)
LEMMA ItemsTyped ==
    /\ NoUsage \in Usage
    /\ \A k \in {"limits", "retrying", "completed", "err"} :
          Plain(k) \in Events /\ Plain(k).kind = k
    /\ \A k \in {"piece", "progress"}, f \in Frame :
          /\ Item(k, f, NoUsage) \in Events /\ Item(k, f, NoUsage).kind = k
          /\ Item(k, f, NoUsage).piece = f
    /\ \A u \in Usage : /\ Item("usage", 0, u) \in Events /\ Item("usage", 0, u).kind = "usage"
                        /\ Item("usage", 0, u).usage = u
<1>1. NoUsage \in Usage
  BY DEF NoUsage, Usage
<1>2. QED
  BY <1>1, StreamAssumption DEF Plain, Item, Events, Frame

\* An event that is sent goes last, if anyone listens.
LEMMA SentOn ==
    ASSUME SInv, pump \in {"head", "frames", "failing"},
           NEW e \in Events, NEW next, Sends(e, next)
    PROVE  /\ channel' \in Seq(Events) /\ Len(channel') <= StreamBuffer
           /\ consumer \in {"waiting", "dropped"}
           /\ consumer # "waiting" => pump' = "ended" /\ channel' = channel
           /\ consumer = "waiting" =>
                 /\ pump' = next
                 /\ Pieces(channel') =
                       Pieces(channel) \cup (IF e.kind = "piece" THEN {e.piece} ELSE {})
                 /\ EndsLast(channel')
                 /\ e.kind \notin {"completed", "err"} => NoEnd(channel')
                 /\ e.kind # "usage" => LastIs(channel', billed, told)
                 /\ e.kind = "usage" => LastIs(channel', billed, e.usage)
<1>1. /\ channel \in Seq(Events) /\ Len(channel) <= StreamBuffer
      /\ consumer \in {"waiting", "dropped"}
      /\ consumer = "waiting" => NoEnd(channel) /\ LastIs(channel, billed, told)
  BY DEF SInv, Typed, ReplyTypeOK, Unopened, OnItsWay, Consumers
<1>2. CASE consumer = "waiting"
  <2>1. channel' = Append(channel, e) /\ pump' = next /\ Len(channel) < StreamBuffer
    BY <1>2 DEF Sends
  <2>2. Len(channel') = Len(channel) + 1 /\ Len(channel) \in Nat
    BY <1>1, <2>1, AppendedEvents
  <2>3. Len(channel') <= StreamBuffer
    BY <2>1, <2>2, StreamAssumption
  <2>4. QED
    BY <1>1, <1>2, <2>1, <2>3, AppendedEvents
<1>3. CASE consumer # "waiting"
  BY <1>1, <1>3 DEF Sends
<1>4. QED
  BY <1>2, <1>3

\* A frame of an attempt leaves what streams where the invariant says.
LEMMA FrameInv ==
    ASSUME SInv, NextFrame, UNCHANGED <<retry, consumer, shown, billed, reply, attempts>>,
           channel' \in Seq(Events), Len(channel') <= StreamBuffer,
           pump' = "frames" \/ (pump' = "ended" /\ consumer # "waiting"),
           blocks' \in Seq(Block), Len(blocks') <= MaxBlocks,
           \A i \in DOMAIN blocks' : blocks'[i].pieces \subseteq 1 .. frames',
           counted' \in Usage, told' \in Usage, counted' # NoUsage => counted' = told',
           consumer = "waiting" =>
              /\ shown \cup Pieces(channel') = Streaming(blocks')
              /\ LastIs(channel', billed, told') /\ NoEnd(channel')
    PROVE  SInv'
<1>1. /\ pump = "frames" /\ frames' = frames + 1 /\ frames' <= MaxFrames
      /\ frames \in 0 .. MaxFrames /\ consumer \in {"waiting", "dropped"}
  BY StreamAssumption DEF SInv, Typed, ReplyTypeOK, NextFrame, Unopened, Consumers
<1>2. Typed'
  <2>1. frames' \in 0 .. MaxFrames /\ pump' \in Pumps
    BY <1>1, StreamAssumption DEF Pumps
  <2>2. QED
    BY <2>1 DEF SInv, Typed, ReplyTypeOK
<1>3. Unopened' /\ Attempts'
  BY <1>1 DEF SInv, Unopened, Attempts
<1>4. OnItsWay'
  BY <1>1 DEF OnItsWay, EndsLast, NoEnd
<1>5. ShownIsReply' /\ EndBillsTold'
  BY <1>1 DEF ShownIsReply, EndBillsTold
<1>6. consumer' \notin {"completed", "failed"}
  BY <1>1
<1>7. QED
  BY <1>2, <1>3, <1>4, <1>5, <1>6 DEF SInv

\* A frame adds `out`, its piece or nothing, to what streams and sends it on.
Forwards ==
    /\ blocks' \in Seq(Block) /\ Len(blocks') <= MaxBlocks
    /\ \A i \in DOMAIN blocks' : blocks'[i].pieces \subseteq 1 .. frames'
    /\ \E out \in SUBSET {frames'} :
          /\ Streaming(blocks') = Streaming(blocks) \cup out
          /\ \/ Unforwarded /\ out = {}
             \/ \E e \in Events :
                   /\ Sends(e, "frames") /\ e.kind \in {"piece", "progress"}
                   /\ out = IF e.kind = "piece" THEN {e.piece} ELSE {}

\* A frame that changes no block forwards nothing.
LEMMA BlocksKept ==
    ASSUME SInv, NextFrame, UNCHANGED blocks, Unforwarded
    PROVE  Forwards
<1>1. frames \in Nat /\ frames' = frames + 1
  BY DEF SInv, Typed, ReplyTypeOK, NextFrame
<1>2. \A i \in DOMAIN blocks' : blocks'[i].pieces \subseteq 1 .. frames'
  <2>1. ASSUME NEW i \in DOMAIN blocks, NEW p \in blocks[i].pieces
        PROVE  p \in 1 .. frames'
    BY <1>1, <2>1 DEF SInv
  <2>2. QED
    BY <2>1
<1>3. {} \in SUBSET {frames'} /\ Streaming(blocks') = Streaming(blocks) \cup {}
  OBVIOUS
<1>4. blocks' \in Seq(Block) /\ Len(blocks') <= MaxBlocks
  BY DEF SInv, Typed, ReplyTypeOK
<1>5. QED
  BY <1>2, <1>3, <1>4 DEF Forwards

\* A block that starts.
LEMMA StartForwards ==
    ASSUME SInv, NEW index \in 1 .. MaxBlocks, NEW kind \in Kind, StartBlock(index, kind)
    PROVE  NextFrame /\ Forwards
<1>1. NextFrame
  BY DEF StartBlock
<1>2. CASE index # Len(blocks) + 1
  BY <1>1, <1>2, BlocksKept DEF StartBlock
<1>3. CASE index = Len(blocks) + 1
  <2>1. /\ frames \in Nat /\ frames' = frames + 1 /\ frames' \in Frame
        /\ blocks \in Seq(Block) /\ Len(blocks) + 1 <= MaxBlocks
        /\ \A i \in DOMAIN blocks : blocks[i].pieces \subseteq 1 .. frames
    BY <1>1, <1>3, StreamAssumption DEF SInv, Typed, ReplyTypeOK, NextFrame, Frame
  <2>2. PICK piece \in BOOLEAN :
           /\ blocks' = Append(blocks, [kind |-> kind, pieces |-> IF piece THEN {frames'} ELSE {}])
           /\ IF \/ piece /\ Streams(kind)
                 \/ /\ piece /\ kind = "tool" /\ ThinkingText
                    /\ \E i \in DOMAIN blocks : blocks[i].kind = "thinking"
                THEN Sends(Item(IF kind = "tool" THEN "progress" ELSE "piece",
                                frames', NoUsage), "frames")
                ELSE Unforwarded
    BY <1>3 DEF StartBlock
  <2> DEFINE x == [kind |-> kind, pieces |-> IF piece THEN {frames'} ELSE {}]
             e == Item(IF kind = "tool" THEN "progress" ELSE "piece", frames', NoUsage)
             out == IF Streams(kind) /\ piece THEN {frames'} ELSE {}
  <2>3. /\ x \in Block /\ x.kind = kind /\ x.pieces = (IF piece THEN {frames'} ELSE {})
        /\ x.pieces \subseteq 1 .. frames'
    BY <2>1 DEF Block, Frame
  <2>4. e \in Events /\ e.piece = frames' /\ e.kind = IF kind = "tool" THEN "progress" ELSE "piece"
    BY <2>1, ItemsTyped
  <2>5. blocks' = Append(blocks, x)
    BY <2>2
  <2> HIDE DEF x, e
  <2>6. /\ blocks' \in Seq(Block) /\ Len(blocks') <= MaxBlocks
        /\ Streaming(blocks') = Streaming(blocks) \cup out
    BY <2>1, <2>3, <2>5, BlockAdded
  <2>7. ASSUME NEW i \in DOMAIN blocks'
        PROVE  blocks'[i].pieces \subseteq 1 .. frames'
    <3>1. blocks'[i] = x \/ (i \in DOMAIN blocks /\ blocks'[i] = blocks[i])
      BY <2>1, <2>3, <2>5, BlockAdded
    <3>2. 1 .. frames \subseteq 1 .. frames'
      BY <2>1
    <3>3. QED
      BY <2>1, <2>3, <3>1, <3>2
  <2>8. Streams(kind) => kind # "tool"
    BY DEF Streams
  <2>9. \/ Unforwarded /\ out = {}
        \/ /\ Sends(e, "frames") /\ e.kind \in {"piece", "progress"}
           /\ out = IF e.kind = "piece" THEN {e.piece} ELSE {}
    <3>1. CASE piece /\ Streams(kind)
      BY <2>2, <2>4, <2>8, <3>1 DEF e
    <3>2. CASE ~(piece /\ Streams(kind))
      <4>1. out = {}
        BY <3>2
      <4>2. Unforwarded \/ (kind = "tool" /\ Sends(e, "frames"))
        BY <2>2, <3>2 DEF e
      <4>3. QED
        BY <2>4, <4>1, <4>2
    <3>3. QED
      BY <3>1, <3>2
  <2>10. out \in SUBSET {frames'}
    OBVIOUS
  <2> HIDE DEF out
  <2>11. QED
    BY <1>1, <2>4, <2>6, <2>7, <2>9, <2>10 DEF Forwards
<1>4. QED
  BY <1>2, <1>3

\* A delta.
LEMMA DeltaForwards ==
    ASSUME SInv, NEW index \in 1 .. MaxBlocks, NEW fits \in BOOLEAN, Delta(index, fits)
    PROVE  NextFrame /\ Forwards
<1>1. NextFrame
  BY DEF Delta
<1>2. CASE ~(fits /\ index \in DOMAIN blocks)
  BY <1>1, <1>2, BlocksKept DEF Delta
<1>3. CASE fits /\ index \in DOMAIN blocks
  <2>1. /\ frames \in Nat /\ frames' = frames + 1 /\ frames' \in Frame
        /\ blocks \in Seq(Block) /\ Len(blocks) <= MaxBlocks
        /\ \A i \in DOMAIN blocks : blocks[i].pieces \subseteq 1 .. frames
    BY <1>1, StreamAssumption DEF SInv, Typed, ReplyTypeOK, NextFrame, Frame
  <2>2. /\ blocks' = [blocks EXCEPT ![index].pieces = @ \cup {frames'}]
        /\ IF Streams(blocks[index].kind)
             THEN Sends(Item("piece", frames', NoUsage), "frames")
             ELSE Unforwarded
    BY <1>3 DEF Delta
  <2> DEFINE e == Item("piece", frames', NoUsage)
             out == IF Streams(blocks[index].kind) THEN {frames'} ELSE {}
  <2>3. e \in Events /\ e.piece = frames' /\ e.kind = "piece"
    BY <2>1, ItemsTyped
  <2>4. /\ blocks' \in Seq(Block) /\ Len(blocks') = Len(blocks) /\ DOMAIN blocks' = DOMAIN blocks
        /\ Streaming(blocks') = Streaming(blocks) \cup out
        /\ \A i \in DOMAIN blocks' : blocks'[i].pieces \subseteq blocks[i].pieces \cup {frames'}
    <3> DEFINE f == frames'
               d == [blocks EXCEPT ![index].pieces = @ \cup {f}]
    <3>1. f \in Frame /\ blocks' = d
      BY <2>1, <2>2
    <3> HIDE DEF f
    <3>2. /\ d \in Seq(Block) /\ Len(d) = Len(blocks) /\ DOMAIN d = DOMAIN blocks
          /\ Streaming(d) = Streaming(blocks) \cup (IF Streams(blocks[index].kind) THEN {f} ELSE {})
          /\ \A i \in DOMAIN d : d[i].pieces \subseteq blocks[i].pieces \cup {f}
      BY <1>3, <2>1, <3>1, BlockExtended
    <3> HIDE DEF d
    <3>3. QED
      BY <3>1, <3>2 DEF f
  <2>5. ASSUME NEW i \in DOMAIN blocks'
        PROVE  blocks'[i].pieces \subseteq 1 .. frames'
    <3>1. 1 .. frames \subseteq 1 .. frames' /\ frames' \in 1 .. frames'
      BY <2>1
    <3>2. QED
      BY <2>1, <2>4, <3>1
  <2>6. \/ Unforwarded /\ out = {}
        \/ Sends(e, "frames") /\ out = {e.piece}
    BY <2>2, <2>3
  <2>7. out \in SUBSET {frames'}
    OBVIOUS
  <2> HIDE DEF e, out
  <2>8. QED
    BY <1>1, <2>1, <2>3, <2>4, <2>5, <2>6, <2>7 DEF Forwards
<1>4. QED
  BY <1>2, <1>3

\* A frame that forwards what it adds keeps the invariant.
LEMMA ForwardInv ==
    ASSUME SInv, NextFrame, Forwards,
           UNCHANGED <<retry, counted, consumer, shown, billed, reply, attempts, told>>
    PROVE  SInv'
<1>1. /\ pump = "frames" /\ channel \in Seq(Events) /\ Len(channel) <= StreamBuffer
      /\ counted' \in Usage /\ told' \in Usage /\ (counted' # NoUsage => counted' = told')
      /\ blocks' \in Seq(Block) /\ Len(blocks') <= MaxBlocks
      /\ \A i \in DOMAIN blocks' : blocks'[i].pieces \subseteq 1 .. frames'
  BY DEF SInv, Typed, ReplyTypeOK, NextFrame, Forwards
<1>2. PICK out \in SUBSET {frames'} :
         /\ Streaming(blocks') = Streaming(blocks) \cup out
         /\ \/ Unforwarded /\ out = {}
            \/ \E e \in Events :
                  /\ Sends(e, "frames") /\ e.kind \in {"piece", "progress"}
                  /\ out = IF e.kind = "piece" THEN {e.piece} ELSE {}
  BY DEF Forwards
<1>3. CASE Unforwarded /\ out = {}
  <2>1. consumer = "waiting" =>
           /\ shown \cup Pieces(channel') = Streaming(blocks')
           /\ LastIs(channel', billed, told') /\ NoEnd(channel')
    BY <1>1, <1>2, <1>3 DEF SInv, OnItsWay, Unforwarded
  <2>2. QED
    BY <1>1, <1>3, <2>1, FrameInv DEF Unforwarded
<1>4. CASE \E e \in Events :
              /\ Sends(e, "frames") /\ e.kind \in {"piece", "progress"}
              /\ out = IF e.kind = "piece" THEN {e.piece} ELSE {}
  <2>1. PICK e \in Events :
           /\ Sends(e, "frames") /\ e.kind \in {"piece", "progress"}
           /\ out = IF e.kind = "piece" THEN {e.piece} ELSE {}
    BY <1>4
  <2>2. /\ channel' \in Seq(Events) /\ Len(channel') <= StreamBuffer
        /\ consumer # "waiting" => pump' = "ended"
        /\ consumer = "waiting" =>
              /\ pump' = "frames" /\ Pieces(channel') = Pieces(channel) \cup out
              /\ NoEnd(channel') /\ LastIs(channel', billed, told)
    BY <1>1, <2>1, SentOn
  <2>3. consumer = "waiting" => shown \cup Pieces(channel') = Streaming(blocks')
    BY <1>2, <2>2 DEF SInv, OnItsWay
  <2>4. QED
    BY <1>1, <2>2, <2>3, FrameInv
<1>5. QED
  BY <1>2, <1>3, <1>4

\* A report is sent as it is counted.
LEMMA ReportsInv ==
    ASSUME SInv, NEW base \in {NoUsage, counted}, NEW report \in Usage, Reports(base, report)
    PROVE  SInv'
<1> DEFINE e == Item("usage", 0, counted')
<1>1. /\ pump = "frames" /\ channel \in Seq(Events) /\ Len(channel) <= StreamBuffer
      /\ blocks \in Seq(Block) /\ Len(blocks) <= MaxBlocks /\ frames \in Nat /\ frames' = frames + 1
      /\ counted \in Usage /\ told \in Usage /\ (counted # NoUsage => counted = told)
      /\ Sends(e, "frames") /\ NextFrame
  BY DEF SInv, Typed, ReplyTypeOK, Reports, NextFrame
<1>2. /\ counted' = [k \in {"input", "output"} |-> IF report[k] > 0 THEN report[k] ELSE base[k]]
      /\ told' = [k \in {"input", "output"} |->
                    IF base # NoUsage /\ report[k] = 0 THEN told[k] ELSE report[k]]
      /\ base \in Usage
  BY <1>1, ItemsTyped DEF Reports, Observe, Usage
<1>3. counted' = told'
  <2>1. CASE base = NoUsage
    BY <1>2, <2>1 DEF NoUsage, Usage
  <2>2. CASE base # NoUsage
    <3>1. base = told
      BY <1>1, <2>2
    <3>2. \A k \in {"input", "output"} : report[k] > 0 <=> report[k] # 0
      BY DEF Usage
    <3>3. QED
      BY <1>2, <2>2, <3>1, <3>2
  <2>3. QED
    BY <2>1, <2>2
<1>4. counted' \in Usage
  BY <1>2 DEF Usage
<1>5. e \in Events /\ e.kind = "usage" /\ e.usage = told'
  BY <1>3, <1>4, ItemsTyped
<1> HIDE DEF e
<1>6. /\ channel' \in Seq(Events) /\ Len(channel') <= StreamBuffer
      /\ consumer # "waiting" => pump' = "ended"
      /\ consumer = "waiting" =>
            /\ pump' = "frames" /\ Pieces(channel') = Pieces(channel)
            /\ NoEnd(channel') /\ LastIs(channel', billed, told')
  BY <1>1, <1>5, SentOn
<1>7. UNCHANGED <<retry, blocks, consumer, shown, billed, reply, attempts>>
  BY DEF Reports
<1>8. consumer = "waiting" => shown \cup Pieces(channel') = Streaming(blocks')
  BY <1>6, <1>7 DEF SInv, OnItsWay
<1>9. \A i \in DOMAIN blocks' : blocks'[i].pieces \subseteq 1 .. frames'
  <2>1. ASSUME NEW i \in DOMAIN blocks, NEW p \in blocks[i].pieces
        PROVE  p \in 1 .. frames'
    BY <1>1, <2>1 DEF SInv
  <2>2. QED
    BY <1>7, <2>1
<1>10. QED
  BY <1>1, <1>3, <1>4, <1>6, <1>7, <1>8, <1>9, FrameInv

-----------------------------------------------------------------------------
(***************************************************************************)
(* Steps of the other kinds                                                *)
(***************************************************************************)
\* A step that neither takes a frame nor reaches the consumer.
LEMMA QuietInv ==
    ASSUME SInv, UNCHANGED <<frames, consumer, shown, billed, reply, told>>,
           consumer \in {"waiting", "dropped"},
           pump' \in Pumps \ {"none"}, channel' \in Seq(Events), Len(channel') <= StreamBuffer,
           retry' \in 0 .. MaxRetries, attempts' \in 0 .. MaxRetries + 1, Attempts',
           \/ UNCHANGED <<blocks, counted>>
           \/ blocks' = <<>> /\ blocks = <<>> /\ counted' = NoUsage,
           consumer = "waiting" =>
              /\ Pieces(channel') = Pieces(channel)
              /\ LastIs(channel', billed, told) /\ EndsLast(channel')
              /\ pump' # "ended" => NoEnd(channel')
    PROVE  SInv'
<1>1. /\ blocks' = blocks /\ counted' \in Usage /\ (counted' # NoUsage => counted' = told')
  BY ItemsTyped DEF SInv, Typed, ReplyTypeOK
<1>2. Typed'
  BY <1>1 DEF SInv, Typed, ReplyTypeOK
<1>3. Unopened'
  BY DEF SInv, Unopened
<1>4. OnItsWay'
  BY <1>1 DEF SInv, OnItsWay
<1>5. ShownIsReply' /\ EndBillsTold' /\ consumer' \notin {"completed", "failed"}
  BY DEF ShownIsReply, EndBillsTold
<1>6. QED
  BY <1>1, <1>2, <1>3, <1>4, <1>5 DEF SInv

\* What holds while an attempt is under way.
LEMMA UnderWay ==
    ASSUME SInv, pump \in {"request", "head", "frames", "failing", "backoff"}
    PROVE  /\ consumer \in {"waiting", "dropped"} /\ retry \in 0 .. MaxRetries
           /\ attempts \in 0 .. MaxRetries + 1
           /\ channel \in Seq(Events) /\ Len(channel) <= StreamBuffer
           /\ consumer = "waiting" => LastIs(channel, billed, told) /\ EndsLast(channel) /\ NoEnd(channel)
BY DEF SInv, Typed, ReplyTypeOK, Unopened, OnItsWay, Consumers

\* An attempt that fails before a block started is retried, any other reported.
LEMMA AttemptFailsInv ==
    ASSUME SInv, pump \in {"request", "frames"}, NEW retryable \in BOOLEAN,
           retryable => blocks = <<>>, AttemptFails(retryable),
           UNCHANGED <<frames, blocks, counted, consumer, shown, billed, reply, attempts, told>>
    PROVE  SInv'
<1>1. attempts = retry + 1
  BY DEF SInv, Attempts
<1>2. CASE pump' = "failing" /\ UNCHANGED <<retry, channel>>
  <2>1. Attempts' /\ pump' \in Pumps \ {"none"}
    BY <1>1, <1>2 DEF Attempts, Pumps
  <2>2. QED
    BY <1>2, <2>1, UnderWay, QuietInv
<1>3. CASE retryable /\ (\E long \in BOOLEAN : Retries(long)) /\ retry' = retry + 1
           /\ pump' = "backoff" /\ Noticed
  <2>1. /\ retry' \in 0 .. MaxRetries /\ Attempts' /\ pump' \in Pumps \ {"none"}
    BY <1>1, <1>3, StreamAssumption, UnderWay DEF Attempts, Pumps, Retries
  <2>2. CASE channel' = channel
    BY <1>3, <2>1, <2>2, UnderWay, QuietInv
  <2>3. CASE /\ channel' = Append(channel, Plain("retrying")) /\ consumer = "waiting"
             /\ Len(channel) < StreamBuffer
    <3> DEFINE e == Plain("retrying")
    <3>1. e \in Events /\ e.kind = "retrying"
      BY ItemsTyped
    <3>2. channel' = Append(channel, e)
      BY <2>3
    <3> HIDE DEF e
    <3>3. /\ channel' \in Seq(Events) /\ Len(channel') = Len(channel) + 1
          /\ Pieces(channel') = Pieces(channel) /\ NoEnd(channel') /\ EndsLast(channel')
          /\ LastIs(channel', billed, told)
      BY <2>3, <3>1, <3>2, UnderWay, AppendedEvents
    <3>4. Len(channel') <= StreamBuffer
      BY <2>3, <3>3, StreamAssumption, UnderWay
    <3>5. QED
      BY <1>3, <2>1, <3>3, <3>4, UnderWay, QuietInv
  <2>4. QED
    BY <1>3, <2>2, <2>3 DEF Noticed
<1>4. QED
  BY <1>2, <1>3 DEF AttemptFails

LEMMA PostInv == ASSUME SInv, Post PROVE SInv'
<1>1. pump = "request" /\ blocks = <<>>
      /\ UNCHANGED <<frames, blocks, counted, consumer, shown, billed, reply, attempts, told>>
  BY DEF Post, SInv, Attempts
<1>2. CASE pump' = "head" /\ UNCHANGED <<retry, channel>>
  <2>1. Attempts' /\ pump' \in Pumps \ {"none"}
    BY <1>1, <1>2 DEF SInv, Attempts, Pumps
  <2>2. QED
    BY <1>1, <1>2, <2>1, UnderWay, QuietInv
<1>3. CASE \E retryable \in BOOLEAN : AttemptFails(retryable)
  BY <1>1, <1>3, AttemptFailsInv
<1>4. QED
  BY <1>2, <1>3 DEF Post

LEMMA BreakInv == ASSUME SInv, Break PROVE SInv'
<1>1. PICK transient \in BOOLEAN : AttemptFails(Retryable(transient))
  BY DEF Break
<1>2. /\ pump = "frames" /\ Retryable(transient) \in BOOLEAN
      /\ Retryable(transient) => blocks = <<>>
      /\ UNCHANGED <<frames, blocks, counted, consumer, shown, billed, reply, attempts, told>>
  BY DEF Break, Retryable, ContentStarted
<1>3. QED
  BY <1>1, <1>2, AttemptFailsInv

\* An event of the attempt itself goes out, unless nobody listens.
LEMMA PlainSent ==
    ASSUME SInv, NEW k \in {"limits", "completed", "err"}, NEW next \in {"frames", "ended"},
           \/ pump = "head" /\ k = "limits" /\ next = "frames"
           \/ pump \in {"frames", "failing"} /\ next = "ended",
           Sends(Plain(k), next),
           UNCHANGED <<retry, frames, blocks, counted, consumer, shown, billed, reply, attempts, told>>
    PROVE  SInv'
<1> DEFINE e == Plain(k)
<1>1. e \in Events /\ e.kind = k /\ Sends(e, next)
  BY ItemsTyped
<1> HIDE DEF e
<1>2. /\ channel' \in Seq(Events) /\ Len(channel') <= StreamBuffer
      /\ consumer # "waiting" => pump' = "ended"
      /\ consumer = "waiting" =>
            /\ pump' = next /\ Pieces(channel') = Pieces(channel) /\ EndsLast(channel')
            /\ next = "frames" => NoEnd(channel')
            /\ LastIs(channel', billed, told)
  BY <1>1, SentOn
<1>3. pump' \in {"frames", "ended"} /\ (pump' = "frames" => pump = "head")
  BY <1>2, UnderWay
<1>4. Attempts' /\ pump' \in Pumps \ {"none"}
  BY <1>3 DEF SInv, Attempts, Pumps
<1>5. QED
  BY <1>2, <1>4, UnderWay, QuietInv

LEMMA LeadInv == ASSUME SInv, Lead PROVE SInv'
<1>1. pump = "head"
      /\ UNCHANGED <<retry, frames, blocks, counted, consumer, shown, billed, reply, attempts, told>>
  BY DEF Lead
<1>2. CASE Sends(Plain("limits"), "frames")
  BY <1>1, <1>2, PlainSent
<1>3. CASE pump' = "frames" /\ UNCHANGED channel
  <2>1. Attempts' /\ pump' \in Pumps \ {"none"}
    BY <1>1, <1>3 DEF SInv, Attempts, Pumps
  <2>2. QED
    BY <1>1, <1>3, <2>1, UnderWay, QuietInv
<1>4. QED
  BY <1>2, <1>3 DEF Lead

LEMMA StopInv == ASSUME SInv, MessageStop PROVE SInv'
BY PlainSent DEF MessageStop

LEMMA ReportInv == ASSUME SInv, Report PROVE SInv'
BY PlainSent DEF Report

LEMMA AgainInv == ASSUME SInv, Again PROVE SInv'
<1>1. /\ pump = "backoff" /\ attempts = retry /\ blocks = <<>> /\ blocks' = <<>>
      /\ pump' = "request" /\ counted' = NoUsage /\ attempts' = attempts + 1
      /\ UNCHANGED <<retry, frames, channel, consumer, shown, billed, reply, told>>
  BY DEF Again, SInv, Attempts
<1>2. /\ attempts' \in 0 .. MaxRetries + 1 /\ Attempts' /\ pump' \in Pumps \ {"none"}
  BY <1>1, StreamAssumption, UnderWay DEF Attempts, Pumps
<1>3. QED
  BY <1>1, <1>2, UnderWay, QuietInv

LEMMA ClosedInv == ASSUME SInv, Closed PROVE SInv'
<1>1. /\ consumer = "dropped" /\ pump' = "ended"
      /\ UNCHANGED <<retry, frames, blocks, counted, channel, consumer, shown, billed, reply, attempts, told>>
  BY DEF Closed
<1>2. Attempts' /\ pump' \in Pumps \ {"none"}
  BY <1>1 DEF Attempts, Pumps
<1>3. QED
  BY <1>1, <1>2, QuietInv DEF SInv, Typed, ReplyTypeOK

LEMMA OpenInv == ASSUME SInv, Open PROVE SInv'
<1>1. /\ consumer = "none" /\ consumer' = "waiting" /\ pump' = "request" /\ attempts' = 1
      /\ retry = 0 /\ blocks = <<>> /\ channel = <<>> /\ shown = {} /\ billed = NoUsage
      /\ told = NoUsage /\ counted = NoUsage
      /\ UNCHANGED <<retry, frames, blocks, counted, channel, shown, billed, reply, told>>
  BY DEF Open, SInv, Unopened
<1>2. Typed'
  <2>1. pump' \in Pumps /\ consumer' \in Consumers /\ attempts' \in 0 .. MaxRetries + 1
    BY <1>1, StreamAssumption DEF Pumps, Consumers
  <2>2. QED
    BY <1>1, <2>1 DEF SInv, Typed, ReplyTypeOK
<1>3. Unopened' /\ Attempts'
  BY <1>1 DEF Unopened, Attempts
<1>4. OnItsWay'
  BY <1>1, NoBlocks DEF OnItsWay
<1>5. ShownIsReply' /\ EndBillsTold'
  BY <1>1 DEF ShownIsReply, EndBillsTold
<1>6. QED
  BY <1>1, <1>2, <1>3, <1>4, <1>5 DEF SInv

LEMMA DropInv == ASSUME SInv, Drop PROVE SInv'
<1>1. /\ consumer = "waiting" /\ consumer' = "dropped" /\ channel' = <<>>
      /\ UNCHANGED <<pump, retry, frames, blocks, counted, shown, billed, reply, attempts, told>>
  BY DEF Drop
<1>2. Typed'
  BY <1>1, StreamAssumption DEF SInv, Typed, ReplyTypeOK, Consumers
<1>3. Unopened' /\ Attempts' /\ OnItsWay'
  BY <1>1 DEF SInv, Unopened, Attempts, OnItsWay
<1>4. ShownIsReply' /\ EndBillsTold'
  BY <1>1 DEF ShownIsReply, EndBillsTold
<1>5. QED
  BY <1>1, <1>2, <1>3, <1>4 DEF SInv

\* What the consumer takes was on its way, and the end is the last it takes.
LEMMA ReceiveInv == ASSUME SInv, Receive PROVE SInv'
<1> DEFINE e == channel[1]
<1>1. /\ consumer = "waiting" /\ channel # <<>> /\ channel' = Tail(channel)
      /\ shown' = (IF e.kind = "piece" THEN shown \cup {e.piece} ELSE shown)
      /\ billed' = (IF e.kind = "usage" THEN e.usage ELSE billed)
      /\ consumer' = (CASE e.kind = "completed" -> "completed" [] e.kind = "err" -> "failed"
                       [] OTHER -> "waiting")
      /\ reply' = (IF e.kind # "completed" THEN reply ELSE Streaming(blocks))
      /\ UNCHANGED <<pump, retry, frames, blocks, counted, attempts, told>>
  BY DEF Receive, Streaming
<1>2. /\ channel \in Seq(Events) /\ shown \cup Pieces(channel) = Streaming(blocks)
      /\ LastIs(channel, billed, told) /\ EndsLast(channel) /\ (pump # "ended" => NoEnd(channel))
      /\ Len(channel) <= StreamBuffer
  BY <1>1 DEF SInv, Typed, ReplyTypeOK, OnItsWay
<1>3. /\ e \in Events /\ channel' \in Seq(Events) /\ Len(channel') <= Len(channel)
      /\ Pieces(channel) = Pieces(channel') \cup (IF e.kind = "piece" THEN {e.piece} ELSE {})
      /\ EndsLast(channel') /\ LastIs(channel', billed', told)
      /\ e.kind \in {"completed", "err"} => channel' = <<>> /\ pump = "ended"
      /\ pump # "ended" => NoEnd(channel')
  BY <1>1, <1>2, Received
<1> HIDE DEF e
<1>4. shown' \cup Pieces(channel') = Streaming(blocks)
  BY <1>1, <1>2, <1>3
<1>5. Streaming(blocks) \in SUBSET Frame
  <2>1. \A i \in DOMAIN blocks : blocks[i] \in Block
    BY DEF SInv, Typed, ReplyTypeOK
  <2>2. QED
    BY <2>1 DEF Streaming, Block
<1>6. shown' \in SUBSET Frame /\ reply' \in SUBSET Frame /\ billed' \in Usage
  BY <1>1, <1>3, <1>4, <1>5 DEF SInv, Typed, ReplyTypeOK, Events
<1>7. Len(channel') <= StreamBuffer
  BY <1>2, <1>3, StreamAssumption
<1>8. Typed'
  BY <1>1, <1>3, <1>6, <1>7 DEF SInv, Typed, ReplyTypeOK, Consumers
<1>9. consumer' = "waiting" \/ (consumer' \in {"completed", "failed"} /\ channel' = <<>> /\ pump' = "ended"
                                /\ (consumer' = "completed" => reply' = Streaming(blocks)))
  BY <1>1, <1>3
<1>10. Unopened' /\ Attempts'
  BY <1>1, <1>9 DEF SInv, Unopened, Attempts
<1>11. OnItsWay'
  BY <1>1, <1>3, <1>4 DEF OnItsWay
<1>12. channel' = <<>> => billed' = told
  BY <1>3 DEF LastIs
<1>13. ShownIsReply' /\ EndBillsTold'
  BY <1>1, <1>4, <1>9, <1>12, NoBlocks DEF ShownIsReply, EndBillsTold
<1>14. QED
  BY <1>1, <1>8, <1>9, <1>10, <1>11, <1>13 DEF SInv

-----------------------------------------------------------------------------
(***************************************************************************)
(* The theorems                                                            *)
(***************************************************************************)
LEMMA InitInv == SInit => SInv
<1> SUFFICES ASSUME SInit PROVE SInv
  OBVIOUS
<1>1. Typed
  BY StreamAssumption, ItemsTyped DEF SInit, Typed, ReplyTypeOK, Pumps, Consumers
<1>2. Unopened /\ Attempts /\ OnItsWay /\ ShownIsReply /\ EndBillsTold
  BY DEF SInit, Unopened, Attempts, OnItsWay, ShownIsReply, EndBillsTold
<1>3. QED
  BY <1>1, <1>2 DEF SInit, SInv

LEMMA ServedInv == ASSUME SInv, Served PROVE SInv'
<1>1. CASE MessageStart
  <2>1. PICK n \in 1 .. 2 : Reports(NoUsage, [input |-> n, output |-> 0])
    BY <1>1 DEF MessageStart
  <2>2. [input |-> n, output |-> 0] \in Usage
    BY DEF Usage
  <2>3. QED
    BY <2>1, <2>2, ReportsInv
<1>2. CASE MessageDelta
  <2>1. PICK n \in 1 .. 2 : Reports(counted, [input |-> 0, output |-> n])
    BY <1>2 DEF MessageDelta
  <2>2. [input |-> 0, output |-> n] \in Usage
    BY DEF Usage
  <2>3. QED
    BY <2>1, <2>2, ReportsInv
<1>3. ASSUME NEW index \in 1 .. MaxBlocks, NEW fits \in BOOLEAN, Delta(index, fits)
      PROVE  SInv'
  <2>1. UNCHANGED <<retry, counted, consumer, shown, billed, reply, attempts, told>>
    BY <1>3 DEF Delta
  <2>2. QED
    BY <1>3, <2>1, DeltaForwards, ForwardInv
<1>4. ASSUME NEW index \in 1 .. MaxBlocks, NEW kind \in Kind, StartBlock(index, kind)
      PROVE  SInv'
  <2>1. UNCHANGED <<retry, counted, consumer, shown, billed, reply, attempts, told>>
    BY <1>4 DEF StartBlock
  <2>2. QED
    BY <1>4, <2>1, StartForwards, ForwardInv
<1>5. QED
  BY <1>1, <1>2, <1>3, <1>4, PostInv, StopInv, BreakInv DEF Served

LEMMA NextInv == ASSUME SInv, [SNext]_svars PROVE SInv'
<1>1. CASE UNCHANGED svars
  <2>1. /\ Typed' /\ Unopened' /\ Attempts' /\ OnItsWay'
    BY <1>1 DEF SInv, svars, Typed, ReplyTypeOK, Unopened, Attempts, OnItsWay
  <2>2. ShownIsReply' /\ EndBillsTold'
    BY <1>1 DEF SInv, svars, ShownIsReply, EndBillsTold
  <2>3. QED
    BY <1>1, <2>1, <2>2 DEF SInv, svars
<1>2. CASE SNext
  BY <1>2, OpenInv, LeadInv, AgainInv, ServedInv, ReportInv, ClosedInv, ReceiveInv, DropInv DEF SNext
<1>3. QED
  BY <1>1, <1>2

\* Where the pieces and the usage of an attempt are is an invariant of the
\* request: the accumulator's blocks, the channel and the consumer never
\* disagree (`PumpState` in client/anthropic/transport.rs).
THEOREM ReplyInductive == SSpec => []SInv
<1>1. SInv /\ [SNext]_svars => SInv'
  BY NextInv
<1>2. QED
  BY InitInv, <1>1, PTL DEF SSpec

\* For any number of retries, blocks and frames: what the UI showed by the end
\* of a reply is that reply, and what is billed is what the server told last.
THEOREM ReplyAlwaysFaithful == SSpec => []ReplyFaithful
<1>1. SInv => ReplyFaithful
  BY DEF SInv, Typed, ReplyFaithful
<1>2. QED
  BY ReplyInductive, <1>1, PTL

\* A step of the request is a step of the promise, or none of its state moves.
WireStep ==
    \/ Promise!Attempt \/ Promise!Bring \/ Promise!Conclude \/ Promise!Leave
    \/ UNCHANGED Promise!wireVars

LEMMA CameIs == /\ Came = shown \cup Pieces(channel)
                /\ Came' = shown' \cup Pieces(channel')
BY DEF Came, Pieces

\* A frame brings a piece that has not come, or nothing.
LEMMA FrameWire ==
    ASSUME SInv, SInv', NextFrame, UNCHANGED <<consumer, shown, attempts>>,
           consumer # "waiting" => UNCHANGED channel,
           \E out \in SUBSET {frames'} : Streaming(blocks') = Streaming(blocks) \cup out
    PROVE  WireStep
<1>1. PICK out \in SUBSET {frames'} : Streaming(blocks') = Streaming(blocks) \cup out
  OBVIOUS
<1>2. /\ frames \in Nat /\ frames' = frames + 1 /\ frames' \in Frame /\ attempts > 0
      /\ consumer \in {"waiting", "dropped"}
  BY StreamAssumption, UnderWay DEF SInv, Typed, ReplyTypeOK, NextFrame, Frame, Attempts
<1>3. CASE consumer = "dropped"
  BY <1>3, CameIs DEF WireStep, Promise!wireVars
<1>4. CASE consumer = "waiting"
  <2>1. Came = Streaming(blocks) /\ Came' = Streaming(blocks')
    BY <1>4, CameIs DEF SInv, OnItsWay
  <2>2. frames' \notin Came
    <3>1. \A i \in DOMAIN blocks : frames' \notin blocks[i].pieces
      BY <1>2 DEF SInv
    <3>2. QED
      BY <2>1, <3>1 DEF Streaming
  <2>3. Came' = Came \/ Came' = Came \cup {frames'}
    BY <1>1, <2>1
  <2>4. CASE Came' = Came
    BY <2>4 DEF WireStep, Promise!wireVars
  <2>5. CASE Came' = Came \cup {frames'}
    BY <1>2, <1>4, <2>2, <2>5 DEF WireStep, Promise!Bring
  <2>6. QED
    BY <2>3, <2>4, <2>5
<1>5. QED
  BY <1>2, <1>3, <1>4

\* What a frame forwards goes nowhere once the consumer is gone.
LEMMA ForwardWire ==
    ASSUME SInv, SInv', NextFrame, Forwards, UNCHANGED <<consumer, shown, attempts>>
    PROVE  WireStep
<1>1. consumer # "waiting" => UNCHANGED channel
  BY DEF Forwards, Sends, Unforwarded
<1>2. \E out \in SUBSET {frames'} : Streaming(blocks') = Streaming(blocks) \cup out
  BY DEF Forwards
<1>3. QED
  BY <1>1, <1>2, FrameWire

\* A step of the task that keeps what streams.
LEMMA QuietWire ==
    ASSUME SInv, SInv', UNCHANGED <<blocks, consumer, shown, attempts>>,
           consumer # "waiting" => UNCHANGED channel
    PROVE  WireStep
<1>1. CASE consumer = "waiting"
  BY <1>1, CameIs DEF SInv, OnItsWay, WireStep, Promise!wireVars
<1>2. CASE consumer # "waiting"
  BY <1>2, CameIs DEF WireStep, Promise!wireVars
<1>3. QED
  BY <1>1, <1>2

LEMMA ServedWire == ASSUME SInv, SInv', Served PROVE WireStep
<1>1. CASE MessageStart \/ MessageDelta
  <2>1. /\ UNCHANGED <<blocks, consumer, shown, attempts>>
        /\ consumer # "waiting" => UNCHANGED channel
    BY <1>1 DEF MessageStart, MessageDelta, Reports, Sends
  <2>2. QED
    BY <2>1, QuietWire
<1>2. ASSUME NEW index \in 1 .. MaxBlocks, NEW fits \in BOOLEAN, Delta(index, fits)
      PROVE  WireStep
  <2>1. UNCHANGED <<consumer, shown, attempts>>
    BY <1>2 DEF Delta
  <2>2. QED
    BY <1>2, <2>1, DeltaForwards, ForwardWire
<1>3. ASSUME NEW index \in 1 .. MaxBlocks, NEW kind \in Kind, StartBlock(index, kind)
      PROVE  WireStep
  <2>1. UNCHANGED <<consumer, shown, attempts>>
    BY <1>3 DEF StartBlock
  <2>2. QED
    BY <1>3, <2>1, StartForwards, ForwardWire
<1>4. CASE Post \/ MessageStop \/ Break
  <2>1. /\ UNCHANGED <<blocks, consumer, shown, attempts>>
        /\ consumer # "waiting" => UNCHANGED channel
    BY <1>4 DEF Post, MessageStop, Break, AttemptFails, Noticed, Sends
  <2>2. QED
    BY <2>1, QuietWire
<1>5. QED
  BY <1>1, <1>2, <1>3, <1>4 DEF Served

LEMMA NextWire == ASSUME SInv, SInv', SNext PROVE WireStep
<1>1. CASE Open
  <2>1. /\ consumer = "none" /\ consumer' = "waiting" /\ attempts = 0 /\ attempts' = 1
        /\ Came = {} /\ Came' = {}
    BY <1>1, CameIs, NoBlocks DEF Open, SInv, Unopened
  <2>2. QED
    BY <2>1, StreamAssumption DEF WireStep, Promise!Attempt
<1>2. CASE Again
  <2>1. /\ pump = "backoff" /\ blocks = <<>> /\ attempts' = attempts + 1 /\ attempts <= MaxRetries
        /\ consumer \in {"waiting", "dropped"} /\ UNCHANGED <<channel, consumer, shown>>
    BY <1>2, StreamAssumption, UnderWay DEF Again, SInv, Attempts
  <2>2. Came' = Came /\ (consumer = "waiting" => Came = {})
    BY <2>1, CameIs, NoBlocks DEF SInv, OnItsWay
  <2>3. QED
    BY <2>1, <2>2 DEF WireStep, Promise!Attempt
<1>3. CASE Lead \/ Report \/ Closed
  <2>1. /\ UNCHANGED <<blocks, consumer, shown, attempts>>
        /\ consumer # "waiting" => UNCHANGED channel
    BY <1>3 DEF Lead, Report, Closed, Sends
  <2>2. QED
    BY <2>1, QuietWire
<1>4. CASE Receive
  <2> DEFINE e == channel[1]
  <2>1. /\ consumer = "waiting" /\ channel \in Seq(Events) /\ channel # <<>>
        /\ channel' = Tail(channel) /\ UNCHANGED attempts
        /\ shown' = (IF e.kind = "piece" THEN shown \cup {e.piece} ELSE shown)
        /\ consumer' \in {"waiting", "completed", "failed"}
    BY <1>4 DEF Receive, SInv, Typed
  <2>2. Pieces(channel) = Pieces(channel') \cup (IF e.kind = "piece" THEN {e.piece} ELSE {})
    BY <2>1, Received
  <2> HIDE DEF e
  <2>3. Came' = Came
    BY <2>1, <2>2, CameIs
  <2>4. QED
    BY <2>1, <2>3 DEF WireStep, Promise!Conclude, Promise!wireVars
<1>5. CASE Drop
  <2>1. /\ consumer = "waiting" /\ consumer' = "dropped" /\ UNCHANGED attempts
        /\ Came' = shown /\ shown \subseteq Came
    BY <1>5, CameIs, NoBlocks DEF Drop
  <2>2. QED
    BY <2>1 DEF WireStep, Promise!Leave
<1>6. QED
  BY <1>1, <1>2, <1>3, <1>4, <1>5, ServedWire DEF SNext

\* The request keeps the promise of `Wire`: pieces of the reply, each once, then
\* one end, and an attempt starts over only while nothing has come
\* (`Wire::stream` of crates/ox-core/src/client.rs).
THEOREM WireImplemented == SSpec => WireKept
<1>1. SInit => Promise!WireInit
  BY CameIs, NoBlocks DEF SInit, Promise!WireInit
<1>2. SInv /\ SInv' /\ [SNext]_svars =>
         [Promise!Attempt \/ Promise!Bring \/ Promise!Conclude \/ Promise!Leave]_(Promise!wireVars)
  <2> SUFFICES ASSUME SInv, SInv', [SNext]_svars
               PROVE  WireStep
    BY DEF WireStep
  <2>1. CASE UNCHANGED svars
    BY <2>1, CameIs DEF svars, WireStep, Promise!wireVars
  <2>2. CASE SNext
    BY <2>2, NextWire
  <2>3. QED
    BY <2>1, <2>2
<1>3. QED
  BY ReplyInductive, <1>1, <1>2, PTL DEF SSpec, WireKept, Promise!WireSpec

-----------------------------------------------------------------------------
(***************************************************************************)
(* The picker: PickInv.  A listing that is read page by page is right      *)
(* because the place its walk has reached splits the sessions that nobody  *)
(* changed since it began: those at or before it are rows, in order, and   *)
(* those after it are still to come.  The one page that is awaited was      *)
(* read behind that place, so it goes below the rows.  What the picker was  *)
(* told of an archive holds because a session that nobody changed is        *)
(* behind the walk, so that no page on its way offers it.                  *)
(***************************************************************************)
Walks == [scope : Scopes, after : {<<>>} \cup (Nat \X Nat), exhausted : BOOLEAN]
Listings == [rows : Seq(Saved), query : BOOLEAN, cursor : Nat,
             load : {"Loading", "Complete", "Failed"}]
PageStates == [state : {"Idle", "Loading", "Reloading", "Done"}, request : Nat, walk : Walks]
Works == [request : Nat, walk : Walks]
Answers == [request : Nat, walk : Walks, end : {"page", "failed"}, rows : Seq(Saved)]
Flights == [op : {"none", "archive", "delete"}, session : Saved \cup {NoSession},
            view : {"Active", "Archived"}, step : {"sent", "done", "failed", "ended"},
            clean : BOOLEAN]

StoreTyped ==
    /\ stored \subseteq Saved /\ archived \subseteq Saved /\ moved \subseteq Saved
    /\ at \in [Saved -> 0..MaxAt] /\ settled \in [Saved -> {"no", "archive", "delete"}]
    /\ live \in Saved \cup {NoSession} /\ scope \in Scopes /\ open \in BOOLEAN
CursorFits(l) == l.cursor = 0 \/ l.cursor < Len(Filtered(l))
ChannelsTyped ==
    /\ workers \subseteq Works /\ IsFiniteSet(workers)
    /\ arrived \in Seq(Answers)
OpsTyped ==
    /\ archive \in [session : Saved \cup {NoSession}, relisted : BOOLEAN]
    /\ confirm \in [session : Saved \cup {NoSession}, pending : BOOLEAN]
    /\ flight \in Flights
    /\ flight.step = "ended" <=> flight.op = "none"
    /\ flight.step # "ended" => flight.session \in Saved
    /\ ~ open => archive = NoArchive
PickerTyped ==
    /\ StoreTyped /\ ChannelsTyped /\ OpsTyped
    /\ list \in Listings /\ CursorFits(list) /\ pages \in PageStates

\* The pages on their way, of workers and in the channel, have requests of their
\* own, and but for those of pickers that were closed (others) one is awaited.
Requests(ws, as) == {w.request : w \in ws} \cup {as[i].request : i \in DOMAIN as}
Apart(ws, as) ==
    /\ \A v, w \in ws : v.request = w.request => v = w
    /\ \A i, j \in DOMAIN as : as[i].request = as[j].request => i = j
    /\ \A w \in ws, i \in DOMAIN as : w.request # as[i].request
Waits(ps, ws, as, others) ==
    Requests(ws, as) \ others =
        IF ps.state \in {"Loading", "Reloading"} THEN {ps.request} ELSE {}
One(l, ps, ws, as, others) ==
    /\ Apart(ws, as)
    /\ others \subseteq Requests(ws, as)
    /\ Waits(ps, ws, as, others)
    /\ l.load = "Loading" <=> ps.state # "Done"
\* The picker is idle with enough rows below the cursor.
Enough(l, ps, V) == ps.state = "Idle" /\ V.moved = {} => Below(l) >= LoadAhead

\* What the rows are compared with: the store as the picker's scope has it, and
\* what changed in it since the listing began.
Views == [moved : SUBSET Saved, within : SUBSET Saved, at : [Saved -> 0..MaxAt],
          scope : Scopes, live : Saved \cup {NoSession}]
Seen == [moved |-> moved, within |-> {s \in Saved : InScope(s, scope)}, at |-> at,
         scope |-> scope, live |-> live]
PlaceIn(V, s) == <<V.at[s], s>>

\* The rows, but for what moved, are in order and in the scope.
Sorted(rows, V) ==
    \A i, j \in DOMAIN rows :
        i < j /\ rows[i] \notin V.moved /\ rows[j] \notin V.moved =>
            Precedes(PlaceIn(V, rows[i]), PlaceIn(V, rows[j]))
RowsTrue(rows, V) ==
    \A i \in DOMAIN rows :
        rows[i] \notin V.moved => rows[i] \in V.within /\ rows[i] # V.live
\* The place the walk has reached: the rows are behind it, the rest is ahead.
Past(after, s, V) == after # <<>> => Precedes(after, PlaceIn(V, s))
Behind(rows, after, V) ==
    \A i \in DOMAIN rows : rows[i] \notin V.moved => ~ Past(after, rows[i], V)
Ahead(rows, walk, V) ==
    \A s \in V.within \ V.moved :
        s # V.live /\ s \notin Range(rows) => ~ walk.exhausted /\ Past(walk.after, s, V)
Reached(rows, walk, V) ==
    walk.scope = V.scope /\ Behind(rows, walk.after, V) /\ Ahead(rows, walk, V)

\* A page of a walk holds what comes next in it, and its own walk begins after that.
Follows(page, walk, V) ==
    /\ page.walk.scope = walk.scope
    /\ Sorted(page.rows, V)
    /\ \A i \in DOMAIN page.rows :
           page.rows[i] \notin V.moved =>
               /\ page.rows[i] \in V.within
               /\ Past(walk.after, page.rows[i], V)
               /\ ~ Past(page.walk.after, page.rows[i], V)
    /\ \A s \in V.within \ V.moved :
           Past(walk.after, s, V) /\ s \notin Range(page.rows) =>
               ~ page.walk.exhausted /\ Past(page.walk.after, s, V)
    /\ \/ page.walk.after = walk.after
       \/ page.walk.after # <<>> /\ (walk.after # <<>> => Precedes(walk.after, page.walk.after))

\* The page that is awaited will be, or is, one of the walk of the listing.
AllFollow(ps, ws, as, V) ==
    ps.state = "Loading" =>
        /\ \A w \in ws : w.request = ps.request => w.walk = ps.walk
        /\ \A i \in DOMAIN as :
               as[i].request = ps.request /\ as[i].end = "page" => Follows(as[i], ps.walk, V)

Listing(l, ps, ws, as, V) ==
    /\ Sorted(l.rows, V) /\ RowsTrue(l.rows, V)
    /\ l.load = "Complete" => ps.walk.exhausted
    /\ ps.state # "Done" => ~ ps.walk.exhausted
    /\ l.load # "Failed" => Reached(l.rows, ps.walk, V)
    /\ AllFollow(ps, ws, as, V)

ViewFits(l, ps, ws, as, others, V) ==
    One(l, ps, ws, as, others) /\ Listing(l, ps, ws, as, V)

\* A closed picker's pages count as others' until they arrived.
PagesFit ==
    /\ Apart(workers, arrived)
    /\ left \subseteq Requests(workers, arrived)
    /\ ~ open => Requests(workers, arrived) \subseteq left
    /\ open => ViewFits(list, pages, workers, arrived, left, Seen) /\ Enough(list, pages, Seen)

\* The page that is awaited has arrived, and brings s.
Offers(ps, as, s) ==
    /\ ps.state = "Loading"
    /\ \E i \in DOMAIN as :
           as[i].request = ps.request /\ as[i].end = "page" /\ s \in Range(as[i].rows)
\* The archive in flight is of a row the picker shows, or of a listing that began
\* again since, and once done it took its session out of what the picker lists.
ArchiveAgrees ==
    LET s == flight.session IN
    open /\ flight.op = "archive" =>
        /\ archive.session = s
        /\ flight.step = "sent" /\ ~ archive.relisted =>
               s \in Range(list.rows) /\ flight.view = Flip(scope.view)
        /\ flight.step = "done" /\ flight.clean /\ ~ archive.relisted =>
               s \notin Seen.within /\ ~ Offers(pages, arrived, s)
\* A session the picker was told to be archived, and that is out of its scope,
\* is neither a row nor on its way.
SettledGone ==
    open => \A s \in Saved \ Seen.within : settled[s] = "archive" =>
                s \notin Range(list.rows) /\ ~ Offers(pages, arrived, s)

PickInv == PickerTyped /\ PagesFit /\ ArchiveAgrees /\ SettledGone

-----------------------------------------------------------------------------
(***************************************************************************)
(* A set in an order: the rank of an element, one more than the number of  *)
(* those before it, is an injection into 1..Cardinality(S), so a bijection. *)
(***************************************************************************)
Ranks(S, order) == [s \in S |-> Cardinality({t \in S : <<t, s>> \in order}) + 1]

StrictOrder(S, order) ==
    /\ \A s \in S : <<s, s>> \notin order
    /\ \A s, t \in S : s # t => <<s, t>> \in order \/ <<t, s>> \in order
    /\ \A s, t, u \in S : <<s, t>> \in order /\ <<t, u>> \in order => <<s, u>> \in order

\* A rank is within bounds, and grows along the order.
LEMMA RankGrows ==
    ASSUME NEW S, IsFiniteSet(S), NEW order, StrictOrder(S, order)
    PROVE  /\ Cardinality(S) \in Nat
           /\ \A s \in S : Ranks(S, order)[s] \in 1..Cardinality(S)
           /\ \A s, t \in S : <<s, t>> \in order => Ranks(S, order)[s] < Ranks(S, order)[t]
<1> DEFINE below(s) == {t \in S : <<t, s>> \in order}
<1>1. Cardinality(S) \in Nat
    BY FS_CardinalityType
<1>2. \A s \in S : IsFiniteSet(below(s)) /\ Cardinality(below(s)) \in Nat
                   /\ Cardinality(below(s)) < Cardinality(S)
    <2> TAKE s \in S
    <2>1. below(s) \subseteq S /\ s \notin below(s)
        BY DEF StrictOrder
    <2>2. below(s) # S
        BY <2>1
    <2>3. /\ IsFiniteSet(below(s)) /\ Cardinality(below(s)) <= Cardinality(S)
          /\ Cardinality(S) = Cardinality(below(s)) => S = below(s)
        <3> HIDE DEF below
        <3> QED BY <2>1, FS_Subset
    <2>4. Cardinality(below(s)) \in Nat
        <3> HIDE DEF below
        <3> QED BY <2>3, FS_CardinalityType
    <2> HIDE DEF below
    <2> QED BY <1>1, <2>2, <2>3, <2>4
<1>3. \A s \in S : Ranks(S, order)[s] = Cardinality(below(s)) + 1
    BY DEF Ranks
<1>4. ASSUME NEW s \in S, NEW t \in S, <<s, t>> \in order
      PROVE  Cardinality(below(s)) < Cardinality(below(t))
    <2>1. below(s) \subseteq below(t)
        BY <1>4 DEF StrictOrder
    <2>2. s \in below(t) /\ s \notin below(s)
        BY <1>4 DEF StrictOrder
    <2>3. /\ Cardinality(below(s)) <= Cardinality(below(t))
          /\ Cardinality(below(t)) = Cardinality(below(s)) => below(t) = below(s)
        <3> HIDE DEF below
        <3> QED BY <2>1, <1>2, FS_Subset
    <2> HIDE DEF below
    <2> QED BY <1>2, <2>2, <2>3
<1> HIDE DEF below
<1>5. \A s \in S : Ranks(S, order)[s] \in 1..Cardinality(S)
    BY <1>1, <1>2, <1>3
<1>6. \A s, t \in S : <<s, t>> \in order => Ranks(S, order)[s] < Ranks(S, order)[t]
    BY <1>2, <1>3, <1>4
<1> QED BY <1>1, <1>5, <1>6

\* A set in an order is a sequence of all its elements, each after those before it.
LEMMA OrderedIs ==
    ASSUME NEW S, IsFiniteSet(S), NEW order, StrictOrder(S, order)
    PROVE  /\ Cardinality(S) \in Nat
           /\ Ordered(S, order) \in [1..Cardinality(S) -> S]
           /\ \A s \in S : \E n \in 1..Cardinality(S) : Ordered(S, order)[n] = s
           /\ \A m, n \in 1..Cardinality(S) :
                  m < n => <<Ordered(S, order)[m], Ordered(S, order)[n]>> \in order
<1> DEFINE rank == Ranks(S, order)
           N == Cardinality(S)
<1>1. /\ N \in Nat /\ rank \in [S -> 1..N]
      /\ \A s, t \in S : <<s, t>> \in order => rank[s] < rank[t]
    <2>1. rank \in [S -> 1..N]
        BY RankGrows DEF Ranks
    <2> QED BY <2>1, RankGrows
<1>2. \A s, t \in S : s # t => rank[s] # rank[t]
    <2> HIDE DEF rank, N
    <2> TAKE s, t \in S
    <2>1. rank[s] \in 1..N /\ rank[t] \in 1..N
        BY <1>1
    <2>2. s # t => <<s, t>> \in order \/ <<t, s>> \in order
        BY DEF StrictOrder
    <2>3. s # t => rank[s] < rank[t] \/ rank[t] < rank[s]
        BY <1>1, <2>2
    <2> QED BY <1>1, <2>1, <2>3
<1>3. rank \in Surjection(S, 1..N)
    <2>1. rank \in Injection(S, 1..N)
        BY <1>1, <1>2 DEF Injection, IsInjective
    <2>2. IsFiniteSet(1..N) /\ Cardinality(1..N) = N
        <3> HIDE DEF N
        <3> QED BY <1>1, FS_Interval
    <2> QED BY <2>1, <2>2, FS_Injection
<1>4. \A n \in 1..N : \E s \in S : rank[s] = n
    BY <1>3 DEF Surjection
<1>5. \A n \in 1..N : /\ Ordered(S, order)[n] \in S
                      /\ rank[Ordered(S, order)[n]] = n
    <2> TAKE n \in 1..N
    <2> DEFINE before(s) == Cardinality({t \in S : <<t, s>> \in order})
               P(s) == before(s) = n - 1
    <2>1. \A s \in S : rank[s] = before(s) + 1
        BY DEF Ranks
    <2>2. \A s \in S : before(s) \in Nat
        <3> TAKE s \in S
        <3> DEFINE b == {t \in S : <<t, s>> \in order}
        <3>1. b \subseteq S
            OBVIOUS
        <3> HIDE DEF b
        <3>2. Cardinality(b) \in Nat
            BY <3>1, FS_Subset, FS_CardinalityType
        <3> QED BY <3>2 DEF b
    <2>3. \A s \in S : rank[s] = n <=> P(s)
        <3>1. n \in Nat
            BY <1>1
        <3> HIDE DEF rank, before
        <3> QED BY <2>1, <2>2, <3>1
    <2>4. Ordered(S, order)[n] = CHOOSE s \in S : P(s)
        BY DEF Ordered
    <2>5. PICK s \in S : rank[s] = n
        BY <1>4
    <2>6. \E x \in S : P(x)
        BY <2>3, <2>5
    <2> HIDE DEF P
    <2>7. Ordered(S, order)[n] \in S /\ P(Ordered(S, order)[n])
        BY <2>4, <2>6
    <2> QED BY <2>3, <2>7
<1>6. Ordered(S, order) \in [1..N -> S]
    BY <1>5 DEF Ordered
<1>7. ASSUME NEW s \in S PROVE \E n \in 1..N : Ordered(S, order)[n] = s
    BY <1>1, <1>2, <1>5
<1>8. ASSUME NEW m \in 1..N, NEW n \in 1..N, m < n
      PROVE  <<Ordered(S, order)[m], Ordered(S, order)[n]>> \in order
    <2> DEFINE s == Ordered(S, order)[m]
               t == Ordered(S, order)[n]
    <2>1. s \in S /\ t \in S /\ rank[s] = m /\ rank[t] = n
        BY <1>5
    <2>0. m \in Nat /\ n \in Nat /\ m < n
        BY <1>1, <1>8
    <2> HIDE DEF s, t, rank, N
    <2>2. s # t /\ ~ (rank[t] < rank[s])
        BY <2>0, <2>1
    <2>3. <<s, t>> \in order
        BY <1>1, <2>1, <2>2 DEF StrictOrder
    <2> QED BY <2>3 DEF s, t
<1> QED BY <1>1, <1>6, <1>7, <1>8

-----------------------------------------------------------------------------
(***************************************************************************)
(* The entries of a sequence that are in a set.                            *)
(***************************************************************************)
Kept(s, S) == {i \in DOMAIN s : s[i] \in S}

\* k is s but for some of its entries.
Subsequence(k, s) ==
    \E f \in [1..Len(k) -> 1..Len(s)] :
        /\ \A m, n \in 1..Len(k) : m < n => f[m] < f[n]
        /\ \A n \in 1..Len(k) : k[n] = s[f[n]]

\* The entries that are kept are finitely many.
LEMMA KeptFinite ==
    ASSUME NEW T, NEW s \in Seq(T), NEW S
    PROVE  /\ Kept(s, S) \subseteq 1..Len(s)
           /\ IsFiniteSet(Kept(s, S))
           /\ Cardinality(Kept(s, S)) \in Nat
<1>1. Kept(s, S) \subseteq 1..Len(s) /\ Len(s) \in Nat
    BY LenProperties DEF Kept
<1>2. IsFiniteSet(1..Len(s))
    BY <1>1, FS_Interval
<1> QED BY <1>1, <1>2, FS_Subset, FS_CardinalityType

\* Keeping keeps the order, the entries that are in the set, and no other.
LEMMA KeepingIs ==
    ASSUME NEW T, NEW s \in Seq(T), NEW S
    PROVE  /\ Keeping(s, S) \in Seq(T) /\ Len(Keeping(s, S)) = Cardinality(Kept(s, S))
           /\ \A e : e \in Range(Keeping(s, S)) <=> e \in Range(s) /\ e \in S
           /\ Subsequence(Keeping(s, S), s)
<1> DEFINE K == Kept(s, S)
           order == {p \in K \X K : p[1] < p[2]}
           place == Ordered(K, order)
           N == Cardinality(K)
<1>1. K \subseteq 1..Len(s) /\ IsFiniteSet(K) /\ N \in Nat /\ Len(s) \in Nat
    BY KeptFinite, LenProperties
<1>2. \A i, j \in K : <<i, j>> \in order <=> i < j
    OBVIOUS
<1>3. StrictOrder(K, order)
    <2> HIDE DEF order, K
    <2> QED BY <1>1, <1>2 DEF StrictOrder
<1>4. /\ place \in [1..N -> K]
      /\ \A i \in K : \E n \in 1..N : place[n] = i
      /\ \A m, n \in 1..N : m < n => place[m] < place[n]
    <2> HIDE DEF order
    <2>1. /\ place \in [1..N -> K]
          /\ \A i \in K : \E n \in 1..N : place[n] = i
          /\ \A m, n \in 1..N : m < n => <<place[m], place[n]>> \in order
        <3> HIDE DEF K
        <3> QED BY <1>1, <1>3, OrderedIs
    <2> HIDE DEF place, K, N
    <2> QED BY <2>1, <1>2
<1>5. Keeping(s, S) = [n \in 1..N |-> s[place[n]]]
    <2>1. Keeping(s, S) = [n \in DOMAIN place |-> s[place[n]]]
        BY DEF Keeping, Kept
    <2> HIDE DEF place, N, K
    <2> QED BY <2>1, <1>4
<1>6. \A i \in K : i \in 1..Len(s) /\ s[i] \in S /\ s[i] \in T
    BY LenProperties DEF Kept
<1>7. \A i \in 1..Len(s) : s[i] \in S => i \in K
    BY LenProperties DEF Kept
<1> HIDE DEF K, order, place, N
<1>8. Keeping(s, S) \in Seq(T) /\ Len(Keeping(s, S)) = N
    <2>1. \A n \in 1..N : s[place[n]] \in T
        BY <1>4, <1>6
    <2>2. Keeping(s, S) \in [1..N -> T] /\ DOMAIN Keeping(s, S) = 1..N
        BY <1>5, <2>1
    <2> QED BY <1>1, <2>2
<1>9. ASSUME NEW e PROVE e \in Range(Keeping(s, S)) <=> e \in Range(s) /\ e \in S
    <2>1. e \in Range(Keeping(s, S)) <=> \E n \in 1..N : e = s[place[n]]
        BY <1>5 DEF Range
    <2>2. e \in Range(s) <=> \E i \in 1..Len(s) : e = s[i]
        BY LenProperties DEF Range
    <2>3. ASSUME NEW n \in 1..N PROVE s[place[n]] \in S /\ place[n] \in 1..Len(s)
        BY <1>4, <1>6
    <2>4. ASSUME NEW i \in 1..Len(s), s[i] \in S PROVE \E n \in 1..N : s[i] = s[place[n]]
        BY <1>4, <1>7, <2>4
    <2> QED BY <2>1, <2>2, <2>3, <2>4
<1>10. place \in [1..N -> 1..Len(s)]
    BY <1>4, <1>6
<1>11. Subsequence(Keeping(s, S), s)
    BY <1>4, <1>5, <1>8, <1>10 DEF Subsequence
<1> QED BY <1>8, <1>9, <1>11 DEF K, N

\* A longer sequence has no fewer of them.
LEMMA KeepingGrows ==
    ASSUME NEW T, NEW s \in Seq(T), NEW t \in Seq(T), NEW S
    PROVE  Len(Keeping(s, S)) <= Len(Keeping(s \o t, S))
<1>1. /\ s \o t \in Seq(T) /\ Len(s \o t) = Len(s) + Len(t)
      /\ \A i \in 1..Len(s) : (s \o t)[i] = s[i]
      /\ Len(s) \in Nat /\ Len(t) \in Nat
    BY ConcatProperties, LenProperties
<1>2. Kept(s, S) \subseteq Kept(s \o t, S)
    <2>1. DOMAIN s = 1..Len(s) /\ DOMAIN (s \o t) = 1..Len(s \o t)
        BY <1>1, LenProperties
    <2> QED BY <1>1, <2>1 DEF Kept
<1>3. Len(Keeping(s, S)) = Cardinality(Kept(s, S))
    BY KeepingIs
<1>4. Len(Keeping(s \o t, S)) = Cardinality(Kept(s \o t, S))
    BY <1>1, KeepingIs
<1>5. IsFiniteSet(Kept(s \o t, S))
    BY <1>1, KeptFinite
<1> QED BY <1>2, <1>3, <1>4, <1>5, FS_Subset

-----------------------------------------------------------------------------
(***************************************************************************)
(* Requests: a fresh one is of no outstanding page, and requests that are  *)
(* all different count the pages.                                          *)
(***************************************************************************)
LEMMA OutstandingFinite ==
    ASSUME ChannelsTyped
    PROVE  /\ Len(arrived) \in Nat /\ DOMAIN arrived = 1..Len(arrived)
           /\ Range(arrived) = {arrived[i] : i \in 1..Len(arrived)}
           /\ IsFiniteSet(Range(arrived)) /\ IsFiniteSet(Outstanding)
           /\ Cardinality(Outstanding) \in Nat
           /\ Requests(workers, arrived) = {w.request : w \in Outstanding}
<1>1. Len(arrived) \in Nat /\ DOMAIN arrived = 1..Len(arrived)
    BY LenProperties DEF ChannelsTyped
<1>2. Range(arrived) = {arrived[i] : i \in 1..Len(arrived)}
    BY <1>1 DEF Range
<1>3. IsFiniteSet(Range(arrived))
    <2>1. arrived \in Surjection(1..Len(arrived), Range(arrived))
        BY <1>1, <1>2, LenProperties DEF Surjection, ChannelsTyped
    <2>2. IsFiniteSet(1..Len(arrived))
        BY <1>1, FS_Interval
    <2> QED BY <2>1, <2>2, FS_Surjection
<1>4. IsFiniteSet(Outstanding)
    BY <1>3, FS_Union DEF Outstanding, ChannelsTyped
<1>5. Cardinality(Outstanding) \in Nat
    BY <1>4, FS_CardinalityType
<1>6. Requests(workers, arrived) = {w.request : w \in Outstanding}
    BY <1>1, <1>2 DEF Requests, Outstanding
<1> QED BY <1>1, <1>2, <1>3, <1>4, <1>5, <1>6

\* A fresh request is of no outstanding page.
LEMMA FreshIs ==
    ASSUME ChannelsTyped
    PROVE  FreshRequest \in Nat /\ FreshRequest \notin Requests(workers, arrived)
<1> DEFINE n == Cardinality(Outstanding)
           R == {w.request : w \in Outstanding}
<1>1. IsFiniteSet(Outstanding) /\ n \in Nat /\ Requests(workers, arrived) = R
    BY OutstandingFinite
<1>2. IsFiniteSet(R) /\ Cardinality(R) <= n /\ Cardinality(R) \in Nat
    <2> DEFINE g == [w \in Outstanding |-> w.request]
    <2>1. g \in Surjection(Outstanding, R)
        BY DEF Surjection
    <2> HIDE DEF g, R
    <2>2. IsFiniteSet(R) /\ Cardinality(R) <= n
        BY <2>1, <1>1, FS_Surjection
    <2> QED BY <2>2, FS_CardinalityType
<1>3. \E r \in 1..n + 1 : r \notin R
    <2> SUFFICES ASSUME 1..n + 1 \subseteq R PROVE FALSE
        OBVIOUS
    <2> HIDE DEF n, R
    <2>1. Cardinality(1..n + 1) = n + 1
        BY <1>1, FS_Interval
    <2>2. Cardinality(1..n + 1) <= Cardinality(R)
        BY <1>2, FS_Subset
    <2> QED BY <1>1, <1>2, <2>1, <2>2
<1>4. \E r \in 1..n + 1 : \A w \in Outstanding : w.request # r
    BY <1>3
<1>5. FreshRequest \in 1..n + 1 /\ \A w \in Outstanding : w.request # FreshRequest
    BY <1>4 DEF FreshRequest
<1>6. FreshRequest \in Nat
    BY <1>1, <1>5
<1> QED BY <1>1, <1>5, <1>6

\* Pages with requests of their own are as many as workers and arrived pages.
LEMMA OutstandingCount ==
    ASSUME ChannelsTyped, Apart(workers, arrived)
    PROVE  /\ Cardinality(Outstanding) = Cardinality(workers) + Len(arrived)
           /\ \A v, w \in Outstanding : v.request = w.request => v = w
<1>1. /\ Len(arrived) \in Nat /\ DOMAIN arrived = 1..Len(arrived)
      /\ Range(arrived) = {arrived[i] : i \in 1..Len(arrived)}
      /\ IsFiniteSet(Range(arrived))
    BY OutstandingFinite
<1>2. Cardinality(Range(arrived)) = Len(arrived)
    <2>1. arrived \in Bijection(1..Len(arrived), Range(arrived))
        BY <1>1, LenProperties
        DEF Bijection, Surjection, Injection, IsInjective, ChannelsTyped, Apart
    <2>2. ExistsBijection(1..Len(arrived), Range(arrived))
        BY <2>1 DEF ExistsBijection
    <2> QED BY <1>1, <2>2, FS_CountingElements
<1>3. workers \cap Range(arrived) = {}
    BY <1>1 DEF Apart
<1>4. Cardinality(workers \cap Range(arrived)) = 0
    BY <1>3, FS_EmptySet
<1>5. Cardinality(workers) \in Nat
    BY FS_CardinalityType DEF ChannelsTyped
<1>6. Cardinality(Outstanding) = Cardinality(workers) + Len(arrived)
    <2>1. Cardinality(Outstanding) = Cardinality(workers) + Cardinality(Range(arrived))
                                     - Cardinality(workers \cap Range(arrived))
        BY <1>1, FS_Union DEF ChannelsTyped, Outstanding
    <2> QED BY <1>1, <1>2, <1>4, <1>5, <2>1
<1>7. \A v, w \in Outstanding : v.request = w.request => v = w
    BY <1>1 DEF Apart, Outstanding
<1> QED BY <1>6, <1>7

-----------------------------------------------------------------------------
(***************************************************************************)
(* The listing, and one page of it.                                        *)
(***************************************************************************)
LEMMA Precedence ==
    ASSUME NEW a \in Nat \X Nat, NEW b \in Nat \X Nat, NEW c \in Nat \X Nat
    PROVE  /\ ~ Precedes(a, a)
           /\ a # b => Precedes(a, b) \/ Precedes(b, a)
           /\ Precedes(a, b) => ~ Precedes(b, a)
           /\ Precedes(a, b) /\ Precedes(b, c) => Precedes(a, c)
<1>1. /\ a = <<a[1], a[2]>> /\ b = <<b[1], b[2]>>
      /\ a[1] \in Nat /\ a[2] \in Nat /\ b[1] \in Nat /\ b[2] \in Nat
      /\ c[1] \in Nat /\ c[2] \in Nat
    OBVIOUS
<1>2. a # b => a[1] # b[1] \/ a[2] # b[2]
    BY <1>1
<1> QED BY <1>1, <1>2 DEF Precedes

\* No two sessions have the same place.
LEMMA Places ==
    ASSUME StoreTyped, NEW s \in Saved
    PROVE  Place(s) \in Nat \X Nat /\ \A t \in Saved : Place(s) = Place(t) => s = t
BY PickerAssumption DEF StoreTyped, Place

\* The sessions of a listing, each once, in the order of their places.
LEMMA ListedIs ==
    ASSUME StoreTyped, NEW S \in SUBSET Saved
    PROVE  /\ Listed(S) \in Seq(S)
           /\ \A s \in S : \E i \in 1..Len(Listed(S)) : Listed(S)[i] = s
           /\ \A i, j \in 1..Len(Listed(S)) :
                  i < j => Precedes(Place(Listed(S)[i]), Place(Listed(S)[j]))
<1> DEFINE order == {p \in S \X S : Precedes(Place(p[1]), Place(p[2]))}
<1>1. IsFiniteSet(S)
    BY PickerAssumption, FS_Subset
<1>2. \A s, t \in S : <<s, t>> \in order <=> Precedes(Place(s), Place(t))
    OBVIOUS
<1>3. StrictOrder(S, order)
    <2> HIDE DEF order
    <2>1. \A s \in S : <<s, s>> \notin order
        BY <1>2, Places, Precedence
    <2>2. \A s, t \in S : s # t => <<s, t>> \in order \/ <<t, s>> \in order
        BY <1>2, Places, Precedence
    <2>3. \A s, t, u \in S : <<s, t>> \in order /\ <<t, u>> \in order => <<s, u>> \in order
        BY <1>2, Places, Precedence
    <2> QED BY <2>1, <2>2, <2>3 DEF StrictOrder
<1>4. Listed(S) = Ordered(S, order)
    BY DEF Listed
<1> HIDE DEF order
<1>5. /\ Cardinality(S) \in Nat
      /\ Listed(S) \in [1..Cardinality(S) -> S]
      /\ \A s \in S : \E n \in 1..Cardinality(S) : Listed(S)[n] = s
      /\ \A m, n \in 1..Cardinality(S) : m < n => <<Listed(S)[m], Listed(S)[n]>> \in order
    BY <1>1, <1>3, <1>4, OrderedIs
<1>6. Listed(S) \in Seq(S) /\ Len(Listed(S)) = Cardinality(S)
    BY <1>5
<1>7. \A m, n \in 1..Cardinality(S) : m < n => Precedes(Place(Listed(S)[m]), Place(Listed(S)[n]))
    BY <1>2, <1>5
<1> QED BY <1>5, <1>6, <1>7

Beyond(after, s) == after # <<>> => Precedes(after, Place(s))

\* The sessions of a walk that follow its last page.
Remaining(walk) == {s \in Saved : InScope(s, walk.scope) /\ Beyond(walk.after, s)}

\* A page of the walk: the first of what remains, in order, and the next page
\* begins after its last.
LEMMA NextPageIs ==
    ASSUME StoreTyped, NEW walk \in Walks, NEW page, page = NextPage(walk)
    PROVE  /\ page.rows \in Seq(Saved)
           /\ page.walk \in Walks /\ page.walk.scope = walk.scope
           /\ \A i, j \in DOMAIN page.rows :
                  i < j => Precedes(Place(page.rows[i]), Place(page.rows[j]))
           /\ \A i \in DOMAIN page.rows :
                  /\ InScope(page.rows[i], walk.scope) /\ Beyond(walk.after, page.rows[i])
                  /\ ~ Beyond(page.walk.after, page.rows[i])
           /\ \A s \in Saved :
                  InScope(s, walk.scope) /\ Beyond(walk.after, s) /\ s \notin Range(page.rows) =>
                      ~ page.walk.exhausted /\ Beyond(page.walk.after, s)
           /\ \/ page.walk.after = walk.after
              \/ /\ page.walk.after # <<>>
                 /\ walk.after # <<>> => Precedes(walk.after, page.walk.after)
<1> DEFINE found == Listed(Remaining(walk))
           k == IF Len(found) < PageSize THEN Len(found) ELSE PageSize
           rows == SubSeq(found, 1, k)
<1>1. Following(walk) = found
    BY DEF Following, Remaining, Beyond
<1>2. page = [rows |-> rows,
              walk |-> [walk EXCEPT !.exhausted = Len(found) <= PageSize,
                                    !.after = IF rows = <<>> THEN @ ELSE Place(Last(rows))]]
    BY <1>1 DEF NextPage
<1>3. Remaining(walk) \in SUBSET Saved
    BY DEF Remaining
<1>4. /\ found \in Seq(Remaining(walk))
      /\ \A s \in Remaining(walk) : \E i \in 1..Len(found) : found[i] = s
      /\ \A i, j \in 1..Len(found) : i < j => Precedes(Place(found[i]), Place(found[j]))
    BY <1>3, ListedIs
<1> HIDE DEF found
<1>5. Len(found) \in Nat /\ \A i \in 1..Len(found) : found[i] \in Remaining(walk)
    BY <1>4, LenProperties
<1>6. k \in 0..Len(found) /\ (k < Len(found) => k = PageSize)
    BY <1>5, PickerAssumption
<1>7. /\ rows \in Seq(Remaining(walk)) /\ Len(rows) = k /\ DOMAIN rows = 1..k
      /\ \A i \in 1..k : rows[i] = found[i]
    <2> HIDE DEF k
    <2>1. \A i \in 1..k : found[i] \in Remaining(walk)
        BY <1>5, <1>6
    <2>2. /\ rows \in Seq(Remaining(walk))
          /\ Len(rows) = IF 1 <= k THEN k - 1 + 1 ELSE 0
          /\ \A i \in 1..k-1+1 : rows[i] = found[1 + i - 1]
        BY <2>1, <1>6, SubSeqProperties
    <2>3. Len(rows) = k
        BY <2>2, <1>6
    <2>4. DOMAIN rows = 1..k
        BY <2>2, <2>3, LenProperties
    <2>5. \A i \in 1..k : rows[i] = found[i]
        BY <2>2, <1>6
    <2> QED BY <2>2, <2>3, <2>4, <2>5
<1> HIDE DEF rows, k
<1>8. /\ page.rows = rows
      /\ page.walk.scope = walk.scope
      /\ page.walk.exhausted \in BOOLEAN /\ (page.walk.exhausted => Len(found) <= PageSize)
      /\ page.walk.after = IF rows = <<>> THEN walk.after ELSE Place(Last(rows))
      /\ page.walk.after \in {<<>>} \cup (Nat \X Nat) => page.walk \in Walks
    <2> DEFINE over == Len(found) <= PageSize
               next == IF rows = <<>> THEN walk.after ELSE Place(Last(rows))
    <2>1. over \in BOOLEAN
        OBVIOUS
    <2>2. page = [rows |-> rows, walk |-> [walk EXCEPT !.exhausted = over, !.after = next]]
        BY <1>2
    <2> HIDE DEF over, next
    <2>3. page.walk = [walk EXCEPT !.exhausted = over, !.after = next]
        BY <2>2
    <2>4. next \in {<<>>} \cup (Nat \X Nat) => page.walk \in Walks
        BY <2>1, <2>3 DEF Walks
    <2>5. page.walk.exhausted = over /\ page.walk.after = next /\ page.walk.scope = walk.scope
        BY <2>3 DEF Walks
    <2>6. page.rows = rows
        BY <2>2
    <2>7. page.walk.exhausted => Len(found) <= PageSize
        BY <2>5 DEF over
    <2> QED BY <2>1, <2>4, <2>5, <2>6, <2>7 DEF next
<1>9. k > 0 => /\ rows # <<>> /\ Last(rows) = found[k] /\ found[k] \in Remaining(walk)
               /\ page.walk.after = Place(found[k]) /\ Place(found[k]) \in Nat \X Nat
    <2> SUFFICES ASSUME k > 0 PROVE /\ rows # <<>> /\ Last(rows) = found[k]
                                    /\ found[k] \in Remaining(walk)
                                    /\ page.walk.after = Place(found[k])
                                    /\ Place(found[k]) \in Nat \X Nat
        OBVIOUS
    <2>1. rows # <<>> /\ k \in 1..k /\ k \in 1..Len(found)
        BY <1>6, <1>7
    <2>2. Last(rows) = found[k]
        BY <1>7, <2>1 DEF Last
    <2>3. found[k] \in Remaining(walk)
        BY <1>5, <2>1
    <2> QED BY <1>3, <1>8, <2>1, <2>2, <2>3, Places
<1>10. k = 0 => rows = <<>> /\ page.walk.after = walk.after
    BY <1>7, <1>8
<1>11. k = 0 \/ k > 0
    BY <1>5, <1>6
<1>12. \A s \in Remaining(walk) : s \in Saved /\ InScope(s, walk.scope) /\ Beyond(walk.after, s)
    BY DEF Remaining
<1>13. page.rows \in Seq(Saved)
    BY <1>3, <1>7, <1>8, SeqMonotonic
<1>14. page.walk \in Walks
    <2>1. walk.scope \in Scopes /\ walk.after \in {<<>>} \cup (Nat \X Nat)
        BY DEF Walks
    <2>2. page.walk.after \in {<<>>} \cup (Nat \X Nat)
        BY <1>9, <1>10, <1>11, <2>1
    <2> QED BY <1>8, <2>1, <2>2 DEF Walks
<1>15. \A i, j \in DOMAIN page.rows : i < j => Precedes(Place(page.rows[i]), Place(page.rows[j]))
    <2> TAKE i, j \in DOMAIN page.rows
    <2>1. i \in 1..Len(found) /\ j \in 1..Len(found)
        BY <1>5, <1>6, <1>7, <1>8
    <2>2. page.rows[i] = found[i] /\ page.rows[j] = found[j]
        BY <1>7, <1>8
    <2> QED BY <1>4, <2>1, <2>2
<1>16. ASSUME NEW i \in DOMAIN page.rows
       PROVE  /\ InScope(page.rows[i], walk.scope) /\ Beyond(walk.after, page.rows[i])
              /\ ~ Beyond(page.walk.after, page.rows[i])
    <2>1. /\ i \in 1..k /\ k > 0 /\ i \in 1..Len(found) /\ k \in 1..Len(found)
          /\ page.rows[i] = found[i]
        BY <1>5, <1>6, <1>7, <1>8
    <2>2. found[i] \in Remaining(walk)
        BY <1>5, <2>1
    <2>3. ~ Precedes(Place(found[k]), Place(found[i]))
        <3>1. Place(found[i]) \in Nat \X Nat /\ Place(found[k]) \in Nat \X Nat
            BY <1>9, <1>12, <2>1, <2>2, Places
        <3>2. CASE i = k
            BY <3>1, <3>2, Precedence
        <3>3. CASE i < k
            BY <1>4, <2>1, <3>1, <3>3, Precedence
        <3> QED BY <2>1, <3>2, <3>3, <1>6, <1>5
    <2>4. page.walk.after = Place(found[k]) /\ Place(found[k]) # <<>>
        BY <1>9, <2>1 DEF Place
    <2> QED BY <1>12, <2>1, <2>2, <2>3, <2>4 DEF Beyond
<1>17. ASSUME NEW s \in Saved, InScope(s, walk.scope), Beyond(walk.after, s),
              s \notin Range(page.rows)
       PROVE  ~ page.walk.exhausted /\ Beyond(page.walk.after, s)
    <2>1. s \in Remaining(walk)
        BY <1>17 DEF Remaining
    <2>2. PICK i \in 1..Len(found) : found[i] = s
        BY <1>4, <2>1
    <2>3. ~ (i \in 1..k)
        BY <1>7, <1>8, <1>17, <2>2 DEF Range
    <2>4. k < i /\ k < Len(found) /\ k = PageSize
        BY <1>5, <1>6, <2>3
    <2>5. k > 0 /\ k \in 1..Len(found)
        BY <2>4, <1>5, PickerAssumption
    <2>6. Precedes(Place(found[k]), Place(s))
        BY <1>4, <2>2, <2>4, <2>5
    <2>7. ~ page.walk.exhausted
        BY <1>5, <1>8, <2>4, PickerAssumption
    <2> QED BY <1>9, <2>5, <2>6, <2>7 DEF Beyond
<1>18. \/ page.walk.after = walk.after
       \/ /\ page.walk.after # <<>>
          /\ walk.after # <<>> => Precedes(walk.after, page.walk.after)
    <2>1. CASE k = 0
        BY <1>10, <2>1
    <2>2. CASE k > 0
        <3>1. Beyond(walk.after, found[k])
            BY <1>9, <1>12, <2>2
        <3>2. Place(found[k]) # <<>>
            BY DEF Place
        <3> QED BY <1>9, <2>2, <3>1, <3>2 DEF Beyond
    <2> QED BY <1>11, <2>1, <2>2
<1> QED BY <1>8, <1>13, <1>14, <1>15, <1>16, <1>17, <1>18

-----------------------------------------------------------------------------
(***************************************************************************)
(* A view: a list, its pages, the workers and the pages that arrived.      *)
(* What a change of one of these leaves of it.                             *)
(***************************************************************************)
LEMMA FilteredIs ==
    ASSUME NEW l \in Listings
    PROVE  /\ Filtered(l) \in Seq(Saved) /\ Len(Filtered(l)) \in Nat
           /\ Below(l) \in Nat
           /\ l.rows \in Seq(Saved) /\ DOMAIN l.rows = 1..Len(l.rows) /\ Len(l.rows) \in Nat
           /\ l.cursor \in Nat
<1>1. l.rows \in Seq(Saved) /\ l.cursor \in Nat
    BY DEF Listings
<1>2. Filtered(l) \in Seq(Saved)
    BY <1>1, KeepingIs DEF Filtered
<1>3. Len(Filtered(l)) \in Nat
    BY <1>2, LenProperties
<1>4. Below(l) \in Nat
    BY <1>1, <1>3 DEF Below
<1> QED BY <1>1, <1>2, <1>3, <1>4, LenProperties

\* load_ahead: a worker for the walk, with a request of its own, or nothing.
Feeds(l, ps, qs, ws, vs, used) ==
    \/ ~ Asks(l, ps) /\ qs = ps /\ vs = ws
    \/ /\ Asks(l, ps)
       /\ \E r \in Nat \ used :
              /\ qs = [ps EXCEPT !.state = "Loading", !.request = r]
              /\ vs = ws \cup {[request |-> r, walk |-> ps.walk]}

\* What a handler that ends with load_ahead starts.
LEMMA ShowAheadFeeds ==
    ASSUME ChannelsTyped, NEW l, NEW ps, ShowAhead(l, ps)
    PROVE  /\ list' = l
           /\ Feeds(l, ps, pages', workers, workers', Requests(workers, arrived))
<1>1. FreshRequest \in Nat \ Requests(workers, arrived)
    BY FreshIs
<1>2. list' = l
    BY DEF ShowAhead
<1>3. CASE Asks(l, ps)
    <2>1. pages' = [ps EXCEPT !.state = "Loading", !.request = FreshRequest]
        BY <1>3 DEF ShowAhead, Loading
    <2>2. workers' = workers \cup {[request |-> FreshRequest, walk |-> ps.walk]}
        BY <1>3 DEF ShowAhead
    <2> QED BY <1>1, <1>2, <1>3, <2>1, <2>2 DEF Feeds
<1>4. CASE ~ Asks(l, ps)
    BY <1>2, <1>4 DEF ShowAhead, Loading, Feeds
<1> QED BY <1>3, <1>4

\* A worker that is started reads for the view it is started in.
LEMMA FeedsFits ==
    ASSUME NEW l \in Listings, NEW ps \in PageStates, NEW ws \in SUBSET Works, IsFiniteSet(ws),
           NEW as \in Seq(Answers), NEW others, NEW V,
           ViewFits(l, ps, ws, as, others, V),
           NEW used, Requests(ws, as) \subseteq used,
           NEW qs, NEW vs, Feeds(l, ps, qs, ws, vs, used)
    PROVE  /\ qs \in PageStates /\ vs \subseteq Works /\ IsFiniteSet(vs)
           /\ ViewFits(l, qs, vs, as, others, V)
           /\ Enough(l, qs, V)
           /\ \A s : Offers(qs, as, s) => Offers(ps, as, s)
<1>1. CASE ~ Asks(l, ps) /\ qs = ps /\ vs = ws
    <2>1. Enough(l, ps, V)
        <3>1. Below(l) \in Nat /\ LoadAhead \in Nat
            BY FilteredIs, PickerAssumption
        <3> QED BY <1>1, <3>1 DEF Enough, Asks
    <2> QED BY <1>1, <2>1
<1>2. CASE Asks(l, ps) /\ \E r \in Nat \ used :
               /\ qs = [ps EXCEPT !.state = "Loading", !.request = r]
               /\ vs = ws \cup {[request |-> r, walk |-> ps.walk]}
    <2>1. PICK r \in Nat \ used : /\ qs = [ps EXCEPT !.state = "Loading", !.request = r]
                                  /\ vs = ws \cup {[request |-> r, walk |-> ps.walk]}
        BY <1>2
    <2>2. /\ ps.state = "Idle" /\ qs.state = "Loading" /\ qs.request = r /\ qs.walk = ps.walk
          /\ qs \in PageStates /\ [request |-> r, walk |-> ps.walk] \in Works
        BY <1>2, <2>1 DEF Asks, PageStates, Works
    <2>3. vs \subseteq Works /\ IsFiniteSet(vs)
        BY <2>1, <2>2, FS_AddElement
    <2>4. /\ r \notin Requests(ws, as)
          /\ \A w \in ws : w.request # r
          /\ \A i \in DOMAIN as : as[i].request # r
        BY <2>1 DEF Requests
    <2> DEFINE new == [request |-> r, walk |-> ps.walk]
    <2>14. vs = ws \cup {new} /\ new.request = r /\ new.walk = ps.walk
        BY <2>1
    <2> HIDE DEF new
    <2>5. Apart(vs, as)
        <3>1. \A v, w \in vs : v.request = w.request => v = w
            BY <2>4, <2>14 DEF Apart, ViewFits, One
        <3> QED BY <2>4, <2>14, <3>1 DEF Apart, ViewFits, One
    <2>6. Requests(vs, as) = Requests(ws, as) \cup {r}
        BY <2>14 DEF Requests
    <2>7. others \subseteq Requests(vs, as) /\ r \notin others
        BY <2>4, <2>6 DEF ViewFits, One
    <2>8. Waits(qs, vs, as, others)
        <3>1. Requests(ws, as) \ others = {}
            BY <2>2 DEF Waits, ViewFits, One
        <3> QED BY <2>2, <2>6, <2>7, <3>1 DEF Waits
    <2>9. l.load = "Loading" <=> qs.state # "Done"
        BY <2>2 DEF ViewFits, One
    <2>10. AllFollow(qs, vs, as, V)
        <3>1. \A w \in vs : w.request = qs.request => w.walk = qs.walk
            BY <2>2, <2>4, <2>14
        <3>2. \A i \in DOMAIN as : as[i].request # qs.request
            BY <2>2, <2>4
        <3> QED BY <3>1, <3>2 DEF AllFollow
    <2>11. Listing(l, qs, vs, as, V)
        BY <2>2, <2>10 DEF Listing, ViewFits
    <2>12. Enough(l, qs, V)
        BY <2>2 DEF Enough
    <2>13. \A s : ~ Offers(qs, as, s)
        BY <2>2, <2>4 DEF Offers
    <2> QED BY <2>2, <2>3, <2>5, <2>7, <2>8, <2>9, <2>11, <2>12, <2>13 DEF ViewFits, One
<1> QED BY <1>1, <1>2 DEF Feeds

\* A listing that begins again.
LEMMA FreshFits ==
    ASSUME NEW l \in Listings, l.rows = <<>>, l.load = "Loading",
           NEW ps \in PageStates, ps.state \in {"Idle", "Reloading"},
           NEW V, V.moved = {}, ps.walk = Walk(V.scope),
           NEW ws, NEW as, NEW others, Apart(ws, as), others \subseteq Requests(ws, as),
           Waits(ps, ws, as, others)
    PROVE  ViewFits(l, ps, ws, as, others, V) /\ \A s : ~ Offers(ps, as, s)
<1>1. DOMAIN l.rows = {} /\ Range(l.rows) = {}
    BY DEF Range
<1>2. ps.walk.scope = V.scope /\ ps.walk.after = <<>> /\ ~ ps.walk.exhausted
    BY DEF Walk
<1>3. Listing(l, ps, ws, as, V)
    BY <1>1, <1>2 DEF Listing, Sorted, RowsTrue, Reached, Behind, Ahead, AllFollow, Past
<1> QED BY <1>3 DEF ViewFits, One, Offers

\* A reload waits for the page on its way, if there is one.
LEMMA ReplaceIs ==
    ASSUME NEW ps \in PageStates, NEW sc \in Scopes
    PROVE  /\ Replace(ps, Walk(sc)) \in PageStates
           /\ Replace(ps, Walk(sc)).state \in {"Idle", "Reloading"}
           /\ Replace(ps, Walk(sc)).walk = Walk(sc)
           /\ \A ws, as, others : Waits(ps, ws, as, others) =>
                  Waits(Replace(ps, Walk(sc)), ws, as, others)
<1>1. Walk(sc) \in Walks /\ ~ Walk(sc).exhausted
    BY DEF Walk, Walks
<1>2. CASE ps.state \in {"Loading", "Reloading"}
    <2>1. Replace(ps, Walk(sc)) = [ps EXCEPT !.state = "Reloading", !.walk = Walk(sc)]
        BY <1>2 DEF Replace
    <2>2. /\ Replace(ps, Walk(sc)) \in PageStates
          /\ Replace(ps, Walk(sc)).state = "Reloading"
          /\ Replace(ps, Walk(sc)).walk = Walk(sc)
          /\ Replace(ps, Walk(sc)).request = ps.request
        BY <1>1, <2>1 DEF PageStates
    <2> QED BY <1>2, <2>2 DEF Waits
<1>3. CASE ps.state \notin {"Loading", "Reloading"}
    <2>1. Replace(ps, Walk(sc)) = [state |-> "Idle", request |-> 0, walk |-> Walk(sc)]
        BY <1>1, <1>3 DEF Replace, Rest
    <2> QED BY <1>1, <1>3, <2>1 DEF PageStates, Waits
<1> QED BY <1>2, <1>3

\* The store changes, and what changed counts as moved.
Later(V, U) ==
    /\ U.scope = V.scope /\ U.live = V.live /\ V.moved \subseteq U.moved
    /\ \A s \in Saved \ U.moved : U.at[s] = V.at[s] /\ (s \in U.within <=> s \in V.within)

\* A page that was read before the store changed is one of the walk still.
LEMMA LaterFollows ==
    ASSUME NEW V \in Views, NEW U \in Views, Later(V, U), NEW page \in Answers, NEW walk,
           Follows(page, walk, V)
    PROVE  Follows(page, walk, U)
<1>1. \A s \in Saved \ U.moved : /\ PlaceIn(U, s) = PlaceIn(V, s) /\ s \notin V.moved
                                 /\ \A a : Past(a, s, U) <=> Past(a, s, V)
    BY DEF Later, PlaceIn, Past
<1>2. \A i \in DOMAIN page.rows : page.rows[i] \in Saved
    BY LenProperties, ElementOfSeq DEF Answers
<1>3. Sorted(page.rows, U)
    BY <1>1, <1>2 DEF Follows, Sorted
<1>4. U.within \subseteq Saved
    BY DEF Views
<1>5. \A i \in DOMAIN page.rows :
          page.rows[i] \notin U.moved =>
              /\ page.rows[i] \in U.within
              /\ Past(walk.after, page.rows[i], U)
              /\ ~ Past(page.walk.after, page.rows[i], U)
    BY <1>1, <1>2 DEF Follows, Later
<1>6. \A s \in U.within \ U.moved :
          Past(walk.after, s, U) /\ s \notin Range(page.rows) =>
              ~ page.walk.exhausted /\ Past(page.walk.after, s, U)
    <2> TAKE s \in U.within \ U.moved
    <2>1. s \in Saved \ U.moved /\ s \in V.within \ V.moved
        BY <1>1, <1>4 DEF Later
    <2> QED BY <1>1, <2>1 DEF Follows
<1> QED BY <1>3, <1>5, <1>6 DEF Follows

\* A view stays right of what nobody changed.
LEMMA LaterFits ==
    ASSUME NEW V \in Views, NEW U \in Views, Later(V, U),
           NEW l \in Listings, NEW ps, NEW ws, NEW as \in Seq(Answers), NEW others,
           ViewFits(l, ps, ws, as, others, V)
    PROVE  ViewFits(l, ps, ws, as, others, U)
<1>1. \A s \in Saved \ U.moved : /\ PlaceIn(U, s) = PlaceIn(V, s) /\ s \notin V.moved
                                 /\ \A a : Past(a, s, U) <=> Past(a, s, V)
    BY DEF Later, PlaceIn, Past
<1>2. \A i \in DOMAIN l.rows : l.rows[i] \in Saved
    BY FilteredIs, ElementOfSeq
<1>3. Sorted(l.rows, U) /\ RowsTrue(l.rows, U)
    BY <1>1, <1>2 DEF ViewFits, Listing, Sorted, RowsTrue, Later
<1>4. l.load # "Failed" => Reached(l.rows, ps.walk, U)
    <2> SUFFICES ASSUME Reached(l.rows, ps.walk, V) PROVE Reached(l.rows, ps.walk, U)
        BY DEF ViewFits, Listing
    <2>1. Behind(l.rows, ps.walk.after, U)
        BY <1>1, <1>2 DEF Reached, Behind
    <2>2. Ahead(l.rows, ps.walk, U)
        <3> SUFFICES ASSUME NEW s \in U.within \ U.moved, s # U.live, s \notin Range(l.rows)
                     PROVE  ~ ps.walk.exhausted /\ Past(ps.walk.after, s, U)
            BY DEF Ahead
        <3>1. s \in Saved \ U.moved /\ s \in V.within \ V.moved /\ s # V.live
            BY <1>1 DEF Later, Views
        <3> QED BY <1>1, <3>1 DEF Reached, Ahead
    <2> QED BY <2>1, <2>2 DEF Reached, Later
<1>5. AllFollow(ps, ws, as, U)
    <2>1. \A i \in DOMAIN as : as[i] \in Answers
        BY LenProperties, ElementOfSeq
    <2> QED BY <2>1, LaterFollows DEF ViewFits, Listing, AllFollow
<1> QED BY <1>3, <1>4, <1>5 DEF ViewFits, Listing

-----------------------------------------------------------------------------
\* A row that left the list.
LEMMA WithoutIs ==
    ASSUME list \in Listings, NEW s
    PROVE  /\ Without(s) \in Listings /\ CursorFits(Without(s))
           /\ Without(s).rows = Keeping(list.rows, Saved \ {s})
           /\ Without(s).load = list.load
<1> DEFINE rows == Keeping(list.rows, Saved \ {s})
           l == [list EXCEPT !.rows = rows]
           last == IF Filtered(l) = <<>> THEN 0 ELSE Len(Filtered(l)) - 1
           k == [l EXCEPT !.cursor = IF @ > last THEN last ELSE @]
<1>1. Without(s) = k
    BY DEF Without
<1>2. rows \in Seq(Saved)
    BY KeepingIs DEF Listings
<1> HIDE DEF rows
<1>3. /\ l \in Listings /\ l.rows = rows /\ l.load = list.load /\ l.query = list.query
      /\ l.cursor \in Nat
    BY <1>2 DEF Listings
<1> HIDE DEF l
<1>4. Filtered(l) \in Seq(Saved) /\ Len(Filtered(l)) \in Nat
    BY <1>3, FilteredIs
<1>5. Filtered(l) # <<>> => Len(Filtered(l)) > 0
    BY <1>4, EmptySeq
<1>6. last \in Nat /\ (last = 0 \/ last < Len(Filtered(l)))
      /\ (Filtered(l) # <<>> => last < Len(Filtered(l)))
    BY <1>4, <1>5
<1>10. Filtered(l) = <<>> => last = 0
    OBVIOUS
<1> HIDE DEF last
<1>7. k \in Listings /\ k.rows = l.rows /\ k.query = l.query /\ k.load = l.load
      /\ k.cursor = IF l.cursor > last THEN last ELSE l.cursor
    BY <1>3, <1>6 DEF Listings
<1>8. Filtered(k) = Filtered(l)
    BY <1>7 DEF Filtered
<1>9. k.cursor = 0 \/ k.cursor < Len(Filtered(k))
    BY <1>3, <1>4, <1>6, <1>7, <1>8, <1>10
<1> QED BY <1>1, <1>3, <1>7, <1>9 DEF CursorFits, rows

\* A view stays right without a row that moved.
LEMMA WithoutFits ==
    ASSUME NEW l \in Listings, NEW k \in Listings, NEW s,
           k.rows = Keeping(l.rows, Saved \ {s}), k.load = l.load,
           NEW V \in Views, s \in V.moved,
           NEW ps, NEW ws, NEW as, NEW others, ViewFits(l, ps, ws, as, others, V)
    PROVE  /\ ViewFits(k, ps, ws, as, others, V)
           /\ \A r : r \in Range(k.rows) <=> r \in Range(l.rows) /\ r # s
<1>1. l.rows \in Seq(Saved) /\ k.rows \in Seq(Saved)
    BY DEF Listings
<1>2. \A r : r \in Range(k.rows) <=> r \in Range(l.rows) /\ r \in Saved \ {s}
    BY <1>1, KeepingIs
<1>3. \A r \in Range(l.rows) : r \in Saved
    BY <1>1, LenProperties, ElementOfSeq DEF Range
<1>4. PICK f \in [1..Len(k.rows) -> 1..Len(l.rows)] :
          /\ \A m, n \in 1..Len(k.rows) : m < n => f[m] < f[n]
          /\ \A n \in 1..Len(k.rows) : k.rows[n] = l.rows[f[n]]
    <2>1. Subsequence(k.rows, l.rows)
        BY <1>1, KeepingIs
    <2> QED BY <2>1 DEF Subsequence
<1>5. DOMAIN k.rows = 1..Len(k.rows) /\ DOMAIN l.rows = 1..Len(l.rows)
    BY <1>1, LenProperties
<1>6. \A n \in DOMAIN k.rows : f[n] \in DOMAIN l.rows /\ k.rows[n] = l.rows[f[n]]
    BY <1>4, <1>5
<1>7. Sorted(k.rows, V)
    BY <1>4, <1>5, <1>6 DEF ViewFits, Listing, Sorted
<1>8. RowsTrue(k.rows, V)
    BY <1>6 DEF ViewFits, Listing, RowsTrue
<1>9. l.load # "Failed" => Reached(k.rows, ps.walk, V)
    <2> SUFFICES ASSUME Reached(l.rows, ps.walk, V) PROVE Reached(k.rows, ps.walk, V)
        BY DEF ViewFits, Listing
    <2>1. Behind(k.rows, ps.walk.after, V)
        BY <1>6 DEF Reached, Behind
    <2>2. Ahead(k.rows, ps.walk, V)
        BY <1>2 DEF Reached, Ahead, Views
    <2> QED BY <2>1, <2>2 DEF Reached
<1>10. One(k, ps, ws, as, others)
    BY DEF ViewFits, One
<1>11. Listing(k, ps, ws, as, V)
    BY <1>7, <1>8, <1>9 DEF ViewFits, Listing
<1> QED BY <1>2, <1>3, <1>10, <1>11 DEF ViewFits

-----------------------------------------------------------------------------
\* all is rows and then more.
Joins(all, rows, more) ==
    /\ Len(all) = Len(rows) + Len(more)
    /\ \A i \in 1..Len(rows) : all[i] = rows[i]
    /\ \A i \in 1..Len(more) : all[Len(rows) + i] = more[i]

\* A concatenation is the one and then the other.
LEMMA JoinsConcat ==
    ASSUME NEW T, NEW rows \in Seq(T), NEW more \in Seq(T)
    PROVE  rows \o more \in Seq(T) /\ Joins(rows \o more, rows, more)
<1> DEFINE all == rows \o more
           n == Len(rows)
<1>1. /\ all \in Seq(T) /\ Len(all) = n + Len(more)
      /\ \A i \in 1..n + Len(more) : all[i] = IF i <= n THEN rows[i] ELSE more[i - n]
    BY ConcatProperties
<1>2. n \in Nat /\ Len(more) \in Nat
    BY LenProperties
<1> HIDE DEF all, n
<1>3. \A i \in 1..n : all[i] = rows[i]
    BY <1>1, <1>2
<1>4. ASSUME NEW i \in 1..Len(more) PROVE all[n + i] = more[i]
    <2>1. n + i \in 1..n + Len(more) /\ ~ (n + i <= n) /\ (n + i) - n = i
        BY <1>2
    <2> QED BY <1>1, <2>1
<1> QED BY <1>1, <1>3, <1>4 DEF Joins, all, n

\* A place is not the start of a walk.
LEMMA PairNotEmpty ==
    ASSUME NEW p \in Nat \X Nat
    PROVE  p # <<>>
<1>1. p = <<p[1], p[2]>>
    OBVIOUS
<1>2. <<p[1], p[2]>> # <<>>
    OBVIOUS
<1> QED BY <1>1, <1>2

\* A page that was awaited goes below the rows.
LEMMA AppendedRows ==
    ASSUME NEW V \in Views, NEW rows \in Seq(Saved), NEW walk \in Walks, NEW page \in Answers,
           Sorted(rows, V), RowsTrue(rows, V), Reached(rows, walk, V), Follows(page, walk, V),
           ~ walk.exhausted,
           NEW all \in Seq(Saved), Joins(all, rows, Keeping(page.rows, Saved \ {V.live}))
    PROVE  /\ Sorted(all, V) /\ RowsTrue(all, V) /\ Reached(all, page.walk, V)
           /\ \A s \in Range(all) : s \in Range(rows) \/ s \in Range(page.rows)
<1> DEFINE more == Keeping(page.rows, Saved \ {V.live})
           n == Len(rows)
<1>1. page.rows \in Seq(Saved) /\ page.walk \in Walks
    BY DEF Answers
<1>2. /\ more \in Seq(Saved)
      /\ \A s : s \in Range(more) <=> s \in Range(page.rows) /\ s \in Saved \ {V.live}
    BY <1>1, KeepingIs
<1>3. PICK f \in [1..Len(more) -> 1..Len(page.rows)] :
          /\ \A i, j \in 1..Len(more) : i < j => f[i] < f[j]
          /\ \A i \in 1..Len(more) : more[i] = page.rows[f[i]]
    <2>1. Subsequence(more, page.rows)
        BY <1>1, KeepingIs
    <2> HIDE DEF more
    <2> QED BY <2>1 DEF Subsequence
<1> HIDE DEF more
<1>4. /\ all \in Seq(Saved) /\ Len(all) = n + Len(more) /\ n \in Nat /\ Len(more) \in Nat
      /\ \A i \in 1..n : all[i] = rows[i]
      /\ \A i \in 1..Len(more) : all[n + i] = more[i]
    <2>1. Joins(all, rows, more)
        BY DEF more
    <2>2. n \in Nat /\ Len(more) \in Nat
        BY <1>2, LenProperties
    <2> QED BY <2>1, <2>2 DEF Joins
<1>5. /\ DOMAIN all = 1..Len(all) /\ DOMAIN rows = 1..n /\ DOMAIN more = 1..Len(more)
      /\ DOMAIN page.rows = 1..Len(page.rows)
    BY <1>1, <1>2, <1>4, LenProperties
<1> HIDE DEF n
<1>6. \A i \in DOMAIN all : \/ i \in DOMAIN rows /\ i <= n /\ all[i] = rows[i]
                            \/ \E m \in DOMAIN more : i = n + m /\ all[i] = more[m]
    <2> TAKE i \in DOMAIN all
    <2>1. CASE i <= n
        <3>1. i \in 1..n
            BY <1>4, <1>5, <2>1
        <3> QED BY <1>4, <1>5, <2>1, <3>1
    <2>2. CASE ~ (i <= n)
        <3>1. i - n \in 1..Len(more) /\ i = n + (i - n)
            BY <1>4, <1>5, <2>2
        <3> QED BY <1>4, <1>5, <3>1
    <2> QED BY <2>1, <2>2
<1>7. \A i \in DOMAIN more :
          /\ f[i] \in DOMAIN page.rows /\ more[i] = page.rows[f[i]]
          /\ more[i] \in Saved /\ more[i] # V.live
    <2> TAKE i \in DOMAIN more
    <2>1. f[i] \in DOMAIN page.rows /\ more[i] = page.rows[f[i]]
        BY <1>3, <1>5
    <2>2. more[i] \in Range(more)
        BY DEF Range
    <2> QED BY <1>2, <2>1, <2>2
<1>8. \A s \in Saved : PlaceIn(V, s) \in Nat \X Nat
    BY PickerAssumption DEF Views, PlaceIn
<1>9. \A i \in DOMAIN rows : rows[i] \in Saved
    BY <1>5, ElementOfSeq DEF n
<1>10. walk.after \in {<<>>} \cup (Nat \X Nat) /\ page.walk.after \in {<<>>} \cup (Nat \X Nat)
    BY <1>1 DEF Walks
<1>11. \A i \in DOMAIN rows : rows[i] \notin V.moved =>
           walk.after \in Nat \X Nat /\ ~ Precedes(walk.after, PlaceIn(V, rows[i]))
    BY <1>10 DEF Reached, Behind, Past
<1>12. \A i \in DOMAIN more : more[i] \notin V.moved =>
           more[i] \in V.within /\ Past(walk.after, more[i], V)
           /\ ~ Past(page.walk.after, more[i], V)
    BY <1>7 DEF Follows
<1>13. Sorted(all, V)
    <2> SUFFICES ASSUME NEW i \in DOMAIN all, NEW j \in DOMAIN all, i < j,
                        all[i] \notin V.moved, all[j] \notin V.moved
                 PROVE  Precedes(PlaceIn(V, all[i]), PlaceIn(V, all[j]))
        BY DEF Sorted
    <2>0. i \in Nat /\ j \in Nat /\ n \in Nat
        BY <1>4, <1>5
    <2>1. CASE i \in DOMAIN rows /\ all[i] = rows[i] /\ j \in DOMAIN rows /\ all[j] = rows[j]
        BY <2>1 DEF Sorted
    <2>2. ASSUME i \in DOMAIN rows, all[i] = rows[i], NEW m \in DOMAIN more, all[j] = more[m]
          PROVE  Precedes(PlaceIn(V, all[i]), PlaceIn(V, all[j]))
        <3>1. walk.after \in Nat \X Nat /\ ~ Precedes(walk.after, PlaceIn(V, all[i]))
            BY <1>11, <2>2
        <3>2. walk.after # <<>>
            BY <3>1, PairNotEmpty
        <3>3. Precedes(walk.after, PlaceIn(V, all[j]))
            BY <1>12, <2>2, <3>2 DEF Past
        <3>4. PlaceIn(V, all[i]) \in Nat \X Nat /\ PlaceIn(V, all[j]) \in Nat \X Nat
            BY <1>7, <1>8, <1>9, <2>2
        <3>5. walk.after = PlaceIn(V, all[i]) \/ Precedes(PlaceIn(V, all[i]), walk.after)
            BY <3>1, <3>4, Precedence
        <3> QED BY <3>1, <3>3, <3>4, <3>5, Precedence
    <2>3. ASSUME NEW m \in DOMAIN more, i = n + m, all[i] = more[m],
                 NEW q \in DOMAIN more, j = n + q, all[j] = more[q]
          PROVE  Precedes(PlaceIn(V, all[i]), PlaceIn(V, all[j]))
        <3>1. m < q
            BY <1>4, <1>5, <2>3
        <3>2. f[m] < f[q]
            BY <1>3, <1>5, <3>1
        <3> QED BY <1>7, <2>3, <3>2 DEF Follows, Sorted
    <2>4. ASSUME NEW m \in DOMAIN more, i = n + m, j \in DOMAIN rows PROVE FALSE
        BY <1>4, <1>5, <2>4
    <2> QED BY <1>6, <2>1, <2>2, <2>3, <2>4
<1>14. RowsTrue(all, V)
    BY <1>6, <1>7, <1>12 DEF RowsTrue
<1>15. Behind(all, page.walk.after, V)
    <2> SUFFICES ASSUME NEW i \in DOMAIN all, all[i] \notin V.moved
                 PROVE  ~ Past(page.walk.after, all[i], V)
        BY DEF Behind
    <2>1. CASE i \in DOMAIN rows /\ all[i] = rows[i]
        <3>1. walk.after \in Nat \X Nat /\ ~ Precedes(walk.after, PlaceIn(V, all[i]))
            BY <1>11, <2>1
        <3>2. walk.after # <<>> /\ PlaceIn(V, all[i]) \in Nat \X Nat
            <4>1. walk.after # <<>>
                BY <3>1, PairNotEmpty
            <4> QED BY <4>1, <1>8, <1>9, <2>1
        <3>3. CASE page.walk.after = walk.after
            BY <3>1, <3>2, <3>3 DEF Past
        <3>4. CASE page.walk.after # <<>> /\ Precedes(walk.after, page.walk.after)
            BY <1>10, <3>1, <3>2, <3>4, Precedence DEF Past
        <3> QED BY <3>2, <3>3, <3>4 DEF Follows
    <2>2. ASSUME NEW m \in DOMAIN more, all[i] = more[m]
          PROVE  ~ Past(page.walk.after, all[i], V)
        BY <1>12, <2>2
    <2> QED BY <1>6, <2>1, <2>2
<1>16. \A s : s \in Range(all) <=> s \in Range(rows) \/ s \in Range(more)
    <2>1. \A s : s \in Range(all) => s \in Range(rows) \/ s \in Range(more)
        BY <1>6 DEF Range
    <2>2. \A i \in DOMAIN rows : i \in DOMAIN all /\ all[i] = rows[i]
        BY <1>4, <1>5
    <2>3. \A i \in DOMAIN more : n + i \in DOMAIN all /\ all[n + i] = more[i]
        BY <1>4, <1>5
    <2> QED BY <2>1, <2>2, <2>3 DEF Range
<1>17. Ahead(all, page.walk, V)
    <2> SUFFICES ASSUME NEW s \in V.within \ V.moved, s # V.live, s \notin Range(all)
                 PROVE  ~ page.walk.exhausted /\ Past(page.walk.after, s, V)
        BY DEF Ahead
    <2>1. s \in Saved
        BY DEF Views
    <2>2. s \notin Range(rows) /\ s \notin Range(page.rows)
        BY <1>2, <1>16, <2>1
    <2>3. Past(walk.after, s, V)
        BY <2>2 DEF Reached, Ahead
    <2> QED BY <2>2, <2>3 DEF Follows
<1>18. page.walk.scope = V.scope
    BY DEF Follows, Reached
<1> QED BY <1>2, <1>13, <1>14, <1>15, <1>16, <1>17, <1>18 DEF Reached

-----------------------------------------------------------------------------
(***************************************************************************)
(* The channel: its head is taken, a worker puts its page at the end.      *)
(***************************************************************************)
\* bs is as without one entry, which is h.
WithoutAt(as, o, h, bs) ==
    /\ as[o] = h
    /\ \E f \in [DOMAIN bs -> DOMAIN as] :
           /\ \A i \in DOMAIN bs : f[i] # o /\ bs[i] = as[f[i]]
           /\ \A i, j \in DOMAIN bs : f[i] = f[j] => i = j
           /\ \A i \in DOMAIN as : i = o \/ \E j \in DOMAIN bs : f[j] = i
Tailed(as, h, bs) == \E o \in DOMAIN as : WithoutAt(as, o, h, bs)

\* The tail is the channel without its head.
LEMMA TailIs ==
    ASSUME NEW as \in Seq(Answers), as # <<>>
    PROVE  /\ Head(as) \in Answers /\ Tail(as) \in Seq(Answers)
           /\ Tailed(as, Head(as), Tail(as))
<1> DEFINE bs == Tail(as)
           h == Head(as)
           n == Len(as)
           m == Len(bs)
           f == [i \in 1..m |-> i + 1]
<1>1. bs \in Seq(Answers) /\ m = n - 1 /\ h \in Answers
    BY HeadTailProperties
<1>2. \A i \in 1..m : bs[i] = as[i + 1]
    BY HeadTailProperties
<1>3. n \in Nat /\ DOMAIN as = 1..n /\ m \in Nat /\ DOMAIN bs = 1..m
    BY <1>1, LenProperties
<1>4. n # 0
    BY EmptySeq
<1>5. h = as[1]
    BY DEF Head
<1> HIDE DEF bs, h, n, m
<1>6. f \in [1..m -> 1..n]
    BY <1>1, <1>3
<1>7. \A i \in 1..m : f[i] = i + 1 /\ f[i] # 1
    BY <1>3
<1>8. \A i, j \in 1..m : f[i] = f[j] => i = j
    BY <1>3
<1>9. ASSUME NEW i \in 1..n PROVE i = 1 \/ \E j \in 1..m : f[j] = i
    <2>1. i # 1 => i - 1 \in 1..m /\ (i - 1) + 1 = i
        BY <1>1, <1>3
    <2> QED BY <1>7, <2>1
<1>10. 1 \in 1..n
    BY <1>3, <1>4
<1>11. \A i \in 1..m : bs[i] = as[f[i]]
    BY <1>2, <1>7
<1> HIDE DEF f
<1>12. Tailed(as, h, bs)
    <2>1. /\ \A i \in DOMAIN bs : f[i] # 1 /\ bs[i] = as[f[i]]
          /\ \A i, j \in DOMAIN bs : f[i] = f[j] => i = j
          /\ \A i \in DOMAIN as : i = 1 \/ \E j \in DOMAIN bs : f[j] = i
        BY <1>3, <1>7, <1>8, <1>9, <1>11
    <2>2. 1 \in DOMAIN as /\ f \in [DOMAIN bs -> DOMAIN as] /\ as[1] = h
        BY <1>3, <1>5, <1>6, <1>10
    <2>3. \E o \in DOMAIN as : WithoutAt(as, o, h, bs)
        <3>1. WithoutAt(as, 1, h, bs)
            <4>1. \E g \in [DOMAIN bs -> DOMAIN as] :
                      /\ \A i \in DOMAIN bs : g[i] # 1 /\ bs[i] = as[g[i]]
                      /\ \A i, j \in DOMAIN bs : g[i] = g[j] => i = j
                      /\ \A i \in DOMAIN as : i = 1 \/ \E j \in DOMAIN bs : g[j] = i
                BY <2>1, <2>2
            <4> QED BY <2>2, <4>1 DEF WithoutAt
        <3> QED BY <2>2, <3>1
    <2> QED BY <2>3 DEF Tailed
<1> QED BY <1>1, <1>12 DEF bs, h

\* The pages that stay in the channel are what they were.
LEMMA TailFits ==
    ASSUME NEW as, NEW h, NEW bs, Tailed(as, h, bs), NEW ws, Apart(ws, as)
    PROVE  /\ Apart(ws, bs)
           /\ \A x : x \in Requests(ws, bs) <=> x \in Requests(ws, as) /\ x # h.request
           /\ \A ps, V : AllFollow(ps, ws, as, V) => AllFollow(ps, ws, bs, V)
           /\ \A ps, s : Offers(ps, bs, s) => Offers(ps, as, s)
<1>20. PICK o \in DOMAIN as : WithoutAt(as, o, h, bs)
    BY DEF Tailed
<1>21. PICK f \in [DOMAIN bs -> DOMAIN as] :
          /\ \A i \in DOMAIN bs : f[i] # o /\ bs[i] = as[f[i]]
          /\ \A i, j \in DOMAIN bs : f[i] = f[j] => i = j
          /\ \A i \in DOMAIN as : i = o \/ \E j \in DOMAIN bs : f[j] = i
    BY <1>20 DEF WithoutAt
<1>1. /\ as[o] = h
      /\ \A i \in DOMAIN bs : f[i] # o /\ bs[i] = as[f[i]]
      /\ \A i, j \in DOMAIN bs : f[i] = f[j] => i = j
      /\ \A i \in DOMAIN as : i = o \/ \E j \in DOMAIN bs : f[j] = i
    BY <1>20, <1>21 DEF WithoutAt
<1>2. \A i \in DOMAIN bs : f[i] \in DOMAIN as /\ f[i] # o /\ bs[i] = as[f[i]]
    BY <1>1
<1> DEFINE r == h.request
<1>0. as[o].request = r
    BY <1>1
<1>3. Apart(ws, bs)
    <2>1. ASSUME NEW i \in DOMAIN bs, NEW j \in DOMAIN bs, bs[i].request = bs[j].request
          PROVE  i = j
        <3>1. /\ f[i] \in DOMAIN as /\ f[j] \in DOMAIN as
              /\ as[f[i]].request = as[f[j]].request
            BY <1>2, <2>1
        <3>2. f[i] = f[j]
            BY <3>1 DEF Apart
        <3> QED BY <3>2, <1>1
    <2>2. ASSUME NEW w \in ws, NEW i \in DOMAIN bs PROVE w.request # bs[i].request
        <3>1. f[i] \in DOMAIN as /\ bs[i] = as[f[i]]
            BY <1>2
        <3>2. w.request # as[f[i]].request
            BY <3>1 DEF Apart
        <3> QED BY <3>1, <3>2
    <2>3. \A v, w \in ws : v.request = w.request => v = w
        BY DEF Apart
    <2> QED BY <2>1, <2>2, <2>3 DEF Apart
<1>4. ASSUME NEW i \in DOMAIN bs PROVE bs[i].request # r
    <2>1. f[i] \in DOMAIN as /\ f[i] # o /\ bs[i] = as[f[i]]
        BY <1>2
    <2>2. as[f[i]].request # as[o].request
        BY <2>1 DEF Apart
    <2> QED BY <1>0, <2>1, <2>2
<1>5. ASSUME NEW w \in ws PROVE w.request # r
    <2>1. w.request # as[o].request
        BY DEF Apart
    <2> QED BY <1>0, <2>1
<1>6. Requests(ws, bs) = Requests(ws, as) \ {r}
    <2>1. ASSUME NEW x \in Requests(ws, bs) PROVE x \in Requests(ws, as) \ {r}
        <3>1. ASSUME NEW w \in ws, x = w.request PROVE x \in Requests(ws, as) \ {r}
            BY <1>5, <3>1 DEF Requests
        <3>2. ASSUME NEW i \in DOMAIN bs, x = bs[i].request PROVE x \in Requests(ws, as) \ {r}
            BY <1>2, <1>4, <3>2 DEF Requests
        <3> QED BY <2>1, <3>1, <3>2 DEF Requests
    <2>2. ASSUME NEW x \in Requests(ws, as) \ {r} PROVE x \in Requests(ws, bs)
        <3>1. ASSUME NEW w \in ws, x = w.request PROVE x \in Requests(ws, bs)
            BY <3>1 DEF Requests
        <3>2. ASSUME NEW i \in DOMAIN as, x = as[i].request PROVE x \in Requests(ws, bs)
            <4>1. i # o
                BY <1>1, <2>2, <3>2
            <4>2. PICK j \in DOMAIN bs : f[j] = i
                BY <1>1, <4>1
            <4>3. bs[j] = as[i]
                BY <1>2, <4>2
            <4> QED BY <3>2, <4>3 DEF Requests
        <3> QED BY <2>2, <3>1, <3>2 DEF Requests
    <2> QED BY <2>1, <2>2
<1>7. ASSUME NEW ps, NEW V, AllFollow(ps, ws, as, V) PROVE AllFollow(ps, ws, bs, V)
    <2> SUFFICES ASSUME ps.state = "Loading"
                 PROVE  /\ \A w \in ws : w.request = ps.request => w.walk = ps.walk
                        /\ \A i \in DOMAIN bs :
                               bs[i].request = ps.request /\ bs[i].end = "page" =>
                                   Follows(bs[i], ps.walk, V)
        BY DEF AllFollow
    <2> QED BY <1>2, <1>7 DEF AllFollow
<1>8. ASSUME NEW ps, NEW s, Offers(ps, bs, s) PROVE Offers(ps, as, s)
    BY <1>2, <1>8 DEF Offers
<1> QED BY <1>3, <1>6, <1>7, <1>8

Carries(page, r) == r = page.request
Waiting(ps, r) == ps.state = "Loading" /\ ps.request = r
Other(ps, r) == IF ps.state = "Reloading" /\ ps.request = r THEN Rest(ps.walk) ELSE ps

\* A page that is not awaited changes nothing, or lets the next one be asked for.
LEMMA OtherFits ==
    ASSUME NEW l \in Listings, NEW ps \in PageStates, NEW ws, NEW as, NEW h, NEW bs,
           Tailed(as, h, bs), NEW others, NEW V, ViewFits(l, ps, ws, as, others, V),
           NEW r, Carries(h, r), ~ Waiting(ps, r)
    PROVE  /\ Other(ps, r) \in PageStates
           /\ ViewFits(l, Other(ps, r), ws, bs, others \ {r}, V)
           /\ \A s : Offers(Other(ps, r), bs, s) => Offers(ps, as, s)
<1> DEFINE qs == Other(ps, r)
<1>0. /\ r = h.request /\ ~ (ps.state = "Loading" /\ ps.request = r)
      /\ qs = IF ps.state = "Reloading" /\ ps.request = r THEN Rest(ps.walk) ELSE ps
    BY DEF Carries, Waiting, Other
<1> HIDE DEF qs
<1>1. /\ Apart(ws, bs)
      /\ Requests(ws, bs) = Requests(ws, as) \ {r}
      /\ others \ {r} \subseteq Requests(ws, bs)
      /\ AllFollow(ps, ws, bs, V)
      /\ \A s : Offers(ps, bs, s) => Offers(ps, as, s)
    <2>1. /\ Apart(ws, as) /\ others \subseteq Requests(ws, as)
          /\ AllFollow(ps, ws, as, V)
        BY DEF ViewFits, One, Listing
    <2>2. /\ Apart(ws, bs)
          /\ \A x : x \in Requests(ws, bs) <=> x \in Requests(ws, as) /\ x # r
          /\ AllFollow(ps, ws, as, V) => AllFollow(ps, ws, bs, V)
          /\ \A s : Offers(ps, bs, s) => Offers(ps, as, s)
        BY <1>0, <2>1, TailFits
    <2> QED BY <2>1, <2>2
<1>2. Requests(ws, bs) \ (others \ {r}) = (Requests(ws, as) \ others) \ {r}
    BY <1>1
<1>3. CASE ps.state = "Reloading" /\ ps.request = r
    <2>1. /\ ps.walk \in Walks /\ ~ ps.walk.exhausted
          /\ qs = [state |-> "Idle", request |-> 0, walk |-> ps.walk]
        BY <1>0, <1>3 DEF ViewFits, Listing, PageStates, Rest
    <2>2. qs \in PageStates /\ qs.state = "Idle" /\ qs.walk = ps.walk
        BY <2>1 DEF PageStates
    <2>3. Waits(qs, ws, bs, others \ {r})
        BY <1>2, <1>3, <2>2 DEF Waits, ViewFits, One
    <2>4. Listing(l, qs, ws, bs, V)
        BY <2>1, <2>2 DEF ViewFits, Listing, AllFollow
    <2>5. One(l, qs, ws, bs, others \ {r})
        BY <1>1, <1>3, <2>2, <2>3 DEF ViewFits, One
    <2> QED BY <2>2, <2>4, <2>5 DEF ViewFits, Offers, qs
<1>4. CASE ~ (ps.state = "Reloading" /\ ps.request = r)
    <2>1. qs = ps
        BY <1>0, <1>4
    <2>2. Waits(ps, ws, bs, others \ {r})
        BY <1>0, <1>2, <1>4 DEF Waits, ViewFits, One
    <2>3. Listing(l, ps, ws, bs, V)
        BY <1>1 DEF ViewFits, Listing
    <2>4. One(l, ps, ws, bs, others \ {r})
        BY <1>1, <2>2 DEF ViewFits, One
    <2>5. ViewFits(l, ps, ws, bs, others \ {r}, V)
        BY <2>3, <2>4 DEF ViewFits
    <2> QED BY <1>1, <2>1, <2>5 DEF qs
<1> QED BY <1>3, <1>4

\* The page that was awaited is put below the rows, and its walk goes on.
LEMMA AwaitedFits ==
    ASSUME NEW l \in Listings, NEW ps \in PageStates, NEW ws, NEW as, NEW page \in Answers,
           NEW bs, Tailed(as, page, bs),
           NEW others, NEW V \in Views, ViewFits(l, ps, ws, as, others, V),
           ps.state = "Loading", ps.request = page.request,
           page.end = "page",
           NEW k \in Listings, Joins(k.rows, l.rows, Keeping(page.rows, Saved \ {V.live})),
           k.load = IF page.walk.exhausted THEN "Complete" ELSE "Loading"
    PROVE  /\ Rest(page.walk) \in PageStates
           /\ ViewFits(k, Rest(page.walk), ws, bs, others \ {page.request}, V)
           /\ \A s : ~ Offers(Rest(page.walk), bs, s)
           /\ \A s \in Range(k.rows) : s \in Range(l.rows) \/ Offers(ps, as, s)
<1>1. \E o \in DOMAIN as : as[o] = page
    BY DEF Tailed, WithoutAt
<1>2. /\ Apart(ws, bs)
      /\ Requests(ws, bs) = Requests(ws, as) \ {page.request}
      /\ others \ {page.request} \subseteq Requests(ws, bs)
    <2>1. Apart(ws, as) /\ others \subseteq Requests(ws, as)
        BY DEF ViewFits, One
    <2>2. /\ Apart(ws, bs)
          /\ \A x : x \in Requests(ws, bs) <=> x \in Requests(ws, as) /\ x # page.request
        BY <2>1, TailFits
    <2> QED BY <2>1, <2>2
<1>3. /\ page.walk \in Walks /\ page.rows \in Seq(Saved) /\ ps.walk \in Walks
      /\ l.rows \in Seq(Saved) /\ k.rows \in Seq(Saved)
    BY <1>1 DEF Answers, PageStates, Listings
<1> DEFINE qs == Rest(page.walk)
<1>4. /\ qs \in PageStates /\ qs.walk = page.walk
      /\ qs.state = IF page.walk.exhausted THEN "Done" ELSE "Idle"
    BY <1>3 DEF Rest, PageStates
<1>5. Follows(page, ps.walk, V)
    BY <1>1 DEF ViewFits, Listing, AllFollow
<1>6. Sorted(l.rows, V) /\ RowsTrue(l.rows, V) /\ ~ ps.walk.exhausted /\ Reached(l.rows, ps.walk, V)
    <2>1. l.load = "Loading"
        BY DEF ViewFits, One
    <2> QED BY <2>1 DEF ViewFits, Listing
<1>7. /\ Sorted(k.rows, V) /\ RowsTrue(k.rows, V) /\ Reached(k.rows, page.walk, V)
      /\ \A s \in Range(k.rows) : s \in Range(l.rows) \/ s \in Range(page.rows)
    BY <1>1, <1>3, <1>5, <1>6, AppendedRows
<1> HIDE DEF qs
<1>8. Listing(k, qs, ws, bs, V)
    BY <1>4, <1>7 DEF Listing, AllFollow
<1>9. Waits(qs, ws, bs, others \ {page.request})
    <2>1. Requests(ws, as) \ others = {page.request}
        BY DEF Waits, ViewFits, One
    <2> QED BY <1>2, <1>4, <2>1 DEF Waits
<1>10. k.load = "Loading" <=> qs.state # "Done"
    BY <1>4
<1>11. \A s : ~ Offers(qs, bs, s)
    BY <1>4 DEF Offers
<1>12. \A s \in Range(page.rows) : Offers(ps, as, s)
    BY <1>1 DEF Offers
<1> QED BY <1>2, <1>4, <1>7, <1>8, <1>9, <1>10, <1>11, <1>12 DEF ViewFits, One, qs

\* bs is as with x at its end.
Appends(as, x, bs) ==
    /\ \A i \in DOMAIN as : i \in DOMAIN bs /\ bs[i] = as[i]
    /\ \E n \in DOMAIN bs : /\ bs[n] = x
                            /\ \A i \in DOMAIN bs : i = n \/ (i \in DOMAIN as /\ bs[i] = as[i])

\* A page that is sent is the last of the channel.
LEMMA AppendIs ==
    ASSUME NEW as \in Seq(Answers), NEW x \in Answers
    PROVE  Append(as, x) \in Seq(Answers) /\ Appends(as, x, Append(as, x))
<1> DEFINE bs == Append(as, x)
           n == Len(as)
<1>1. bs \in Seq(Answers) /\ Len(bs) = n + 1 /\ n \in Nat
    BY AppendProperties, LenProperties
<1>2. DOMAIN as = 1..n /\ DOMAIN bs = 1..n + 1
    BY <1>1, LenProperties
<1>3. bs[n + 1] = x
    BY AppendProperties
<1>4. \A i \in 1..n : bs[i] = as[i]
    BY AppendProperties
<1> HIDE DEF bs, n
<1>5. n + 1 \in 1..n + 1 /\ \A i \in 1..n + 1 : i = n + 1 \/ i \in 1..n
    BY <1>1
<1>6. \A i \in 1..n : i \in 1..n + 1
    BY <1>1
<1>7. Appends(as, x, bs)
    BY <1>2, <1>3, <1>4, <1>5, <1>6 DEF Appends
<1> QED BY <1>1, <1>7 DEF bs

\* A worker ends with a page of its walk, or without one.
LEMMA ReadFits ==
    ASSUME NEW as, NEW ws, Apart(ws, as),
           NEW w \in ws, NEW answer, answer.request = w.request,
           NEW bs, Appends(as, answer, bs)
    PROVE  /\ Apart(ws \ {w}, bs)
           /\ \A x : x \in Requests(ws \ {w}, bs) <=> x \in Requests(ws, as)
           /\ \A ps, V :
                  /\ AllFollow(ps, ws, as, V)
                  /\ ps.state = "Loading" /\ w.request = ps.request /\ answer.end = "page" =>
                         Follows(answer, w.walk, V)
                  => AllFollow(ps, ws \ {w}, bs, V)
<1>1. PICK n \in DOMAIN bs :
          /\ bs[n] = answer
          /\ \A i \in DOMAIN bs : i = n \/ (i \in DOMAIN as /\ bs[i] = as[i])
    BY DEF Appends
<1>2. \A i \in DOMAIN bs : (i \in DOMAIN as /\ bs[i] = as[i]) \/ (i = n /\ bs[i] = answer)
    BY <1>1
<1>3. /\ \A i \in DOMAIN as : i \in DOMAIN bs /\ bs[i] = as[i]
      /\ n \in DOMAIN bs /\ bs[n] = answer
    BY <1>1 DEF Appends
<1>4. Apart(ws \ {w}, bs)
    <2>1. \A i, j \in DOMAIN bs : bs[i].request = bs[j].request => i = j
        <3> TAKE i, j \in DOMAIN bs
        <3>1. \A k \in DOMAIN as : as[k].request # answer.request
            BY DEF Apart
        <3>2. \A k, m \in DOMAIN as : as[k].request = as[m].request => k = m
            BY DEF Apart
        <3>3. CASE i \in DOMAIN as /\ bs[i] = as[i] /\ j \in DOMAIN as /\ bs[j] = as[j]
            BY <3>2, <3>3
        <3>4. CASE i = n /\ j = n
            BY <3>4
        <3>5. CASE i \in DOMAIN as /\ bs[i] = as[i] /\ bs[j] = answer
            BY <3>1, <3>5
        <3>6. CASE bs[i] = answer /\ j \in DOMAIN as /\ bs[j] = as[j]
            BY <3>1, <3>6
        <3> QED BY <1>2, <3>3, <3>4, <3>5, <3>6
    <2>2. \A v \in ws \ {w}, i \in DOMAIN bs : v.request # bs[i].request
        BY <1>2 DEF Apart
    <2> QED BY <2>1, <2>2 DEF Apart
<1>5. Requests(ws \ {w}, bs) = Requests(ws, as)
    <2>1. ASSUME NEW x \in Requests(ws \ {w}, bs) PROVE x \in Requests(ws, as)
        BY <1>2, <2>1 DEF Requests
    <2>2. ASSUME NEW x \in Requests(ws, as) PROVE x \in Requests(ws \ {w}, bs)
        <3>1. CASE \E v \in ws : x = v.request
            BY <1>3, <3>1 DEF Requests
        <3>2. CASE \E i \in DOMAIN as : x = as[i].request
            BY <1>3, <3>2 DEF Requests
        <3> QED BY <2>2, <3>1, <3>2 DEF Requests
    <2> QED BY <2>1, <2>2
<1>6. ASSUME NEW ps, NEW V, AllFollow(ps, ws, as, V),
             ps.state = "Loading" /\ w.request = ps.request /\ answer.end = "page" =>
                 Follows(answer, w.walk, V)
      PROVE  AllFollow(ps, ws \ {w}, bs, V)
    <2> SUFFICES ASSUME ps.state = "Loading"
                 PROVE  /\ \A v \in ws \ {w} : v.request = ps.request => v.walk = ps.walk
                        /\ \A i \in DOMAIN bs :
                               bs[i].request = ps.request /\ bs[i].end = "page" =>
                                   Follows(bs[i], ps.walk, V)
        BY DEF AllFollow
    <2>1. w.request = ps.request => w.walk = ps.walk
        BY <1>6 DEF AllFollow
    <2>2. ASSUME NEW i \in DOMAIN bs, bs[i].request = ps.request, bs[i].end = "page"
          PROVE  Follows(bs[i], ps.walk, V)
        <3>1. CASE i \in DOMAIN as /\ bs[i] = as[i]
            BY <1>6, <2>2, <3>1 DEF AllFollow
        <3>2. CASE bs[i] = answer
            BY <1>6, <2>1, <2>2, <3>2
        <3> QED BY <1>2, <3>1, <3>2
    <2> QED BY <1>6, <2>2 DEF AllFollow
<1> QED BY <1>4, <1>5, <1>6

\* A page that arrives offers its own rows and no others.
LEMMA ReadOffers ==
    ASSUME NEW as, NEW answer, NEW bs, Appends(as, answer, bs),
           NEW ps, NEW s, Offers(ps, bs, s)
    PROVE  \/ Offers(ps, as, s)
           \/ /\ ps.state = "Loading" /\ answer.request = ps.request
              /\ answer.end = "page" /\ s \in Range(answer.rows)
BY DEF Appends, Offers

-----------------------------------------------------------------------------
(***************************************************************************)
(* What is on the screen: the list, its pages and the channels.            *)
(***************************************************************************)
OnScreen ==
    /\ list \in Listings /\ CursorFits(list) /\ pages \in PageStates
    /\ ChannelsTyped /\ PagesFit

\* What the picker is compared with is a view.
LEMMA SeenTyped ==
    /\ StoreTyped => Seen \in Views
    /\ StoreTyped' => Seen' \in Views
<1>1. StoreTyped => Seen \in Views
    BY DEF StoreTyped, Seen, Views
<1>2. StoreTyped' => Seen' \in Views
    BY DEF StoreTyped, Seen, Views
<1> QED BY <1>1, <1>2

\* A view depends on the rows and the load state of its list alone.
LEMMA SameRows ==
    ASSUME NEW l, NEW k, k.rows = l.rows, k.load = l.load,
           NEW ps, NEW ws, NEW as, NEW others, NEW V, ViewFits(l, ps, ws, as, others, V)
    PROVE  ViewFits(k, ps, ws, as, others, V)
BY DEF ViewFits, One, Listing

\* A handler that ends with load_ahead leaves a view that fits, if it fitted before it.
LEMMA ShowAheadFits ==
    ASSUME ChannelsTyped, arrived' \in Seq(Answers), open',
           Requests(workers, arrived') \subseteq Requests(workers, arrived),
           NEW l \in Listings, CursorFits(l), NEW ps \in PageStates, ShowAhead(l, ps),
           ViewFits(l, ps, workers, arrived', left', Seen')
    PROVE  OnScreen' /\ \A s : Offers(pages', arrived', s) => Offers(ps, arrived', s)
<1>1. /\ list' = l
      /\ Feeds(l, ps, pages', workers, workers', Requests(workers, arrived))
    BY ShowAheadFeeds
<1>2. workers \in SUBSET Works /\ IsFiniteSet(workers)
    BY DEF ChannelsTyped
<1>3. /\ pages' \in PageStates /\ workers' \subseteq Works /\ IsFiniteSet(workers')
      /\ ViewFits(l, pages', workers', arrived', left', Seen')
      /\ Enough(l, pages', Seen')
      /\ \A s : Offers(pages', arrived', s) => Offers(ps, arrived', s)
    BY <1>1, <1>2, FeedsFits
<1>4. PagesFit'
    <2>1. Apart(workers', arrived') /\ left' \subseteq Requests(workers', arrived')
        BY <1>3 DEF ViewFits, One
    <2> QED BY <1>1, <1>3, <2>1 DEF PagesFit
<1>5. ChannelsTyped'
    BY <1>3 DEF ChannelsTyped
<1> QED BY <1>1, <1>3, <1>4, <1>5 DEF OnScreen, CursorFits

\* The list, its pages and the channels stay, and the view changed as Later says.
LEMMA StaysShown ==
    ASSUME OnScreen, StoreTyped, StoreTyped', UNCHANGED <<open, pages, workers, arrived, left>>,
           list' \in Listings, CursorFits(list)',
           open => ViewFits(list', pages, workers, arrived, left, Seen'),
           open => Enough(list', pages, Seen')
    PROVE  OnScreen'
<1>1. ChannelsTyped'
    BY DEF ChannelsTyped, OnScreen
<1>2. PagesFit'
    <2>1. Apart(workers', arrived') /\ left' \subseteq Requests(workers', arrived')
          /\ (~ open' => Requests(workers', arrived') \subseteq left')
        BY DEF OnScreen, PagesFit
    <2>2. open' => /\ ViewFits(list', pages', workers', arrived', left', Seen')
                   /\ Enough(list', pages', Seen')
        OBVIOUS
    <2> QED BY <2>1, <2>2 DEF PagesFit
<1> QED BY <1>1, <1>2 DEF OnScreen

\* What was there is what it is.
LEMMA ShownView ==
    ASSUME OnScreen, StoreTyped, open
    PROVE  /\ ViewFits(list, pages, workers, arrived, left, Seen)
           /\ Enough(list, pages, Seen)
           /\ Seen \in Views /\ workers \in SUBSET Works /\ IsFiniteSet(workers)
           /\ arrived \in Seq(Answers) /\ list \in Listings /\ pages \in PageStates
BY SeenTyped DEF OnScreen, PagesFit, ChannelsTyped

\* A picker that opens shows nothing yet.
LEMMA OpenShown ==
    ASSUME OnScreen, StoreTyped, StoreTyped', OpenPicker
    PROVE  OnScreen' /\ Range(list'.rows) = {} /\ \A s : ~ Offers(pages', arrived', s)
<1> DEFINE l == [EmptyList EXCEPT !.load = "Loading"]
           ps == Rest(Walk(scope'))
<1>1. l \in Listings /\ l.rows = <<>> /\ l.cursor = 0 /\ l.load = "Loading"
    <2>1. <<>> \in Seq(Saved)
        BY EmptySeq
    <2> QED BY <2>1 DEF EmptyList, Listings
<1>2. scope' \in Scopes
    BY DEF StoreTyped
<1>3. /\ ps \in PageStates /\ ps.state = "Idle" /\ ps.walk = Walk(scope')
    BY <1>2 DEF Rest, Walk, PageStates, Walks
<1>4. /\ ChannelsTyped /\ Apart(workers, arrived) /\ left \subseteq Requests(workers, arrived)
      /\ Requests(workers, arrived) \subseteq left
    BY DEF OnScreen, PagesFit, OpenPicker
<1>5. arrived' = arrived /\ left' = left /\ moved' = {} /\ open'
    BY DEF OpenPicker, outbox
<1>6. Waits(ps, workers, arrived, left)
    BY <1>3, <1>4 DEF Waits
<1>7. Seen'.moved = {} /\ Seen'.scope = scope'
    BY <1>5 DEF Seen
<1>8. ShowAhead(l, ps)
    BY DEF OpenPicker
<1> HIDE DEF l, ps
<1>9. /\ ViewFits(l, ps, workers, arrived, left, Seen')
      /\ \A s : ~ Offers(ps, arrived, s)
    BY <1>1, <1>3, <1>4, <1>6, <1>7, FreshFits
<1>10. CursorFits(l) /\ arrived \in Seq(Answers)
    BY <1>1, <1>4 DEF CursorFits, ChannelsTyped
<1>11. OnScreen' /\ \A s : Offers(pages', arrived', s) => Offers(ps, arrived', s)
    BY <1>1, <1>3, <1>4, <1>5, <1>8, <1>9, <1>10, ShowAheadFits
<1>12. list' = l
    BY <1>8 DEF ShowAhead
<1> QED BY <1>1, <1>5, <1>9, <1>11, <1>12 DEF Range

\* A listing that begins again shows nothing yet.
LEMMA ReloadShown ==
    ASSUME OnScreen, StoreTyped, StoreTyped', open, open', UNCHANGED outbox,
           NEW sc \in Scopes, ReloadAs(sc)
    PROVE  OnScreen' /\ Range(list'.rows) = {} /\ \A s : ~ Offers(pages', arrived', s)
<1> DEFINE l == Relisted
           ps == Replace(pages, Walk(sc))
<1>1. l \in Listings /\ l.rows = <<>> /\ l.cursor = 0 /\ l.load = "Loading"
    <2>1. <<>> \in Seq(Saved)
        BY EmptySeq
    <2> QED BY <2>1 DEF Relisted, Listings, OnScreen
<1>2. /\ ViewFits(list, pages, workers, arrived, left, Seen)
      /\ ChannelsTyped /\ pages \in PageStates
    BY ShownView DEF OnScreen
<1>3. /\ Apart(workers, arrived) /\ left \subseteq Requests(workers, arrived)
      /\ Waits(pages, workers, arrived, left)
    BY <1>2 DEF ViewFits, One
<1>4. /\ ps \in PageStates /\ ps.state \in {"Idle", "Reloading"} /\ ps.walk = Walk(sc)
      /\ Waits(ps, workers, arrived, left)
    BY <1>2, <1>3, ReplaceIs
<1>5. arrived' = arrived /\ left' = left /\ moved' = {} /\ scope' = sc
    BY DEF outbox, ReloadAs
<1>7. Seen'.moved = {} /\ Seen'.scope = sc
    BY <1>5 DEF Seen
<1>8. ShowAhead(l, ps)
    BY DEF ReloadAs
<1> HIDE DEF l, ps
<1>9. /\ ViewFits(l, ps, workers, arrived, left, Seen')
      /\ \A s : ~ Offers(ps, arrived, s)
    BY <1>1, <1>3, <1>4, <1>7, FreshFits
<1>10. CursorFits(l) /\ arrived \in Seq(Answers)
    BY <1>1, <1>2 DEF CursorFits, ChannelsTyped
<1>11. OnScreen' /\ \A s : Offers(pages', arrived', s) => Offers(ps, arrived', s)
    BY <1>1, <1>2, <1>4, <1>5, <1>8, <1>9, <1>10, ShowAheadFits
<1>12. list' = l
    BY <1>8 DEF ShowAhead
<1> QED BY <1>1, <1>5, <1>9, <1>11, <1>12 DEF Range

\* A picker that closes leaves its pages to whoever takes them.
LEMMA LeaveShown ==
    ASSUME OnScreen, LeavePicker
    PROVE  OnScreen'
<1>1. /\ list' = EmptyList /\ pages' = NoPages /\ ~ open'
      /\ workers' = workers /\ arrived' = arrived /\ left' = {w.request : w \in Outstanding}
    BY DEF LeavePicker
<1>2. EmptyList \in Listings /\ EmptyList.cursor = 0
    <2>1. <<>> \in Seq(Saved)
        BY EmptySeq
    <2> QED BY <2>1 DEF EmptyList, Listings
<1>3. NoPages \in PageStates
    BY DEF NoPages, Walk, PageStates, Walks, Scopes
<1>4. ChannelsTyped /\ Apart(workers, arrived)
    BY DEF OnScreen, PagesFit
<1>5. ChannelsTyped'
    BY <1>1, <1>4 DEF ChannelsTyped
<1>6. left' = Requests(workers, arrived)
    BY <1>1, <1>4, OutstandingFinite
<1>7. PagesFit'
    BY <1>1, <1>4, <1>6 DEF PagesFit
<1> QED BY <1>1, <1>2, <1>3, <1>5, <1>7 DEF OnScreen, CursorFits

\* A key of the picker that leaves the rows and the channels alone.
LEMMA KeyShown ==
    ASSUME OnScreen, StoreTyped, open, open', Seen' = Seen, UNCHANGED outbox,
           NEW l \in Listings, CursorFits(l), l.rows = list.rows, l.load = list.load,
           ShowAhead(l, pages)
    PROVE  /\ OnScreen' /\ list'.rows = list.rows
           /\ \A s : Offers(pages', arrived', s) => Offers(pages, arrived, s)
<1>1. /\ ViewFits(list, pages, workers, arrived, left, Seen)
      /\ ChannelsTyped /\ pages \in PageStates /\ arrived \in Seq(Answers)
    BY ShownView DEF OnScreen
<1>2. ViewFits(l, pages, workers, arrived, left, Seen)
    BY <1>1, SameRows
<1>3. arrived' = arrived /\ left' = left
    BY DEF outbox
<1>4. OnScreen' /\ \A s : Offers(pages', arrived', s) => Offers(pages, arrived', s)
    BY <1>1, <1>2, <1>3, ShowAheadFits
<1>5. list' = l
    BY DEF ShowAhead
<1> QED BY <1>3, <1>4, <1>5

\* The store changed under the picker.
LEMMA StoreShown ==
    ASSUME OnScreen, StoreTyped, StoreTyped', Later(Seen, Seen'), moved' # {},
           UNCHANGED <<open, list, pages, workers, arrived, left>>
    PROVE  OnScreen'
<1>1. ASSUME open PROVE ViewFits(list, pages, workers, arrived, left, Seen')
    <2>1. /\ ViewFits(list, pages, workers, arrived, left, Seen)
          /\ list \in Listings /\ arrived \in Seq(Answers) /\ Seen \in Views
        BY <1>1, ShownView
    <2>2. Seen' \in Views
        BY SeenTyped
    <2> QED BY <2>1, <2>2, LaterFits
<1>2. Enough(list, pages, Seen')
    BY DEF Enough, Seen
<1>3. list' = list /\ list' \in Listings /\ CursorFits(list)'
    BY DEF OnScreen, CursorFits
<1> QED BY <1>1, <1>2, <1>3, StaysShown

-----------------------------------------------------------------------------
(***************************************************************************)
(* The store and the operations keep their types.                          *)
(***************************************************************************)
LEMMA SelectedIs ==
    ASSUME NEW l \in Listings, Selected(l) # NoSession
    PROVE  Selected(l) \in Saved /\ Selected(l) \in Range(l.rows)
<1>1. /\ Filtered(l) \in Seq(Saved) /\ Len(Filtered(l)) \in Nat /\ l.cursor \in Nat
      /\ l.rows \in Seq(Saved)
    BY FilteredIs
<1>2. l.cursor < Len(Filtered(l)) /\ Selected(l) = Filtered(l)[l.cursor + 1]
    BY DEF Selected
<1>3. l.cursor + 1 \in 1..Len(Filtered(l))
    BY <1>1, <1>2
<1>4. Selected(l) \in Saved
    BY <1>1, <1>2, <1>3, ElementOfSeq
<1>5. Selected(l) \in Range(Filtered(l))
    BY <1>1, <1>2, <1>3, LenProperties DEF Range
<1>6. Selected(l) \in Range(l.rows)
    <2>1. CASE l.query
        <3>1. Selected(l) \in Range(Keeping(l.rows, Matching))
            BY <1>5, <2>1 DEF Filtered
        <3> QED BY <1>1, <3>1, KeepingIs
    <2>2. CASE ~ l.query
        BY <1>5, <2>2 DEF Filtered
    <2> QED BY <2>1, <2>2
<1> QED BY <1>4, <1>6

StateTyped == StoreTyped /\ OpsTyped

\* A reload begins a listing of its scope.
LEMMA ReloadStore ==
    ASSUME NEW sc \in Scopes, ReloadAs(sc)
    PROVE  scope' \in Scopes /\ moved' = {}
BY DEF ReloadAs

\* Opening the picker keeps the types.
LEMMA OpenTyped == ASSUME StateTyped, OpenPicker PROVE StateTyped'
<1>1. StoreTyped'
    BY DEF StateTyped, StoreTyped, OpenPicker, Scopes, store
<1>2. OpsTyped'
    BY DEF StateTyped, OpsTyped, OpenPicker, NoArchive, NoConfirm
<1> QED BY <1>1, <1>2 DEF StateTyped

\* Closing it does.
LEMMA LeaveTyped ==
    ASSUME StateTyped, LeavePicker, archived' \subseteq Saved, live' \in Saved \cup {NoSession}
    PROVE  StateTyped'
<1>1. StoreTyped'
    BY DEF StateTyped, StoreTyped, LeavePicker
<1>2. OpsTyped'
    BY DEF StateTyped, OpsTyped, LeavePicker, NoArchive, NoConfirm
<1> QED BY <1>1, <1>2 DEF StateTyped

\* So does a switch of the scope or the view,
LEMMA SwitchTyped == ASSUME StateTyped, SwitchScope PROVE StateTyped'
<1>1. PICK sc \in Scopes : ReloadAs(sc)
    <2>1. /\ [scope EXCEPT !.projects = IF @ = "Current" THEN "Every" ELSE "Current"] \in Scopes
          /\ [scope EXCEPT !.view = Flip(@)] \in Scopes
        BY DEF StateTyped, StoreTyped, Scopes, Flip
    <2> QED BY <2>1 DEF SwitchScope
<1>2. StoreTyped'
    BY <1>1, ReloadStore DEF StateTyped, StoreTyped, SwitchScope, store
<1>3. OpsTyped'
    BY DEF StateTyped, OpsTyped, SwitchScope, Keys
<1> QED BY <1>2, <1>3 DEF StateTyped

\* and every other key.
LEMMA KeysTyped ==
    ASSUME StateTyped, list \in Listings, EditOrMove \/ ArchiveKey \/ DeleteKey \/ Yes \/ No
    PROVE  StateTyped'
<1>1. CASE EditOrMove
    BY <1>1 DEF StateTyped, StoreTyped, OpsTyped, EditOrMove, store, asked
<1>2. CASE ArchiveKey
    <2>1. Selected(list) \in Saved
        BY <1>2, SelectedIs DEF ArchiveKey
    <2>2. StoreTyped'
        BY <1>2 DEF StateTyped, StoreTyped, ArchiveKey, store
    <2>3. flight' \in Flights /\ flight'.step = "sent" /\ flight'.op = "archive"
          /\ flight'.session = Selected(list)
        BY <1>2, <2>1 DEF ArchiveKey, NoFlight, Flights, Flip
    <2>4. OpsTyped'
        BY <1>2, <2>1, <2>3 DEF StateTyped, OpsTyped, ArchiveKey, Keys
    <2> QED BY <2>2, <2>4 DEF StateTyped
<1>3. CASE DeleteKey
    <2>1. Selected(list) \in Saved
        BY <1>3, SelectedIs DEF DeleteKey
    <2> QED BY <1>3, <2>1 DEF StateTyped, StoreTyped, OpsTyped, DeleteKey, store
<1>4. CASE Yes
    <2>1. StoreTyped'
        BY <1>4 DEF StateTyped, StoreTyped, Yes, store
    <2>2. confirm.session \in Saved
        BY <1>4 DEF StateTyped, OpsTyped, Yes
    <2>3. flight' \in Flights /\ flight'.step = "sent" /\ flight'.op = "delete"
          /\ flight'.session = confirm.session
        BY <1>4, <2>2 DEF Yes, NoFlight, Flights
    <2>4. OpsTyped'
        BY <1>4, <2>2, <2>3 DEF StateTyped, OpsTyped, Yes
    <2> QED BY <2>1, <2>4 DEF StateTyped
<1>5. CASE No
    BY <1>5 DEF StateTyped, StoreTyped, OpsTyped, No, store, NoConfirm
<1> QED BY <1>1, <1>2, <1>3, <1>4, <1>5

\* What the engine does to the store, and to the operation.
EngineStep(s) ==
    /\ s \in Saved /\ open' = open /\ archive' = archive
    /\ flight'.session = s /\ flight'.op = flight.op /\ flight'.view = flight.view
    /\ moved' = moved \cup {s}
    /\ \A t \in Saved \ {s} : /\ t \in stored' <=> t \in stored
                              /\ t \in archived' <=> t \in archived
    /\ flight'.step \in {"done", "failed"}
    /\ flight'.step = "done" /\ flight.op = "archive" =>
           /\ s \in stored' /\ (s \in archived' <=> flight.view = "Archived")
    /\ flight'.step = "done" => flight'.clean = (s \notin moved)

\* The engine changes the session of the operation alone.
LEMMA EngineIs ==
    ASSUME StateTyped, EngineRuns
    PROVE  StateTyped' /\ EngineStep(flight.session)
<1> DEFINE s == flight.session
<1>1. s \in Saved /\ flight \in Flights /\ flight.op # "none"
    BY DEF EngineRuns, StateTyped, OpsTyped
<1>2. /\ at' = at /\ open' = open /\ scope' = scope /\ live' = live /\ archive' = archive
      /\ confirm' = confirm /\ moved' = moved \cup {s} /\ settled' = [settled EXCEPT ![s] = "no"]
    BY DEF EngineRuns
<1>3. CASE /\ s \in stored \ {live}
           /\ flight' = [flight EXCEPT !.step = "done", !.clean = s \notin moved]
           /\ IF flight.op = "delete"
              THEN stored' = stored \ {s} /\ UNCHANGED archived
              ELSE /\ archived' = IF flight.view = "Archived" THEN archived \cup {s}
                                                              ELSE archived \ {s}
                   /\ UNCHANGED stored
    <2>1. /\ flight' \in Flights /\ flight'.step = "done" /\ flight'.session = s
          /\ flight'.op = flight.op /\ flight'.view = flight.view
          /\ flight'.clean = (s \notin moved)
        BY <1>1, <1>3 DEF Flights
    <2>2. stored' \subseteq Saved /\ archived' \subseteq Saved
        BY <1>1, <1>3 DEF StateTyped, StoreTyped
    <2>3. StoreTyped' /\ OpsTyped'
        BY <1>1, <1>2, <2>1, <2>2 DEF StateTyped, StoreTyped, OpsTyped
    <2>4. \A t \in Saved \ {s} : (t \in stored' <=> t \in stored)
                                 /\ (t \in archived' <=> t \in archived)
        BY <1>3
    <2>5. flight.op = "archive" => s \in stored' /\ (s \in archived' <=> flight.view = "Archived")
        BY <1>3
    <2> QED BY <1>1, <1>2, <2>1, <2>3, <2>4, <2>5 DEF StateTyped, EngineStep
<1>4. CASE /\ flight' = [flight EXCEPT !.step = "failed"]
           /\ UNCHANGED archived
           /\ stored' \in IF flight.op = "delete" /\ s # live
                          THEN {stored, stored \ {s}} ELSE {stored}
    <2>1. /\ flight' \in Flights /\ flight'.step = "failed" /\ flight'.session = s
          /\ flight'.op = flight.op /\ flight'.view = flight.view
        BY <1>1, <1>4 DEF Flights
    <2>2. stored' = stored \/ stored' = stored \ {s}
        BY <1>4
    <2>3. StoreTyped' /\ OpsTyped'
        BY <1>1, <1>2, <1>4, <2>1, <2>2 DEF StateTyped, StoreTyped, OpsTyped
    <2>4. \A t \in Saved \ {s} : (t \in stored' <=> t \in stored)
                                 /\ (t \in archived' <=> t \in archived)
        BY <1>4, <2>2
    <2> QED BY <1>1, <1>2, <2>1, <2>3, <2>4 DEF StateTyped, EngineStep
<1> QED BY <1>3, <1>4 DEF EngineRuns

\* The end of an operation keeps the types.
LEMMA EventTyped == ASSUME StateTyped, TakeEvent PROVE StateTyped'
<1>1. flight.session \in Saved /\ flight \in Flights
    BY DEF StateTyped, OpsTyped, TakeEvent
<1>2. flight' = NoFlight /\ NoFlight \in Flights /\ NoFlight.step = "ended" /\ NoFlight.op = "none"
    BY DEF TakeEvent, NoFlight, Flights
<1>3. settled' \in [Saved -> {"no", "archive", "delete"}]
    <2>1. flight.op \in {"archive", "delete"}
        BY DEF TakeEvent
    <2> QED BY <1>1, <2>1 DEF StateTyped, StoreTyped, TakeEvent
<1>4. stored' = stored /\ at' = at /\ archived' = archived /\ open' = open /\ live' = live
    BY DEF TakeEvent, store
<1>5. CASE ArchiveUpdated /\ UNCHANGED confirm
    <2>1. scope' \in Scopes /\ moved' \subseteq Saved
        <3>1. scope \in Scopes /\ moved \subseteq Saved
            BY DEF StateTyped, StoreTyped
        <3>2. ReloadAs(scope) => scope' \in Scopes /\ moved' = {}
            BY <3>1, ReloadStore
        <3>3. \/ scope' = scope /\ moved' = moved
              \/ ReloadAs(scope)
              \/ scope' = scope /\ moved' = moved \cup {flight.session}
            BY <1>5 DEF ArchiveUpdated
        <3> QED BY <1>1, <3>1, <3>2, <3>3
    <2>2. archive' = NoArchive /\ confirm' = confirm
        BY <1>5 DEF ArchiveUpdated
    <2>3. StoreTyped'
        BY <1>3, <1>4, <2>1 DEF StateTyped, StoreTyped
    <2>4. OpsTyped'
        BY <1>2, <2>2 DEF StateTyped, OpsTyped, NoArchive
    <2> QED BY <2>3, <2>4 DEF StateTyped
<1>6. CASE SavedDeleted
    <2>1. scope' = scope /\ archive' = archive /\ moved' = moved \cup {flight.session}
        BY <1>6 DEF SavedDeleted
    <2>2. confirm' \in [session : Saved \cup {NoSession}, pending : BOOLEAN]
        BY <1>6 DEF SavedDeleted, StateTyped, OpsTyped, NoConfirm
    <2>3. StoreTyped'
        BY <1>1, <1>3, <1>4, <2>1 DEF StateTyped, StoreTyped
    <2>4. OpsTyped'
        BY <1>2, <1>4, <2>1, <2>2 DEF StateTyped, OpsTyped
    <2> QED BY <2>3, <2>4 DEF StateTyped
<1> QED BY <1>5, <1>6 DEF TakeEvent

\* The rest leaves the store and the operations alone, but for other processes.
OthersStep(s) ==
    /\ s \in Saved /\ moved' = moved \cup {s} /\ settled' = [settled EXCEPT ![s] = "no"]
    /\ \A t \in Saved \ {s} : /\ t \in stored' <=> t \in stored
                              /\ t \in archived' <=> t \in archived
                              /\ at'[t] = at[t]
    /\ flight'.session = flight.session /\ flight'.op = flight.op /\ flight'.step = flight.step
    /\ flight'.view = flight.view /\ (flight'.clean => flight.clean /\ s # flight.session)

\* Another process changes one session.
LEMMA OthersIs ==
    ASSUME StateTyped, OthersWrite
    PROVE  StateTyped' /\ \E s \in Saved : OthersStep(s)
<1>1. PICK s \in Saved \ {live} :
         /\ \/ stored' = stored \cup {s} /\ UNCHANGED archived
               /\ \E t \in 0..MaxAt : at' = [at EXCEPT ![s] = t]
            \/ s \in stored /\ archived' = (archived \ {s}) \cup ({s} \ archived)
               /\ UNCHANGED <<stored, at>>
            \/ s \in stored /\ stored' = stored \ {s} /\ UNCHANGED <<archived, at>>
         /\ moved' = moved \cup {s}
         /\ settled' = [settled EXCEPT ![s] = "no"]
         /\ flight' = [flight EXCEPT !.clean = @ /\ s # flight.session]
    BY DEF OthersWrite
<1>2. /\ stored \subseteq Saved /\ archived \subseteq Saved /\ at \in [Saved -> 0..MaxAt]
      /\ flight \in Flights
    BY DEF StateTyped, StoreTyped, OpsTyped
<1>3. /\ stored' \subseteq Saved /\ archived' \subseteq Saved
      /\ \A t \in Saved \ {s} : /\ t \in stored' <=> t \in stored
                                /\ t \in archived' <=> t \in archived
    BY <1>1, <1>2
<1>4. at' \in [Saved -> 0..MaxAt] /\ \A t \in Saved \ {s} : at'[t] = at[t]
    BY <1>1, <1>2
<1>5. /\ flight' \in Flights /\ flight'.session = flight.session /\ flight'.op = flight.op
      /\ flight'.step = flight.step /\ flight'.view = flight.view
      /\ flight'.clean = (flight.clean /\ s # flight.session)
    <2> DEFINE c == flight.clean /\ s # flight.session
    <2>1. flight.clean \in BOOLEAN /\ c \in BOOLEAN
        BY <1>2 DEF Flights
    <2>2. flight' = [flight EXCEPT !.clean = c]
        BY <1>1
    <2> HIDE DEF c
    <2>3. /\ flight' \in Flights /\ flight'.session = flight.session /\ flight'.op = flight.op
          /\ flight'.step = flight.step /\ flight'.view = flight.view /\ flight'.clean = c
        BY <1>2, <2>1, <2>2 DEF Flights
    <2> QED BY <2>3 DEF c
<1>6. /\ open' = open /\ scope' = scope /\ live' = live /\ archive' = archive
      /\ confirm' = confirm
    BY DEF OthersWrite
<1>7. moved' = moved \cup {s} /\ settled' = [settled EXCEPT ![s] = "no"]
    BY <1>1
<1>8. StoreTyped'
    BY <1>3, <1>4, <1>6, <1>7 DEF StateTyped, StoreTyped
<1>9. OpsTyped'
    BY <1>5, <1>6 DEF StateTyped, OpsTyped
<1>10. OthersStep(s)
    BY <1>3, <1>4, <1>5, <1>7 DEF OthersStep
<1> QED BY <1>8, <1>9, <1>10 DEF StateTyped

\* Pages change nothing of the store.
LEMMA PagesTyped ==
    ASSUME StateTyped, ReadPage \/ TakePage
    PROVE  StateTyped' /\ Seen' = Seen
<1>1. /\ UNCHANGED <<store, scope, moved, asked>> /\ open' = open
    BY DEF ReadPage, Reads, TakePage
<1>2. StoreTyped' /\ OpsTyped'
    BY <1>1 DEF StateTyped, StoreTyped, OpsTyped, store, asked
<1>3. Seen' = Seen
    BY <1>1 DEF Seen, InScope, store, asked
<1> QED BY <1>2, <1>3 DEF StateTyped

-----------------------------------------------------------------------------
(***************************************************************************)
(* The engine, other processes and the page workers leave a view that fits. *)
(***************************************************************************)
LEMMA WithinIs ==
    ASSUME NEW s \in Saved
    PROVE  /\ s \in Seen.within <=> InScope(s, scope)
           /\ s \in Seen'.within <=> InScope(s, scope)'
BY DEF Seen

\* What the engine changed counts as moved.
LEMMA EngineShown ==
    ASSUME OnScreen, StateTyped, EngineRuns
    PROVE  OnScreen'
<1> DEFINE s == flight.session
<1>1. StateTyped' /\ EngineStep(s)
    BY EngineIs
<1>2. /\ UNCHANGED <<at, open, scope, live>>
      /\ UNCHANGED <<open, list, pages, workers, arrived, left>>
    BY DEF EngineRuns, outbox
<1>3. moved' = moved \cup {s}
    BY <1>1 DEF EngineStep
<1>4. Later(Seen, Seen')
    <2>1. ASSUME NEW t \in Saved \ moved' PROVE InScope(t, scope)' <=> InScope(t, scope)
        BY <1>1, <1>2, <1>3 DEF EngineStep, InScope
    <2> QED BY <1>2, <1>3, <2>1 DEF Later, Seen
<1>5. moved' # {}
    BY <1>3
<1> HIDE DEF s
<1> QED BY <1>1, <1>2, <1>4, <1>5, StoreShown DEF StateTyped

\* What another process changed does.
LEMMA OthersShown ==
    ASSUME OnScreen, StateTyped, OthersWrite
    PROVE  OnScreen'
<1>1. PICK s \in Saved : StateTyped' /\ OthersStep(s)
    BY OthersIs
<1>2. UNCHANGED <<scope, live>> /\ UNCHANGED <<open, list, pages, workers, arrived, left>>
    BY DEF OthersWrite, outbox
<1>3. moved' = moved \cup {s}
    BY <1>1 DEF OthersStep
<1>4. Later(Seen, Seen')
    <2>1. ASSUME NEW t \in Saved \ moved' PROVE InScope(t, scope)' <=> InScope(t, scope)
        BY <1>1, <1>2, <1>3 DEF OthersStep, InScope
    <2>2. \A t \in Saved \ moved' : at'[t] = at[t]
        BY <1>1, <1>3 DEF OthersStep
    <2> QED BY <1>2, <1>3, <2>1, <2>2 DEF Later, Seen
<1>5. moved' # {}
    BY <1>3
<1> QED BY <1>1, <1>2, <1>4, <1>5, StoreShown DEF StateTyped

\* The event of an operation: a row may leave, or the listing begin again.
LEMMA EventShown ==
    ASSUME OnScreen, StateTyped, TakeEvent
    PROVE  OnScreen'
<1> DEFINE s == flight.session
<1>1. s \in Saved /\ StoreTyped /\ StateTyped' /\ StoreTyped' /\ scope \in Scopes
    BY EventTyped DEF StateTyped, OpsTyped, StoreTyped, TakeEvent
<1>2. /\ UNCHANGED <<stored, at, archived, live>> /\ open' = open
      /\ UNCHANGED outbox /\ arrived' = arrived /\ left' = left
    BY DEF TakeEvent, store, outbox
<1>3. ASSUME scope' = scope, moved' = moved \cup {s}
      PROVE  Later(Seen, Seen') /\ moved' # {} /\ s \in Seen'.moved
    BY <1>2, <1>3 DEF Later, Seen, InScope
<1>4. list \in Listings /\ CursorFits(list)
    BY DEF OnScreen
<1>5. /\ Without(s) \in Listings /\ CursorFits(Without(s))
      /\ Without(s).rows = Keeping(list.rows, Saved \ {s})
      /\ Without(s).load = list.load
    BY <1>4, WithoutIs
<1>6. Seen \in Views /\ Seen' \in Views
    BY <1>1, SeenTyped
<1>7. ASSUME open, scope' = scope, moved' = moved \cup {s}
      PROVE  ViewFits(Without(s), pages, workers, arrived, left, Seen')
    <2>1. ViewFits(list, pages, workers, arrived, left, Seen) /\ arrived \in Seq(Answers)
        BY <1>1, <1>7, ShownView
    <2>2. ViewFits(list, pages, workers, arrived, left, Seen')
        BY <1>3, <1>4, <1>6, <1>7, <2>1, LaterFits
    <2> QED BY <1>3, <1>4, <1>5, <1>6, <1>7, <2>2, WithoutFits
<1>8. CASE ArchiveUpdated
    <2>1. CASE UNCHANGED <<scope, list, pages, workers, moved>>
        <3>1. Seen' = Seen
            BY <1>2, <2>1 DEF Seen, InScope
        <3> QED BY <1>2, <2>1, <3>1 DEF OnScreen, ChannelsTyped, PagesFit, CursorFits
    <2>2. CASE archive.session = s /\ archive.relisted /\ ReloadAs(scope)
        <3>1. open
            BY <1>1, <2>2, PickerAssumption DEF StateTyped, OpsTyped, NoArchive
        <3> QED BY <1>1, <1>2, <2>2, <3>1, ReloadShown
    <2>3. CASE /\ archive.session = s /\ list' = Without(s) /\ moved' = moved \cup {s}
               /\ UNCHANGED <<scope, pages, workers>>
        <3>1. open
            BY <1>1, <2>3, PickerAssumption DEF StateTyped, OpsTyped, NoArchive
        <3>2. ViewFits(list', pages, workers, arrived, left, Seen')
            BY <1>7, <2>3, <3>1
        <3>3. Enough(list', pages, Seen')
            BY <1>3, <2>3 DEF Enough, Seen
        <3>4. list' \in Listings /\ CursorFits(list)'
            BY <1>5, <2>3 DEF CursorFits
        <3> QED BY <1>1, <1>2, <2>3, <3>2, <3>3, <3>4, StaysShown
    <2> QED BY <1>8, <2>1, <2>2, <2>3 DEF ArchiveUpdated
<1>9. CASE SavedDeleted
    <2>1. scope' = scope /\ moved' = moved \cup {s}
        BY <1>9 DEF SavedDeleted
    <2>2. CASE open /\ ShowAhead(Without(s), pages)
        <3>1. /\ ViewFits(Without(s), pages, workers, arrived', left', Seen')
              /\ arrived \in Seq(Answers)
            BY <1>1, <1>2, <1>7, <2>1, <2>2, ShownView
        <3>2. ChannelsTyped /\ pages \in PageStates
            BY DEF OnScreen
        <3> HIDE DEF s
        <3> QED BY <1>2, <1>5, <2>2, <3>1, <3>2, ShowAheadFits
    <2>3. CASE UNCHANGED <<list, pages, workers>>
        <3> QED BY <1>1, <1>2, <1>3, <2>1, <2>3, StoreShown
    <2> QED BY <1>9, <2>2, <2>3 DEF SavedDeleted
<1> QED BY <1>8, <1>9 DEF TakeEvent

-----------------------------------------------------------------------------
\* The page a worker reads follows the walk it was started with.
LEMMA PageFollows ==
    ASSUME StoreTyped, NEW walk \in Walks, walk.scope = scope,
           NEW answer \in Answers, answer.walk = NextPage(walk).walk,
           answer.rows = NextPage(walk).rows
    PROVE  Follows(answer, walk, Seen) /\ \A s \in Range(answer.rows) : s \in Seen.within
<1> DEFINE page == NextPage(walk)
<1>1. /\ page.rows \in Seq(Saved) /\ page.walk.scope = walk.scope
      /\ \A i, j \in DOMAIN page.rows :
             i < j => Precedes(Place(page.rows[i]), Place(page.rows[j]))
      /\ \A i \in DOMAIN page.rows :
             /\ InScope(page.rows[i], walk.scope) /\ Beyond(walk.after, page.rows[i])
             /\ ~ Beyond(page.walk.after, page.rows[i])
      /\ \A s \in Saved :
             InScope(s, walk.scope) /\ Beyond(walk.after, s) /\ s \notin Range(page.rows) =>
                 ~ page.walk.exhausted /\ Beyond(page.walk.after, s)
      /\ \/ page.walk.after = walk.after
         \/ /\ page.walk.after # <<>>
            /\ walk.after # <<>> => Precedes(walk.after, page.walk.after)
    BY NextPageIs
<1> HIDE DEF page
<1>2. answer.rows = page.rows /\ answer.walk = page.walk
    BY DEF page
<1>3. \A a, s : /\ Past(a, s, Seen) <=> Beyond(a, s)
                /\ PlaceIn(Seen, s) = Place(s)
    BY DEF Past, PlaceIn, Seen, Beyond, Place
<1>4. \A i \in DOMAIN page.rows : page.rows[i] \in Saved /\ page.rows[i] \in Seen.within
    <2> TAKE i \in DOMAIN page.rows
    <2>1. page.rows[i] \in Saved
        BY <1>1, LenProperties, ElementOfSeq
    <2>2. InScope(page.rows[i], scope)
        BY <1>1
    <2> QED BY <2>1, <2>2, WithinIs
<1>5. \A s \in Seen.within : s \in Saved /\ InScope(s, walk.scope)
    BY WithinIs DEF Seen
<1>6. Sorted(answer.rows, Seen)
    BY <1>1, <1>2, <1>3 DEF Sorted
<1>7. Follows(answer, walk, Seen)
    BY <1>1, <1>2, <1>3, <1>4, <1>5, <1>6 DEF Follows
<1>8. \A s \in Range(answer.rows) : s \in Seen.within
    BY <1>2, <1>4 DEF Range
<1> QED BY <1>7, <1>8

\* A worker that reads: no page of the picker's own offers what is out of its scope.
LEMMA ReadShown ==
    ASSUME OnScreen, StateTyped, ReadPage
    PROVE  /\ OnScreen'
           /\ open => \A s : Offers(pages', arrived', s) =>
                                 Offers(pages, arrived, s) \/ s \in Seen.within
<1>1. PICK w \in workers : Reads(w)
    BY DEF ReadPage
<1>2. PICK end \in {"page", "failed"} :
          arrived' = Append(arrived, [request |-> w.request,
              walk |-> (IF end = "page" THEN NextPage(w.walk)
                                        ELSE [rows |-> <<>>, walk |-> w.walk]).walk,
              end |-> end,
              rows |-> (IF end = "page" THEN NextPage(w.walk)
                                        ELSE [rows |-> <<>>, walk |-> w.walk]).rows])
    BY <1>1 DEF Reads
<1>3. /\ workers \subseteq Works /\ IsFiniteSet(workers) /\ arrived \in Seq(Answers)
      /\ w.request \in Nat /\ w.walk \in Walks /\ StoreTyped
    BY DEF OnScreen, ChannelsTyped, StateTyped, Works
<1> DEFINE next == IF end = "page" THEN NextPage(w.walk) ELSE [rows |-> <<>>, walk |-> w.walk]
           answer == [request |-> w.request, walk |-> next.walk, end |-> end, rows |-> next.rows]
<1>4. next.rows \in Seq(Saved) /\ next.walk \in Walks
    <2>1. NextPage(w.walk).rows \in Seq(Saved) /\ NextPage(w.walk).walk \in Walks
        BY <1>3, NextPageIs
    <2>2. <<>> \in Seq(Saved)
        BY EmptySeq
    <2> QED BY <1>3, <2>1, <2>2
<1>5. answer \in Answers /\ answer.request = w.request /\ answer.end = end
      /\ answer.walk = next.walk /\ answer.rows = next.rows
    BY <1>3, <1>4 DEF Answers
<1>6. end = "page" => next = NextPage(w.walk)
    OBVIOUS
<1>7. arrived' = Append(arrived, answer)
    BY <1>2
<1> HIDE DEF answer, next
<1>8. arrived' \in Seq(Answers) /\ Appends(arrived, answer, arrived')
    BY <1>3, <1>5, <1>7, AppendIs
<1>9. /\ workers' = workers \ {w} /\ open' = open /\ list' = list /\ pages' = pages /\ left' = left
      /\ Seen' = Seen
    BY <1>1, PagesTyped DEF Reads
<1>10. Apart(workers, arrived) /\ left \subseteq Requests(workers, arrived)
       /\ (~ open => Requests(workers, arrived) \subseteq left)
    BY DEF OnScreen, PagesFit
<1>11. Apart(workers', arrived') /\ Requests(workers', arrived') = Requests(workers, arrived)
    <2>1. Apart(workers \ {w}, arrived')
        BY <1>5, <1>8, <1>10, ReadFits
    <2>2. \A x : x \in Requests(workers \ {w}, arrived') <=> x \in Requests(workers, arrived)
        BY <1>5, <1>8, <1>10, ReadFits
    <2> QED BY <1>9, <2>1, <2>2
<1>12. workers' \subseteq Works /\ IsFiniteSet(workers')
    BY <1>3, <1>9, FS_Subset
<1>13. ASSUME open
       PROVE  /\ ViewFits(list, pages, workers', arrived', left, Seen)
              /\ Enough(list, pages, Seen)
              /\ \A s : Offers(pages, arrived', s) =>
                            Offers(pages, arrived, s) \/ s \in Seen.within
    <2>1. ViewFits(list, pages, workers, arrived, left, Seen) /\ Enough(list, pages, Seen)
        BY <1>3, <1>13, ShownView
    <2>2. AllFollow(pages, workers, arrived, Seen)
        BY <2>1 DEF ViewFits, Listing
    <2>3. ASSUME pages.state = "Loading", w.request = pages.request, end = "page"
          PROVE  Follows(answer, w.walk, Seen) /\ \A s \in Range(answer.rows) : s \in Seen.within
        <3>1. w.walk = pages.walk
            BY <2>2, <2>3 DEF AllFollow
        <3>2. pages.walk.scope = Seen.scope
            <4>1. list.load = "Loading"
                BY <2>1, <2>3 DEF ViewFits, One
            <4> QED BY <2>1, <4>1 DEF ViewFits, Listing, Reached
        <3>3. w.walk.scope = scope
            BY <3>1, <3>2 DEF Seen
        <3> QED BY <1>3, <1>5, <1>6, <2>3, <3>3, PageFollows
    <2>4. AllFollow(pages, workers', arrived', Seen)
        <3>1. pages.state = "Loading" /\ w.request = pages.request /\ answer.end = "page" =>
                  Follows(answer, w.walk, Seen)
            BY <1>5, <2>3
        <3> QED BY <1>5, <1>8, <1>9, <1>10, <2>2, <3>1, ReadFits
    <2>5. \A s : Offers(pages, arrived', s) => Offers(pages, arrived, s) \/ s \in Seen.within
        <3> TAKE s
        <3>1. Offers(pages, arrived', s) =>
                  \/ Offers(pages, arrived, s)
                  \/ /\ pages.state = "Loading" /\ answer.request = pages.request
                     /\ answer.end = "page" /\ s \in Range(answer.rows)
            BY <1>8, ReadOffers
        <3>2. ASSUME pages.state = "Loading", w.request = pages.request, answer.end = "page",
                     s \in Range(answer.rows)
              PROVE  s \in Seen.within
            <4>1. end = "page"
                BY <1>5, <3>2
            <4> QED BY <2>3, <3>2, <4>1
        <3> QED BY <1>5, <3>1, <3>2
    <2>6. Listing(list, pages, workers', arrived', Seen)
        BY <2>1, <2>4 DEF ViewFits, Listing
    <2>7. One(list, pages, workers', arrived', left)
        BY <1>11, <2>1 DEF ViewFits, One, Waits
    <2> QED BY <2>1, <2>5, <2>6, <2>7 DEF ViewFits
<1>14. PagesFit'
    BY <1>9, <1>10, <1>11, <1>13 DEF PagesFit
<1>15. ChannelsTyped'
    BY <1>8, <1>12 DEF ChannelsTyped
<1>16. list' \in Listings /\ CursorFits(list)' /\ pages' \in PageStates
    BY <1>9 DEF OnScreen, CursorFits
<1> QED BY <1>9, <1>13, <1>14, <1>15, <1>16 DEF OnScreen

-----------------------------------------------------------------------------
(***************************************************************************)
(* A page that arrived.                                                    *)
(***************************************************************************)
LEMMA AppendedIs ==
    ASSUME list \in Listings, CursorFits(list), NEW page \in Answers
    PROVE  /\ Appended(page) \in Listings /\ CursorFits(Appended(page))
           /\ Joins(Appended(page).rows, list.rows, Keeping(page.rows, Saved \ {live}))
           /\ Appended(page).load = IF page.walk.exhausted THEN "Complete" ELSE "Loading"
<1> DEFINE more == Keeping(page.rows, Saved \ {live})
           k == Appended(page)
<1>1. list.rows \in Seq(Saved) /\ list.cursor \in Nat /\ page.rows \in Seq(Saved)
    BY DEF Listings, Answers
<1>2. more \in Seq(Saved)
    BY <1>1, KeepingIs
<1>3. /\ list.rows \o more \in Seq(Saved) /\ Joins(list.rows \o more, list.rows, more)
    BY <1>1, <1>2, JoinsConcat
<1>4. k = [list EXCEPT !.rows = @ \o more,
                       !.load = IF page.walk.exhausted THEN "Complete" ELSE "Loading"]
    BY DEF Appended
<1>11. Joins(list.rows \o more, list.rows, Keeping(page.rows, Saved \ {live}))
    BY <1>3
<1> HIDE DEF more, k
<1>5. /\ k \in Listings /\ k.rows = list.rows \o more /\ k.cursor = list.cursor
      /\ k.query = list.query
      /\ k.load = IF page.walk.exhausted THEN "Complete" ELSE "Loading"
    BY <1>3, <1>4 DEF Listings
<1>6. /\ Len(Filtered(list)) \in Nat /\ Len(Filtered(k)) \in Nat
    BY <1>5, FilteredIs
<1>7. Len(Filtered(list)) <= Len(Filtered(k))
    <2>1. CASE list.query
        BY <1>1, <1>2, <1>5, <2>1, KeepingGrows DEF Filtered
    <2>2. CASE ~ list.query
        <3>1. Len(list.rows \o more) = Len(list.rows) + Len(more) /\ Len(list.rows) \in Nat
              /\ Len(more) \in Nat
            BY <1>1, <1>2, LenProperties, ConcatProperties
        <3> QED BY <1>5, <2>2, <3>1 DEF Filtered
    <2> QED BY <2>1, <2>2
<1>8. CursorFits(k)
    BY <1>1, <1>5, <1>6, <1>7 DEF CursorFits
<1> QED BY <1>11, <1>5, <1>8 DEF k

\* The rows that were there stay.
LEMMA JoinsKeeps ==
    ASSUME NEW all \in Seq(Saved), NEW rows \in Seq(Saved), NEW more \in Seq(Saved),
           Joins(all, rows, more), NEW s \in Range(rows)
    PROVE  s \in Range(all)
<1>1. /\ DOMAIN rows = 1..Len(rows) /\ DOMAIN all = 1..Len(all) /\ Len(rows) \in Nat
      /\ Len(more) \in Nat
    BY LenProperties
<1>2. PICK i \in 1..Len(rows) : s = rows[i]
    BY <1>1 DEF Range
<1>3. i \in 1..Len(all) /\ all[i] = s
    BY <1>1, <1>2 DEF Joins
<1> QED BY <1>1, <1>3 DEF Range

\* What the picker has of a session once a page was taken.
Takes(s) ==
    /\ Offers(pages', arrived', s) => Offers(pages, arrived, s)
    /\ s \in Range(list'.rows) => s \in Range(list.rows) \/ Offers(pages, arrived, s)
    /\ s \in Range(list.rows) => s \in Range(list'.rows)

\* A page is put below the rows, or lets the next be asked for, or ends the listing.
LEMMA TakeShown ==
    ASSUME OnScreen, StateTyped, TakePage
    PROVE  OnScreen' /\ (open => \A s : Takes(s))
<1> DEFINE page == Head(arrived)
           r == page.request
<1>1. /\ arrived # <<>> /\ arrived' = Tail(arrived) /\ left' = left \ {r} /\ open' = open
      /\ arrived \in Seq(Answers) /\ workers \subseteq Works /\ IsFiniteSet(workers)
      /\ StoreTyped /\ list \in Listings /\ CursorFits(list) /\ pages \in PageStates
    BY DEF TakePage, OnScreen, ChannelsTyped, StateTyped
<1>2. page \in Answers /\ arrived' \in Seq(Answers) /\ Tailed(arrived, page, arrived')
    BY <1>1, TailIs
<1>3. Seen' = Seen /\ StoreTyped' /\ Seen \in Views
    BY <1>1, PagesTyped, SeenTyped DEF StateTyped
<1>4. Apart(workers, arrived) /\ left \subseteq Requests(workers, arrived)
       /\ (~ open => Requests(workers, arrived) \subseteq left)
    BY DEF OnScreen, PagesFit
<1>5. IF ~open THEN UNCHANGED <<list, pages, workers>>
      ELSE IF IsAwaited(page)
      THEN IF page.end = "page" THEN ShowAhead(Appended(page), Rest(page.walk))
           ELSE /\ list' = [list EXCEPT !.load = "Failed"]
                /\ pages' = NoPages
                /\ UNCHANGED workers
      ELSE ShowAhead(list, IF pages.state = "Reloading" /\ pages.request = page.request
                           THEN Rest(pages.walk) ELSE pages)
    BY DEF TakePage, PageOther
<1> HIDE DEF page
<1>6. /\ Apart(workers, arrived')
      /\ \A x : x \in Requests(workers, arrived') <=> x \in Requests(workers, arrived) /\ x # r
    BY <1>2, <1>4, TailFits
<1>7. Requests(workers, arrived') \subseteq Requests(workers, arrived)
    BY <1>6
<1>8. ChannelsTyped
    BY DEF OnScreen
<1>9. CASE ~ open
    <2>1. list' = list /\ pages' = pages /\ workers' = workers
        BY <1>5, <1>9
    <2>2. PagesFit'
        BY <1>1, <1>4, <1>6, <1>9, <2>1 DEF PagesFit
    <2>3. ChannelsTyped'
        BY <1>1, <1>2, <2>1 DEF ChannelsTyped
    <2>4. list' \in Listings /\ CursorFits(list)' /\ pages' \in PageStates
        BY <1>1, <2>1 DEF CursorFits
    <2> QED BY <1>9, <2>2, <2>3, <2>4 DEF OnScreen
<1>10. ASSUME open PROVE ViewFits(list, pages, workers, arrived, left, Seen)
    BY <1>1, <1>10, ShownView
<1>11. CASE open /\ IsAwaited(page) /\ page.end = "page"
    <2> DEFINE k == Appended(page)
               qs == Rest(page.walk)
    <2>1. /\ k \in Listings /\ CursorFits(k)
          /\ Joins(k.rows, list.rows, Keeping(page.rows, Saved \ {live}))
          /\ k.load = IF page.walk.exhausted THEN "Complete" ELSE "Loading"
        BY <1>1, <1>2, AppendedIs
    <2>2. pages.state = "Loading" /\ pages.request = page.request /\ page.end = "page"
        BY <1>11 DEF IsAwaited
    <2>3. Joins(k.rows, list.rows, Keeping(page.rows, Saved \ {Seen.live}))
        BY <2>1 DEF Seen
    <2> HIDE DEF k
    <2>4. /\ qs \in PageStates
          /\ ViewFits(k, qs, workers, arrived', left \ {page.request}, Seen)
          /\ \A s : ~ Offers(qs, arrived', s)
          /\ \A s \in Range(k.rows) : s \in Range(list.rows) \/ Offers(pages, arrived, s)
        BY <1>1, <1>2, <1>3, <1>10, <1>11, <2>1, <2>2, <2>3, AwaitedFits
    <2>5. ShowAhead(k, qs)
        BY <1>5, <1>11 DEF k
    <2> HIDE DEF qs
    <2>6. ViewFits(k, qs, workers, arrived', left', Seen')
        BY <1>1, <1>3, <2>4
    <2>7. OnScreen' /\ \A s : Offers(pages', arrived', s) => Offers(qs, arrived', s)
        BY <1>1, <1>2, <1>7, <1>8, <1>11, <2>1, <2>4, <2>5, <2>6, ShowAheadFits
    <2>8. list' = k
        BY <2>5 DEF ShowAhead
    <2>9. \A s \in Range(list.rows) : s \in Range(k.rows)
        <3>1. /\ Keeping(page.rows, Saved \ {live}) \in Seq(Saved)
              /\ k.rows \in Seq(Saved) /\ list.rows \in Seq(Saved)
            BY <1>1, <1>2, <2>1, KeepingIs DEF Answers, Listings
        <3> QED BY <2>1, <3>1, JoinsKeeps
    <2> QED BY <2>4, <2>7, <2>8, <2>9 DEF Takes
<1>12. CASE open /\ IsAwaited(page) /\ page.end # "page"
    <2>1. list' = [list EXCEPT !.load = "Failed"] /\ pages' = NoPages /\ workers' = workers
        BY <1>5, <1>12
    <2>2. /\ list' \in Listings /\ list'.rows = list.rows /\ list'.load = "Failed"
          /\ list'.query = list.query /\ list'.cursor = list.cursor
        BY <1>1, <2>1 DEF Listings
    <2>3. CursorFits(list)'
        BY <1>1, <2>2 DEF CursorFits, Filtered
    <2>4. pages' \in PageStates /\ pages'.state = "Done"
        BY <2>1 DEF NoPages, Walk, PageStates, Walks, Scopes
    <2>5. /\ pages.state = "Loading" /\ pages.request = r
          /\ ViewFits(list, pages, workers, arrived, left, Seen)
        BY <1>10, <1>12 DEF IsAwaited
    <2>6. Waits(pages', workers', arrived', left')
        <3>1. Requests(workers, arrived) \ left = {r}
            BY <2>5 DEF ViewFits, One, Waits
        <3>2. Requests(workers, arrived') \ left' = {}
            BY <1>1, <1>6, <3>1
        <3> QED BY <2>1, <2>4, <3>2 DEF Waits
    <2>7. Apart(workers', arrived') /\ left' \subseteq Requests(workers', arrived')
        BY <1>1, <1>4, <1>6, <2>1
    <2>8. One(list', pages', workers', arrived', left')
        BY <2>2, <2>4, <2>6, <2>7 DEF One
    <2>9. Listing(list', pages', workers', arrived', Seen)
        BY <2>2, <2>4, <2>5 DEF ViewFits, Listing, AllFollow
    <2>10. PagesFit'
        BY <1>1, <1>3, <1>12, <2>4, <2>7, <2>8, <2>9 DEF PagesFit, ViewFits, Enough
    <2>11. ChannelsTyped'
        BY <1>1, <1>2, <2>1 DEF ChannelsTyped
    <2>12. \A s : ~ Offers(pages', arrived', s)
        BY <2>4 DEF Offers
    <2> QED BY <2>2, <2>3, <2>4, <2>10, <2>11, <2>12 DEF OnScreen, Takes
<1>13. CASE open /\ ~ IsAwaited(page)
    <2> DEFINE qs == Other(pages, r)
    <2>1. ~ (pages.state = "Loading" /\ pages.request = r)
        BY <1>13 DEF IsAwaited
    <2>3. ShowAhead(list, qs)
        BY <1>5, <1>13 DEF Other
    <2>7. Carries(page, r) /\ ~ Waiting(pages, r)
        BY <2>1 DEF Carries, Waiting
    <2>8. ViewFits(list, pages, workers, arrived, left, Seen)
        BY <1>10, <1>13
    <2> HIDE DEF qs, r
    <2>2. /\ qs \in PageStates
          /\ ViewFits(list, qs, workers, arrived', left \ {r}, Seen)
          /\ \A s : Offers(qs, arrived', s) => Offers(pages, arrived, s)
        BY <1>1, <1>2, <2>7, <2>8, OtherFits DEF qs
    <2>4. ViewFits(list, qs, workers, arrived', left', Seen')
        BY <1>1, <1>3, <2>2
    <2>5. OnScreen' /\ \A s : Offers(pages', arrived', s) => Offers(qs, arrived', s)
        BY <1>1, <1>2, <1>7, <1>8, <1>13, <2>2, <2>3, <2>4, ShowAheadFits
    <2>6. list' = list
        BY <2>3 DEF ShowAhead
    <2> QED BY <2>2, <2>5, <2>6 DEF Takes
<1> QED BY <1>9, <1>11, <1>12, <1>13

-----------------------------------------------------------------------------
(***************************************************************************)
(* What the picker was told it did stays true of its rows and of the page   *)
(* it awaits.                                                              *)
(***************************************************************************)
Rows == Range(list.rows)
Keeps(s) ==
    /\ Offers(pages', arrived', s) => Offers(pages, arrived, s) \/ s \in Seen.within
    /\ s \in Rows' => s \in Rows \/ Offers(pages, arrived, s)
    /\ s \in Rows => s \in Rows'

\* The archive in flight agrees with rows that are kept.
LEMMA ArchiveStays ==
    ASSUME ArchiveAgrees, Seen' = Seen, scope' = scope, open' = open, archive' = archive,
           flight' = flight, open => \A s : Keeps(s)
    PROVE  ArchiveAgrees'
<1> DEFINE s == flight.session
<1> SUFFICES ASSUME open, flight.op = "archive"
             PROVE  /\ archive.session = s
                    /\ flight.step = "sent" /\ ~ archive.relisted =>
                           s \in Rows' /\ flight.view = Flip(scope.view)
                    /\ flight.step = "done" /\ flight.clean /\ ~ archive.relisted =>
                           s \notin Seen.within /\ ~ Offers(pages', arrived', s)
    BY DEF ArchiveAgrees, Rows
<1>1. /\ archive.session = s
      /\ flight.step = "sent" /\ ~ archive.relisted => s \in Rows /\ flight.view = Flip(scope.view)
      /\ flight.step = "done" /\ flight.clean /\ ~ archive.relisted =>
             s \notin Seen.within /\ ~ Offers(pages, arrived, s)
    BY DEF ArchiveAgrees, Rows
<1>2. Keeps(s)
    OBVIOUS
<1> HIDE DEF s
<1> QED BY <1>1, <1>2 DEF Keeps

\* What is settled stays so with rows that are kept.
LEMMA SettledStays ==
    ASSUME SettledGone, Seen'.within = Seen.within, open' = open, settled' = settled,
           open => \A s : Keeps(s)
    PROVE  SettledGone'
<1> SUFFICES ASSUME open, NEW s \in Saved \ Seen.within, settled[s] = "archive"
             PROVE  s \notin Rows' /\ ~ Offers(pages', arrived', s)
    BY DEF SettledGone, Rows
<1>1. s \notin Rows /\ ~ Offers(pages, arrived, s)
    BY DEF SettledGone, Rows
<1>2. Keeps(s)
    OBVIOUS
<1> QED BY <1>1, <1>2 DEF Keeps

\* Nothing is offered, and no row is there.
LEMMA NoneOffered ==
    ASSUME Rows' = {}, \A s : ~ Offers(pages', arrived', s)
    PROVE  SettledGone'
BY DEF SettledGone, Rows

\* A closed picker shows nothing.
LEMMA ClosedAgrees ==
    ASSUME ~ open'
    PROVE  ArchiveAgrees' /\ SettledGone'
BY DEF ArchiveAgrees, SettledGone

\* Without an archive in flight there is nothing to agree with.
LEMMA OtherOperation ==
    ASSUME flight'.op # "archive"
    PROVE  ArchiveAgrees'
BY DEF ArchiveAgrees

-----------------------------------------------------------------------------
\* /resume keeps the invariant.
LEMMA OpenPick ==
    ASSUME PickInv, OpenPicker
    PROVE  PickInv'
<1>1. OnScreen /\ StateTyped
    BY DEF PickInv, PickerTyped, OnScreen, StateTyped
<1>2. StateTyped'
    BY <1>1, OpenTyped
<1>3. OnScreen' /\ Rows' = {} /\ \A s : ~ Offers(pages', arrived', s)
    BY <1>1, <1>2, OpenShown DEF StateTyped, Rows
<1>4. flight'.op # "archive"
    BY DEF OpenPicker, NoFlight
<1>5. ArchiveAgrees' /\ SettledGone'
    BY <1>3, <1>4, NoneOffered, OtherOperation
<1> QED BY <1>2, <1>3, <1>5 DEF PickInv, PickerTyped, OnScreen, StateTyped

\* Esc and Enter keep it.
LEMMA LeavePick ==
    ASSUME PickInv, Dismiss \/ ResumeSelected
    PROVE  PickInv'
<1>1. OnScreen /\ StateTyped
    BY DEF PickInv, PickerTyped, OnScreen, StateTyped
<1>2. LeavePicker
    BY DEF Dismiss, ResumeSelected
<1>3. archived' \subseteq Saved /\ live' \in Saved \cup {NoSession}
    <2>1. archived \subseteq Saved /\ live \in Saved \cup {NoSession} /\ list \in Listings
        BY <1>1 DEF StateTyped, StoreTyped, OnScreen
    <2>2. CASE Dismiss
        BY <2>1, <2>2 DEF Dismiss
    <2>3. CASE ResumeSelected
        BY <2>1, <2>3, SelectedIs DEF ResumeSelected
    <2> QED BY <2>2, <2>3
<1>4. StateTyped'
    BY <1>1, <1>2, <1>3, LeaveTyped
<1>5. OnScreen'
    BY <1>1, <1>2, LeaveShown
<1>6. ArchiveAgrees' /\ SettledGone'
    BY <1>2, ClosedAgrees DEF LeavePicker
<1> QED BY <1>4, <1>5, <1>6 DEF PickInv, PickerTyped, OnScreen, StateTyped

\* A switch of the scope or the view keeps it.
LEMMA SwitchPick ==
    ASSUME PickInv, SwitchScope
    PROVE  PickInv'
<1>1. OnScreen /\ StateTyped
    BY DEF PickInv, PickerTyped, OnScreen, StateTyped
<1>2. StateTyped'
    BY <1>1, SwitchTyped
<1>3. PICK sc \in Scopes : ReloadAs(sc)
    <2>1. /\ [scope EXCEPT !.projects = IF @ = "Current" THEN "Every" ELSE "Current"] \in Scopes
          /\ [scope EXCEPT !.view = Flip(@)] \in Scopes
        BY <1>1 DEF StateTyped, StoreTyped, Scopes, Flip
    <2> QED BY <2>1 DEF SwitchScope
<1>4. open /\ open' /\ UNCHANGED outbox
    BY DEF SwitchScope, Keys
<1>5. OnScreen' /\ Rows' = {} /\ \A s : ~ Offers(pages', arrived', s)
    BY <1>1, <1>2, <1>3, <1>4, ReloadShown DEF StateTyped, Rows
<1>6. ArchiveAgrees'
    <2> SUFFICES ASSUME flight.op = "archive"
                 PROVE  archive'.session = flight.session /\ archive'.relisted
        BY DEF SwitchScope, ArchiveAgrees
    <2>1. archive.session = flight.session
        BY <1>4 DEF PickInv, ArchiveAgrees
    <2>2. flight.session \in Saved
        BY <1>1 DEF StateTyped, OpsTyped
    <2>3. archive \in [session : Saved \cup {NoSession}, relisted : BOOLEAN]
        BY <1>1 DEF StateTyped, OpsTyped
    <2> QED BY <2>1, <2>2, <2>3, PickerAssumption DEF SwitchScope
<1>7. SettledGone'
    BY <1>5, NoneOffered
<1> QED BY <1>2, <1>5, <1>6, <1>7 DEF PickInv, PickerTyped, OnScreen, StateTyped

\* A key that shows the same rows, and asks for more of them if too few are left.
LEMMA KeyKeeps ==
    ASSUME OnScreen, StateTyped, open, open', UNCHANGED <<scope, live, moved>>, UNCHANGED store,
           UNCHANGED outbox, NEW l \in Listings, CursorFits(l), l.rows = list.rows,
           l.load = list.load, ShowAhead(l, pages)
    PROVE  /\ OnScreen' /\ Seen' = Seen /\ \A s : Keeps(s)
           /\ Rows' = Rows /\ \A s : Offers(pages', arrived', s) => Offers(pages, arrived, s)
<1>1. Seen' = Seen
    BY DEF Seen, InScope, store
<1>2. /\ OnScreen' /\ list'.rows = list.rows
      /\ \A s : Offers(pages', arrived', s) => Offers(pages, arrived, s)
    BY <1>1, KeyShown DEF StateTyped
<1> QED BY <1>1, <1>2 DEF Keeps, Rows

\* The query, the arrows, Ctrl+X and Ctrl+D keep it.
LEMMA KeyPick ==
    ASSUME PickInv, EditOrMove \/ ArchiveKey \/ DeleteKey
    PROVE  PickInv'
<1>1. OnScreen /\ StateTyped /\ list \in Listings /\ CursorFits(list)
    BY DEF PickInv, PickerTyped, OnScreen, StateTyped
<1>2. StateTyped'
    BY <1>1, KeysTyped
<1>3. CASE EditOrMove
    <2>1. PICK l \in {[list EXCEPT !.query = ~@, !.cursor = 0]} \cup
                     {[list EXCEPT !.cursor = c] : c \in 0..Len(Filtered(list)) - 1} :
              ShowAhead(l, pages)
        BY <1>3 DEF EditOrMove
    <2>2. l \in Listings /\ CursorFits(l) /\ l.rows = list.rows /\ l.load = list.load
        <3>1. CASE l = [list EXCEPT !.query = ~@, !.cursor = 0]
            <4>1. list.query \in BOOLEAN /\ (~ list.query) \in BOOLEAN
                BY <1>1 DEF Listings
            <4> DEFINE q == ~ list.query
            <4>2. l = [list EXCEPT !.query = q, !.cursor = 0] /\ q \in BOOLEAN
                BY <3>1, <4>1
            <4> HIDE DEF q
            <4> QED BY <1>1, <4>2 DEF Listings, CursorFits
        <3>2. ASSUME NEW c \in 0..Len(Filtered(list)) - 1, l = [list EXCEPT !.cursor = c]
              PROVE  l \in Listings /\ CursorFits(l) /\ l.rows = list.rows /\ l.load = list.load
            <4>1. Len(Filtered(list)) \in Nat
                BY <1>1, FilteredIs
            <4>2. c \in Nat /\ c < Len(Filtered(list))
                BY <3>2, <4>1
            <4>3. l \in Listings /\ l.rows = list.rows /\ l.load = list.load /\ l.query = list.query
                  /\ l.cursor = c
                BY <1>1, <3>2, <4>2 DEF Listings
            <4> QED BY <4>2, <4>3 DEF CursorFits, Filtered
        <3> QED BY <2>1, <3>1, <3>2
    <2>3. open /\ open' /\ UNCHANGED <<scope, live, moved>> /\ UNCHANGED store /\ UNCHANGED outbox
          /\ flight' = flight /\ archive' = archive /\ settled' = settled
        BY <1>3 DEF EditOrMove, Keys, asked
    <2>4. OnScreen' /\ Seen' = Seen /\ \A s : Keeps(s)
        BY <1>1, <2>1, <2>2, <2>3, KeyKeeps
    <2>5. ArchiveAgrees' /\ SettledGone'
        BY <2>3, <2>4, ArchiveStays, SettledStays DEF PickInv
    <2> QED BY <1>2, <2>4, <2>5 DEF PickInv, PickerTyped, OnScreen, StateTyped
<1>4. CASE ArchiveKey
    <2>1. open /\ open' /\ UNCHANGED <<scope, live, moved>> /\ UNCHANGED store /\ UNCHANGED outbox
          /\ settled' = settled /\ ShowAhead(list, pages)
        BY <1>4 DEF ArchiveKey, Keys
    <2>2. /\ OnScreen' /\ Seen' = Seen /\ Rows' = Rows /\ \A s : Keeps(s)
        BY <1>1, <2>1, KeyKeeps
    <2>3. SettledGone'
        BY <2>1, <2>2, SettledStays DEF PickInv
    <2>4. /\ flight'.session = Selected(list) /\ flight'.step = "sent"
          /\ flight'.view = Flip(scope.view) /\ archive'.session = Selected(list)
        BY <1>4 DEF ArchiveKey, NoFlight
    <2>5. Selected(list) \in Rows
        BY <1>1, <1>4, SelectedIs DEF ArchiveKey, Rows
    <2>6. ArchiveAgrees'
        BY <2>1, <2>2, <2>4, <2>5 DEF ArchiveAgrees, Rows
    <2> QED BY <1>2, <2>2, <2>3, <2>6 DEF PickInv, PickerTyped, OnScreen, StateTyped
<1>5. CASE DeleteKey
    <2>1. open /\ open' /\ UNCHANGED <<scope, live, moved>> /\ UNCHANGED store /\ UNCHANGED outbox
          /\ flight' = flight /\ archive' = archive /\ settled' = settled /\ ShowAhead(list, pages)
        BY <1>5 DEF DeleteKey, Keys
    <2>2. OnScreen' /\ Seen' = Seen /\ \A s : Keeps(s)
        BY <1>1, <2>1, KeyKeeps
    <2>3. ArchiveAgrees' /\ SettledGone'
        BY <2>1, <2>2, ArchiveStays, SettledStays DEF PickInv
    <2> QED BY <1>2, <2>2, <2>3 DEF PickInv, PickerTyped, OnScreen, StateTyped
<1> QED BY <1>3, <1>4, <1>5

\* The list and its pages are not touched.
LEMMA Untouched ==
    ASSUME OnScreen, UNCHANGED <<open, list, pages, workers, outbox>>, Seen' = Seen
    PROVE  OnScreen' /\ \A s : Keeps(s)
<1>1. arrived' = arrived /\ left' = left
    BY DEF outbox
<1>2. OnScreen'
    BY <1>1 DEF OnScreen, ChannelsTyped, PagesFit, CursorFits
<1> QED BY <1>1, <1>2 DEF Keeps, Rows

\* The answers to the confirm modal keep it.
LEMMA ConfirmPick ==
    ASSUME PickInv, Yes \/ No
    PROVE  PickInv'
<1>1. OnScreen /\ StateTyped /\ list \in Listings
    BY DEF PickInv, PickerTyped, OnScreen, StateTyped
<1>2. StateTyped'
    BY <1>1, KeysTyped
<1>3. /\ UNCHANGED <<open, list, pages, workers, outbox>>
      /\ UNCHANGED <<store, scope, live, moved>> /\ archive' = archive /\ settled' = settled
      /\ scope' = scope
    BY DEF Yes, No
<1>4. Seen' = Seen
    BY <1>3 DEF Seen, InScope, store
<1>5. OnScreen' /\ \A s : Keeps(s)
    BY <1>1, <1>3, <1>4, Untouched
<1>6. SettledGone'
    BY <1>3, <1>4, <1>5, SettledStays DEF PickInv
<1>7. ArchiveAgrees'
    <2>1. CASE Yes
        BY <2>1, OtherOperation DEF Yes, NoFlight
    <2>2. CASE No
        <3>1. flight' = flight
            BY <2>2 DEF No
        <3> QED BY <1>3, <1>4, <1>5, <3>1, ArchiveStays DEF PickInv
    <2> QED BY <2>1, <2>2
<1> QED BY <1>2, <1>5, <1>6, <1>7 DEF PickInv, PickerTyped, OnScreen, StateTyped

\* A page that is read, or taken, keeps it.
LEMMA PagesPick ==
    ASSUME PickInv, ReadPage \/ TakePage
    PROVE  PickInv'
<1>1. OnScreen /\ StateTyped
    BY DEF PickInv, PickerTyped, OnScreen, StateTyped
<1>2. StateTyped' /\ Seen' = Seen
    BY <1>1, PagesTyped
<1>3. open' = open /\ scope' = scope /\ archive' = archive /\ flight' = flight /\ settled' = settled
    BY DEF ReadPage, Reads, TakePage, asked
<1>4. OnScreen' /\ (open => \A s : Keeps(s))
    <2>1. CASE ReadPage
        <3>1. /\ OnScreen'
              /\ open => \A s : Offers(pages', arrived', s) =>
                                    Offers(pages, arrived, s) \/ s \in Seen.within
            BY <1>1, <2>1, ReadShown
        <3>2. list' = list
            BY <2>1 DEF ReadPage, Reads
        <3> QED BY <3>1, <3>2 DEF Keeps, Rows
    <2>2. CASE TakePage
        BY <1>1, <2>2, TakeShown DEF Takes, Keeps, Rows
    <2> QED BY <2>1, <2>2
<1>5. ArchiveAgrees' /\ SettledGone'
    BY <1>2, <1>3, <1>4, ArchiveStays, SettledStays DEF PickInv
<1> QED BY <1>2, <1>4, <1>5 DEF PickInv, PickerTyped, OnScreen, StateTyped

-----------------------------------------------------------------------------
\* A row that has not moved is behind the walk: no page that is awaited offers it.
LEMMA RowNotOffered ==
    ASSUME OnScreen, StateTyped, open, NEW s \in Rows, s \notin moved
    PROVE  ~ Offers(pages, arrived, s)
<1>1. ViewFits(list, pages, workers, arrived, left, Seen)
    BY ShownView DEF StateTyped
<1> SUFFICES ASSUME Offers(pages, arrived, s) PROVE FALSE
    OBVIOUS
<1>2. PICK i \in DOMAIN arrived : /\ arrived[i].request = pages.request
                                  /\ arrived[i].end = "page" /\ s \in Range(arrived[i].rows)
    BY DEF Offers
<1>3. pages.state = "Loading" /\ list.load = "Loading"
    BY <1>1 DEF Offers, ViewFits, One
<1>4. Follows(arrived[i], pages.walk, Seen) /\ Behind(list.rows, pages.walk.after, Seen)
    BY <1>1, <1>2, <1>3 DEF ViewFits, Listing, AllFollow, Reached
<1>5. s \notin Seen.moved
    BY DEF Seen
<1>6. Past(pages.walk.after, s, Seen)
    <2>1. PICK k \in DOMAIN arrived[i].rows : arrived[i].rows[k] = s
        BY <1>2 DEF Range
    <2> QED BY <1>4, <1>5, <2>1 DEF Follows
<1>7. ~ Past(pages.walk.after, s, Seen)
    <2>1. PICK k \in DOMAIN list.rows : list.rows[k] = s
        BY DEF Rows, Range
    <2> QED BY <1>4, <1>5, <2>1 DEF Behind
<1> QED BY <1>6, <1>7

\* The engine keeps it: an unmoved row it archives is behind the walk.
LEMMA EnginePick ==
    ASSUME PickInv, EngineRuns
    PROVE  PickInv'
<1> DEFINE s == flight.session
<1>1. OnScreen /\ StateTyped
    BY DEF PickInv, PickerTyped, OnScreen, StateTyped
<1>2. StateTyped' /\ EngineStep(s)
    BY <1>1, EngineIs
<1>3. OnScreen'
    BY <1>1, EngineShown
<1>4. /\ UNCHANGED <<open, scope, list, pages, arrived, archive>>
      /\ settled' = [settled EXCEPT ![s] = "no"] /\ flight.step = "sent"
    BY DEF EngineRuns, outbox
<1>5. s \in Saved /\ settled \in [Saved -> {"no", "archive", "delete"}] /\ scope \in Scopes
      /\ flight \in Flights
    BY <1>1, <1>2 DEF StateTyped, StoreTyped, OpsTyped, EngineStep
<1>6. \A t \in Saved \ {s} : t \in Seen'.within <=> t \in Seen.within
    BY <1>2, <1>4 DEF EngineStep, Seen, InScope
<1>7. ArchiveAgrees'
    <2> SUFFICES ASSUME open, flight.op = "archive"
                 PROVE  /\ archive.session = s
                        /\ flight'.step = "done" /\ flight'.clean /\ ~ archive.relisted =>
                               s \notin Seen'.within /\ ~ Offers(pages, arrived, s)
        BY <1>2, <1>4 DEF ArchiveAgrees, EngineStep
    <2>1. /\ archive.session = s
          /\ ~ archive.relisted => s \in Rows /\ flight.view = Flip(scope.view)
        BY <1>4 DEF PickInv, ArchiveAgrees, Rows
    <2>2. ASSUME flight'.step = "done", flight'.clean, ~ archive.relisted
          PROVE  s \notin Seen'.within /\ ~ Offers(pages, arrived, s)
        <3>1. s \in archived' <=> flight.view = "Archived"
            BY <1>2, <2>2 DEF EngineStep
        <3>2. scope'.view = scope.view /\ scope.view \in {"Active", "Archived"}
            BY <1>4, <1>5 DEF Scopes
        <3>3. ~ (s \in archived' <=> scope'.view = "Archived")
            BY <2>1, <2>2, <3>1, <3>2 DEF Flip
        <3>4. s \notin Seen'.within
            BY <3>3 DEF Seen, InScope
        <3>5. s \notin moved
            BY <1>2, <2>2 DEF EngineStep
        <3> HIDE DEF s
        <3> QED BY <1>1, <2>1, <2>2, <3>4, <3>5, RowNotOffered
    <2> QED BY <2>1, <2>2
<1>8. SettledGone'
    <2> SUFFICES ASSUME open, NEW t \in Saved, t \notin Seen'.within, settled'[t] = "archive"
                 PROVE  t \notin Rows /\ ~ Offers(pages, arrived, t)
        BY <1>4 DEF SettledGone, Rows
    <2>1. t # s /\ settled[t] = "archive"
        BY <1>4, <1>5
    <2>2. t \notin Seen.within
        BY <1>6, <2>1
    <2> QED BY <2>1, <2>2 DEF PickInv, SettledGone, Rows
<1> QED BY <1>2, <1>3, <1>7, <1>8 DEF PickInv, PickerTyped, OnScreen, StateTyped

\* Other processes keep it.
LEMMA OthersPick ==
    ASSUME PickInv, OthersWrite
    PROVE  PickInv'
<1>1. OnScreen /\ StateTyped
    BY DEF PickInv, PickerTyped, OnScreen, StateTyped
<1>2. PICK s \in Saved : StateTyped' /\ OthersStep(s)
    BY <1>1, OthersIs
<1>3. OnScreen'
    BY <1>1, OthersShown
<1>4. UNCHANGED <<open, scope, list, pages, arrived, archive>>
    BY DEF OthersWrite, outbox
<1>5. settled \in [Saved -> {"no", "archive", "delete"}] /\ settled' = [settled EXCEPT ![s] = "no"]
    BY <1>1, <1>2 DEF StateTyped, StoreTyped, OthersStep
<1>6. \A t \in Saved \ {s} : t \in Seen'.within <=> t \in Seen.within
    BY <1>2, <1>4 DEF OthersStep, Seen, InScope
<1>7. ArchiveAgrees'
    <2> DEFINE f == flight.session
    <2> SUFFICES ASSUME open, flight.op = "archive"
                 PROVE  /\ archive.session = f
                        /\ flight.step = "sent" /\ ~ archive.relisted =>
                               f \in Rows /\ flight.view = Flip(scope.view)
                        /\ flight.step = "done" /\ flight'.clean /\ ~ archive.relisted =>
                               f \notin Seen'.within /\ ~ Offers(pages, arrived, f)
        BY <1>2, <1>4 DEF ArchiveAgrees, OthersStep, Rows
    <2>1. /\ archive.session = f
          /\ flight.step = "sent" /\ ~ archive.relisted =>
                 f \in Rows /\ flight.view = Flip(scope.view)
          /\ flight.step = "done" /\ flight.clean /\ ~ archive.relisted =>
                 f \notin Seen.within /\ ~ Offers(pages, arrived, f)
        BY DEF PickInv, ArchiveAgrees, Rows
    <2>2. flight'.clean => flight.clean /\ f # s
        BY <1>2 DEF OthersStep
    <2>3. flight.step = "done" => f \in Saved
        BY <1>1 DEF StateTyped, OpsTyped
    <2> HIDE DEF f
    <2> QED BY <1>6, <2>1, <2>2, <2>3
<1>8. SettledGone'
    <2> SUFFICES ASSUME open, NEW t \in Saved, t \notin Seen'.within, settled'[t] = "archive"
                 PROVE  t \notin Rows /\ ~ Offers(pages, arrived, t)
        BY <1>4 DEF SettledGone, Rows
    <2>1. t # s /\ settled[t] = "archive"
        BY <1>5
    <2>2. t \notin Seen.within
        BY <1>6, <2>1
    <2> QED BY <2>1, <2>2 DEF PickInv, SettledGone, Rows
<1> QED BY <1>2, <1>3, <1>7, <1>8 DEF PickInv, PickerTyped, OnScreen, StateTyped

\* The operation ends: what it did to the listing holds from now on.
LEMMA EventPick ==
    ASSUME PickInv, TakeEvent
    PROVE  PickInv'
<1> DEFINE s == flight.session
<1>1. OnScreen /\ StateTyped /\ list \in Listings /\ pages \in PageStates
    BY DEF PickInv, PickerTyped, OnScreen, StateTyped
<1>2. StateTyped' /\ OnScreen'
    BY <1>1, EventTyped, EventShown
<1>3. ArchiveAgrees'
    BY OtherOperation DEF TakeEvent, NoFlight
<1>4. /\ UNCHANGED <<stored, at, archived, live, open, arrived, left>> /\ UNCHANGED outbox
      /\ flight.step \in {"done", "failed"}
      /\ settled' = IF open /\ flight.step = "done" /\ flight.clean
                    THEN [settled EXCEPT ![s] = flight.op] ELSE settled
    BY DEF TakeEvent, store, outbox
<1>5. s \in Saved /\ settled \in [Saved -> {"no", "archive", "delete"}] /\ scope \in Scopes
    BY <1>1, <1>4 DEF StateTyped, StoreTyped, OpsTyped
<1>6. ASSUME scope' = scope PROVE Seen'.within = Seen.within
    BY <1>4, <1>6 DEF Seen, InScope
<1>7. \A r : r \in Range(Without(s).rows) <=> r \in Rows /\ r # s
    <2>1. Without(s).rows = Keeping(list.rows, Saved \ {s}) /\ list.rows \in Seq(Saved)
        BY <1>1, WithoutIs DEF Listings
    <2>2. \A r \in Rows : r \in Saved
        BY <2>1, LenProperties, ElementOfSeq DEF Rows, Range
    <2> HIDE DEF s
    <2> QED BY <2>1, <2>2, KeepingIs DEF Rows
<1>8. ASSUME open, NEW t \in Saved \ Seen.within, settled[t] = "archive"
      PROVE  t \notin Rows /\ ~ Offers(pages, arrived, t)
    BY <1>8 DEF PickInv, SettledGone, Rows
<1>9. CASE flight.op = "archive" /\ ArchiveUpdated
    <2>1. CASE UNCHANGED <<scope, list, pages, workers, moved>>
               /\ (archive.session # s \/ flight.step = "failed")
        <3>1. open => archive.session = s
            BY <1>9 DEF PickInv, ArchiveAgrees
        <3>2. settled' = settled
            BY <1>4, <2>1, <3>1
        <3>3. Rows' = Rows /\ \A t : Offers(pages', arrived', t) <=> Offers(pages, arrived, t)
            BY <1>4, <2>1 DEF Rows
        <3>4. SettledGone'
            <4>1. Seen'.within = Seen.within
                BY <1>6, <2>1
            <4> QED BY <1>4, <1>8, <3>2, <3>3, <4>1 DEF SettledGone, Rows
        <3> QED BY <1>2, <1>3, <3>4 DEF PickInv, PickerTyped, OnScreen, StateTyped
    <2>2. CASE archive.relisted /\ ReloadAs(scope)
        <3>1. CASE open
            <4>1. Rows' = {} /\ \A t : ~ Offers(pages', arrived', t)
                BY <1>1, <1>2, <1>4, <1>5, <2>2, <3>1, ReloadShown DEF StateTyped, Rows
            <4>2. SettledGone'
                BY <4>1, NoneOffered
            <4> QED BY <1>2, <1>3, <4>2 DEF PickInv, PickerTyped, OnScreen, StateTyped
        <3>2. CASE ~ open
            <4>1. SettledGone'
                BY <1>4, <3>2, ClosedAgrees
            <4> QED BY <1>2, <1>3, <4>1 DEF PickInv, PickerTyped, OnScreen, StateTyped
        <3> QED BY <3>1, <3>2
    <2>3. CASE /\ ~ archive.relisted /\ flight.step = "done" /\ list' = Without(s)
               /\ UNCHANGED <<scope, pages, workers>>
        <3> SUFFICES ASSUME open, NEW t \in Saved, t \notin Seen.within, settled'[t] = "archive"
                     PROVE  t \notin Range(Without(s).rows) /\ ~ Offers(pages, arrived, t)
            <4>1. Seen'.within = Seen.within
                BY <1>6, <2>3
            <4> QED BY <1>2, <1>3, <1>4, <2>3, <4>1
                    DEF PickInv, PickerTyped, OnScreen, StateTyped, SettledGone
        <3>1. CASE t = s /\ settled[t] # "archive"
            <4>1. flight.clean
                BY <1>4, <3>1
            <4>2. ~ Offers(pages, arrived, s)
                BY <1>9, <2>3, <4>1 DEF PickInv, ArchiveAgrees
            <4> QED BY <1>7, <3>1, <4>2
        <3>2. CASE settled[t] = "archive"
            BY <1>7, <1>8, <3>2
        <3>3. t # s => settled'[t] = settled[t]
            BY <1>4, <1>5
        <3> QED BY <3>1, <3>2, <3>3
    <2> QED BY <1>4, <1>9, <2>1, <2>2, <2>3 DEF ArchiveUpdated
<1>10. CASE flight.op = "delete" /\ SavedDeleted
    <2>1. scope' = scope
        BY <1>10 DEF SavedDeleted
    <2>2. ASSUME NEW t \in Saved, settled'[t] = "archive" PROVE settled[t] = "archive"
        BY <1>4, <1>5, <1>10, <2>2
    <2>3. /\ \A r : r \in Rows' => r \in Rows
          /\ open => \A t : Offers(pages', arrived', t) => Offers(pages, arrived, t)
        <3>1. CASE open /\ ShowAhead(Without(s), pages)
            <4>1. list' = Without(s)
                BY <3>1 DEF ShowAhead
            <4>2. Asks(Without(s), pages) =>
                      pages'.state = "Loading" /\ pages'.request = FreshRequest
                BY <1>1, <3>1 DEF ShowAhead, Loading, PageStates
            <4>3. ~ Asks(Without(s), pages) => pages' = pages
                BY <3>1 DEF ShowAhead, Loading
            <4>4. ChannelsTyped /\ DOMAIN arrived = DOMAIN arrived
                BY <1>1 DEF OnScreen
            <4>5. FreshRequest \notin Requests(workers, arrived)
                BY <4>4, FreshIs
            <4>6. \A i \in DOMAIN arrived : arrived[i].request # FreshRequest
                BY <4>5 DEF Requests
            <4>7. \A t : Offers(pages', arrived', t) => Offers(pages, arrived, t)
                BY <1>4, <4>2, <4>3, <4>6 DEF Offers
            <4> QED BY <1>7, <4>1, <4>7 DEF Rows
        <3>2. CASE UNCHANGED <<list, pages, workers>>
            BY <1>4, <3>2 DEF Rows
        <3> QED BY <1>10, <3>1, <3>2 DEF SavedDeleted
    <2>4. SettledGone'
        <3>1. Seen'.within = Seen.within
            BY <1>6, <2>1
        <3> QED BY <1>4, <1>8, <2>2, <2>3, <3>1 DEF SettledGone, Rows
    <2> QED BY <1>2, <1>3, <2>4 DEF PickInv, PickerTyped, OnScreen, StateTyped
<1> QED BY <1>9, <1>10 DEF TakeEvent

-----------------------------------------------------------------------------
\* It holds as the program starts.
LEMMA InitPick == PInit => PickInv
<1> SUFFICES ASSUME PInit PROVE PickInv
    OBVIOUS
<1>1. StoreTyped
    <2>1. at \in [Saved -> 0..MaxAt]
        BY PickerAssumption DEF PInit
    <2> QED BY <2>1 DEF PInit, StoreTyped, Scopes
<1>2. OpsTyped
    BY DEF PInit, OpsTyped, NoArchive, NoConfirm, NoFlight, Flights
<1>3. list \in Listings /\ CursorFits(list)
    <2>1. <<>> \in Seq(Saved)
        BY EmptySeq
    <2> QED BY <2>1 DEF PInit, EmptyList, Listings, CursorFits
<1>4. pages \in PageStates
    BY DEF PInit, NoPages, Walk, PageStates, Walks, Scopes
<1>5. ChannelsTyped
    BY FS_EmptySet, EmptySeq DEF PInit, ChannelsTyped
<1>6. PagesFit
    <2>1. Apart(workers, arrived) /\ Requests(workers, arrived) = {}
        BY DEF PInit, Apart, Requests
    <2> QED BY <2>1 DEF PInit, PagesFit
<1>7. ArchiveAgrees /\ SettledGone
    BY DEF PInit, ArchiveAgrees, SettledGone
<1> QED BY <1>1, <1>2, <1>3, <1>4, <1>5, <1>6, <1>7 DEF PickInv, PickerTyped

\* Every step keeps it.
LEMMA NextPick == PickInv /\ [PNext]_pvars => PickInv'
<1> SUFFICES ASSUME PickInv, [PNext]_pvars PROVE PickInv'
    OBVIOUS
<1>1. CASE PNext
    BY <1>1, OpenPick, LeavePick, SwitchPick, KeyPick, ConfirmPick, EnginePick, EventPick,
       PagesPick, OthersPick DEF PNext
<1>2. CASE UNCHANGED pvars
    <2>1. /\ UNCHANGED <<stored, at, archived, live, archive, confirm, flight, settled>>
          /\ UNCHANGED <<open, scope, list, pages, workers, arrived, left, moved>>
        BY <1>2 DEF pvars, store, asked, outbox
    <2>2. Seen' = Seen
        BY <2>1 DEF Seen, InScope
    <2>3. OnScreen /\ StateTyped
        BY DEF PickInv, PickerTyped, OnScreen, StateTyped
    <2>4. OnScreen' /\ \A s : Keeps(s)
        BY <2>1, <2>2, <2>3, Untouched DEF outbox
    <2>5. StateTyped'
        BY <2>1, <2>3 DEF StateTyped, StoreTyped, OpsTyped
    <2>6. ArchiveAgrees' /\ SettledGone'
        BY <2>1, <2>2, <2>4, ArchiveStays, SettledStays DEF PickInv
    <2> QED BY <2>4, <2>5, <2>6 DEF PickInv, PickerTyped, OnScreen, StateTyped
<1> QED BY <1>1, <1>2

-----------------------------------------------------------------------------
\* It says that the rows are the listing,
LEMMA PickShowsListing == PickInv => ListingTrue
<1> SUFFICES ASSUME PickInv, open PROVE ListingTrue
    BY DEF ListingTrue, ListingExact, ArchivedGone
<1>1. OnScreen /\ StateTyped
    BY DEF PickInv, PickerTyped, OnScreen, StateTyped
<1>2. /\ ViewFits(list, pages, workers, arrived, left, Seen)
      /\ list.rows \in Seq(Saved) /\ StoreTyped
    BY <1>1, ShownView DEF StateTyped, Listings
<1>3. \A s \in Range(list.rows) : s \in Saved
    BY <1>2, LenProperties, ElementOfSeq DEF Range
<1>4. \A s : PlaceIn(Seen, s) = Place(s)
    BY DEF PlaceIn, Seen, Place
<1>5. ASSUME NEW i \in DOMAIN list.rows, NEW j \in DOMAIN list.rows, i < j,
             {list.rows[i], list.rows[j]} \subseteq Saved \ moved
      PROVE  Precedes(Place(list.rows[i]), Place(list.rows[j]))
    BY <1>2, <1>4, <1>5 DEF ViewFits, Listing, Sorted, Seen
<1>6. ASSUME NEW s \in Range(list.rows), s \in Saved \ moved
      PROVE  InScope(s, scope) /\ s # live
    BY <1>2, <1>6 DEF ViewFits, Listing, RowsTrue, Seen, Range
<1>7. ASSUME list.load = "Complete", NEW s \in Saved \ moved, s # live, InScope(s, scope)
      PROVE  s \in Range(list.rows)
    <2>1. pages.walk.exhausted /\ Reached(list.rows, pages.walk, Seen)
        BY <1>2, <1>7 DEF ViewFits, Listing
    <2>2. s \in Seen.within \ Seen.moved /\ s # Seen.live
        BY <1>7 DEF Seen
    <2> QED BY <2>1, <2>2 DEF Reached, Ahead
<1>8. ListingExact
    BY <1>5, <1>6, <1>7 DEF ListingExact
<1>9. ArchivedGone
    <2> SUFFICES ASSUME NEW s \in Range(list.rows), settled[s] = "archive"
                 PROVE  InScope(s, scope)
        BY DEF ArchivedGone
    <2>1. s \in Saved
        BY <1>3
    <2>2. s \in Seen.within
        BY <2>1 DEF PickInv, SettledGone
    <2> QED BY <2>1, <2>2, WithinIs
<1> QED BY <1>8, <1>9 DEF ListingTrue

\* and that the picker waits for the one page of its own.
LEMMA PickPagesAgree == PickInv => PagesAgree
<1> SUFFICES ASSUME PickInv PROVE PagesAgree
    OBVIOUS
<1>1. OnScreen /\ StateTyped /\ ChannelsTyped /\ Apart(workers, arrived)
    BY DEF PickInv, PickerTyped, OnScreen, StateTyped, PagesFit
<1>2. PickerTypeOK
    <2>1. list.rows \in Seq(Saved) /\ CursorFits(list)
        BY <1>1 DEF OnScreen, Listings
    <2>2. Range(list.rows) \subseteq Saved
        BY <2>1, LenProperties, ElementOfSeq DEF Range
    <2> QED BY <1>1, <2>1, <2>2 DEF PickerTypeOK, StateTyped, StoreTyped, CursorFits
<1>3. /\ Cardinality(Outstanding) = Cardinality(workers) + Len(arrived)
      /\ \A v, w \in Outstanding : v.request = w.request => v = w
    BY <1>1, OutstandingCount
<1>4. ASSUME open
      PROVE  /\ {w.request : w \in Outstanding} \ left =
                    IF pages.state \in {"Loading", "Reloading"} THEN {pages.request} ELSE {}
             /\ list.load = "Loading" <=> pages.state # "Done"
             /\ pages.state = "Idle" /\ moved = {} => Below(list) >= LoadAhead
    <2>1. ViewFits(list, pages, workers, arrived, left, Seen) /\ Enough(list, pages, Seen)
        BY <1>1, <1>4, ShownView DEF StateTyped
    <2>2. Requests(workers, arrived) = {w.request : w \in Outstanding}
        BY <1>1, OutstandingFinite
    <2> QED BY <2>1, <2>2 DEF ViewFits, One, Waits, Enough, Seen
<1> QED BY <1>2, <1>3, <1>4 DEF PagesAgree

\* The place the walk has reached splits what nobody changed into the rows and what
\* is still to come, in every state of the picker.
THEOREM PickerHolds == PSpec => []PickInv
<1>1. PInit => PickInv
    BY InitPick
<1>2. PickInv /\ [PNext]_pvars => PickInv'
    BY NextPick
<1> QED BY <1>1, <1>2, PTL DEF PSpec

\* Whatever the interleaving of keys, page workers, engine and other processes, the
\* rows of the picker are the listing, but for what changed since it began, and a
\* session the picker was told to be archived is not offered in the view it left.
THEOREM ListingAlwaysTrue == PSpec => []ListingTrue
<1>1. PickInv => ListingTrue
    BY PickShowsListing
<1> QED BY <1>1, PickerHolds, PTL

\* Whatever the switches, a picker waits for one page of its own at most, and says
\* that it loads exactly while more may follow.
THEOREM PagesAlwaysAgree == PSpec => []PagesAgree
<1>1. PickInv => PagesAgree
    BY PickPagesAgree
<1> QED BY <1>1, PickerHolds, PTL
=============================================================================
