-------------------------- MODULE BackgroundShells --------------------------
(***************************************************************************)
(* The background shells of a session                                      *)
(* (crates/ox-core/src/tool/bash/background.rs): the registry the engine's *)
(* calls change, a supervisor task for each shell, the pipe it pumps, the  *)
(* process tree it ends or releases, and the list the UI shows.  Calls of  *)
(* the shell tools run one at a time; supervisors run beside them.         *)
(***************************************************************************)
EXTENDS Naturals, Sequences, FiniteSets, SequencesExt

CONSTANTS
    MaxOpen,     \* MAX_SHELLS
    MaxStarts,   \* bound: shells started
    Chatty,      \* bound: the shells that print
    MaxPrinted,  \* bound: chunks each of them prints
    MaxSessions  \* bound: sessions the engine goes through

Shell == 1 .. MaxStarts

ASSUME ShellsAssumption ==
    MaxOpen \in Nat \ {0} /\ MaxStarts \in Nat /\ MaxPrinted \in Nat
    /\ MaxSessions \in Nat \ {0}

VARIABLES
    registry,  \* Registry.shells, oldest first
    started,   \* Registry.started
    shell,     \* each shell: its processes, pipe, output and supervisor
    call,      \* the call the engine runs
    session,   \* the session's number, and whether it is being ended
    listed,    \* the list the UI shows
    dropped    \* history: the shells whose bash_stop the user interrupted

bvars == <<registry, started, shell, call, session, listed, dropped>>

(***************************************************************************)
(* `tree` is the shell process; `kin` a process it left: one that holds    *)
(* the pipe (`holder`), one that holds it from another process group       *)
(* (`escaped`), or one that redirected its output (`loose`).  `printed`    *)
(* chunks went to the pipe; of these `unread` are captured, `taken` were   *)
(* read.  `state` is what ShellOutput publishes, `sup` where the           *)
(* supervisor is, `stop` whether the stop sender was dropped.  History:    *)
(* `clean` says that nothing held the pipe at the shell's exit, `late` the *)
(* chunks still due when a call said that the shell has ended.             *)
(***************************************************************************)
Trees  == {"none", "running", "exited"}
Kins   == {"none", "holder", "escaped", "loose"}
States == {"running", "ended"}
Sups   == {"none", "watch", "drain", "publish", "held", "reap", "done"}

NoShell == [tree |-> "none", kin |-> "none", printed |-> 0, unread |-> 0, taken |-> 0,
            state |-> "running", sup |-> "none", stop |-> FALSE, clean |-> FALSE, late |-> 0]

NoCall == [kind |-> "none", id |-> 0, seen |-> "running"]

PipeOpen(h) == h.tree = "running" \/ h.kin \in {"holder", "escaped"}
InPipe(h)   == h.printed - h.unread - h.taken

List == [i \in 1 .. Len(registry) |-> [id |-> registry[i], state |-> shell[registry[i]].state]]

-----------------------------------------------------------------------------
(***************************************************************************)
(* Processes and the pump                                                  *)
(***************************************************************************)
Becomes(s, h) ==
    /\ shell' = [shell EXCEPT ![s] = h]
    /\ UNCHANGED <<registry, started, call, session, listed, dropped>>

Emit(s) ==
    /\ s \in Chatty /\ shell[s].printed < MaxPrinted
    /\ PipeOpen(shell[s]) /\ shell[s].sup # "done"
    /\ Becomes(s, [shell[s] EXCEPT !.printed = @ + 1])

Exit(s) ==
    /\ shell[s].tree = "running"
    /\ \E kin \in Kins :
          Becomes(s, [shell[s] EXCEPT !.tree = "exited", !.kin = kin,
                                      !.clean = kin \notin {"holder", "escaped"}])

KinExits(s) ==
    /\ shell[s].tree = "exited" /\ shell[s].sup # "done"
    /\ shell[s].kin \in {"holder", "escaped"}
    /\ Becomes(s, [shell[s] EXCEPT !.kin = "none"])

\* pump copies a chunk into the capture.
Pump(s) ==
    /\ shell[s].sup \notin {"none", "done"} /\ InPipe(shell[s]) > 0
    /\ Becomes(s, [shell[s] EXCEPT !.unread = @ + 1])

\* It ends at the end of the pipe.
Pumped(h) == InPipe(h) = 0 /\ ~PipeOpen(h)

-----------------------------------------------------------------------------
(***************************************************************************)
(* supervise                                                               *)
(***************************************************************************)
Moves(s, from, to) ==
    /\ shell[s].sup = from
    /\ Becomes(s, [shell[s] EXCEPT !.sup = to])

SeesExit(s) == shell[s].tree = "exited" /\ Moves(s, "watch", "drain")

\* DRAIN_GRACE passes with the pipe empty, closed or still held: what it holds
\* at the exit is read well within it.
GraceOver(h) == InPipe(h) = 0

\* Mutant: the state is published before the pipe catches up.
AnnounceAtOnce(s) ==
    /\ shell[s].sup = "drain"
    /\ Becomes(s, [shell[s] EXCEPT !.state = "ended", !.sup = "publish"])

Announce(s) ==
    /\ shell[s].sup = "drain" /\ GraceOver(shell[s])
    /\ Becomes(s, [shell[s] EXCEPT !.state = "ended", !.sup = "publish"])

\* The list goes out; with the pipe closed, the tree is released.
Publishes(s) ==
    /\ shell[s].sup = "publish"
    /\ shell' = [shell EXCEPT ![s].sup = IF Pumped(shell[s]) THEN "done" ELSE "held"]
    /\ listed' = List
    /\ UNCHANGED <<registry, started, call, session, dropped>>

Releases(s) == Pumped(shell[s]) /\ Moves(s, "held", "done")

\* The stop is seen, and the kill reaches every member of the group.
Kill(s) ==
    /\ shell[s].stop /\ shell[s].sup \in {"watch", "held"}
    /\ Becomes(s, [shell[s] EXCEPT !.tree = "exited",
                                   !.kin  = IF @ = "escaped" THEN @ ELSE "none",
                                   !.sup  = "reap"])

\* Mutant: the supervisor waits for the end of the pipe after a kill.
ReapsAtEnd(s) == Pumped(shell[s]) /\ Moves(s, "reap", "done")

\* It waits for the pipe once more, and drops what it could not read.
Reaps(s) == GraceOver(shell[s]) /\ Moves(s, "reap", "done")

Supervise(s) ==
    \/ SeesExit(s) \/ Announce(s) \/ Publishes(s) \/ Releases(s) \/ Kill(s) \/ Reaps(s)

-----------------------------------------------------------------------------
(***************************************************************************)
(* Calls of the shell tools                                                *)
(***************************************************************************)
Idle == call = NoCall /\ session.ending = {}

Start ==
    /\ Idle /\ Len(registry) < MaxOpen /\ started < MaxStarts
    /\ started'  = started + 1
    /\ registry' = Append(registry, started')
    /\ shell'    = [shell EXCEPT ![started'] = [NoShell EXCEPT !.tree = "running", !.sup = "watch"]]
    /\ listed'   = List'
    /\ UNCHANGED <<call, session, dropped>>

\* bash_output finds the shell, and may wait for its end.
Output ==
    /\ Idle
    /\ \E i \in 1 .. Len(registry) :
          call' = [kind |-> "output", id |-> registry[i], seen |-> "running"]
    /\ UNCHANGED <<registry, started, shell, session, listed, dropped>>

\* The wait is over, by its timeout or the end: the call reads the state.
Waited ==
    /\ call.kind = "output"
    /\ call' = [call EXCEPT !.kind = "take", !.seen = shell[call.id].state]
    /\ UNCHANGED <<registry, started, shell, session, listed, dropped>>

\* It then takes the output and returns.
Take ==
    /\ call.kind = "take"
    /\ shell' = [shell EXCEPT ![call.id] =
          [shell[call.id] EXCEPT
              !.taken  = @ + shell[call.id].unread,
              !.unread = 0,
              !.late   = IF call.seen = "ended" /\ @ = 0 /\ shell[call.id].clean
                           THEN shell[call.id].printed - shell[call.id].taken
                                - shell[call.id].unread
                           ELSE @]]
    /\ call'  = NoCall
    /\ UNCHANGED <<registry, started, session, listed, dropped>>

\* bash_stop takes the shell off the list and drops its stop sender.
Stop ==
    /\ Idle
    /\ \E i \in 1 .. Len(registry) :
          /\ registry' = RemoveAt(registry, i)
          /\ call'     = [kind |-> "stop", id |-> registry[i], seen |-> "running"]
          /\ shell'    = [shell EXCEPT ![registry[i]].stop = TRUE]
    /\ listed' = List'
    /\ UNCHANGED <<started, session, dropped>>

\* The supervisor has ended.
Stopped ==
    /\ call.kind = "stop" /\ shell[call.id].sup = "done"
    /\ call' = [call EXCEPT !.kind = "take", !.seen = shell[call.id].state]
    /\ UNCHANGED <<registry, started, shell, session, listed, dropped>>

\* An interrupt drops the call; the shell a bash_stop removed ends by itself.
DropCall ==
    /\ call.kind \in {"output", "stop"}
    /\ dropped' = IF call.kind = "stop" THEN dropped \cup {call.id} ELSE dropped
    /\ call'    = NoCall
    /\ UNCHANGED <<registry, started, shell, session, listed>>

-----------------------------------------------------------------------------
(***************************************************************************)
(* The end of the session: stop_all, on a roll, a resume or an exit        *)
(***************************************************************************)
StopAll ==
    /\ Idle /\ ~session.over
    /\ session'  = [session EXCEPT !.ending = Range(registry), !.over = TRUE]
    /\ shell'    = [s \in Shell |->
                      IF s \in Range(registry) THEN [shell[s] EXCEPT !.stop = TRUE] ELSE shell[s]]
    /\ registry' = <<>>
    /\ UNCHANGED <<started, call, listed, dropped>>

\* Mutant: stop_all awaits no supervisor.
AllStoppedAtOnce ==
    /\ session.ending # {}
    /\ session' = [session EXCEPT !.ending = {}]
    /\ UNCHANGED <<registry, started, shell, call, listed, dropped>>

AllStopped ==
    /\ session.ending # {} /\ \A s \in session.ending : shell[s].sup = "done"
    /\ session' = [session EXCEPT !.ending = {}]
    /\ UNCHANGED <<registry, started, shell, call, listed, dropped>>

\* The next session begins, and the UI drops its list.
Roll ==
    /\ session.over /\ session.ending = {} /\ session.number < MaxSessions
    /\ session' = [number |-> session.number + 1, ending |-> {}, over |-> FALSE]
    /\ listed'  = <<>>
    /\ UNCHANGED <<registry, started, shell, call, dropped>>

-----------------------------------------------------------------------------
BInit ==
    /\ registry = <<>> /\ started = 0 /\ listed = <<>> /\ dropped = {}
    /\ shell = [s \in Shell |-> NoShell]
    /\ call = NoCall
    /\ session = [number |-> 1, ending |-> {}, over |-> FALSE]

BNext ==
    \/ \E s \in Shell : Emit(s) \/ Exit(s) \/ KinExits(s) \/ Pump(s) \/ Supervise(s)
    \/ ~session.over /\ (Start \/ Output \/ Stop)
    \/ Waited \/ Take \/ Stopped \/ DropCall
    \/ StopAll \/ AllStopped \/ Roll

\* The runtime polls every supervisor and pump, and a call that can go on.
BFairness ==
    /\ \A s \in Shell : WF_bvars(Supervise(s)) /\ WF_bvars(Pump(s))
    /\ WF_bvars(Waited) /\ WF_bvars(Take) /\ WF_bvars(Stopped) /\ WF_bvars(AllStopped)

BSpec == BInit /\ [][BNext]_bvars /\ BFairness

-----------------------------------------------------------------------------
(***************************************************************************)
(* Properties                                                              *)
(***************************************************************************)
ShellsTypeOK ==
    /\ registry \in Seq(Shell) /\ Len(registry) <= MaxOpen
    /\ started \in 0 .. MaxStarts /\ dropped \subseteq Shell
    /\ \A s \in Shell :
          /\ shell[s].tree \in Trees /\ shell[s].kin \in Kins
          /\ shell[s].state \in States /\ shell[s].sup \in Sups
          /\ shell[s].printed \in 0 .. MaxPrinted /\ InPipe(shell[s]) \in 0 .. MaxPrinted
    /\ call.kind \in {"none", "output", "take", "stop"} /\ call.id \in 0 .. MaxStarts
    /\ session.number \in 1 .. MaxSessions /\ session.ending \subseteq Shell

\* When stop_all has returned, no shell of the session runs and none of the
\* processes that share a shell's output is left, but for one that moved to
\* another group.  A shell whose bash_stop the user interrupted ends on its own
\* time.
NoShellSurvives ==
    session.over /\ session.ending = {} =>
        \A s \in Shell \ dropped : shell[s].tree # "running" /\ shell[s].kin # "holder"

\* The list the UI shows is the registry's, but for the moment between a change
\* of a shell's state and its report and for the end of a session.
ListAgrees ==
    ~session.over /\ (\A s \in Shell : shell[s].sup # "publish") => listed = List

\* A call that says the shell has ended brings all it printed, unless another
\* process held its pipe when it exited.
EndBringsAll == \A s \in Shell : shell[s].late = 0

\* What the UI and the model are told of the shells is how the shells are, and
\* a session that is over has none left.
ShellsReported == ShellsTypeOK /\ ListAgrees /\ EndBringsAll /\ NoShellSurvives

\* A shell told to stop ends, also when a process in another group holds its
\* pipe for good and when nobody awaits it.
StopEnds == \A s \in Shell : shell[s].stop ~> shell[s].sup = "done"

\* So a bash_stop returns, and so does stop_all.
StopReturns == (call.kind = "stop" \/ session.ending # {}) ~> (call.kind # "stop" /\ session.ending = {})

\* Every stop comes to its end, for the shell and for who waits for it.
StopsEnd == StopEnds /\ StopReturns
=============================================================================
