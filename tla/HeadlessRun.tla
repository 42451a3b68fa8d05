----------------------------- MODULE HeadlessRun -----------------------------
(***************************************************************************)
(* One run of `ox --print`: the driver sends the prompt, prints what the   *)
(* engine tells until the turn ends, a signal comes or the engine is gone, *)
(* quits the engine, prints the result and exits.  Of the engine there is  *)
(* its loop, its ends of the two channels and what it saves.               *)
(***************************************************************************)
EXTENDS Naturals, Sequences

CONSTANTS
    Formats,    \* OutputFormat: "text", "json", "stream-json"
    MaxPieces   \* bound on the pieces of text and calls of the turn

OpEnd == {"completed", "cancelled", "failed", "shutdown"}
EngineEvent ==
    [type : {"token"}, piece : 1..MaxPieces]
    \cup [type : {"toolCall", "writeError", "forked", "turnFailed"}]
    \cup [type : {"ended"}, op : {"prompt", "interrupt"}, end : OpEnd]

ASSUME HeadlessAssumption ==
    MaxPieces \in Nat /\ Formats \subseteq {"text", "json", "stream-json"}

VARIABLES
    format,     \* --output
    driver,     \* where it is, whether it interrupted, how the op ended, the exit
    signalled,  \* a signal came
    stdout,     \* a write found its reader gone, a write failed, pieces printed
    summary,    \* RunSummary, and in the end the result line
    opline,     \* op channel; `hungup` once the driver holds no sender
    hungup,
    eventline,  \* event channel
    loop,       \* the engine: where it is, how the turn ended, what it said, what finalize told
    saving      \* the SessionHandle: stopped, failure surfaced, forked

channels == <<opline, hungup, eventline>>
headvars == <<format, driver, signalled, stdout, summary, channels, loop, saving>>

RunInit ==
    /\ format \in Formats
    /\ driver = [at |-> "running", interrupted |-> FALSE, end |-> "none", exit |-> "none"]
    /\ signalled = FALSE
    /\ stdout = [lost |-> FALSE, failed |-> FALSE, printed |-> <<>>]
    /\ summary = [message |-> <<>>, error |-> FALSE, unsaved |-> FALSE, forked |-> FALSE,
                  result |-> FALSE]
    /\ opline = <<"prompt">> /\ hungup = FALSE /\ eventline = <<>>
    /\ loop = [at |-> "idle", end |-> "none", said |-> <<>>, failure |-> FALSE]
    /\ saving = [stopped |-> FALSE, surfaced |-> FALSE, forked |-> FALSE]

-----------------------------------------------------------------------------
(***************************************************************************)
(* The engine                                                              *)
(***************************************************************************)
\* A commit: it lands, it forks the session, or it fails, as all do after one.
Outcomes == IF saving.stopped THEN {"fails"} ELSE {"lands", "fails"} \cup
                (IF saving.forked THEN {} ELSE {"forks"})

\* SessionHandle::write and report, then session_write: a failure is told once.
Saves(outcome) ==
    saving' = [saving EXCEPT !.stopped = @ \/ outcome = "fails",
                             !.surfaced = @ \/ outcome = "fails",
                             !.forked = @ \/ outcome = "forks"]
Told(outcome) ==
    IF outcome = "forks" THEN <<[type |-> "forked"]>>
    ELSE IF outcome = "fails" /\ ~saving.surfaced THEN <<[type |-> "writeError"]>>
    ELSE <<>>

EndOf(op, end) == <<[type |-> "ended", op |-> op, end |-> end]>>
Emits(told) == eventline' = eventline \o told
Goes(to) == loop' = [loop EXCEPT !.at = to]
EngineStep == UNCHANGED <<format, driver, signalled, stdout, summary, hungup>>

\* run and serve: the next op.  An interrupt with nothing in flight just ends.
ServeOp ==
    /\ loop.at = "idle" /\ opline # <<>>
    /\ opline' = Tail(opline)
    /\ \/ /\ Head(opline) = "prompt"
          /\ \E outcome \in Outcomes : Saves(outcome) /\ Emits(Told(outcome))
          /\ Goes("turn")
       \/ /\ Head(opline) = "interrupt"
          /\ Emits(EndOf("interrupt", "completed")) /\ UNCHANGED <<loop, saving>>
    /\ EngineStep

\* The turn goes on only while no op waits: the race looks at them first.
InTurn == loop.at = "turn" /\ opline = <<>> /\ ~hungup
ToolCall == 0
Speaks == InTurn /\ Len(loop.said) < MaxPieces

\* A token is streamed, or tools are called and the round is recorded.
Speak ==
    /\ Speaks
    /\ LET piece == Len(loop.said) + 1
       IN  /\ Emits(<<[type |-> "token", piece |-> piece]>>)
           /\ loop' = [loop EXCEPT !.said = Append(@, piece)]
    /\ UNCHANGED <<opline, saving>> /\ EngineStep

CallRound ==
    /\ Speaks
    /\ \E outcome \in Outcomes :
          Saves(outcome) /\ Emits(<<[type |-> "toolCall"]>> \o Told(outcome))
    /\ loop' = [loop EXCEPT !.said = Append(@, ToolCall)]
    /\ UNCHANGED opline /\ EngineStep

\* The reply is recorded and the op ends.
Complete ==
    /\ InTurn
    /\ \E outcome \in Outcomes :
          Saves(outcome) /\ Emits(Told(outcome) \o EndOf("prompt", "completed"))
    /\ loop' = [loop EXCEPT !.at = "idle", !.end = "completed"]
    /\ UNCHANGED opline /\ EngineStep

\* A failure writes nothing more, which is a write that lands; a refusal rewinds
\* the session.
TurnFails ==
    /\ InTurn
    /\ \E outcome \in Outcomes :
          /\ Saves(outcome)
          /\ Emits(Told(outcome) \o <<[type |-> "turnFailed"]>> \o EndOf("prompt", "failed"))
    /\ loop' = [loop EXCEPT !.at = "idle", !.end = "failed"]
    /\ UNCHANGED opline /\ EngineStep

\* Mailbox::absorb: an interrupt ends the turn on its marker.
Interrupted ==
    /\ loop.at = "turn" /\ opline # <<>> /\ Head(opline) = "interrupt"
    /\ opline' = Tail(opline)
    /\ \E outcome \in Outcomes :
          Saves(outcome) /\ Emits(Told(outcome) \o EndOf("prompt", "cancelled"))
    /\ loop' = [loop EXCEPT !.at = "idle", !.end = "cancelled"]
    /\ EngineStep

\* The closed channel is a shutdown: a turn ends on its marker, and without its end.
ShutDown ==
    /\ loop.at \in {"idle", "turn"} /\ opline = <<>> /\ hungup
    /\ IF loop.at = "turn"
       THEN \E outcome \in Outcomes : Saves(outcome) /\ Emits(Told(outcome))
       ELSE UNCHANGED <<saving, eventline>>
    /\ Goes("stopping")
    /\ UNCHANGED opline /\ EngineStep

\* finalize: the file snapshots, which move no head.  The failure is returned, if
\* it is the first.
Finalize ==
    /\ loop.at = "stopping"
    /\ \E outcome \in Outcomes \ {"forks"} :
          /\ Saves(outcome)
          /\ loop' = [loop EXCEPT !.at = "stopped",
                            !.failure = outcome = "fails" /\ ~saving.surfaced]
    /\ UNCHANGED <<opline, eventline>> /\ EngineStep

Panic ==
    /\ loop.at \notin {"stopped", "panicked"}
    /\ Goes("panicked")
    /\ UNCHANGED <<opline, eventline, saving>> /\ EngineStep

EngineGone == loop.at \in {"stopped", "panicked"}

-----------------------------------------------------------------------------
(***************************************************************************)
(* Output                                                                  *)
(***************************************************************************)
\* Whether an event may be written to stdout: the replies of a text run and the
\* ends of their lines, the documented events of a stream-json run.
Writes(event) ==
    IF format = "text"
    THEN IF event.type = "token" THEN {TRUE}
         ELSE IF event.type = "writeError" THEN {FALSE} ELSE {TRUE, FALSE}
    ELSE {format = "stream-json" /\ event.type # "forked"
            /\ (event.type = "ended" => event.end = "completed")}

\* Watched: a write succeeds, until its reader left, or it fails for that or
\* another reason; the run goes on.  What was printed matters until then.
Write(out, does, event) ==
    IF ~does THEN {out}
    ELSE {[lost |-> lost, failed |-> TRUE, printed |-> <<>>] : lost \in {out.lost, TRUE}} \cup
         IF out.lost THEN {}
         ELSE {IF event.type = "token" /\ ~out.failed
               THEN [out EXCEPT !.printed = Append(@, event.piece)] ELSE out}

Printed(event) == UNION {Write(stdout, does, event) : does \in Writes(event)}

\* Mutant: what was said before a call stays in the message.
ObservedKeeping(event) ==
    [summary EXCEPT !.message = IF event.type = "token" THEN Append(@, event.piece) ELSE @,
                    !.error = @ \/ event.type = "turnFailed",
                    !.forked = @ \/ event.type = "forked"]

\* RunSummary::observe, of the JSON formats.
Observed(event) ==
    [summary EXCEPT !.message = IF event.type = "token" THEN Append(@, event.piece)
                                ELSE IF event.type = "toolCall" THEN <<>> ELSE @,
                    !.error = @ \/ event.type = "turnFailed",
                    !.forked = @ \/ event.type = "forked"]
Rendered(event) ==
    /\ stdout' \in Printed(event)
    /\ summary' = IF format = "text" THEN summary ELSE Observed(event)

-----------------------------------------------------------------------------
(***************************************************************************)
(* The driver                                                              *)
(***************************************************************************)
DriverStep == UNCHANGED <<format, signalled, loop, saving>>

\* run_op returns, and EngineHandle::shutdown drops the sender.
Leaves(end, exit) ==
    /\ driver' = [driver EXCEPT !.at = "joining", !.end = end, !.exit = exit]
    /\ hungup' = TRUE

\* Mutant: the run goes on when nobody reads it.
TakeEventUnread ==
    /\ driver.at = "running" /\ ~signalled /\ eventline # <<>>
    /\ eventline' = Tail(eventline)
    /\ LET event == Head(eventline)
       IN  /\ Rendered(event)
           /\ IF event.type = "ended" /\ event.op = "prompt"
              THEN /\ Leaves(event.end, IF event.end = "completed" THEN "success" ELSE "failure")
                   /\ UNCHANGED opline
              ELSE UNCHANGED <<driver, opline, hungup>>
    /\ DriverStep

\* The loop of run_op: a signal first, then the next event.  Once stdout is
\* lost the op is interrupted.
TakeEvent ==
    /\ driver.at = "running" /\ ~signalled /\ eventline # <<>>
    /\ eventline' = Tail(eventline)
    /\ LET event == Head(eventline)
       IN  /\ Rendered(event)
           /\ IF event.type = "ended" /\ event.op = "prompt"
              THEN /\ Leaves(event.end, IF event.end = "completed" THEN "success" ELSE "failure")
                   /\ UNCHANGED opline
              ELSE IF stdout'.lost /\ ~driver.interrupted
              THEN /\ driver' = [driver EXCEPT !.interrupted = TRUE]
                   /\ opline' = IF EngineGone THEN opline ELSE Append(opline, "interrupt")
                   /\ UNCHANGED hungup
              ELSE UNCHANGED <<driver, opline, hungup>>
    /\ DriverStep

\* break_line, then the run is left with the events unread.
TakeSignal ==
    /\ driver.at = "running" /\ signalled
    /\ Leaves("shutdown", "signal")
    /\ stdout' \in UNION {Write(stdout, does, [type |-> "ended"]) : does \in {FALSE, format = "text"}}
    /\ UNCHANGED <<summary, opline, eventline>> /\ DriverStep

\* The engine is gone and all it told was read.
EngineStopped ==
    /\ driver.at = "running" /\ ~signalled /\ eventline = <<>> /\ EngineGone
    /\ Rendered([type |-> "turnFailed"])
    /\ Leaves("failed", "failure")
    /\ UNCHANGED <<opline, eventline>> /\ DriverStep

\* Mutant: the exit is settled before the result is printed.
FinishEarly ==
    /\ driver.at = "joining" /\ EngineGone
    /\ \E told \in (IF loop.failure THEN Printed([type |-> "writeError"]) ELSE {stdout}) :
          stdout' \in UNION {Write(told, does, [type |-> "result"]) :
                                 does \in IF format = "text" THEN BOOLEAN ELSE {TRUE}}
    /\ summary' = [summary EXCEPT !.unsaved = loop.failure, !.result = TRUE]
    /\ driver' = [driver EXCEPT !.at = "exited",
                      !.exit = IF loop.at = "panicked" THEN "panic"
                               ELSE IF @ = "success" /\ (stdout.failed \/ loop.failure)
                               THEN "failure" ELSE @]
    /\ UNCHANGED channels /\ DriverStep

\* drive, once the engine has been joined: a write failure is told, the result
\* is printed, and what failed of the output settles the exit.
Finish ==
    /\ driver.at = "joining" /\ EngineGone
    /\ \E told \in (IF loop.failure THEN Printed([type |-> "writeError"]) ELSE {stdout}) :
          stdout' \in UNION {Write(told, does, [type |-> "result"]) :
                                 does \in IF format = "text" THEN BOOLEAN ELSE {TRUE}}
    /\ summary' = [summary EXCEPT !.unsaved = loop.failure, !.result = TRUE]
    /\ driver' = [driver EXCEPT !.at = "exited",
                      !.exit = IF loop.at = "panicked" THEN "panic"
                               ELSE IF @ = "success" /\ (stdout'.failed \/ loop.failure)
                               THEN "failure" ELSE @]
    /\ UNCHANGED channels /\ DriverStep

\* A signal comes.
Signal ==
    /\ ~signalled /\ driver.at = "running" /\ signalled' = TRUE
    /\ UNCHANGED <<format, driver, stdout, summary, channels, loop, saving>>

EngineActs == ServeOp \/ Interrupted \/ ShutDown \/ Finalize
DriverActs == TakeEvent \/ TakeSignal \/ EngineStopped \/ Finish

RunNext ==
    \/ EngineActs \/ Speak \/ CallRound \/ Complete \/ TurnFails \/ Panic
    \/ DriverActs \/ Signal

\* The driver reads its channels, and the engine takes the ops that wait and ends.
RunFairness == WF_headvars(EngineActs) /\ WF_headvars(DriverActs)
RunSpec == RunInit /\ [][RunNext]_headvars /\ RunFairness

-----------------------------------------------------------------------------
(***************************************************************************)
(* Properties                                                              *)
(***************************************************************************)
\* Every variable has its type.
HeadTypeOK ==
    /\ format \in Formats /\ signalled \in BOOLEAN /\ hungup \in BOOLEAN
    /\ driver \in [at : {"running", "joining", "exited"}, interrupted : BOOLEAN,
                   end : {"none"} \cup OpEnd,
                   exit : {"none", "success", "failure", "signal", "panic"}]
    /\ stdout \in [lost : BOOLEAN, failed : BOOLEAN, printed : Seq(1..MaxPieces)]
    /\ summary \in [message : Seq(1..MaxPieces), error : BOOLEAN, unsaved : BOOLEAN,
                    forked : BOOLEAN, result : BOOLEAN]
    /\ opline \in Seq({"prompt", "interrupt"}) /\ eventline \in Seq(EngineEvent)
    /\ loop \in [at : {"idle", "turn", "stopping", "stopped", "panicked"},
                   end : {"none"} \cup OpEnd, said : Seq(0..MaxPieces), failure : BOOLEAN]
    /\ saving \in [stopped : BOOLEAN, surfaced : BOOLEAN, forked : BOOLEAN]

\* `pieces` are `all`, each once and in the order they were said: a piece is
\* numbered by its place.
InOrder(pieces, all) ==
    /\ {pieces[i] : i \in DOMAIN pieces} = all
    /\ \A i, j \in DOMAIN pieces : i < j => pieces[i] < pieces[j]

Spoken == {loop.said[i] : i \in DOMAIN loop.said} \ {ToolCall}

\* What the turn said after its last call.
LastReply ==
    {loop.said[i] : i \in {k \in DOMAIN loop.said :
                              \A j \in DOMAIN loop.said : j >= k => loop.said[j] # ToolCall}}

\* The status a script reads is what happened: success is a turn that completed, all
\* of it printed and nothing wrong with the last write, failure has a cause, and a
\* run that a signal or a panic stopped says so.
ExitTold ==
    /\ driver.exit = "success" =>
          /\ loop.end = "completed" /\ ~stdout.failed /\ ~loop.failure
          /\ format # "json" => InOrder(stdout.printed, Spoken)
    /\ driver.exit = "failure" => loop.end # "completed" \/ stdout.failed \/ loop.failure
    /\ driver.exit = "signal" => signalled
    /\ driver.exit = "panic" <=> loop.at = "panicked"

\* The result line tells the same: the reply after the last call of a turn that
\* completed, a cause for one that failed, and, unless a signal left events
\* unread, the session the run went on in.
ResultTold ==
    format # "text" =>
        /\ driver.end = "completed" =>
              loop.end = "completed" /\ InOrder(summary.message, LastReply) /\ ~summary.error
        /\ driver.end = "failed" => summary.error
        /\ driver.end # "shutdown" => summary.forked = saving.forked

\* What a finished run says of itself is what happened, in its status and in its result.
RunTold == HeadTypeOK /\ (driver.at = "exited" => ExitTold /\ ResultTold)

\* A signal ends the run, and so does a reader that left: whatever the model does
\* meanwhile, the process ends.
RunEnds == signalled \/ stdout.lost ~> driver.at = "exited"

\* The guide: the status is 1 if the session could not be saved.
UnsavedTold == driver.at = "exited" /\ driver.exit = "success" => ~saving.stopped
=============================================================================
