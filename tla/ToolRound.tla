----------------------------- MODULE ToolRound -----------------------------
(***************************************************************************)
(* The tool rounds of a turn (crates/ox-core/src/engine/dispatch.rs) and   *)
(* the approval and question modals that answer them.  Each call of a      *)
(* batch passes the permission gate in turn, the ones that passed then run *)
(* together, and a round commits with one result for every call, also when *)
(* the user interrupts it.  An engine step runs from one await to the      *)
(* next, or to the next call of a batch: between those it reads no op.     *)
(* The run is attended, by the terminal UI.                                *)
(***************************************************************************)
EXTENDS Naturals, Sequences, FiniteSets

CONSTANTS
    Kinds,      \* the kinds of call the model makes, a subset of AllKinds
    Modes,      \* permission modes, a subset of AllModes
    NoMode,     \* no mode switch waits
    OpCap,      \* room of the op channel
    MaxCalls,   \* bound: calls a behavior makes
    MaxRound,   \* bound: calls of one reply
    MaxActs     \* bound: mode switches the user makes and pickers the user opens

(***************************************************************************)
(* Kinds of call, by what the gate does with them: an `outside` read and   *)
(* an `edit` have no rule, `guarded` is an edit an ask rule holds,         *)
(* `forbidden` one a deny rule does, `question` is a call of the ask tool, *)
(* and `broken` a read whose input does not parse.                         *)
(***************************************************************************)
AllKinds == {"outside", "edit", "guarded", "forbidden", "question", "broken"}
AllModes == {"manual", "auto", "plan", "yolo"}

ASSUME RoundAssumption ==
    /\ Kinds \subseteq AllKinds /\ Modes \subseteq AllModes /\ Modes # {}
    /\ NoMode \notin Modes
    /\ OpCap \in Nat \ {0} /\ MaxCalls \in Nat /\ MaxRound \in Nat /\ MaxActs \in Nat

VARIABLES
    engine,     \* the engine's side of the turn
    calls,      \* the kind of each call made so far
    ran,        \* what each call has done
    told,       \* the result the conversation holds for each call
    ops,        \* the op channel
    events,     \* the event channel
    ui,         \* the terminal UI
    consented,  \* history: the calls the user approved, in the UI
    acts        \* how many of either there were

rvars == <<engine, calls, ran, told, ops, events, ui, consented, acts>>

Call     == 1 .. MaxCalls
Outcomes == {"none", "output", "denied", "error", "notRun", "interrupted"}

\* "answered" is a question whose answer its call has yet to return, "writing" a
\* write in a task of its own, "landed" one whose call has yet to return, and
\* "cut" a call dropped while it ran and before it wrote.
Deeds    == {"no", "running", "answered", "writing", "landed", "done", "cut"}
Phases   == {"idle", "model", "batch", "gate", "classify", "approval", "run",
             "question", "draining", "over"}

Parallel(k) == k \in {"outside", "broken"}
Writes(k)   == k \in {"edit", "guarded", "forbidden"}

Op(kind, c, arg) == [op |-> kind, call |-> c, arg |-> arg]
Event(ev, c, g)  == [ev |-> ev, call |-> c, grant |-> g]

-----------------------------------------------------------------------------
(***************************************************************************)
(* The permission policy: mode and session rules                           *)
(***************************************************************************)

\* Policy::verdict, in the order the pipeline settles a call.
Verdict(k, mode, granted) ==
    CASE k = "forbidden"                    -> "deny"
      [] mode = "plan" /\ Writes(k)         -> "deny"
      [] k = "guarded"                      -> "ask"
      [] k = "question" \/ k \in granted    -> "allow"
      [] OTHER -> CASE mode = "auto"   -> "classify"
                    [] mode = "manual" -> "ask"
                    [] OTHER           -> "allow"

\* A session rule is offered only when it would let the call through.
Grantable(k, mode, granted) == Verdict(k, mode, granted \cup {k}) = "allow"

\* The latest mode switch the turn received takes effect.
ModeApplied(e) ==
    IF e.kept = NoMode THEN e ELSE [e EXCEPT !.policy = e.kept, !.kept = NoMode]

-----------------------------------------------------------------------------
(***************************************************************************)
(* The round                                                               *)
(***************************************************************************)
Current(e) == e.batch[e.at]
Held(e)    == {e.batch[i] : i \in 1 .. Len(e.batch)}
Kind(c)    == calls[c]

Unanswered(e, S) == {c \in S : e.out[c] = "none"}

With(e, S, o) == [e EXCEPT !.out = [c \in Call |-> IF c \in S THEN o ELSE @[c]]]

\* The gate is through with the call: it is ready, or has its result.
Settled(e, o) ==
    [e EXCEPT !.ready = IF o = "ready" THEN @ \cup {Current(e)} ELSE @,
              !.out   = IF o = "ready" THEN @ ELSE [@ EXCEPT ![Current(e)] = o],
              !.phase = IF e.at = Len(e.batch) THEN "run" ELSE "gate",
              !.at    = IF e.at = Len(e.batch) THEN 0 ELSE @ + 1]

\* Consecutive parallel-safe calls of `todo` form one batch.
BatchSize(todo) ==
    IF Parallel(Kind(todo[1]))
      THEN CHOOSE n \in 1 .. Len(todo) :
              /\ \A i \in 1 .. n : Parallel(Kind(todo[i]))
              /\ n < Len(todo) => ~Parallel(Kind(todo[n + 1]))
      ELSE 1

NextBatch(e) ==
    LET n == BatchSize(e.todo)
    IN  [e EXCEPT !.phase = "gate", !.at = 1, !.ready = {},
                  !.batch = SubSeq(e.todo, 1, n),
                  !.todo  = SubSeq(e.todo, n + 1, Len(e.todo))]

Stopped(e) == [e EXCEPT !.aborted = TRUE, !.ready = {}, !.batch = <<>>,
                        !.todo = <<>>, !.at = 0]

\* Mutant: the batches still to come get no result.
AbortedBatchOnly(e) ==
    [With(Stopped(e), Unanswered(e, Held(e)), "notRun") EXCEPT !.phase = "over"]

\* An abort while the batch passes the gate: no call of it has started.
AbortedAtGate(e) ==
    [With(Stopped(e), Unanswered(e, e.round), "notRun") EXCEPT !.phase = "over"]

\* Mutant: calls cut short are told as not run.
AbortedUnrun(e) ==
    [With(Stopped(e), Unanswered(e, e.round), "notRun") EXCEPT !.phase = "draining"]

\* Mutant: the abort does not wait for the writes in flight.
AbortedUndrained(e) ==
    LET cut == Unanswered(e, e.ready)
    IN  [With(With(Stopped(e), Unanswered(e, e.round), "notRun"), cut, "interrupted")
           EXCEPT !.phase = "over"]

\* An abort while calls run: the unfinished ones are dropped and cancelled.
AbortedRunning(e) ==
    LET cut == Unanswered(e, e.ready)
    IN  [With(With(Stopped(e), Unanswered(e, e.round), "notRun"), cut, "interrupted")
           EXCEPT !.phase = "draining"]

\* The turn's end, which the UI learns from OpEnded.
TurnOver(e) == [ModeApplied(e) EXCEPT !.phase = "idle", !.aborted = FALSE]

Unfinished == engine.phase \in {"run", "question"} /\ Unanswered(engine, engine.ready) # {}

\* Mutant: an approval waits for its reply alone.
WaitingElsewhere == engine.phase \in {"model", "classify"} \/ Unfinished

\* Where the engine races the op channel.
Waiting == engine.phase \in {"model", "classify", "approval"} \/ Unfinished

\* The race is biased: what it races goes on only while no op waits.
Raced(phase) == engine.phase = phase /\ ops = <<>>

-----------------------------------------------------------------------------
(***************************************************************************)
(* The engine between ops                                                  *)
(***************************************************************************)
AtRest == UNCHANGED <<ops, ui, consented, acts>>

\* A reply without calls ends the turn, one with calls starts a round.
Reply ==
    /\ Raced("model") /\ AtRest /\ UNCHANGED <<ran, told>>
    /\ \/ /\ engine' = TurnOver(engine)
          /\ events' = Append(events, Event("OpEnded", 0, FALSE))
          /\ UNCHANGED calls
       \/ \E n \in 1 .. MaxRound : \E made \in [1 .. n -> Kinds] :
             LET ids == [i \in 1 .. n |-> Len(calls) + i]
             IN  /\ Len(calls) + n <= MaxCalls
                 /\ calls' = calls \o made
                 /\ engine' = [engine EXCEPT !.phase = "batch", !.todo = ids,
                                             !.round = {ids[i] : i \in 1 .. n}]
                 /\ UNCHANGED events

\* The next batch of the round, or its end.
Batch ==
    /\ engine.phase = "batch" /\ AtRest /\ UNCHANGED <<calls, ran, told, events>>
    /\ engine' = IF engine.todo = <<>> THEN [engine EXCEPT !.phase = "over"]
                                       ELSE NextBatch(engine)

Passes(e, o) == engine' = Settled(e, o) /\ UNCHANGED events

\* Asks the user; until the answer no mode switch takes effect.
Asks(e) ==
    /\ engine' = [e EXCEPT !.phase = "approval"]
    /\ events' = Append(events, Event("ApprovalRequested", Current(e),
                                Grantable(Kind(Current(e)), e.policy, e.granted)))

\* The verdict on the current call; `left` is the step of a call that is left
\* to the classifier.
Decide(e, left) ==
    LET v == Verdict(Kind(Current(e)), e.policy, e.granted)
    IN  \/ v = "allow"    /\ Passes(e, "ready")
        \/ v = "deny"     /\ Passes(e, "denied")
        \/ v = "ask"      /\ Asks(e)
        \/ v = "classify" /\ left

\* One call prepares and meets the policy.
Gate ==
    /\ engine.phase = "gate" /\ AtRest /\ UNCHANGED <<calls, ran, told>>
    /\ IF Kind(Current(engine)) = "broken"
          THEN Passes(engine, "error")
          ELSE LET e == ModeApplied(engine)
               IN  Decide(e, engine' = [e EXCEPT !.phase = "classify"] /\ UNCHANGED events)

\* Mutant: the verdict reached before the wait stands.
ClassifiedAtOnce ==
    /\ Raced("classify") /\ AtRest /\ UNCHANGED <<calls, ran, told>>
    /\ Passes(engine, "ready") \/ Asks(engine)

\* The classifier answers, and the policy is consulted again.
Classified ==
    /\ Raced("classify") /\ AtRest /\ UNCHANGED <<calls, ran, told>>
    /\ LET e == ModeApplied(engine) IN Decide(e, Passes(e, "ready") \/ Asks(e))

-----------------------------------------------------------------------------
(***************************************************************************)
(* The calls of a batch                                                    *)
(***************************************************************************)
Does(c, from, to) == ran[c] = from /\ ran' = [ran EXCEPT ![c] = to]

\* The first poll starts the calls together.
Start ==
    /\ Raced("run") /\ AtRest /\ UNCHANGED <<engine, calls, told, events>>
    /\ \E c \in engine.ready : ran[c] = "no"
    /\ ran' = [c \in Call |-> IF c \in engine.ready THEN "running" ELSE ran[c]]

\* A call hands its write to a task of its own.
Write(c) ==
    /\ Raced("run") /\ AtRest /\ UNCHANGED <<engine, calls, told, events>>
    /\ c \in engine.ready /\ Writes(Kind(c)) /\ Does(c, "running", "writing")

\* The task outlives the call.
Land(c) ==
    /\ AtRest /\ UNCHANGED <<engine, calls, told, events>>
    /\ Does(c, "writing", "landed")

Finish(c) ==
    /\ Raced("run") /\ AtRest /\ UNCHANGED <<calls, told, events>>
    /\ c \in engine.ready
    /\ Does(c, CASE Writes(Kind(c))       -> "landed"
                 [] Kind(c) = "question"  -> "answered"
                 [] OTHER                 -> "running", "done")
    /\ engine' = [engine EXCEPT !.out[c] = "output"]

\* The ask tool's question reaches the dispatcher.
AskQuestion(c) ==
    /\ Raced("run") /\ AtRest /\ UNCHANGED <<calls, ran, told>>
    /\ c \in engine.ready /\ Kind(c) = "question" /\ ran[c] = "running"
    /\ engine' = [engine EXCEPT !.phase = "question"]
    /\ events' = Append(events, Event("QuestionAsked", c, FALSE))

EndBatch ==
    /\ engine.phase = "run" /\ ~Unfinished
    /\ AtRest /\ UNCHANGED <<calls, ran, told, events>>
    /\ engine' = [engine EXCEPT !.phase = "batch"]

\* The abort returns once no write is left in flight.
Drained ==
    /\ engine.phase = "draining" /\ \A c \in Call : ran[c] # "writing"
    /\ AtRest /\ UNCHANGED <<calls, ran, told, events>>
    /\ engine' = [engine EXCEPT !.phase = "over"]

\* The round commits, aborted or not.
Over ==
    /\ engine.phase = "over" /\ AtRest /\ UNCHANGED <<calls, ran>>
    /\ told' = [c \in Call |-> IF c \in engine.round THEN engine.out[c] ELSE told[c]]
    /\ LET e == [ModeApplied(engine) EXCEPT !.phase = "model", !.round = {}, !.ready = {},
                                            !.batch = <<>>, !.at = 0,
                                            !.out = [c \in Call |-> "none"]]
       IN  IF engine.aborted
             THEN engine' = TurnOver(e) /\ events' = Append(events, Event("OpEnded", 0, FALSE))
             ELSE engine' = e /\ UNCHANGED events

-----------------------------------------------------------------------------
(***************************************************************************)
(* Ops                                                                     *)
(***************************************************************************)
Reads == ops' = Tail(ops) /\ UNCHANGED <<calls, told, ui, consented, acts>>

\* What an abort does to the calls in flight: the tasks of their writes go on.
CutShort ==
    ran' = [c \in Call |-> IF ran[c] \in {"running", "answered"} THEN "cut" ELSE ran[c]]

Interrupted ==
    CASE engine.phase = "model" ->
            /\ engine' = TurnOver(engine) /\ UNCHANGED ran
            /\ events' = Append(events, Event("OpEnded", 0, FALSE))
      [] engine.phase \in {"classify", "approval"} ->
            engine' = AbortedAtGate(engine) /\ UNCHANGED <<ran, events>>
      [] OTHER -> engine' = AbortedRunning(engine) /\ CutShort /\ UNCHANGED events

\* Whether `op` is the reply the engine waits for.
Awaited(op) ==
    \/ op.op = "Resolve" /\ engine.phase = "approval" /\ op.call = Current(engine)
    \/ op.op = "AnswerQuestion" /\ engine.phase = "question" /\ op.call \in engine.ready

Decided(decision) ==
    engine' = CASE decision = "approve" -> Settled(engine, "ready")
                [] decision = "deny"    -> Settled(engine, "denied")
                [] decision = "abort"   -> AbortedAtGate(engine)
                [] decision = "session" ->
                     Settled([engine EXCEPT !.granted = @ \cup {Kind(Current(engine))}], "ready")

\* The turn takes in an op.
Absorb ==
    /\ Waiting /\ ops # <<>> /\ Reads
    /\ LET op == Head(ops)
       IN  \/ op.op = "Interrupt" /\ Interrupted
           \/ /\ op.op = "SetMode" /\ UNCHANGED <<ran, events>>
              /\ engine' = [engine EXCEPT !.kept = op.arg]
           \/ /\ op.op = "Resolve" /\ Awaited(op) /\ UNCHANGED <<ran, events>>
              /\ Decided(op.arg)
           \/ /\ op.op = "AnswerQuestion" /\ Awaited(op) /\ UNCHANGED events
              /\ engine' = [engine EXCEPT !.phase = "run"]
              /\ Does(op.call, "running", "answered")
           \/ /\ op.op \in {"Resolve", "AnswerQuestion"} /\ ~Awaited(op)
              /\ UNCHANGED <<engine, ran, events>>

\* The idle engine takes an op.
Serve ==
    /\ engine.phase = "idle" /\ ops # <<>> /\ Reads /\ UNCHANGED <<ran, events>>
    /\ LET op == Head(ops)
       IN  engine' = CASE op.op = "Prompt"  -> [engine EXCEPT !.phase = "model"]
                       [] op.op = "SetMode" -> [engine EXCEPT !.policy = op.arg]
                       [] OTHER             -> engine

-----------------------------------------------------------------------------
(***************************************************************************)
(* The terminal UI                                                         *)
(***************************************************************************)
Room == Len(ops) < OpCap

\* The top modal has the keyboard.
NoModal == ui.modals = <<>>

UISide == UNCHANGED <<engine, calls, ran, told>>

Submit ==
    /\ ~ui.busy /\ NoModal /\ Room /\ UISide /\ UNCHANGED <<events, consented, acts>>
    /\ ops' = Append(ops, Op("Prompt", 0, "none"))
    /\ ui' = [ui EXCEPT !.busy = TRUE]

\* Esc or Ctrl+C while an operation is in flight.
PressInterrupt ==
    /\ ui.busy /\ NoModal /\ Room /\ UISide
    /\ UNCHANGED <<events, ui, consented, acts>>
    /\ ops' = Append(ops, Op("Interrupt", 0, "none"))

CycleMode ==
    /\ NoModal /\ Room /\ UISide /\ UNCHANGED <<events, ui, consented>>
    /\ acts < MaxActs /\ acts' = acts + 1
    /\ \E m \in Modes : ops' = Append(ops, Op("SetMode", 0, m))

\* A modal of the UI's own, such as the prompt history, which sends nothing.
Picker == Event("picker", 0, FALSE)

OpenPicker ==
    /\ NoModal /\ UISide /\ UNCHANGED <<ops, events, consented>>
    /\ acts < MaxActs /\ acts' = acts + 1
    /\ ui' = [ui EXCEPT !.modals = <<Picker>>]

ClosePicker ==
    /\ ~NoModal /\ Head(ui.modals) = Picker
    /\ UISide /\ UNCHANGED <<ops, events, consented, acts>>
    /\ ui' = [ui EXCEPT !.modals = Tail(@)]

\* The replies a modal offers.
Replies(modal) ==
    CASE modal.ev = "QuestionAsked" -> {Op("AnswerQuestion", modal.call, "answer")}
      [] modal.ev = "ApprovalRequested" ->
            {Op("Resolve", modal.call, d) : d \in {"approve", "deny", "abort"}
                \cup (IF modal.grant THEN {"session"} ELSE {})}
      [] modal = Picker -> {}

\* The user answers the top modal, which closes.  A full channel loses the
\* reply.
Answer ==
    /\ ~NoModal /\ UISide /\ UNCHANGED <<events, acts>>
    /\ \E reply \in Replies(Head(ui.modals)) :
          /\ ui' = [ui EXCEPT !.modals = Tail(@),
                              !.lost = IF Room THEN @ ELSE @ \cup {reply.call}]
          /\ ops' = IF Room THEN Append(ops, reply) ELSE ops
          /\ consented' = IF Room /\ reply.arg \in {"approve", "session", "answer"}
                            THEN consented \cup {reply.call} ELSE consented

\* Modals stack, the newest on top.
HandleEvent ==
    /\ events # <<>> /\ events' = Tail(events)
    /\ UISide /\ UNCHANGED <<ops, consented, acts>>
    /\ ui' = IF Head(events).ev = "OpEnded" THEN [ui EXCEPT !.busy = FALSE]
             ELSE [ui EXCEPT !.modals = <<Head(events)>> \o @]

-----------------------------------------------------------------------------
RInit ==
    /\ \E m \in Modes :
          engine = [phase |-> "idle", policy |-> m, kept |-> NoMode, todo |-> <<>>,
                    batch |-> <<>>, at |-> 0, ready |-> {},
                    out |-> [c \in Call |-> "none"], round |-> {},
                    aborted |-> FALSE, granted |-> {}]
    /\ calls = <<>> /\ ops = <<>> /\ events = <<>>
    /\ ran = [c \in Call |-> "no"] /\ told = [c \in Call |-> "none"]
    /\ ui = [busy |-> FALSE, modals |-> <<>>, lost |-> {}]
    /\ consented = {} /\ acts = 0

RNext ==
    \/ Reply \/ Batch \/ Gate \/ Classified \/ Start \/ EndBatch \/ Drained \/ Over
    \/ \E c \in Call : Write(c) \/ Land(c) \/ Finish(c) \/ AskQuestion(c)
    \/ Absorb \/ Serve
    \/ Submit \/ PressInterrupt \/ CycleMode \/ Answer \/ HandleEvent
    \/ OpenPicker \/ ClosePicker

\* The engine's task runs whenever it can and a write's task ends.  Nothing
\* says that the model replies, a tool finishes or the user answers.
RSpec ==
    /\ RInit /\ [][RNext]_rvars
    /\ WF_rvars(Batch) /\ WF_rvars(Gate) /\ WF_rvars(EndBatch) /\ WF_rvars(Drained)
    /\ WF_rvars(Over) /\ WF_rvars(Absorb) /\ WF_rvars(Serve)
    /\ \A c \in Call : WF_rvars(Land(c))

-----------------------------------------------------------------------------
(***************************************************************************)
(* Correctness                                                             *)
(***************************************************************************)
\* The shapes of the round's state; the places of the current call, the batch
\* and what is still to come fit together.
RoundTypeOK ==
    /\ engine.phase \in Phases /\ engine.policy \in Modes
    /\ engine.kept \in Modes \cup {NoMode} /\ engine.granted \subseteq Kinds
    /\ engine.phase \in {"gate", "classify", "approval"} => engine.at \in 1 .. Len(engine.batch)
    /\ engine.ready \subseteq engine.round /\ Held(engine) \subseteq engine.round
    /\ engine.out \in [Call -> Outcomes] /\ engine.aborted \in BOOLEAN
    /\ calls \in Seq(Kinds) /\ ran \in [Call -> Deeds] /\ told \in [Call -> Outcomes]
    /\ Len(ops) <= OpCap /\ acts \in 0 .. MaxActs
    /\ ui.busy \in BOOLEAN /\ ui.lost \subseteq Call /\ consented \subseteq Call

\* Every call the model made has a result once its round is behind, also when
\* an interrupt ended the round early: the API takes no conversation with a
\* call left unanswered (run_tool_round, run_batch).
EveryCallAnswered ==
    engine.phase \in {"idle", "model"} =>
        \A c \in 1 .. Len(calls) : told[c] # "none"

\* The model is never told of a call that changed the workspace that it did
\* not run, nor of an output of one cut short (run_ready, NOT_RUN).
ResultsTruthful ==
    \A c \in 1 .. Len(calls) :
        /\ told[c] \in {"notRun", "denied", "error"} => ran[c] = "no"
        /\ told[c] = "output" => ran[c] = "done"
        /\ told[c] = "interrupted" => ran[c] \in {"no", "cut", "landed"}

\* A call passes the gate by the user's reply to that very call, or unasked
\* under the last mode the turn has taken in and the rules granted so far; a
\* question takes the answer given to it (check_permission, await_approval,
\* answer_question).
LastMode == IF engine.kept = NoMode THEN engine.policy ELSE engine.kept

OwnConsent ==
    [][ /\ \A c \in engine'.ready \ engine.ready :
              \/ c \in consented
              \/ Verdict(Kind(c), LastMode, engine.granted) \in {"allow", "classify"}
        /\ \A c \in Call : ran[c] # ran'[c] /\ ran'[c] = "answered" => c \in consented
      ]_rvars

\* No call takes effect outside the round that ran it: a turn that ended, or
\* the conversation's next request, leaves no write in flight (drain_writes).
EffectsInRound ==
    [][ran' # ran => engine.phase \in {"run", "question", "draining"}]_rvars

\* An engine that waits for the user can be answered: the request is on its
\* way, its modal is open, the reply is on its way, or the UI told the user
\* that it lost the reply (push_approval_modal, surface_send_error).
Answerable ==
    \A c \in Call :
        \/ engine.phase = "approval" /\ c = Current(engine)
        \/ engine.phase = "question" /\ c \in engine.ready
        => \/ \E i \in 1 .. Len(events) : events[i].ev # "OpEnded" /\ events[i].call = c
           \/ \E i \in 1 .. Len(ui.modals) : ui.modals[i].call = c
           \/ \E i \in 1 .. Len(ops) : ops[i].op \in {"Resolve", "AnswerQuestion"} /\ ops[i].call = c
           \/ c \in ui.lost

\* A round neither loses a call nor waits for an answer nobody can give, and
\* what it tells the model of a call is what the call did.
RoundSound == RoundTypeOK /\ Answerable /\ EveryCallAnswered /\ ResultsTruthful

\* An interrupt the channel took ends the turn, whatever the turn waits for: a
\* reply that never comes, a call that hangs, an answer (absorb, race_or).
InterruptEnds ==
    (\E i \in 1 .. Len(ops) : ops[i].op = "Interrupt") ~> (engine.phase = "idle")
=============================================================================
