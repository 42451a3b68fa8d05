---- MODULE TurnProtocol ----
(***************************************************************************)
(* The terminal UI (crates/ox-tui/src/app) drives the engine                *)
(* (crates/ox-core/src/engine.rs) over a bounded channel of ops and an      *)
(* unbounded channel of events.  The UI waits for one idle-only op at a     *)
(* time; prompts typed meanwhile are forwarded to the running turn, which   *)
(* splices them in at its round boundaries and confirms each of them, and   *)
(* the UI submits again whatever was not confirmed when the turn ended.     *)
(* Each UI action is one pass of its event loop; an engine action runs from *)
(* one await on the op channel to the next.                                 *)
(***************************************************************************)
EXTENDS PromptQueue, FiniteSets

CONSTANTS Mode,       \* permission modes
          NoMode,     \* the absence of one
          OpCap,      \* room of the op channel
          MaxRounds,  \* client.max_tool_rounds
          MaxOps      \* bound: how many ops the user's actions number

ASSUME Modes   == NoMode \notin Mode /\ Mode # {}
ASSUME Bounds  == OpCap \in Nat \ {0} /\ MaxRounds \in Nat \ {0} /\ MaxOps \in Nat

VARIABLES
  tui,      \* the UI's state
  engine,   \* the engine's state
  ops,      \* the op channel: submissions the engine has not read
  events,   \* the event channel
  said,     \* prompts in the conversation, with the session each was recorded in
  typed,    \* history: where each submitted prompt was typed, and whether during a switch
  dropped   \* history: prompts discarded with a notice, as a session switch left them behind

vars == <<tui, engine, ops, events, said, typed, dropped>>

----------------------------------------------------------------------------
(* Ops and events *)

Switches  == {"Clear", "Archive", "Resume"}
LocalOps  == Switches \cup {"FindSaved", "Rename"}      \* serve no other op while they run
IdleOnly  == {"Prompt", "Compact", "Login"} \cup LocalOps
OpKinds   == IdleOnly \cup {"Queue", "Interrupt", "SetMode", "LoginCode"}
Ends      == {"Completed", "Cancelled", "Failed"}

Submission(kind, id, p, m) == [op |-> kind, id |-> id, prompt |-> p, mode |-> m]

Event(ev)       == [ev |-> ev, id |-> 0, end |-> "none", prompt |-> NoPrompt, mode |-> NoMode]
OpEnded(id, e)  == [Event("OpEnded") EXCEPT !.id = id, !.end = e]
Drained(ps)     == [i \in 1..Len(ps) |-> [Event("PromptDrained") EXCEPT !.prompt = ps[i]]]
ModeChanged(m)  == [Event("ModeChanged") EXCEPT !.mode = m]

----------------------------------------------------------------------------
(* The terminal UI *)

Room(sent) == OpCap - Len(ops) - Len(sent)
Busy(t)    == t.op # "none"

\* A sign-in that waits for its code takes no prompt.
AwaitsCode(t) == t.op = "Login" /\ t.activity # "cancelling"

TakesQueuedPrompts(t) == t.op = "Prompt" /\ t.activity = "running"

\* The open modal: the `/init` picker, another one that may send an idle-only op, or none.
Modals  == {"none", "op", "init"}
Open(t) == t.modal # "none"

\* Submits the queued prompts the turn lacks, as far as the channel has room.
ForwardQueued(o) ==
  LET t     == o.tui
      ready == IF TakesQueuedPrompts(t) THEN ToForward(t.queue) ELSE <<>>
      n     == IF Len(ready) > Room(o.sent) THEN Room(o.sent) ELSE Len(ready)
  IN  [tui  |-> [t EXCEPT !.queue.forwarded = @ + n, !.nextId = @ + n],
       sent |-> o.sent \o
                [i \in 1..n |-> Submission("Queue", t.nextId + i - 1, ready[i], NoMode)]]

\* Puts an idle-only op in flight.
Begin(t, kind) ==
  [t EXCEPT !.op = kind, !.id = t.nextId, !.nextId = @ + 1,
            !.activity = IF kind = "Compact" THEN "compacting" ELSE "running"]

\* A full channel leaves the prompt at the queue head.
StartTurn(t, p) ==
  IF Room(<<>>) = 0
  THEN [tui |-> [t EXCEPT !.queue = PushFront(@, <<p>>)], sent |-> <<>>]
  ELSE ForwardQueued([tui  |-> Begin([t EXCEPT !.queue.active = p], "Prompt"),
                      sent |-> <<Submission("Prompt", t.nextId, p, NoMode)>>])

DrainPending(t) ==
  IF t.queue.held \/ t.queue.pending = <<>>
  THEN [tui |-> t, sent |-> <<>>]
  ELSE StartTurn([t EXCEPT !.queue = PopNext(@)], Head(t.queue.pending))

\* Settles a failed or cancelled operation, holds the queue or goes on, and starts its head
\* unless a modal that may send the next operation is open.
EndOperation(t, end) ==
  LET settles == end = "Failed" \/ (end = "Cancelled" /\ t.queue.handBack = "unsentPrompt")
      s == IF settles THEN FailTurn(t.queue, t.input = NoPrompt)
           ELSE [queue |-> t.queue, input |-> NoPrompt, goesOn |-> TRUE]
      goesOn == s.goesOn /\ end # "Cancelled"
      over == EndTurn(s.queue)
      queue == IF t.activity = "cancelling" THEN LeaveToUser(over)
               ELSE IF goesOn THEN over ELSE [over EXCEPT !.held = TRUE]
      idle == [t EXCEPT !.queue = queue, !.op = "none", !.id = 0, !.activity = "none",
                        !.input = IF s.input = NoPrompt THEN @ ELSE s.input,
                        !.awaits = Open(t)]
  IN  IF idle.awaits THEN [tui |-> idle, sent |-> <<>>] ELSE DrainPending(idle)

\* One pass of the UI's loop: its new state and the ops it submitted.
Pass(o) == tui' = o.tui /\ ops' = ops \o o.sent
Quietly(t) == Pass([tui |-> t, sent |-> <<>>])

Bounded == tui.nextId <= MaxOps    \* the exploration bound on what the user does

\* A new prompt in the empty input.
Type ==
  /\ ~Open(tui) /\ tui.input = NoPrompt
  /\ \E p \in Prompt : typed[p].at = 0 /\ Quietly([tui EXCEPT !.input = p])
  /\ UNCHANGED <<engine, events, said, typed, dropped>>

Submit ==
  /\ Bounded /\ ~Open(tui) /\ tui.input # NoPrompt /\ ~AwaitsCode(tui)
  /\ LET p == tui.input
         t == [tui EXCEPT !.input = NoPrompt, !.queue = Push(@, p)]
     IN  /\ Pass(IF Busy(tui) THEN ForwardQueued([tui |-> t, sent |-> <<>>]) ELSE DrainPending(t))
         /\ typed' = [typed EXCEPT ![p] = [at |-> tui.epoch, late |-> tui.op \in Switches]]
  /\ UNCHANGED <<engine, events, said, dropped>>

\* Text shaped as a sign-in code goes to the sign-in that waits for one.
SubmitCode ==
  /\ Bounded /\ ~Open(tui) /\ AwaitsCode(tui) /\ Room(<<>>) > 0
  /\ Pass([tui  |-> [tui EXCEPT !.nextId = @ + 1],
           sent |-> <<Submission("LoginCode", tui.nextId, NoPrompt, NoMode)>>])
  /\ UNCHANGED <<engine, events, said, typed, dropped>>

\* `/init` starts a turn of its own, ahead of what is queued: at once, which is refused while an
\* operation runs, or from its picker, which does not ask.
SlashPrompt ==
  /\ Bounded /\ tui.input # NoPrompt
  /\ tui.modal = "init" \/ (~Open(tui) /\ ~Busy(tui))
  /\ LET o == StartTurn([tui EXCEPT !.input = NoPrompt, !.modal = "none"], tui.input)
     IN  Pass(IF o.tui.awaits /\ ~Busy(o.tui) THEN DrainPending([o.tui EXCEPT !.awaits = FALSE])
              ELSE o)
  /\ typed' = [typed EXCEPT ![tui.input] = [at |-> tui.epoch, late |-> FALSE]]
  /\ UNCHANGED <<engine, events, said, dropped>>

\* Esc or Ctrl+C while busy.
Interrupt ==
  /\ Bounded /\ ~Open(tui) /\ Busy(tui) /\ Room(<<>>) > 0
  /\ Pass([tui  |-> [tui EXCEPT !.activity = "cancelling", !.nextId = @ + 1],
           sent |-> <<Submission("Interrupt", tui.nextId, NoPrompt, NoMode)>>])
  /\ UNCHANGED <<engine, events, said, typed, dropped>>

\* Esc while idle takes the last queued prompt back for editing.
TakeBack ==
  /\ ~Open(tui) /\ ~Busy(tui) /\ tui.input = NoPrompt /\ tui.queue.pending # <<>>
  /\ LET n == Len(tui.queue.pending)
     IN  Quietly([tui EXCEPT !.queue = PopLast(@), !.input = tui.queue.pending[n]])
  /\ UNCHANGED <<engine, events, said, typed, dropped>>

SetMode ==
  /\ Bounded /\ ~Open(tui) /\ Room(<<>>) > 0
  /\ \E m \in Mode \ {tui.requested} :
       Pass([tui  |-> [tui EXCEPT !.requested = m, !.nextId = @ + 1],
             sent |-> <<Submission("SetMode", tui.nextId, NoPrompt, m)>>])
  /\ UNCHANGED <<engine, events, said, typed, dropped>>

\* What the dispatch of an idle-only op marks in the queue.
Marked(q, kind) ==
  CASE kind \in {"Clear", "Archive"} -> MarkSwitch(q, "fresh")
    [] kind = "Resume"               -> MarkSwitch(q, "saved")
    [] kind = "Compact"              -> [q EXCEPT !.handBack = "heldQueue"]
    [] OTHER                         -> q

\* The idle-only ops the user can ask for.
Sendable(t) ==
  CASE t.modal = "none" -> IdleOnly \ {"Prompt"}
    [] t.modal = "op"   -> {"Rename", "Resume"}
    [] t.modal = "init" -> {}

\* A mutant: an idle-only op is submitted while another operation runs.
DispatchWhileBusy ==
  /\ Bounded /\ Room(<<>>) > 0
  /\ \E kind \in Sendable(tui) :
       Pass([tui  |-> Begin([tui EXCEPT !.queue = Marked(@, kind), !.modal = "none"], kind),
             sent |-> <<Submission(kind, tui.nextId, NoPrompt, NoMode)>>])
  /\ UNCHANGED <<engine, events, said, typed, dropped>>

\* A slash command, or a modal it opened, sends an idle-only op.
Dispatch ==
  /\ Bounded /\ ~Busy(tui) /\ Room(<<>>) > 0
  /\ \E kind \in Sendable(tui) :
       Pass([tui  |-> Begin([tui EXCEPT !.queue = Marked(@, kind), !.modal = "none"], kind),
             sent |-> <<Submission(kind, tui.nextId, NoPrompt, NoMode)>>])
  /\ UNCHANGED <<engine, events, said, typed, dropped>>

\* `/rename`, `/model`, `/resume` and `/init` open a modal that may send an idle-only op.
OpenModal ==
  /\ Bounded /\ ~Busy(tui) /\ ~Open(tui)
  /\ \E modal \in Modals \ {"none"} : Quietly([tui EXCEPT !.modal = modal])
  /\ UNCHANGED <<engine, events, said, typed, dropped>>

CloseModal ==
  /\ Open(tui)
  /\ LET t == [tui EXCEPT !.modal = "none"]
     IN  IF tui.awaits /\ ~Busy(tui) THEN Pass(DrainPending([t EXCEPT !.awaits = FALSE]))
         ELSE Quietly(t)
  /\ UNCHANGED <<engine, events, said, typed, dropped>>

UserActs ==
  \/ Type \/ Submit \/ SubmitCode \/ SlashPrompt \/ Interrupt \/ TakeBack \/ SetMode
  \/ Dispatch \/ OpenModal \/ CloseModal

\* What the next event is.
Next1(ev) == events # <<>> /\ Head(events).ev = ev /\ events' = Tail(events)
Shows(t)  == Quietly(t) /\ UNCHANGED <<engine, said, typed, dropped>>

\* Leaving an automatic compaction forwards what it held back.
SetActivity ==
  /\ Next1("Token")
  /\ LET t == [tui EXCEPT !.activity = IF Busy(tui) /\ @ # "cancelling" THEN "running" ELSE @]
     IN  Pass(IF tui.activity = "compacting"
              THEN ForwardQueued([tui |-> t, sent |-> <<>>])
              ELSE [tui |-> t, sent |-> <<>>])
  /\ UNCHANGED <<engine, said, typed, dropped>>

PromptDrained ==
  Next1("PromptDrained")
  /\ Shows([tui EXCEPT !.queue = ConfirmDrained(@, Head(events).prompt)])

TurnRolledBack ==
  Next1("TurnRolledBack") /\ Shows([tui EXCEPT !.queue.handBack = "rolledBackTurn"])

PromptUnsent ==
  Next1("PromptUnsent") /\ Shows([tui EXCEPT !.queue.handBack = "unsentPrompt"])

AutoCompactionStarted ==
  Next1("AutoCompactionStarted")
  /\ Shows([tui EXCEPT !.queue.handBack = "heldQueue",
                       !.activity = IF @ = "cancelling" THEN @ ELSE "compacting"])

\* Manual and automatic compactions close the modals; a mid-turn one forgets the prompts it
\* summarized.
SessionCompacted ==
  \/ /\ Next1("SessionCompacted")
     /\ Shows([tui EXCEPT !.queue.handBack = "nothing", !.modal = "none"])
  \/ /\ Next1("SessionCompactedMidTurn")
     /\ Shows([tui EXCEPT !.queue.handBack = "nothing",
                          !.queue.active = NoPrompt, !.queue.drained = <<>>])

\* Rebinds to the session a switch reached, and drops what was queued for the one it left.
SessionSwitched ==
  /\ \/ Next1("SessionRolled")  /\ tui' = [tui EXCEPT !.epoch = @ + 1,
                                    !.queue = DiscardLeftBehind([@ EXCEPT !.active = NoPrompt])]
     \/ Next1("SessionResumed") /\ tui' = [tui EXCEPT !.epoch = @ + 1, !.modal = "none",
                                    !.queue = DiscardLeftBehind([@ EXCEPT !.active = NoPrompt])]
  /\ dropped' = dropped \cup {tui.queue.pending[i] : i \in 1..LeftBehind(tui.queue)}
  /\ UNCHANGED <<engine, ops, said, typed>>

SavedFound == Next1("SavedFound") /\ Shows([tui EXCEPT !.modal = "op"])

ModeShown == Next1("ModeChanged") /\ Shows([tui EXCEPT !.shown = Head(events).mode])

\* A mutant: any op's end ends the one in flight.
EndedByAny ==
  /\ Next1("OpEnded")
  /\ Pass(IF Busy(tui) THEN EndOperation(tui, Head(events).end) ELSE [tui |-> tui, sent |-> <<>>])
  /\ UNCHANGED <<engine, said, typed, dropped>>

Ended ==
  /\ Next1("OpEnded")
  /\ Pass(IF Busy(tui) /\ Head(events).id = tui.id
          THEN EndOperation(tui, Head(events).end)
          ELSE [tui |-> tui, sent |-> <<>>])
  /\ UNCHANGED <<engine, said, typed, dropped>>

HandleEvent ==
  \/ SetActivity \/ PromptDrained \/ TurnRolledBack \/ PromptUnsent \/ AutoCompactionStarted
  \/ SessionCompacted \/ SessionSwitched \/ SavedFound \/ ModeShown \/ Ended

----------------------------------------------------------------------------
(* The engine *)

Racing == {"signIn", "autoCompact", "compact", "request", "reply", "tools", "midTurnCompact",
           "login", "finishLogin"}
Phases == {"idle", "local"} \cup Racing

Records(ps) == [i \in 1..Len(ps) |-> [prompt |-> ps[i], session |-> engine.session]]
Emit(evs)   == events' = events \o evs

\* The latest mode switch the running operation received takes effect.
ModeApplied(e) ==
  [e EXCEPT !.policy = IF e.mode = NoMode THEN @ ELSE e.mode, !.mode = NoMode]

\* A mutant: the mode switch kept for the operation goes with its mailbox.
EndDroppingMode(end, evs) ==
  /\ engine' = [engine EXCEPT !.phase = "idle", !.id = 0, !.op = "none", !.mode = NoMode,
                  !.prompt = NoPrompt, !.mailbox = <<>>, !.round = 0, !.mark = 0]
  /\ Emit(evs \o <<OpEnded(engine.id, end)>>)

\* The op ends: its mailbox goes, its mode switch applies, and the frontend is told.
End(end, evs) ==
  /\ engine' = [ModeApplied(engine) EXCEPT !.phase = "idle", !.id = 0, !.op = "none",
                  !.prompt = NoPrompt, !.mailbox = <<>>, !.round = 0, !.mark = 0]
  /\ Emit(evs \o <<OpEnded(engine.id, end)>>)

\* Splices the mailbox's prompts in, confirming each.
Drain(e, evs) ==
  /\ said' = said \o Records(e.mailbox)
  /\ Emit(evs \o Drained(e.mailbox))
  /\ engine' = [e EXCEPT !.mailbox = <<>>]

\* Records the prompt and what was queued ahead of it, from where a refusal rolls back to.
BeginTurn(e, evs) ==
  /\ said' = said \o Records(<<e.prompt>> \o e.mailbox)
  /\ Emit(evs \o Drained(e.mailbox))
  /\ engine' = [ModeApplied(e) EXCEPT !.phase = "request", !.mailbox = <<>>, !.mark = Len(said)]

\* A signed-in prompt goes through automatic compaction first when the context is due for it.
SignedIn(e) ==
  \/ BeginTurn(e, <<>>)
  \/ /\ engine' = [e EXCEPT !.phase = "autoCompact"]
     /\ Emit(<<Event("AutoCompactionStarted")>>)
     /\ UNCHANGED said

Received(kinds) ==
  ops # <<>> /\ Head(ops).op \in kinds /\ ops' = Tail(ops) /\ UNCHANGED <<tui, typed, dropped>>
Idle == engine.phase = "idle"

\* An op the engine takes only mid-operation arrived after the operation it was sent for.
ServeStale ==
  /\ Idle /\ Received({"Queue", "Interrupt", "LoginCode"})
  /\ Emit(<<OpEnded(Head(ops).id, "Completed")>>)
  /\ UNCHANGED <<engine, said>>

ServeMode ==
  /\ Idle /\ Received({"SetMode"})
  /\ engine' = [engine EXCEPT !.policy = Head(ops).mode]
  /\ Emit(<<ModeChanged(Head(ops).mode), OpEnded(Head(ops).id, "Completed")>>)
  /\ UNCHANGED said

Serving(phase) ==
  [engine EXCEPT !.phase = phase, !.id = Head(ops).id, !.op = Head(ops).op,
                 !.prompt = Head(ops).prompt]

ServeLocal ==
  /\ Idle /\ Received(LocalOps)
  /\ engine' = Serving("local")
  /\ UNCHANGED <<events, said>>

\* A compaction or a sign-in.
ServeRacing ==
  /\ Idle /\ Received({"Compact", "Login"})
  /\ engine' = Serving(IF Head(ops).op = "Login" THEN "login" ELSE "compact")
  /\ UNCHANGED <<events, said>>

ServePrompt ==
  /\ Idle /\ Received({"Prompt"})
  /\ \/ SignedIn(Serving("signIn"))
     \/ engine' = Serving("signIn") /\ UNCHANGED <<events, said>>

----------------------------------------------------------------------------
(* What an operation in flight does.  Its futures race the op channel, which *)
(* wins while it holds anything.                                             *)

Raced(phases) == engine.phase \in phases /\ ops = <<>> /\ UNCHANGED <<tui, ops, typed, dropped>>

\* The prompt was not recorded, so the frontend gets it back.
Unsent(end) == End(end, <<Event("PromptUnsent")>>) /\ UNCHANGED said

AbsorbQueue ==
  /\ engine.phase \in Racing /\ Received({"Queue"})
  /\ engine' = [engine EXCEPT !.mailbox = Append(@, Head(ops).prompt)]
  /\ UNCHANGED <<events, said>>

AbsorbMode ==
  /\ engine.phase \in Racing /\ Received({"SetMode"})
  /\ engine' = [engine EXCEPT !.mode = Head(ops).mode]
  /\ Emit(<<ModeChanged(Head(ops).mode)>>)
  /\ UNCHANGED said

\* A mutant: a sign-in and a compaction take no interrupt.
AbsorbInterruptOfTurn ==
  /\ engine.phase \in Racing /\ Received({"Interrupt"})
  /\ IF engine.phase \in {"signIn", "autoCompact", "compact", "midTurnCompact", "login"}
     THEN UNCHANGED <<engine, events, said>>
     ELSE End("Cancelled", <<>>) /\ UNCHANGED said

AbsorbInterrupt ==
  /\ engine.phase \in Racing /\ Received({"Interrupt"})
  /\ IF engine.phase \in {"signIn", "autoCompact"} THEN Unsent("Cancelled")
     ELSE End("Cancelled", <<>>) /\ UNCHANGED said

\* The code of this sign-in finishes it; another one leaves it waiting.
AbsorbCode ==
  /\ engine.phase = "login" /\ Received({"LoginCode"})
  /\ engine' = [engine EXCEPT !.phase = "finishLogin"] \/ UNCHANGED engine
  /\ UNCHANGED <<events, said>>

\* An op the operation cannot act on is dropped.
AbsorbOther ==
  /\ engine.phase \in Racing
  /\ Received(IF engine.phase = "login" THEN IdleOnly ELSE IdleOnly \cup {"LoginCode"})
  /\ UNCHANGED <<engine, events, said>>

Absorb == AbsorbQueue \/ AbsorbMode \/ AbsorbInterrupt \/ AbsorbCode \/ AbsorbOther

SignIn ==
  Raced({"signIn"}) /\ (SignedIn(engine) \/ Unsent("Failed"))

AutoCompact ==
  /\ Raced({"autoCompact"})
  /\ BeginTurn(engine, <<Event("SessionCompacted")>>) \/ Unsent("Failed")

Compact ==
  /\ Raced({"compact"})
  /\ End("Completed", <<Event("SessionCompacted")>>) \/ End("Failed", <<>>)
  /\ UNCHANGED said

\* The browser returns with the grant, which is exchanged for the login.
Login ==
  /\ UNCHANGED said
  /\ \/ Raced({"login"}) /\ engine' = [engine EXCEPT !.phase = "finishLogin"] /\ UNCHANGED events
     \/ Raced({"login", "finishLogin"}) /\ End("Failed", <<>>)
     \/ Raced({"finishLogin"}) /\ End("Completed", <<>>)

Stream ==
  /\ Raced({"request"})
  /\ engine' = [engine EXCEPT !.phase = "reply"]
  /\ Emit(<<Event("Token")>>)
  /\ UNCHANGED said

\* A paused reply continues with the next request, without taking queued prompts in.
Pause ==
  /\ Raced({"request", "reply"})
  /\ IF engine.round + 1 = MaxRounds THEN End("Failed", <<>>)
     ELSE engine' = [engine EXCEPT !.phase = "request", !.round = @ + 1] /\ UNCHANGED events
  /\ UNCHANGED said

\* The final reply, or a failed or cut-off one.
Reply ==
  /\ Raced({"request", "reply"})
  /\ End("Completed", <<>>) \/ End("Failed", <<>>)
  /\ UNCHANGED said

\* The model declined, so the turn rolls back to where it began.
Refuse ==
  /\ Raced({"request", "reply"})
  /\ said' = SubSeq(said, 1, engine.mark)
  /\ End("Failed", <<Event("TurnRolledBack")>>)

CallTools ==
  /\ Raced({"request", "reply"})
  /\ engine' = [engine EXCEPT !.phase = "tools"]
  /\ Emit(<<Event("Token")>>)
  /\ UNCHANGED said

\* The gate of a call: the mode switch the turn received applies before the call is judged.
Gate ==
  /\ Raced({"tools"}) /\ engine.mode # NoMode
  /\ engine' = ModeApplied(engine)
  /\ UNCHANGED <<events, said>>

\* A round boundary: the mode applies, queued prompts go in, and the turn goes on, compacts
\* first, or has used its rounds up.
RoundDone ==
  /\ Raced({"tools"})
  /\ LET e == [ModeApplied(engine) EXCEPT !.round = @ + 1]
     IN  IF e.round = MaxRounds
         THEN /\ said' = said \o Records(e.mailbox)
              /\ End("Failed", Drained(e.mailbox))
         ELSE \/ Drain([e EXCEPT !.phase = "request"], <<>>)
              \/ /\ said' = said \o Records(e.mailbox)
                 /\ Emit(Append(Drained(e.mailbox), Event("AutoCompactionStarted")))
                 /\ engine' = [e EXCEPT !.phase = "midTurnCompact", !.mailbox = <<>>]

\* The user aborts the turn from the approval of a tool call.
AbortApproval ==
  Raced({"tools"}) /\ End("Cancelled", <<>>) /\ UNCHANGED said

\* The summary moves the rollback point past what it holds.
MidTurnCompact ==
  /\ Raced({"midTurnCompact"})
  /\ \/ Drain([ModeApplied(engine) EXCEPT !.phase = "request", !.mark = Len(said)],
              <<Event("SessionCompactedMidTurn")>>)
     \/ End("Failed", <<>>) /\ UNCHANGED said

\* Session switches and lookups run to their end before the next op is read.
RunLocal ==
  /\ engine.phase = "local" /\ UNCHANGED <<tui, ops, said, typed, dropped>>
  /\ LET over == [engine EXCEPT !.phase = "idle", !.id = 0, !.op = "none"]
         done(evs) == Emit(evs \o <<OpEnded(engine.id, "Completed")>>)
     IN  \/ /\ engine.op \in Switches
            /\ engine' = [over EXCEPT !.session = @ + 1]
            /\ done(<<Event(IF engine.op = "Resume" THEN "SessionResumed" ELSE "SessionRolled")>>)
         \/ /\ engine.op \notin Switches
            /\ engine' = over
            /\ done(IF engine.op = "FindSaved" THEN <<Event("SavedFound")>> ELSE <<>>)
         \/ /\ engine.op # "Clear"
            /\ engine' = over
            /\ Emit(<<OpEnded(engine.id, "Failed")>>)

Serve == ServeStale \/ ServeMode \/ ServeLocal \/ ServeRacing \/ ServePrompt

\* What ends a race on the operation's own side.
Progress ==
  \/ SignIn \/ AutoCompact \/ Compact \/ Login \/ Stream \/ Pause \/ Reply \/ Refuse
  \/ CallTools \/ Gate \/ RoundDone \/ AbortApproval \/ MidTurnCompact

----------------------------------------------------------------------------
Init ==
  /\ \E m \in Mode :
       /\ tui = [queue |-> EmptyQueue, op |-> "none", id |-> 0, activity |-> "none",
                 input |-> NoPrompt, epoch |-> 1, modal |-> "none", awaits |-> FALSE,
                 requested |-> m, shown |-> m, nextId |-> 1]
       /\ engine = [phase |-> "idle", id |-> 0, op |-> "none", prompt |-> NoPrompt,
                    mailbox |-> <<>>, mode |-> NoMode, policy |-> m, round |-> 0,
                    mark |-> 0, session |-> 1]
  /\ ops = <<>> /\ events = <<>> /\ said = <<>> /\ dropped = {}
  /\ typed = [p \in Prompt |-> [at |-> 0, late |-> FALSE]]

\* Nothing is under way, and the user may leave it so.
Rest ==
  /\ ~Busy(tui) /\ Idle /\ ops = <<>> /\ events = <<>>
  /\ UNCHANGED vars

Next == UserActs \/ HandleEvent \/ Serve \/ Absorb \/ Progress \/ RunLocal \/ Rest

\* The loops of both tasks keep turning and local work ends; a model's reply, a summary or a
\* sign-in may never come.
Spec == /\ Init /\ [][Next]_vars
        /\ WF_vars(HandleEvent) /\ WF_vars(Serve) /\ WF_vars(Absorb) /\ WF_vars(RunLocal)

----------------------------------------------------------------------------
(* Properties *)

Elems(s) == {s[i] : i \in 1..Len(s)}
Said     == {said[i].prompt : i \in 1..Len(said)}

\* Every variable has its type, and the forwarded prompts are a prefix of the queue.
TypeOK ==
  /\ tui.queue \in [active : Prompt \cup {NoPrompt}, handBack : HandBacks,
                    pending : Seq(Prompt), held : BOOLEAN,
                    forwarded : 0..Len(tui.queue.pending), drained : Seq(Prompt),
                    switch : [to : Targets, before : Nat]]
  /\ tui.op \in IdleOnly \cup {"none"}
  /\ tui.activity \in {"none", "running", "compacting", "cancelling"}
  /\ tui.input \in Prompt \cup {NoPrompt} /\ {tui.requested, tui.shown} \subseteq Mode
  /\ tui.modal \in Modals /\ tui.awaits \in BOOLEAN
  /\ {tui.id, tui.epoch, tui.nextId} \subseteq Nat
  /\ engine.phase \in Phases /\ engine.op \in IdleOnly \cup {"none"}
  /\ engine.mailbox \in Seq(Prompt) /\ engine.policy \in Mode
  /\ engine.mode \in Mode \cup {NoMode} /\ engine.prompt \in Prompt \cup {NoPrompt}
  /\ engine.round \in 0..(MaxRounds - 1) /\ engine.mark \in 0..Len(said)
  /\ ops \in Seq([op : OpKinds, id : Nat, prompt : Prompt \cup {NoPrompt},
                  mode : Mode \cup {NoMode}])
  /\ Len(ops) <= OpCap

\* No submitted prompt is lost: until it is in the conversation, or was discarded with a notice,
\* the UI still holds it somewhere the user can get at it (queue.rs: the frontend keeps every
\* unconfirmed prompt, and a failed or rolled-back turn hands its prompts back).
NothingLost ==
  \A p \in Prompt :
    typed[p].at # 0 =>
      \/ p \in Said \cup dropped \cup {tui.input, tui.queue.active}
      \/ p \in Elems(tui.queue.pending) \cup Elems(tui.queue.drained)

\* No prompt runs twice: the conversation holds it once, and an idle UI no longer holds what
\* the conversation has, whatever the engine confirmed before or after the turn's end.
RunsOnce ==
  /\ Cardinality(Said) = Len(said)
  /\ ~Busy(tui) => Said \cap (Elems(tui.queue.pending) \cup {tui.input}) = {}

\* A prompt runs in the session it was typed for: the one open at the time, or, for one typed
\* while a switch ran, possibly the one the switch (or its retry) reached.
HomeSession ==
  \A i \in 1..Len(said) :
    LET home == typed[said[i].prompt]
    IN  said[i].session \in IF home.late THEN {home.at, home.at + 1} ELSE {home.at}

\* Every prompt the user submits reaches the conversation of its own session once, or stays
\* where the user can get at it: no cancel, failure, rollback, switch or late confirmation
\* loses it, doubles it or takes it elsewhere.
PromptsServed == TypeOK /\ NothingLost /\ RunsOnce /\ HomeSession

\* The prompts that the entries of `s` at `places` carry, in order.
PromptsAt(s, places) ==
  LET upTo[n \in 0..Len(s)] ==
        IF n = 0 THEN <<>>
        ELSE IF n \in places THEN Append(upTo[n - 1], s[n].prompt) ELSE upTo[n - 1]
  IN  upTo[Len(s)]

\* The prompts whose confirmation the UI has yet to read.
Confirmed(es) == PromptsAt(es, {i \in DOMAIN es : es[i].ev = "PromptDrained"})

\* The confirmations under way name the forwarded prompts in queue order, so each one moves the
\* queue head and none is taken for another prompt (confirm_drained's warning never fires).
DrainsLead ==
  /\ Len(Confirmed(events)) <= tui.queue.forwarded
  /\ \A i \in 1..Len(Confirmed(events)) : Confirmed(events)[i] = tui.queue.pending[i]

\* A switch's mark never counts more prompts than are queued, which would make
\* discard_left_behind's drain panic, and outlives its switch only on a held queue.
MarkFits ==
  SwitchAsked(tui.queue) =>
    /\ tui.queue.switch.before <= Len(tui.queue.pending)
    /\ tui.queue.held \/ tui.op \in Switches

\* What the engine and the switches still have to say of the queue fits the queue as it is now.
QueuesAgree == DrainsLead /\ MarkFits

\* No idle-only op reaches a busy engine, which would drop it without an end.
NeverDropped ==
  ~Idle => \A i \in 1..Len(ops) : ops[i].op \notin IdleOnly

\* The UI never waits for an end that will not come: its op is still in the channel, is the one
\* the engine runs, or has ended in an event the UI has yet to read.
InFlightAnswered ==
  Busy(tui) =>
    \/ \E i \in 1..Len(ops) : ops[i].id = tui.id /\ ops[i].op = tui.op
    \/ ~Idle /\ engine.id = tui.id /\ engine.op = tui.op
    \/ \E i \in 1..Len(events) : events[i].ev = "OpEnded" /\ events[i].id = tui.id

\* A late interrupt stops nothing but the operation it was pressed for: an engine that can be
\* interrupted finds one in the channel only for the op the UI is cancelling.
CancelHitsItsOp ==
  engine.phase \in Racing /\ (\E i \in 1..Len(ops) : ops[i].op = "Interrupt") =>
    tui.id = engine.id /\ tui.activity = "cancelling"

\* Once everything is delivered, the mode the engine enforces is the one the UI shows, which is
\* the last one the user asked for, however the switches fell among turns.
ModeAgrees ==
  Idle /\ ops = <<>> /\ events = <<>> =>
    engine.policy = tui.shown /\ tui.shown = tui.requested

\* While a modal that may send an idle-only op is open no turn runs, so the op it sends is never
\* dropped as busy and the `/init` picker, which does not ask, starts no second turn; and a queue
\* head that waits for the modal is never left behind by it.
ModalHasEngine ==
  /\ Open(tui) => tui.op # "Prompt"
  /\ tui.modal = "init" => ~Busy(tui)
  /\ tui.awaits /\ ~Busy(tui) => Open(tui)

\* The UI and the engine agree on the operation in flight: it reaches an idle engine, it ends, an
\* interrupt stops no other, and no modal opens over it that would send a second.
FlightAgreed == NeverDropped /\ InFlightAnswered /\ CancelHitsItsOp /\ ModalHasEngine

\* A cancelled operation ends, even when its model reply, summary or sign-in never comes.
CancelEnds == tui.activity = "cancelling" ~> tui.activity # "cancelling"
====
