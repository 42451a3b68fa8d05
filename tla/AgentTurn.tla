----------------------------- MODULE AgentTurn -----------------------------
(***************************************************************************)
(* A prompt's way through the engine of crates/ox-core/src: automatic      *)
(* compaction before and inside the turn (engine/compaction.rs), the       *)
(* requests and tool rounds of agent_turn (engine/turn.rs), the rollback   *)
(* of a refused turn, what the conversation tells the model about the      *)
(* permission mode and the tasks (prompt.rs, engine/transcript.rs), and    *)
(* what is billed (engine/usage.rs).  Writes to the store succeed; that    *)
(* they may fail is SessionStore's matter.                                 *)
(***************************************************************************)
EXTENDS Integers, Sequences, FiniteSetsExt

CONSTANTS
    Mode,         \* permission modes
    None,         \* no mode, no record
    MaxRounds,    \* client.max_tool_rounds
    MaxFailures,  \* MAX_AUTO_COMPACT_FAILURES
    MaxMessages,  \* bound: messages of the conversation
    MaxPrompts,   \* bound: prompts submitted
    MaxSwitches,  \* bound: mode switches
    MaxTasks      \* bound: task lists the model writes

ASSUME TurnAssumption ==
    /\ None \notin Mode /\ None \notin [base : Mode, seen : Mode] /\ MaxRounds \in Nat \ {0} /\ MaxFailures \in Nat \ {0}
    /\ MaxMessages \in Nat /\ MaxPrompts \in Nat /\ MaxSwitches \in Nat /\ MaxTasks \in Nat

VARIABLES
    phase,    \* what the engine does
    talk,     \* LiveTranscript: messages, prompt and tasks
    mark,     \* LiveTranscript.turn: the rollback point, None between turns
    turn,     \* the turn's rounds and its report
    policy,   \* the mode in force
    mailbox,  \* the latest switch received, and whether a prompt is queued
    money,    \* usage reported and not billed yet, and the title request
    auto,     \* AutoCompactFailures, and the failures in a row
    made      \* bounds: prompts, switches and task lists so far

tvars == <<phase, talk, mark, turn, policy, mailbox, money, auto, made>>

(***************************************************************************)
(* A message, by what matters here: the mode its reminder tells, the       *)
(* prompt context recorded with it, and the task list it leaves (0 none).  *)
(* `base` is the mode of the user context, which leads every request;      *)
(* `seen` what the engine takes the model to have been told.               *)
(***************************************************************************)
Phases  == {"idle", "manual", "before", "request", "round", "midturn"}
Context == [base : Mode, seen : Mode]
Message == [told : Mode \cup {None}, context : Context \cup {None}, tasks : 0 .. MaxTasks]
Plain   == [told |-> None, context |-> None, tasks |-> 0]

NewTurn == [rounds |-> 0, requests |-> 0, unbilled |-> 0, sent |-> 0, tasks |-> 0]

\* The mode the messages tell, and the context and tasks they leave.
Told(t) == LET said == {i \in DOMAIN t.messages : t.messages[i].told # None}
           IN  IF said = {} THEN t.base ELSE t.messages[Max(said)].told
Recorded(t) == LET kept == {i \in DOMAIN t.messages : t.messages[i].context # None}
               IN  IF kept = {} THEN None ELSE t.messages[Max(kept)].context
Latest(t) == LET left == {i \in DOMAIN t.messages : t.messages[i].tasks # 0}
             IN  IF left = {} THEN 0 ELSE t.messages[Max(left)].tasks

FreshTalk(mode) ==
    [messages |-> <<>>, base |-> mode, seen |-> mode, unrecorded |-> TRUE, tasks |-> 0]

-----------------------------------------------------------------------------
(***************************************************************************)
(* The transcript                                                          *)
(***************************************************************************)
Said(t, m) == [t EXCEPT !.messages = Append(@, m)]

\* A user message or round that moves the prompt to `mode`, telling the model a
\* change, and records the prompt if it changed.
Records(t, m, mode) ==
    LET unrecorded == t.unrecorded \/ mode # t.seen
    IN  [Said(t, [m EXCEPT !.told    = IF mode # t.seen THEN mode ELSE None,
                           !.context = IF unrecorded THEN [base |-> t.base, seen |-> mode]
                                                     ELSE None])
         EXCEPT !.seen = mode, !.unrecorded = FALSE]

\* Queued prompts enter at a round boundary.
Drained(t) == IF mailbox.queued THEN Said(t, Plain) ELSE t

StartOfTurn(t) == [length |-> Len(t.messages), seen |-> t.seen, unrecorded |-> t.unrecorded]

\* The summary replaces the messages under a fresh user context.
Summary(t, mode) ==
    [messages |-> <<[told |-> None, context |-> [base |-> mode, seen |-> mode], tasks |-> t.tasks]>>,
     base |-> mode, seen |-> mode, unrecorded |-> FALSE, tasks |-> t.tasks]

-----------------------------------------------------------------------------
(***************************************************************************)
(* The ledger                                                              *)
(***************************************************************************)
Owes(m, n)   == [m EXCEPT !.owed = @ + n]
Billed(m, n) == [m EXCEPT !.owed = @ - n]

\* emit_usage_update: the title request's usage joins once it has landed.
Absorbed(m) == IF m.title = "sent" THEN [Billed(m, 1) EXCEPT !.title = "none"] ELSE m

\* account_usage, for a turn or a part of one that keeps its messages.
Accounted(m) ==
    IF turn.unbilled = 0 THEN m ELSE Absorbed(Billed(m, turn.unbilled))

-----------------------------------------------------------------------------
(***************************************************************************)
(* Ends                                                                    *)
(***************************************************************************)
InForce == IF mailbox.mode = None THEN policy ELSE mailbox.mode

Empty == [mode |-> None, queued |-> FALSE]

\* The operation ends: a switch it received applies.
OpEnds ==
    /\ phase' = "idle" /\ mark' = None /\ turn' = NewTurn
    /\ policy' = InForce /\ mailbox' = Empty

\* The conversation takes the task list a kept turn left.
Kept(t, n) == IF n.tasks = 0 THEN t ELSE [t EXCEPT !.tasks = n.tasks]

\* The next request of agent_turn's loop, with what `turn` has become.
Requests(n) ==
    /\ phase' = "request"
    /\ turn'  = [n EXCEPT !.requests = @ + 1]

-----------------------------------------------------------------------------
(***************************************************************************)
(* submit_prompt                                                           *)
(***************************************************************************)

\* begin_turn on `t`, with the switch received by then in force.
Begins(t) ==
    /\ talk' = Drained(Records(t, Plain, InForce))
    /\ mark' = StartOfTurn(t)
    /\ policy' = InForce /\ mailbox' = Empty
    /\ Requests(NewTurn)

\* A fresh session's first prompt starts the title request.
Titled(m) == IF talk.messages = <<>> THEN [m EXCEPT !.title = "asked"] ELSE m

Due(paused) == ~paused /\ talk.messages # <<>>

Paused == auto.failures >= MaxFailures

Submit ==
    /\ phase = "idle" /\ made.prompts < MaxPrompts /\ Len(talk.messages) < MaxMessages
    /\ made' = [made EXCEPT !.prompts = @ + 1]
    /\ \/ Begins(talk) /\ money' = Titled(money)
       \/ /\ Due(Paused)
          /\ phase' = "before"
          /\ UNCHANGED <<talk, mark, turn, policy, mailbox, money>>
    /\ UNCHANGED auto

\* `/compact`.
Compact ==
    /\ phase = "idle" /\ talk.messages # <<>>
    /\ phase' = "manual"
    /\ UNCHANGED <<talk, mark, turn, policy, mailbox, money, auto, made>>

-----------------------------------------------------------------------------
(***************************************************************************)
(* Ops an operation receives while it waits                                *)
(***************************************************************************)
Raced == phase \in {"manual", "before", "request", "round", "midturn"}

Switch(m) ==
    /\ Raced /\ made.switches < MaxSwitches
    /\ mailbox' = [mailbox EXCEPT !.mode = m]
    /\ made' = [made EXCEPT !.switches = @ + 1]
    /\ UNCHANGED <<phase, talk, mark, turn, policy, money, auto>>

Queue ==
    /\ Raced /\ ~mailbox.queued /\ made.prompts < MaxPrompts
    /\ mailbox' = [mailbox EXCEPT !.queued = TRUE]
    /\ made' = [made EXCEPT !.prompts = @ + 1]
    /\ UNCHANGED <<phase, talk, mark, turn, policy, money, auto>>

-----------------------------------------------------------------------------
(***************************************************************************)
(* Requests and rounds                                                     *)
(***************************************************************************)

\* The stream of a request ends, and may have reported its usage.
Streamed(reports) ==
    [turn EXCEPT !.unbilled = IF reports THEN @ + 1 ELSE @,
                 !.sent     = IF reports THEN Len(talk.messages) ELSE @]

Reported(reports) == IF reports THEN Owes(money, 1) ELSE money

\* The turn ends with the request and keeps its messages.
TurnEnds(t, reports) ==
    /\ talk'  = Kept(t, turn)
    /\ money' = LET n == Streamed(reports).unbilled
                IN  IF n = 0 THEN Reported(reports) ELSE Absorbed(Billed(Reported(reports), n))
    /\ OpEnds
    /\ UNCHANGED <<auto, made>>

\* A final reply, a truncated one, an error, or an interrupt with its message.
ReplyEnds(reports) ==
    /\ phase = "request"
    /\ \/ TurnEnds(talk, reports)
       \/ TurnEnds(Said(talk, Plain), reports)

\* pause_turn: the reply is kept and the next request resumes it, if any is left.
Pause(reports) ==
    /\ phase = "request" /\ Len(talk.messages) < MaxMessages
    /\ LET t == Said(talk, Plain)
           n == [Streamed(reports) EXCEPT !.rounds = @ + 1] IN
       IF n.rounds < MaxRounds
         THEN /\ talk' = t /\ money' = Reported(reports)
              /\ Requests(n)
              /\ UNCHANGED <<mark, policy, mailbox, auto, made>>
         ELSE TurnEnds(t, reports)

\* The reply calls tools.
CallTools(reports) ==
    /\ phase = "request" /\ Len(talk.messages) < MaxMessages
    /\ phase' = "round"
    /\ turn'  = Streamed(reports)
    /\ money' = Reported(reports)
    /\ UNCHANGED <<talk, mark, policy, mailbox, auto, made>>

\* Mutant: a rollback keeps what the model was told in the turn.
RolledBackStillSeen(t) ==
    [t EXCEPT !.messages = SubSeq(@, 1, mark.length), !.unrecorded = mark.unrecorded]

\* Mutant: a rolled back turn leaves its task list.
RolledBackWithTasks(t) ==
    [Kept(t, turn) EXCEPT !.messages = SubSeq(@, 1, mark.length), !.seen = mark.seen,
                          !.unrecorded = mark.unrecorded]

RolledBack(t) ==
    [t EXCEPT !.messages = SubSeq(@, 1, mark.length), !.seen = mark.seen,
              !.unrecorded = mark.unrecorded]

\* Mutant: a refused turn costs nothing.
RefusedFree(reports) == Reported(reports)

RefusedCost(reports) == Billed(Reported(reports), Streamed(reports).unbilled)

\* A refusal takes the turn back to its mark; before the first prompt, the title
\* request is stopped.
Refuse(reports) ==
    /\ phase = "request"
    /\ talk'  = RolledBack(talk)
    /\ money' = LET m == RefusedCost(reports) IN
                Absorbed(IF mark.length = 0 /\ m.title = "asked"
                           THEN [m EXCEPT !.title = "none"] ELSE m)
    /\ OpEnds
    /\ UNCHANGED <<auto, made>>

\* A gated call applies the switch received.
Gate ==
    /\ phase = "round" /\ mailbox.mode # None
    /\ policy' = mailbox.mode /\ mailbox' = [mailbox EXCEPT !.mode = None]
    /\ UNCHANGED <<phase, talk, mark, turn, money, auto, made>>

\* The reply and its results, with the task list a call wrote (0 for none).
Committed(tasks) == Records(Said(talk, Plain), [Plain EXCEPT !.tasks = tasks], InForce)

WritesTasks(tasks) ==
    /\ tasks = 0 \/ (tasks = made.tasks + 1 /\ tasks <= MaxTasks)
    /\ made' = IF tasks = 0 THEN made ELSE [made EXCEPT !.tasks = tasks]

RoundTurn(tasks) ==
    [turn EXCEPT !.rounds = @ + 1, !.tasks = IF tasks = 0 THEN @ ELSE tasks]

\* The round ends; the loop goes on, or runs out of rounds.
EndRound(tasks) ==
    /\ phase = "round" /\ WritesTasks(tasks)
    /\ LET t == Drained(Committed(tasks))
           n == RoundTurn(tasks) IN
       IF n.rounds < MaxRounds
         THEN /\ talk' = t /\ policy' = InForce /\ mailbox' = Empty
              /\ Requests(n)
              /\ UNCHANGED <<mark, money>>
         ELSE /\ talk' = Kept(t, n) /\ money' = Accounted(money)
              /\ OpEnds
    /\ UNCHANGED auto

\* The context reached the threshold at the boundary, with rounds left.
CompactNext(tasks) ==
    /\ phase = "round" /\ WritesTasks(tasks) /\ Due(Paused)
    /\ LET n == RoundTurn(tasks) IN
       /\ n.rounds < MaxRounds
       /\ talk'  = Kept(Drained(Committed(tasks)), n)
       /\ money' = Accounted(money)
       /\ turn'  = [n EXCEPT !.unbilled = 0, !.sent = 0, !.tasks = 0]
    /\ phase' = "midturn" /\ policy' = InForce /\ mailbox' = Empty
    /\ UNCHANGED <<mark, auto>>

\* An interrupted round is committed, and a message closes it.
CutRound(tasks) ==
    /\ phase = "round" /\ WritesTasks(tasks)
    /\ talk' = Kept(Said(Committed(tasks), Plain), RoundTurn(tasks))
    /\ money' = Accounted(money)
    /\ OpEnds
    /\ UNCHANGED auto

-----------------------------------------------------------------------------
(***************************************************************************)
(* run_compaction: `spent` requests of the summary reported usage          *)
(***************************************************************************)
Compacting == phase \in {"manual", "before", "midturn"}

Spent(spent) == Billed(Owes(money, spent), spent)

\* Mutant: the turn counts its rounds anew after a compaction.
ResumedAnew(n) == [n EXCEPT !.rounds = 0]

\* The turn goes on from the summary with the rounds it has left.
Resumed(n) == n

Summarize(spent) ==
    /\ Compacting
    /\ LET t == Summary(talk, InForce) IN
       CASE phase = "manual" ->
              talk' = t /\ OpEnds
         [] phase = "before" ->
              Begins(t)
         [] phase = "midturn" ->
              /\ talk' = Drained(t) /\ mark' = StartOfTurn(t)
              /\ policy' = InForce /\ mailbox' = Empty
              /\ Requests(Resumed(turn))
    /\ money' = Absorbed(Spent(spent))
    /\ auto'  = [failures |-> 0, row |-> 0]
    /\ UNCHANGED made

\* An automatic one counts toward the pause.
Counts == phase \in {"before", "midturn"}

\* The summary fails: the prompt is not sent, or the turn fails.
FailSummary(spent) ==
    /\ Compacting
    /\ auto'  = [failures |-> IF Counts THEN auto.failures + 1 ELSE auto.failures,
                 row      |-> IF phase = "manual" THEN auto.row ELSE auto.row + 1]
    /\ money' = IF spent = 0 THEN money ELSE Absorbed(Spent(spent))
    /\ OpEnds
    /\ UNCHANGED <<talk, made>>

\* The user interrupts it: a turn ends on the interruption message.
CutSummary(spent) ==
    /\ Compacting
    /\ talk'  = IF phase = "midturn" THEN Said(talk, Plain) ELSE talk
    /\ money' = IF spent = 0 THEN money ELSE Absorbed(Spent(spent))
    /\ OpEnds
    /\ UNCHANGED <<auto, made>>

-----------------------------------------------------------------------------
(***************************************************************************)
(* Other ops, and the title request                                        *)
(***************************************************************************)
SetMode(m) ==
    /\ phase = "idle" /\ made.switches < MaxSwitches
    /\ policy' = m
    /\ made' = [made EXCEPT !.switches = @ + 1]
    /\ UNCHANGED <<phase, talk, mark, turn, mailbox, money, auto>>

SetModel ==
    /\ phase = "idle"
    /\ auto'  = [failures |-> 0, row |-> 0]
    /\ money' = Absorbed(money)
    /\ UNCHANGED <<phase, talk, mark, turn, policy, mailbox, made>>

Rename ==
    /\ phase = "idle" /\ money.title = "asked"
    /\ money' = [money EXCEPT !.title = "none"]
    /\ UNCHANGED <<phase, talk, mark, turn, policy, mailbox, auto, made>>

\* adopt_session: a fresh session, or this one again from the store.
Restored(t) ==
    IF Recorded(t) = None THEN [FreshTalk(policy) EXCEPT !.messages = t.messages]
    ELSE [messages |-> t.messages, base |-> Recorded(t).base, seen |-> Recorded(t).seen,
          unrecorded |-> FALSE, tasks |-> Latest(t)]

Adopt ==
    /\ phase = "idle"
    /\ talk'  \in {FreshTalk(policy), Restored(talk)}
    /\ money' = [owed |-> 0, title |-> "none"]
    /\ auto'  = [failures |-> 0, row |-> 0]
    /\ UNCHANGED <<phase, mark, turn, policy, mailbox, made>>

\* The title request answers, with or without usage.
TitleAnswers ==
    /\ money.title = "asked"
    /\ money' \in {[Owes(money, 1) EXCEPT !.title = "sent"],
                   [money EXCEPT !.title = "none"]}
    /\ UNCHANGED <<phase, talk, mark, turn, policy, mailbox, auto, made>>

\* serve takes its usage between operations.
TitleLands ==
    /\ phase = "idle" /\ money.title = "sent"
    /\ money' = Absorbed(money)
    /\ UNCHANGED <<phase, talk, mark, turn, policy, mailbox, auto, made>>

-----------------------------------------------------------------------------
AInit ==
    /\ phase = "idle" /\ mark = None /\ turn = NewTurn /\ mailbox = Empty
    /\ policy \in Mode /\ talk = FreshTalk(policy)
    /\ money = [owed |-> 0, title |-> "none"]
    /\ auto = [failures |-> 0, row |-> 0]
    /\ made = [prompts |-> 0, switches |-> 0, tasks |-> 0]

ANext ==
    \/ Submit \/ Compact \/ Queue \/ Gate
    \/ \E m \in Mode : Switch(m) \/ SetMode(m)
    \/ \E reports \in BOOLEAN :
          ReplyEnds(reports) \/ Pause(reports) \/ CallTools(reports) \/ Refuse(reports)
    \/ \E tasks \in 0 .. MaxTasks : EndRound(tasks) \/ CompactNext(tasks) \/ CutRound(tasks)
    \/ \E spent \in 0 .. 1 : Summarize(spent) \/ FailSummary(spent) \/ CutSummary(spent)
    \/ SetModel \/ Rename \/ Adopt \/ TitleAnswers \/ TitleLands

ASpec == AInit /\ [][ANext]_tvars

-----------------------------------------------------------------------------
(***************************************************************************)
(* Properties                                                              *)
(***************************************************************************)
TurnTypeOK ==
    /\ phase \in Phases /\ policy \in Mode
    /\ talk.messages \in Seq(Message) /\ {talk.base, talk.seen} \subseteq Mode
    /\ talk.unrecorded \in BOOLEAN /\ talk.tasks \in 0 .. MaxTasks
    /\ mailbox.mode \in Mode \cup {None} /\ mailbox.queued \in BOOLEAN
    /\ money.title \in {"none", "asked", "sent"}

\* The model has been told the mode the engine takes it to know.
SeenAgrees == Told(talk) = talk.seen

\* A request goes out in a mode the model has been told, the policy's.
RequestsInForce == phase = "request" => talk.seen = policy

\* A resume finds what the model was told, unless nothing was sent yet.
ResumeAgrees ==
    \/ talk.unrecorded /\ Recorded(talk) = None
    \/ Recorded(talk) = [base |-> talk.base, seen |-> talk.seen]

\* After interrupts, refusals, switches inside rounds, compactions and resumes,
\* the model knows the mode its calls run in: the conversation tells it, and so
\* does the one a resume reads.
ModeTold == TurnTypeOK /\ SeenAgrees /\ RequestsInForce /\ ResumeAgrees

\* The task list the engine keeps is the one the conversation leaves: that of
\* a refused turn is gone, that of a compacted or interrupted one is kept.
TasksKept == (IF turn.tasks = 0 THEN talk.tasks ELSE turn.tasks) = Latest(talk)

\* The engine and the conversation tell the model one story: its mode and its tasks.
TalkAgrees == ModeTold /\ TasksKept

\* Every usage an API reported is billed once, whether its turn, summary or
\* title succeeded, failed, was refused or interrupted; and the messages an
\* estimate takes as sent are there.
UsageBilledOnce ==
    /\ money.owed = turn.unbilled + (IF money.title = "sent" THEN 1 ELSE 0)
    /\ turn.sent <= Len(talk.messages)

\* A turn makes at most MaxRounds requests, over pauses and compactions; it is
\* compacted only if a request follows; and after MaxFailures automatic
\* compactions in a row failed, no other is tried.
TurnBounded ==
    /\ turn.requests <= MaxRounds
    /\ phase = "midturn" => turn.requests < MaxRounds
    /\ phase \in {"before", "midturn"} => auto.row < MaxFailures
=============================================================================
