---- MODULE PromptQueue ----
(***************************************************************************)
(* The prompts the terminal UI holds (crates/ox-tui/src/app/queue.rs): the  *)
(* one its in-flight turn runs, and the first-in first-out queue of those   *)
(* typed behind it.  The engine keeps no prompt it has not recorded, so     *)
(* this queue is the only place an unrecorded prompt survives in.  One      *)
(* operator per method of the struct; the chat echo is left out.            *)
(***************************************************************************)
EXTENDS Naturals, Sequences

CONSTANTS Prompt,    \* the prompts a user may submit
          NoPrompt   \* the absence of one

ASSUME NoPromptIsNone == NoPrompt \notin Prompt

\* Where a requested session switch heads, if one is requested.
Targets == {"nowhere", "fresh", "saved"}

\* What a failure of the in-flight operation hands back.
HandBacks == {"nothing", "heldQueue", "unsentPrompt", "rolledBackTurn"}

NoSwitch == [to |-> "nowhere", before |-> 0]

Queues ==
  [active    : Prompt \cup {NoPrompt},
   handBack  : HandBacks,
   pending   : Seq(Prompt),
   held      : BOOLEAN,
   forwarded : Nat,
   drained   : Seq(Prompt),
   switch    : [to : Targets, before : Nat]]

EmptyQueue ==
  [active |-> NoPrompt, handBack |-> "nothing", pending |-> <<>>, held |-> FALSE,
   forwarded |-> 0, drained |-> <<>>, switch |-> NoSwitch]

SwitchAsked(q) == q.switch.to # "nowhere"

\* A submitted line releases a held queue and settles on the current session.
Push(q, p) ==
  [q EXCEPT !.pending = Append(@, p),
            !.held = FALSE,
            !.switch = IF q.held THEN NoSwitch ELSE @]

\* Prompts that return to the head were meant for the current session.
PushFront(q, ps) ==
  [q EXCEPT !.pending = ps \o @,
            !.switch.before = IF SwitchAsked(q) THEN @ + Len(ps) ELSE @]

PopNext(q) == [q EXCEPT !.pending = Tail(@)]

\* A mutant: the switch's mark keeps counting a prompt taken back.
PopLastKeepingMark(q) == [q EXCEPT !.pending = SubSeq(@, 1, Len(@) - 1)]

PopLast(q) ==
  LET left == Len(q.pending) - 1
  IN  [q EXCEPT !.pending = SubSeq(@, 1, left),
                !.switch.before = IF @ > left THEN left ELSE @]

LeaveToUser(q) == [q EXCEPT !.held = TRUE, !.switch = NoSwitch]

\* The queued prompts the in-flight turn lacks, in order.
ToForward(q) ==
  IF q.held THEN <<>> ELSE SubSeq(q.pending, q.forwarded + 1, Len(q.pending))

ConfirmDrained(q, p) ==
  IF q.forwarded > 0 /\ q.pending # <<>> /\ Head(q.pending) = p
  THEN [q EXCEPT !.pending = Tail(@), !.drained = Append(@, p), !.forwarded = @ - 1]
  ELSE q

\* The active prompt goes back, to the input or to the head of the queue.
Restored(q, intoInput) ==
  LET cleared == [q EXCEPT !.active = NoPrompt]
  IN  IF q.active = NoPrompt THEN [queue |-> q, input |-> NoPrompt]
      ELSE IF intoInput      THEN [queue |-> cleared, input |-> q.active]
      ELSE [queue |-> PushFront(cleared, <<q.active>>), input |-> NoPrompt]

\* What a failure leaves in the queue, puts in the input, and whether the queue goes on.
FailTurn(q, inputEmpty) ==
  LET returned(r) == [queue |-> r.queue, input |-> r.input, goesOn |-> FALSE]
      undrained == PushFront([q EXCEPT !.drained = <<>>], q.drained)
  IN  CASE q.handBack = "nothing"   -> [queue |-> q, input |-> NoPrompt, goesOn |-> TRUE]
        [] q.handBack = "heldQueue" -> [queue |-> q, input |-> NoPrompt, goesOn |-> FALSE]
        [] q.handBack = "unsentPrompt" ->
             returned(Restored(q, inputEmpty /\ q.pending = <<>>))
        [] q.handBack = "rolledBackTurn" -> returned(Restored(undrained, inputEmpty))

EndTurn(q) ==
  [q EXCEPT !.active = NoPrompt, !.handBack = "nothing", !.forwarded = 0, !.drained = <<>>]

\* A mutant: the mark counts none of the prompts queued before the switch.
MarkSwitchAtHead(q, to) ==
  [q EXCEPT !.held = FALSE,
            !.handBack = "heldQueue",
            !.switch = IF @.to = to THEN @ ELSE [to |-> to, before |-> 0]]

MarkSwitch(q, to) ==
  [q EXCEPT !.held = FALSE,
            !.handBack = "heldQueue",
            !.switch = IF @.to = to THEN @ ELSE [to |-> to, before |-> Len(q.pending)]]

\* The leading prompts that belong to the session just left.
LeftBehind(q) == IF SwitchAsked(q) THEN q.switch.before ELSE Len(q.pending)

DiscardLeftBehind(q) ==
  [q EXCEPT !.pending = SubSeq(@, LeftBehind(q) + 1, Len(@)), !.switch = NoSwitch]
====
