--------------------------- MODULE StreamedReply ---------------------------
(***************************************************************************)
(* One streamed request of the Anthropic client                            *)
(* (crates/ox-core/src/client/anthropic/{transport,sse,accumulator}.rs):   *)
(* attempts with retries, the pump of one attempt's frames, the blocks and *)
(* usage it accumulates, the bounded channel, and its consumer             *)
(* (collect_response in engine/turn.rs), which a cancel drops.  The server *)
(* answers as it likes.  Frame n brings piece n of the reply, if any.      *)
(***************************************************************************)
EXTENDS Naturals, Sequences

CONSTANTS
    MaxRetries,     \* MAX_RETRIES
    StreamBuffer,   \* STREAM_BUFFER
    ThinkingText,   \* whether the request asks for thinking text
    MaxBlocks,      \* bound: blocks of a reply
    MaxFrames       \* bound: frames the server sends to all attempts

Kind  == {"text", "thinking", "tool", "skipped"}
Frame == 1 .. MaxFrames

ASSUME StreamAssumption ==
    /\ MaxRetries \in Nat /\ StreamBuffer \in Nat \ {0} /\ ThinkingText \in BOOLEAN
    /\ MaxBlocks \in Nat \ {0} /\ MaxFrames \in Nat

VARIABLES
    pump,      \* what the background task does
    retry,     \* with_retry's count
    frames,    \* number of frames the server sent
    blocks,    \* the attempt's blocks: kind and pieces of each
    counted,   \* the attempt's usage so far
    channel,   \* events on their way, oldest first
    consumer,  \* collect_response: whether it waits, or how it ended
    shown,     \* the pieces the UI showed
    billed,    \* the usage the consumer holds
    reply,     \* the pieces of the completed reply that stream
    attempts,  \* history: attempts made
    told       \* history: the tokens the server last told

svars == <<pump, retry, frames, blocks, counted, channel, consumer, shown, billed, reply,
           attempts, told>>

Block     == [kind : Kind, pieces : SUBSET Frame]
Usage     == [input : 0 .. 2, output : 0 .. 2]     \* 0 is not reported
NoUsage   == [input |-> 0, output |-> 0]
Pumps     == {"none", "request", "head", "frames", "backoff", "failing", "ended"}
Consumers == {"none", "waiting", "completed", "failed", "dropped"}

Item(kind, piece, usage) == [kind |-> kind, piece |-> piece, usage |-> usage]
Plain(kind) == Item(kind, 0, NoUsage)

\* Pieces of such a block stream; the reply keeps the others unshown.
Streams(kind) == kind = "text" \/ (kind = "thinking" /\ ThinkingText)

ContentStarted == blocks # <<>>

\* The send returns: the event is queued, or nobody listens and the task ends.
Sends(item, next) ==
    IF consumer = "waiting"
      THEN /\ Len(channel) < StreamBuffer
           /\ channel' = Append(channel, item)
           /\ pump' = next
      ELSE pump' = "ended" /\ UNCHANGED channel

-----------------------------------------------------------------------------
(***************************************************************************)
(* Attempts and retries                                                    *)
(***************************************************************************)
Open ==
    /\ consumer = "none"
    /\ consumer' = "waiting" /\ pump' = "request" /\ attempts' = 1
    /\ UNCHANGED <<retry, frames, blocks, counted, channel, shown, billed, reply, told>>

\* retry_delay: the budget lasts, and the server asks for no long wait.
Retries(long) == retry < MaxRetries /\ ~long

\* The notice is dropped when the queue is full.
Noticed == channel' = IF consumer = "waiting" /\ Len(channel) < StreamBuffer
                        THEN Append(channel, Plain("retrying")) ELSE channel

\* An attempt fails: it is retried, or the failure goes to the consumer.
AttemptFails(retryable) ==
    \/ /\ retryable
       /\ \E long \in BOOLEAN : Retries(long)
       /\ retry' = retry + 1 /\ pump' = "backoff"
       /\ Noticed
    \/ /\ ~retryable \/ (\E long \in BOOLEAN : ~Retries(long))
       /\ pump' = "failing"
       /\ UNCHANGED <<retry, channel>>

\* post_messages gets a response, or none that is a success.
Post ==
    /\ pump = "request"
    /\ \/ pump' = "head" /\ UNCHANGED <<retry, channel>>
       \/ \E retryable \in BOOLEAN : AttemptFails(retryable)
    /\ UNCHANGED <<frames, blocks, counted, consumer, shown, billed, reply, attempts, told>>

\* The account's limits lead, when the response reports them.
Lead ==
    /\ pump = "head"
    /\ \/ Sends(Plain("limits"), "frames")
       \/ pump' = "frames" /\ UNCHANGED channel
    /\ UNCHANGED <<retry, frames, blocks, counted, consumer, shown, billed, reply, attempts, told>>

\* The delay is over; the next attempt has an accumulator of its own.
Again ==
    /\ pump = "backoff"
    /\ pump' = "request" /\ blocks' = <<>> /\ counted' = NoUsage
    /\ attempts' = attempts + 1
    /\ UNCHANGED <<retry, frames, channel, consumer, shown, billed, reply, told>>

-----------------------------------------------------------------------------
(***************************************************************************)
(* Frames of one attempt                                                   *)
(***************************************************************************)
NextFrame == pump = "frames" /\ frames < MaxFrames /\ frames' = frames + 1

Unforwarded == UNCHANGED <<pump, channel>>

\* A start in index order opens a block, which may bring its first piece or,
\* for a tool call, the note its thinking leaves.  Others are skipped.
StartBlock(index, kind) ==
    /\ NextFrame
    /\ IF index = Len(blocks) + 1
         THEN /\ \E piece \in BOOLEAN :
                    /\ blocks' = Append(blocks, [kind |-> kind,
                                   pieces |-> IF piece THEN {frames'} ELSE {}])
                    /\ IF \/ piece /\ Streams(kind)
                          \/ /\ piece /\ kind = "tool" /\ ThinkingText
                             /\ \E i \in DOMAIN blocks : blocks[i].kind = "thinking"
                         THEN Sends(Item(IF kind = "tool" THEN "progress" ELSE "piece",
                                         frames', NoUsage), "frames")
                         ELSE Unforwarded
         ELSE UNCHANGED blocks /\ Unforwarded
    /\ UNCHANGED <<retry, counted, consumer, shown, billed, reply, attempts, told>>

\* A delta extends its block; one of another kind or for no block is ignored.
Delta(index, fits) ==
    /\ NextFrame
    /\ IF fits /\ index \in DOMAIN blocks
         THEN /\ blocks' = [blocks EXCEPT ![index].pieces = @ \cup {frames'}]
              /\ IF Streams(blocks[index].kind)
                   THEN Sends(Item("piece", frames', NoUsage), "frames")
                   ELSE Unforwarded
         ELSE UNCHANGED blocks /\ Unforwarded
    /\ UNCHANGED <<retry, counted, consumer, shown, billed, reply, attempts, told>>

\* Mutant: a report replaces the snapshot.
ObserveReplacing(usage, report) == report

\* A count of zero is not reported: the snapshot keeps the one before.
Observe(usage, report) ==
    [k \in DOMAIN usage |-> IF report[k] > 0 THEN report[k] ELSE usage[k]]

Reports(base, report) ==
    /\ NextFrame
    /\ counted' = Observe(base, report)
    /\ told'    = [k \in DOMAIN report |-> IF base # NoUsage /\ report[k] = 0 THEN told[k] ELSE report[k]]
    /\ Sends(Item("usage", 0, counted'), "frames")
    /\ UNCHANGED <<retry, blocks, consumer, shown, billed, reply, attempts>>

\* message_start tells the input, message_delta the output.
MessageStart == \E n \in 1 .. 2 : Reports(NoUsage, [input |-> n, output |-> 0])
MessageDelta == \E n \in 1 .. 2 : Reports(counted, [input |-> 0, output |-> n])

\* message_stop: the completed reply is the last event.
MessageStop ==
    /\ pump = "frames"
    /\ Sends(Plain("completed"), "ended")
    /\ UNCHANGED <<retry, frames, blocks, counted, consumer, shown, billed, reply, attempts, told>>

\* Mutant: an attempt is retried while no text has come.
RetryableUntilText(transient) == transient /\ \A i \in DOMAIN blocks : blocks[i].kind # "text"

\* A failure is retryable before the first block, an in-band one if transient.
Retryable(transient) == transient /\ ~ContentStarted

\* An in-band error, a broken frame or connection, an early end or a silence
\* past the read timeout.  A frame that grows without end is never retried.
Break ==
    /\ pump = "frames"
    /\ \E transient \in BOOLEAN : AttemptFails(Retryable(transient))
    /\ UNCHANGED <<frames, blocks, counted, consumer, shown, billed, reply, attempts, told>>

\* The failure is the last event.
Report ==
    /\ pump = "failing"
    /\ Sends(Plain("err"), "ended")
    /\ UNCHANGED <<retry, frames, blocks, counted, consumer, shown, billed, reply, attempts, told>>

\* Mutant: a dropped consumer is noticed at the next send only.
ClosedAtSend ==
    /\ consumer = "dropped" /\ pump = "failing"
    /\ pump' = "ended"
    /\ UNCHANGED <<retry, frames, blocks, counted, channel, consumer, shown, billed, reply, attempts, told>>

\* The task sees that the consumer is gone, whatever it waits for.
Closed ==
    /\ consumer = "dropped" /\ pump # "ended"
    /\ pump' = "ended"
    /\ UNCHANGED <<retry, frames, blocks, counted, channel, consumer, shown, billed, reply, attempts, told>>

-----------------------------------------------------------------------------
(***************************************************************************)
(* collect_response                                                        *)
(***************************************************************************)
Receive ==
    /\ consumer = "waiting" /\ channel # <<>>
    /\ LET item == channel[1] IN
       /\ channel'  = Tail(channel)
       /\ shown'    = IF item.kind = "piece" THEN shown \cup {item.piece} ELSE shown
       /\ billed'   = IF item.kind = "usage" THEN item.usage ELSE billed
       /\ consumer' = CASE item.kind = "completed" -> "completed"
                        [] item.kind = "err"       -> "failed"
                        [] OTHER                   -> "waiting"
       /\ reply'    = IF item.kind # "completed" THEN reply
                        ELSE UNION {blocks[i].pieces : i \in {j \in DOMAIN blocks : Streams(blocks[j].kind)}}
    /\ UNCHANGED <<pump, retry, frames, blocks, counted, attempts, told>>

\* The race is won by a cancel, which drops the receiver.
Drop ==
    /\ consumer = "waiting"
    /\ consumer' = "dropped" /\ channel' = <<>>
    /\ UNCHANGED <<pump, retry, frames, blocks, counted, shown, billed, reply, attempts, told>>

-----------------------------------------------------------------------------
SInit ==
    /\ pump = "none" /\ retry = 0 /\ frames = 0 /\ blocks = <<>> /\ counted = NoUsage
    /\ channel = <<>> /\ consumer = "none" /\ shown = {} /\ billed = NoUsage
    /\ reply = {} /\ attempts = 0 /\ told = NoUsage

Served ==
    \/ Post \/ MessageStart \/ MessageDelta \/ MessageStop \/ Break
    \/ \E index \in 1 .. MaxBlocks : (\E fits \in BOOLEAN : Delta(index, fits))
                                   \/ (\E kind \in Kind : StartBlock(index, kind))

SNext ==
    \/ Open \/ Lead \/ Again \/ Served \/ Report \/ Closed
    \/ Receive \/ Drop

\* The consumer reads, timers fire, a dropped receiver is noticed, and for one
\* that listens the server answers or times out (`read_timeout`).
SFairness ==
    /\ WF_svars(Lead) /\ WF_svars(Again) /\ WF_svars(Report) /\ WF_svars(Closed)
    /\ WF_svars(Receive) /\ WF_svars(consumer = "waiting" /\ Served)

SSpec == SInit /\ [][SNext]_svars /\ SFairness

-----------------------------------------------------------------------------
(***************************************************************************)
(* Properties                                                              *)
(***************************************************************************)
ReplyTypeOK ==
    /\ pump \in Pumps /\ consumer \in Consumers
    /\ retry \in 0 .. MaxRetries /\ attempts \in 0 .. MaxRetries + 1
    /\ frames \in 0 .. MaxFrames
    /\ blocks \in Seq(Block) /\ Len(blocks) <= MaxBlocks
    /\ {counted, billed, told} \subseteq Usage
    /\ Len(channel) <= StreamBuffer
    /\ {shown, reply} \subseteq SUBSET Frame

ShownIsReply == consumer = "completed" => shown = reply

EndBillsTold == consumer \in {"completed", "failed"} => billed = told

\* What the UI showed by the end of a reply is that reply: nothing of an attempt
\* that was given up, nothing the reply lacks.  And a reply that ended, well or
\* not, bills the input and output the server told last, whichever attempt told
\* them.
ReplyFaithful == ReplyTypeOK /\ ShownIsReply /\ EndBillsTold

DropEndsRequest == consumer = "dropped" ~> pump = "ended"
ReplyEnds       == consumer = "waiting" ~> consumer # "waiting"

\* Every request ends for its consumer, and one whose consumer was dropped ends
\* whatever the server does.
RequestEnds == DropEndsRequest /\ ReplyEnds

\* What has come to the consumer or is on its way.
Came == shown \cup {channel[i].piece : i \in {j \in DOMAIN channel : channel[j].kind = "piece"}}

Promise == INSTANCE Wire WITH
    Piece  <- Frame,
    came   <- Came,
    tries  <- attempts,
    ending <- IF consumer \in {"completed", "failed", "dropped"} THEN consumer ELSE "none"

\* The stream keeps the promise of `Wire`.
WireKept == Promise!WireSpec
=============================================================================
