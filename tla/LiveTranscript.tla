--------------------------- MODULE LiveTranscript ---------------------------
(***************************************************************************)
(* The messages of one session in memory, as the store holds them and as   *)
(* requests send them: turns and rounds, refusals, interrupts, summaries   *)
(* of a transcript that may be too long to send, and what a resume repairs. *)
(* The API declares no server tools, so a reply calls client tools only.   *)
(***************************************************************************)
EXTENDS Naturals, Sequences

CONSTANTS
    Found,              \* the transcripts a session may have been left with
    MaxMessages,        \* bound on the messages of a transcript
    MaxOverflowRetries  \* MAX_OVERFLOW_RETRIES

Parts == {"thinking", "text", "call", "result", "marker", "stub"}

\* A message by the kinds of block in it; `id` names its round, of which an
\* assistant message makes the calls and a user message gives the results.
Message == [role : {"user", "assistant"}, parts : SUBSET Parts, id : 0..MaxMessages]
User(parts) == [role |-> "user", parts |-> parts, id |-> 0]
Assistant(parts) == [role |-> "assistant", parts |-> parts, id |-> 0]

Text == User({"text"})              \* a prompt, an interruption, a rubric, a summary
Marker == User({"marker"})          \* truncation_marker

Has(m, part) == part \in m.parts

\* Message j answers message i: nothing but messages of the user lies between.
Answers(s, i, j) ==
    /\ i < j /\ Has(s[i], "call") /\ Has(s[j], "result") /\ s[i].id = s[j].id
    /\ \A k \in (i + 1)..j : s[k].role = "user"

\* The results of a call follow it, so far as both are there.
Ordered(s) ==
    \A i, j \in DOMAIN s :
        Has(s[i], "call") /\ Has(s[j], "result") /\ s[i].id = s[j].id => Answers(s, i, j)

ASSUME TranscriptAssumption ==
    /\ MaxMessages \in Nat \ {0} /\ MaxOverflowRetries \in Nat
    /\ Found \subseteq Seq(Message)
    /\ \A t \in Found : Len(t) < MaxMessages /\ Ordered(t)

VARIABLES
    saved,      \* the chain of the session's head
    live,       \* LiveTranscript::messages
    start,      \* RollbackPoint of the open turn: how long both were
    waits,      \* what the engine waits for
    kept,       \* the transcript a summary is asked of
    retries     \* how often that was too long

asking == <<kept, retries>>
livevars == <<saved, live, start, waits, asking>>

NoTurn == [live |-> 0, saved |-> 0]
Summarizing == {"manual", "before", "midturn"}

-----------------------------------------------------------------------------
(***************************************************************************)
(* Repair of a loaded transcript                                           *)
(***************************************************************************)
Ids(s, part) == {s[i].id : i \in {j \in DOMAIN s : Has(s[j], part)}}
Without(m, part) == [m EXCEPT !.parts = @ \ {part}]

\* The messages of s that are among some, in their order.
Those(s, some) ==
    LET those[i \in 0 .. Len(s)] ==
            IF i = 0 THEN <<>>
            ELSE IF s[i] \in some THEN Append(those[i - 1], s[i]) ELSE those[i - 1]
    IN  those[Len(s)]

NonEmpty(s) == Those(s, {m \in Message : m.parts # {}})

\* drop_unresolved_tool_uses: empties a message, but leaves it in its place.
Resolved(s) ==
    [i \in DOMAIN s |->
        IF s[i].id \in Ids(s, "result") THEN s[i] ELSE Without(s[i], "call")]

\* drop_orphan_tool_results
Parented(s) ==
    NonEmpty([i \in DOMAIN s |->
        IF s[i].id \in Ids(s, "call") THEN s[i] ELSE Without(s[i], "result")])

\* insert_resume_sentinels
Headed(s) ==
    IF s # <<>> /\ s[1].role = "assistant" THEN <<User({"stub"})>> \o s ELSE s
Tailed(s) ==
    IF s # <<>> /\ s[Len(s)].role = "user" /\ s[Len(s)].parts = {"result"}
    THEN Append(s, Assistant({"stub"})) ELSE s

\* Mutant: calls that were never answered stay.
RepairedHalf(s) == Tailed(Headed(Parented(s)))

\* sanitize_resumed_messages
Repaired(s) == Tailed(Headed(Parented(Resolved(s))))

-----------------------------------------------------------------------------
(***************************************************************************)
(* Requests                                                                *)
(***************************************************************************)
\* Mutant: the transcript is cut before any message.
DroppedAnywhere(s) ==
    LET rest == IF s # <<>> /\ s[1] = Marker THEN Tail(s) ELSE s
        bare == NonEmpty([i \in DOMAIN rest |-> Without(rest[i], "thinking")])
    IN  {<<Marker>> \o SubSeq(bare, cut, Len(bare)) : cut \in 2..Len(bare)}

\* drop_oldest_rounds, for a choice of how much it has to free.
Dropped(s) ==
    LET rest == IF s # <<>> /\ s[1] = Marker THEN Tail(s) ELSE s
        bare == NonEmpty([i \in DOMAIN rest |-> Without(rest[i], "thinking")])
        cuts == {i \in 2..Len(bare) : bare[i].role = "assistant"}
    IN  {<<Marker>> \o SubSeq(bare, cut, Len(bare)) : cut \in cuts}

\* The last messages of s that are all the user's leave a tool-use turn open.
OpenTurn(s) ==
    \E i \in DOMAIN s : Has(s[i], "result") /\ \A j \in i..Len(s) : s[j].role = "user"

\* Mutant: only the last message is looked at.
RetryOfLast(s) ==
    Append(IF Has(s[Len(s)], "result") THEN Append(s, Assistant({"text"})) ELSE s, Text)

\* retry_request: closes an open turn and asks with the rubric.
RetryRequest(s) ==
    Append(IF OpenTurn(s) THEN Append(s, Assistant({"text"})) ELSE s, Text)

\* The messages of the request the engine waits for.
Request ==
    IF waits = "reply" THEN live
    ELSE IF retries = 0 THEN Append(live, Text)
    ELSE RetryRequest(kept)

-----------------------------------------------------------------------------
(***************************************************************************)
(* Turns                                                                   *)
(***************************************************************************)
LiveInit ==
    /\ saved \in Found /\ live = <<>> /\ start = NoTurn
    /\ waits = "closed" /\ kept = <<>> /\ retries = 0

\* Each message is recorded, then appended.
Appends(messages) ==
    /\ Len(saved) + Len(messages) <= MaxMessages /\ Len(live) + Len(messages) <= MaxMessages
    /\ saved' = saved \o messages
    /\ live' = live \o messages

\* The prompts that wait are drained, one at most.
DrainedPrompts == {<<>>, <<Text>>}

\* end_turn
EndsTurn == waits' = "idle" /\ start' = NoTurn
AsksSummary(of, point) == waits' = point /\ kept' = of /\ retries' = 0

\* submit_prompt: to the prompt, or a compaction before it.
SubmitPrompt ==
    /\ waits = "idle"
    /\ \/ waits' = "begin" /\ UNCHANGED asking
       \/ live # <<>> /\ AsksSummary(live, "before")
    /\ UNCHANGED <<saved, live, start>>

\* begin_turn
RecordPrompt ==
    /\ waits = "begin"
    /\ \E drained \in DrainedPrompts : Appends(<<Text>> \o drained)
    /\ start' = [live |-> Len(live), saved |-> Len(saved)]
    /\ waits' = "reply"
    /\ UNCHANGED asking

\* Mutant: an empty reply is a message too.
CommittedEmpty(blocks) == <<Assistant(blocks)>>

\* commit_assistant_message
Committed(blocks) == IF blocks = {} THEN <<>> ELSE <<Assistant(blocks)>>

\* Mutant: a call that was cut off is kept.
KeptWithCalls(blocks) == blocks

\* The reply ends the turn: it calls nothing, or it was cut off and its calls
\* are taken out.
Kept(blocks) == blocks \ {"call"}

Replied ==
    /\ waits = "reply"
    /\ \E blocks \in SUBSET {"thinking", "text", "call"} : Appends(Committed(Kept(blocks)))
    /\ EndsTurn
    /\ UNCHANGED asking

\* pause_turn: what there is of the reply is sent again, unless the rounds are up.
Paused ==
    /\ waits = "reply"
    /\ \E blocks \in SUBSET {"thinking", "text"} : Appends(Committed(blocks))
    /\ EndsTurn \/ UNCHANGED <<waits, start>>
    /\ UNCHANGED asking

\* A round has an ID no other has.
FreshId == CHOOSE n \in 1..MaxMessages : n \notin Ids(saved, "call") \cup Ids(saved, "result")

\* The reply of a round and its results, which may tell a new mode.
RoundOf(blocks, told) ==
    <<[role |-> "assistant", parts |-> blocks \cup {"call"}, id |-> FreshId],
      [role |-> "user", parts |-> {"result"} \cup told, id |-> FreshId]>>

\* commit_round, with the marker of an interrupt or the drained prompts; then
\* the next request, a summary, or the end of the rounds.
Round ==
    /\ waits = "reply"
    /\ \E blocks \in SUBSET {"thinking", "text"}, told \in {{}, {"text"}} :
          \/ Appends(RoundOf(blocks, told) \o <<Text>>) /\ EndsTurn /\ UNCHANGED asking
          \/ \E drained \in DrainedPrompts :
                /\ Appends(RoundOf(blocks, told) \o drained)
                /\ \/ UNCHANGED <<waits, start, asking>>
                   \/ EndsTurn /\ UNCHANGED asking
                   \/ AsksSummary(live', "midturn") /\ UNCHANGED start

\* Mutant: the transcript is cut to the length of the session's.
RefuseTurnByStored ==
    /\ waits = "reply"
    /\ live' = SubSeq(live, 1, start.saved)
    /\ saved' = SubSeq(saved, 1, start.saved)
    /\ EndsTurn
    /\ UNCHANGED asking

\* roll_back: the transcript and the session return to the start of the turn.
RefuseTurn ==
    /\ waits = "reply"
    /\ live' = SubSeq(live, 1, start.live)
    /\ saved' = SubSeq(saved, 1, start.saved)
    /\ EndsTurn
    /\ UNCHANGED asking

\* An interrupt leaves its marker, in a turn that has begun.
InterruptTurn ==
    /\ waits \in {"reply"} \cup Summarizing
    /\ IF waits \in {"reply", "midturn"} THEN Appends(<<Text>>) ELSE UNCHANGED <<saved, live>>
    /\ EndsTurn
    /\ kept' = <<>> /\ retries' = 0

\* A request fails, a summary that is refused, empty or cut off among them.
Fails ==
    /\ waits \in {"reply"} \cup Summarizing
    /\ EndsTurn
    /\ kept' = <<>> /\ retries' = 0
    /\ UNCHANGED <<saved, live>>

-----------------------------------------------------------------------------
(***************************************************************************)
(* Compaction, exit and resume                                             *)
(***************************************************************************)
\* The /compact op.
AskCompact ==
    /\ waits = "idle" /\ live # <<>>
    /\ AsksSummary(live, "manual")
    /\ UNCHANGED <<saved, live, start>>

\* The transcript was too long: it is asked again of what is left.
Overflows ==
    /\ waits \in Summarizing /\ retries < MaxOverflowRetries
    /\ kept' \in Dropped(kept)
    /\ retries' = retries + 1
    /\ UNCHANGED <<saved, live, start, waits>>

\* replace_with_summary, and the prompts drained after it in a turn, which then
\* rolls back to the summary.
Summarized ==
    /\ waits \in Summarizing
    /\ \E drained \in (IF waits = "midturn" THEN DrainedPrompts ELSE {<<>>}) :
          saved' = <<Text>> \o drained /\ live' = <<Text>> \o drained
    /\ start' = IF waits = "midturn" THEN [live |-> 1, saved |-> 1] ELSE NoTurn
    /\ waits' = IF waits = "midturn" THEN "reply" ELSE IF waits = "before" THEN "begin" ELSE "idle"
    /\ kept' = <<>> /\ retries' = 0

\* The process ends, in whatever it was doing.
Exit ==
    /\ waits # "closed"
    /\ waits' = "closed" /\ live' = <<>> /\ start' = NoTurn
    /\ kept' = <<>> /\ retries' = 0
    /\ UNCHANGED saved

\* resume: fails if the repair leaves nothing of something.
Resume ==
    /\ waits = "closed"
    /\ IF saved # <<>> /\ Repaired(saved) = <<>> THEN UNCHANGED <<live, waits>>
       ELSE live' = Repaired(saved) /\ waits' = "idle"
    /\ UNCHANGED <<saved, start, asking>>

LiveNext ==
    \/ SubmitPrompt \/ RecordPrompt \/ Replied \/ Paused \/ Round \/ RefuseTurn \/ InterruptTurn \/ Fails
    \/ AskCompact \/ Overflows \/ Summarized \/ Exit \/ Resume

LiveSpec == LiveInit /\ [][LiveNext]_livevars

-----------------------------------------------------------------------------
(***************************************************************************)
(* Properties                                                              *)
(***************************************************************************)
\* Every variable has its type, and a rollback point lies in what it cuts.
LiveTypeOK ==
    /\ saved \in Seq(Message) /\ live \in Seq(Message) /\ kept \in Seq(Message)
    /\ waits \in {"closed", "idle", "begin", "reply"} \cup Summarizing
    /\ retries \in 0..MaxOverflowRetries
    /\ start.live \in 0..Len(live) /\ start.saved \in 0..Len(saved)

\* What the API takes: the user begins, no message is empty, every call is
\* answered before the model speaks again and every result is of such a call.
Accepted(s) ==
    /\ s # <<>> /\ s[1].role = "user"
    /\ \A i \in DOMAIN s :
          /\ s[i].parts # {}
          /\ Has(s[i], "call") => \E j \in DOMAIN s : Answers(s, i, j)
          /\ Has(s[i], "result") => \E j \in DOMAIN s : Answers(s, j, i)

\* Whatever was refused, interrupted, cut off, summarized or repaired before it,
\* a request is one the API takes.  One whose thinking was taken out is not in
\* the middle of a tool-use turn, where the API wants it back.
RequestsValid ==
    waits \in {"reply"} \cup Summarizing =>
        Accepted(Request) /\ (retries > 0 => ~OpenTurn(Request))

\* The messages but those a repair put in.
NoStubs(s) == Those(s, {m \in Message : ~Has(m, "stub")})

\* What the model is shown is what it would be shown after a resume: turns that
\* were rolled back, cut or compacted are so in memory and in the store, also
\* when one of them is longer by what a repair put in or took out.
ResumeShowsSame == LiveTypeOK /\ (waits # "closed" => NoStubs(Repaired(saved)) = NoStubs(live))
=============================================================================
