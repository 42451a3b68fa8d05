# Formal model of oxide-code

TLA+ models of `ox`, a terminal coding agent in Rust, with TLC configurations that
model-check them and TLAPS proofs. Every definition is translated from the code under
`src/crates`. `PROJECT.json` has the machine-readable side: which lines each definition
models, which properties each run checks, which change of the code each property catches
(`mutants`), and which lines each hazard is at.

Paths below leave out `src/crates/`.

## The system

`ox` has three crates. `ox` is the command line and its headless drivers, `ox-tui` the
terminal UI, and `ox-core` the engine: a turn loop over a model API with tools, compaction,
permissions and a session store that several `ox` processes share.

```
 keyboard -> ox-tui  App (queue, operation in flight, modals)
               |  ^
   op channel  |  |  event channel
   (bounded)   v  |  (unbounded)
             ox-core Engine: run -> serve -> submit_prompt -> agent_turn
               |        |           |            |
               |     Mailbox     LiveTranscript  tools, approvals, background shells
               |                    |
               |              SessionHandle (one mutex) -> SessionState -> commit
               v                                              |
         Anthropic client, OAuth                 one SQLite database, lock files,
                                                 artifact directories, shared by processes
```

### Inventory

| Component | State | Operations | Talks to | Hard | Correct when |
|---|---|---|---|---|---|
| Session store (`session/state.rs`, `handle.rs`, `store/commit.rs`, `load.rs`) | per process: base head, tip, count, title, pending records; per database: sessions and message rows | prompt, message, round, compact, rewind, rename, AI title, archive, roll, resume, quit, delete | other processes through SQLite | two writers on one head, forks made lazily, a failed write, a crash between commits | chains have no gap, nobody's messages are dropped unseen, a user's title stays |
| Transfer (`session/store/export.rs`) | export files, `updated_at` | export, import | other machines | files arrive late, twice, or at home | imports are idempotent and drop nothing unseen |
| Liveness locks (`session/store.rs`, `util/fs.rs`) | lock file per session | hold, delete | processes through flock | a lock is on an inode, the delete unlinks a path | a live session keeps its rows and artifacts |
| Prompt queue (`ox-tui app/queue.rs`) | active and queued prompts, forwarded count, drained prompts, switch mark | push, forward, confirm, fail, hold, mark, discard | the App | every way a turn can end | no prompt lost, repeated, or run in another session |
| Turn protocol (`app/dispatch.rs`, `app/events.rs`, `engine.rs`, `engine/abort.rs`, `engine/turn.rs`, `engine/compaction.rs`) | op in flight, channels, mailbox, permission mode, phase of the turn | dispatch, forward, interrupt, switch mode, serve, absorb, drain, compact, roll back | the two tasks through two channels | an interrupt races the end, a full op channel, modals, sign-in in the middle of a prompt | both sides agree on what is in flight, every op ends |
| Tool rounds (`engine/dispatch.rs`, `tool/ask.rs`, `modal/{approval,question}.rs`) | calls of the round, pending approval, session rules, open modals | gate in call order, run in parallel, approve, answer | engine, UI | lost answers, a mode switch at the gate, an interrupt while calls write | only what the user or a current verdict allows runs; every call has one true result |
| File tracker (`file_tracker.rs`, `tool/{read,edit,write}.rs`, `tool/file/commit.rs`) | content, lines and last call seen by path; a snapshot in the store | read, edit, overwrite, create, roll back, compact, save, resume | workspace, other programs, store | the file changes between two steps of a write; the record outlives the messages it came from | no overwrite of lines nobody read, no stub without its content |
| Background shells (`tool/bash/background.rs`) | registry, one supervisor and pump per shell, the UI's list | start, output, stop, stop all | OS, UI | stop races exit, a process in another group holds the pipe | every stop ends, nothing of a session survives it |
| OAuth (`auth/oauth*`) | tokens in a file, lock directory, pair not saved yet | reload, refresh, login | other processes, token server | takeover of a stale lock, rotation, failed write-back | one writer at a time, a valid refresh token is never lost |
| Agent turn (`engine/turn.rs`, `engine/compaction.rs`, `engine/usage.rs`, `engine/transcript.rs`, `prompt.rs`) | transcript, rollback point, mode told to the model, failure count, unbilled usage | submit, request, round, refuse, interrupt, compact, switch, resume | client, store, UI | a turn ends in a dozen ways and each must settle mode, tasks, usage and counts | the model knows its mode, usage is billed once, rounds are bounded |
| Title task (`session/title_generator.rs`) | a spawned request | start, abort, write | session store | the abort races the write | no title of another session |
| Client (`client/anthropic*`) | retry count, blocks and usage of an attempt, bounded channel | request, retry, accumulate, report | network, engine | a retry after output was shown, a consumer that left | what is shown is the reply, the end bills what was told |
| Permissions (`permission*`, `engine/classifier.rs`) | mode, deny, ask and allow tiers, rules granted in the session | decide, assess, grant, switch mode, adopt a session | tool rounds | chained commands, one name spelled in two ways, a grant the user edits | a command is judged as strictly as its parts, a grant covers its call and no other |
| Live transcript (`engine/transcript.rs`, `session/sanitize.rs`, `engine/compaction/summary.rs`) | messages in memory beside the stored chain, rollback point, transcript a summary is asked of | begin, commit, refuse, interrupt, summarize, retry shorter, resume with repair | client, session store | rounds cut by a crash, a reply that was cut off, a transcript too long for its own summary | the API takes every request, memory and store tell the model the same |
| Session picker (`ox-tui slash/resume.rs`, `modal/list.rs`, `session/store/listing.rs`) | rows listed, page cursor, page on its way, archive or delete in flight | open, filter, switch scope, archive, delete, resume, page | session store, worker threads, engine | rows move between pages; pages and engine events come in either order | every session that is still is listed once; what was archived or deleted is gone |
| Headless driver (`ox/src/driver`) | one op in flight, retained output failure, run summary | render, interrupt, shut down, print the result, exit | engine through both channels, stdout | a reader that leaves, a signal, a failed write, a panic, in the middle of a turn | status and result say what happened, the run ends |
| Configuration, rendering, Markdown, slash commands, git probes, logging | | | | | unit and snapshot tests |

The first five rows hold the user's data and the user's input, the next five what the model may
do and is told, the title and the client what is shown and billed, the permissions what runs at all, the transcript what the model is asked with, the picker
what the user can find again, the headless driver what a script is told. These are modelled; the rest is
listed in `PROJECT.json` with the reason.

## Modules

| Module | Models | Runs |
|---|---|---|
| `SessionRows` | the tables and what one commit writes into them | |
| `SessionStore` (extends `SessionRows`) | processes over one database | `session_heads` |
| `Conversations` | abstract: a compare-and-swap of whole branches | refined by `SessionStore` |
| `SessionTransfer` (extends `SessionRows`) | two databases and export files | `transfer_locks_gate`, `own_export` |
| `SessionLocks` | lock files, one system call or transaction per step | `transfer_locks_gate`, `locks_reimport` |
| `SessionHold` | abstract: resume and delete as one step each | refined by `SessionLocks` |
| `PromptQueue` | the methods of `PromptQueue` as operators on a record | |
| `TurnProtocol` (extends `PromptQueue`) | UI task, engine task, two channels | `turn_queue`, `turn_cancel` |
| `ToolRound` | the rounds of a turn, the modals that answer them, the writes that outlive a call | `rounds` |
| `AgentTurn` | what a turn does to transcript, mode, tasks, bill and failure count | `turn_and_login` |
| `FileTracker` | one file, its tracker entry, and the calls on it step by step | `files_and_picker` |
| `SessionPicker` | the `/resume` picker, its page workers and the engine's answers | `files_and_picker`, `picker_deleted` |
| `BackgroundShells` | registry, supervisors, pipes, the calls on shells, the end of a session | `shells_and_reply` |
| `Credentials` | a stored login, its lock directory, refreshes of several processes | `turn_and_login` |
| `StreamedReply` | one streamed request: attempts, frames, channel, consumer | `shells_and_reply` |
| `Wire` | abstract: pieces of a reply, then one end | refined by `StreamedReply` |
| `PermissionRules` | the permission gate: rule tiers, modes, session grants | `transfer_locks_gate` |
| `LiveTranscript` | the messages of a session in memory, in the store and in requests; repair and retries | `turn_queue` |
| `HeadlessRun` | one `ox --print`: driver, output, engine loop, exit | `turn_cancel`, `headless_unsaved` |
| `SessionStoreProofs`, `TurnProtocolProofs` | theorems about the module each extends | |
| `TurnServedProofs` (extends `TurnProtocolProofs`) | more about `TurnProtocol`: its prompts are served | |
| `RoundsAndTranscriptProofs` | theorems about `ToolRound` and `LiveTranscript` | |
| `FilesAndHeadlessProofs` | theorems about `FileTracker` and `HeadlessRun` | |
| `TurnAndLoginProofs` | theorems about `AgentTurn` and `Credentials` | |
| `TransferLocksGateProofs` | theorems about `SessionTransfer`, `SessionLocks` and `PermissionRules` | |
| `ShellsReplyPickerProofs` | theorems about `BackgroundShells`, `StreamedReply` and `SessionPicker` | |
| `MC*` | symmetry, state constraints and sets of values for TLC | |

### SessionRows and SessionStore

`sess[s]` is a row of `sessions` with the messages filed under it; `parent[m]` is the
`parent_id` of a message, `Unborn` before the message exists. Message and session IDs are
random UUIDs, so `New` and `FreshIds` hand out any ID nobody has. The transcript of a session
is `Chain(parent, msgs, head)`, the recursive query `CHAIN_CTE`; it is written as the smallest
set closed under parents, so that the proofs can reason about it.

`proc[p]` is a `SessionState`: `base` (the head as this process last saw it stored), `tip`,
`count`, `title`, `stopped` (persistence has failed), `seen` (a first prompt was recorded),
`mark`, the `Checkpoint` of the open turn, and `stub`. `resume` counts the messages after
`sanitize_resumed_messages`, and the next commit stores what it counted. The transcript it then shows
has a stub after a round whose results were never replied to, which no row holds; `stub` says that it is
there. What a message is the store tells apart only by that: the constant `Results` is the set of messages with
nothing but tool results, which `Round` alone writes. The other repairs (calls without
results, results without calls, a head that is no prompt) do not apply to what these actions write, and are
`LiveTranscript`'s, which starts from transcripts of any origin.

So `message_count` is not always the length of the stored chain. A session cut off after a round counts 3
messages in its row, 4 in the process that resumes it, and 5 in the row once that process recorded a prompt,
over a chain of 4; the next resume, no longer cut off, counts 4 again. `CountsShown` is what holds: a
process counts exactly what it shows, and a row is never below its chain and at most one stub above
it, the stubs of several resumes never adding up. The row part cannot be sharper: when a process that
shows a stub takes back its turn, the head is where it was and the row counts one more than
another process that has had the session open all along.

A write runs with the session's mutex held on a blocking thread and commits under
`BEGIN IMMEDIATE`. So each of `Prompt`, `Message`, `Round`, `Compact`, `Rewind`, `Rename` and
`AiTitle` is one step: it queues its records and then takes one outcome of `Flush`:

- `Skip`: persistence has stopped, or the session is fresh and no message makes its row;
- `Create`: the first message inserts the row;
- `InPlace`: the head does not move, or the stored head is still `base`;
- `Fork`: the head moves and another process moved it first, so the chain of `base` is copied
  into a new session and the batch lands there;
- `Fail`: the commit fails, and the process writes nothing from then on.

`Roll`, `RollInto`, `Archive` and `Quit` close the old session with its file snapshots
(`Finalized`), which may fail without further effect. `Crash` can come between any two
commits. `Delete` needs that no process holds the session, which `SessionLocks` justifies.

`Conversations` says what this adds up to: a process works on the session it opened as if it
were alone; its write replaces the branch exactly when the branch is the one it holds, and
moves it to a new session otherwise. The refinement maps a branch to the set of messages on
the chain of the head. It is not the shape of the model: a commit compares one message ID,
not a branch, and copies a chain another process may have left behind.

### SessionTransfer

Two stores with the same row operators, a clock counted in commits, and a set of export
files. Between transfers each store appends, rewinds, compacts and forks. `Import` is the
decision of `Import::apply` and `landing`: insert, fast-forward, keep, or land on the newest
related fork, or a new one. Export files stay, so an import may be late, repeated,
or return to the store that wrote the file. They are kept in the order they were written, which
`updated_at` does not give: a fast-forward sets it to the export's, so it can go back.
Parsing and format versions are left out, and so are bare tool results, so that a commit counts its chain
(`SessionStore` has the other case); an import takes the count with the head, whatever it is.

For the same reason `ImportIdempotent` says that a second import changes nothing of where the
first landed, and not that it lands there. If a diverged session has several forks the export
relates to, the first landing dates the newest back, so the second can land on another of them.
The guide ("later imports of that session extend the same fork", `docs/guide/sessions.md:139`) has
only one fork in mind.

### SessionLocks

One session and its lock path. A lock is held on an inode; `path` is the inode the lock path
names. `ResumeOpen`, `ResumeLock`, `ResumeLoad` follow `resume`; `DeleteOpen` to
`DeleteUnlinks` follow `SessionStore::delete`, with the failures and the crash in between.
The constant `Reimports` says when an export of the deleted session may be imported again:
`"alone"`, or `"anytime"` as the code allows.

### PromptQueue and TurnProtocol

`tui` is the App: the queue, the operation in flight (`op`, `id`, `activity`), the session
epoch, the input line, the open modal, and the permission mode asked for and shown. `engine`
is the phase the engine awaits in, the op it serves, its `Mailbox`, policy, round and rollback
point. `ops` and `events` are the channels.

One UI action is one pass of its event loop, which ends with `forward_queued_prompts`
(`ForwardQueued`, part of each action through `Pass`). An engine action runs from one await on
the op channel to the next. The `select!` in `race_or` is biased towards the op channel, so
`Raced` lets the operation's own future win only when that channel is empty. The phases are
the awaits: `signIn`, `login` and `finishLogin`, `compact`, `autoCompact`, `request`, `reply`,
`tools`, `midTurnCompact`, and `local` for ops that read no other op while they run.

`Rename` stands for the four other local ops that change nothing the protocol reads
(`SetModel`, `SetArchive`, `DeleteSaved`, `Logout`).

Left out: approvals and questions by ID (in `ToolRound`), `Shutdown` and closed channels (in
`HeadlessRun`), the chat echo of a prompt, results of background slash commands, usage and title events.

### ToolRound

`engine` is a turn between two awaits: the `round` and the calls still `todo`, the `batch` and
the place `at` of the call at the gate, the calls that are `ready`, the result `out` of each,
the mode in force (`policy`) and the one the mailbox `kept`, and the kinds of call a session
rule covers (`granted`). The phases follow the code: `batch` and `gate` read no op;
`classify`, `approval`, `run` and `question` race the op channel; `draining` waits in
`drain_writes`; `over` commits the round. `ran[c]` is what a call really did and `told[c]`
what the conversation says of it, so that `RoundSound` can compare the two. A call is a
number with a kind: the kind fixes what the permission rules, which are data here, say of it.

`Settled` is the end of the gate for one call. `Decide` is the one place a verdict is acted on:
`Gate` leaves a call the policy cannot decide to the classifier, and `Classified` consults the
policy again, under the mode and rules of that moment, before it takes the assessment.
`Start` is a step of its own: collecting the futures runs none of them, and the race looks at
the op channel first. A write is handed to a task (`Write`), ends whatever becomes of its call
(`Land`), and only then lets the call return (`Finish`).

The UI pushes a modal for each request on top of what is open (`Picker` is any modal that
sends nothing); `Answer` closes the top one and sends its reply, which a full channel loses. A
modal whose turn was interrupted stays until it is closed, and only then can the user submit
again, so its late reply is ahead of the next prompt in the channel and finds no approval
open: with this UI `OwnConsent` would hold without the comparison of IDs in `await_approval`
too. `PressInterrupt` and a mode switch need that no modal is open, as the modal has the
keyboard; Esc on an approval is its `abort`.
`CycleMode` asks for any mode, which the keys reach in one step or several.

Left out: runs nobody attends (where what would ask is denied), `Shutdown`, shell commands, a
rule that does not cover its call (both sides refuse it), queued prompts and tool metadata.

### AgentTurn

One engine over the prompts of a session. `phase` is what it waits for: nothing, a summary
(`manual`, `before` a prompt, `midturn`), the reply to a `request`, or the calls of a `round`.
`talk` is the `LiveTranscript`: the messages, by the mode a reminder in them tells, the prompt
context recorded with them and the task list they leave; and what the engine takes for granted
about them (`seen`, `unrecorded`, `tasks`). `mark` is the rollback point, `turn` what
`agent_turn` counts, `money` the usage an API reported and nobody billed, with the title
request, `auto` the `AutoCompactFailures`.

`Records` is a message that moves the prompt to a mode (`LiveTranscript::record`), `Summary` the
transcript after a compaction, `RolledBack` a refused turn, `Restored` a resume. Each way a turn
ends (`ReplyEnds`, `Pause`, `Refuse`, `EndRound`, `CutRound`, `FailSummary`, `CutSummary`) is an
action. `made` and the `Max` constants bound the inputs, except `MaxRounds` and `MaxFailures`,
which are the code's. When a context is due for compaction is a choice: estimates are data.

### FileTracker

One file of two lines. `entry` is the tracker's record; `talk` says, for each content, which
lines the conversation tells the model (`known`) and which of them Read results show (`shown`);
`draft` adds the calls of the round in flight. An Edit or Write is a `running` call that goes
through the gate (`Passes`), `Recheck`, `Truncate` and `Verify`, and another program (`Foreign`)
may change or replace the file between any two. `Interrupt` drops reads and leaves writes to
their task. `RollBack`, `Compact`, `Quit`, `Crash` and `Resume` say what becomes of the record;
a commit that fails leaves the process `stopped`, which saves nothing more.

### SessionPicker

`stored`, `at` and `archived` are the rows the listing reads, `list` the picker's `SearchableList`,
`pages` its `Pages`, `archive` and `confirm` what it waits for, `flight` the one op the App has sent.
`Following` is the keyset query of `page`, and `NextPage` reads one row more than it returns.
`Ordered` puts a finite set in an order by the number of elements before each: `Listed` is that for
the places of the sessions (`ORDER BY`), `Keeping` for the indices a query or `retain` leaves. It
is not recursive, so that the proofs can reason about it.
A key ends with `load_ahead` (`ShowAhead`), which starts a worker when too few rows are below the
cursor; the worker reads its page at a later step (`ReadPage`), and the page waits in a channel of
its own (`arrived`), so it may be taken before or after the event of an archive or a delete.
`OthersWrite` is any other process. `moved` and `settled` are history: which sessions changed since
the listing began, and what the picker has been told it did.

### BackgroundShells

`registry` is the list of `Registry`, `shell[s]` the process tree, a process it may leave behind
(`kin`: in the group, in another one, or detached from the pipe), the pipe, the captured output
and the phase of the supervisor. The supervisor's `select!` is `SeesExit` or `Kill`; the wait
for the pipe with `DRAIN_GRACE` is `Announce` and `Reaps`, which need an empty pipe only: the
grace is long against the copy of what is already in it. `Output`, `Stop` and `StopAll` are the
calls; `DropCall` an interrupt. `dropped` records whose `bash_stop` was interrupted.

### Credentials

`store` is the pair in the file and `valid` the refresh tokens the server accepts. A process goes
through `Load`, `Mkdir` (or `Wait`, `Remove`, `Fallback`), `Reload`, the answer of the server,
`Save` and `Release`. The lock directory is its mtime: the guard keeps the one it set, the
heartbeat (`Heartbeat`, `Touch`) refreshes it, and a waiter that saw a stale lock removes
whatever directory is there by then. Suspensions, deaths, failing writes and lost answers draw on
one budget, `MaxFaults`. `excused` names what no lock can help: an answer lost after the
rotation, a write-back that failed, a live holder's lock that was removed.

### StreamedReply

The background task of `stream` (`pump`), the `with_retry` count, the accumulator's `blocks` and
`counted` usage, the channel of `STREAM_BUFFER` events, and `collect_response` (`consumer`), which
an interrupt drops. Frame `n` brings piece `n` of the reply, so that a piece that is shown twice,
lost or taken from an attempt that was given up is seen. `told` is the usage the server told last.
`AttemptFails` is a retry or the end; `Retryable` says that a block that started forbids one.
`Wire` is what the trait promises; `Came` maps to it what was shown and what is in the channel.

### LiveTranscript

A message is its role and the kinds of block in it; the calls of one reply share an `id`, as do their
results, since `commit_round` stores both at once. `saved` is the chain of the session's head, `live`
the `LiveTranscript`, and `start` the two lengths a refused turn returns to. The lengths differ once a
repair put a sentinel in or took a message out, and a summary sets both to one message.

`Replied`, `Paused`, `Round`, `RefuseTurn`, `InterruptTurn` and `Fails` are the ends of a request;
`Kept` takes the calls out of a reply that was cut off, `Committed` stores nothing of an empty one.
`Resolved`, `Parented`, `Headed` and `Tailed` are the four passes of `sanitize_resumed_messages`, in
its order. `Overflows` is one retry of a summary: `Dropped` cuts before any later assistant message
(how much has to go is arithmetic over estimates, so any cut is a choice) and takes the thinking out;
`RetryRequest` then closes a tool-use turn that is still open. `RequestsValid` judges each request by
what the API takes: `Accepted`, and no open tool-use turn without its thinking. `Found` is what a
session may have been left with before the behaviour begins: cut after any message, and headed by any,
but with results after the calls they are of, in the order `record_round` stores them (`Ordered`, part of
`TranscriptAssumption`). The repair compares sets of IDs and never looks at the order, so it counts on
that. `Those` keeps some of the messages, as `retain` does; it is written as a recursive function so that
the proofs can follow it.

Left out: server tools, which no request declares (`docs/research/api/extended-thinking.md:24`), the
text of messages, reminders (`AgentTurn`), and writes that fail (`SessionStore`).

### HeadlessRun

`driver` is `drive` and `run_op`, `stdout` and `summary` the `Output`, `loop` the engine's task,
`saving` the `SessionHandle`, and `opline` and `eventline` the two channels. `TakeEvent` is one turn of
the loop of `run_op`, which looks at the signal first, prints the event and, once stdout has no reader,
interrupts the op. `Leaves` drops the sender, which the engine reads as a shutdown (`ShutDown`) before
it finalizes (`Finalize`); `Panic` may come at any moment until then. `Finish` is what `drive` does
once the engine was joined. The engine writes as `report` has it: a failure is told once, by an event
or by what `finalize` returns, and all later writes fail too.

A piece of text has a number, its place in what was said, so that one that is lost, repeated or left over from before a call is
seen in `printed` and in `message`. Whether a text run writes anything for an event that is no reply is
a choice. A signal leaves events unread: the session a run forked into is then not in its result.

Left out: the runs of a slash command, reading the prompt from stdin, events of a kind that changes
neither output nor summary, and a stderr that fails. `MaxPieces` bounds text pieces and calls together.

### PermissionRules

`config` holds the deny, ask and allow tiers, `attended` whether anybody can answer, `mode` and
`session` the rest of the `Policy`; `gate` is the call that is being judged and `granted` the calls
a rule was granted for. `Parsed` is what the analysis makes of a script: a segment for each simple
command that names a program, and whether it understood all of it. `Allows` and `Holds` are
`Rule::matches` under its two disciplines, `Settle` and `Verdict` the policy, `ForCall` and
`SessionGrant` the rule the approval suggests, `Admits` the check of the rule the user sends back.

`Gate` is `check_permission`, `Assess` the answer of the classifier (with the policy consulted
again), `AllowForSession` and `ReplyOnce` those of the user, `Adopt` another session. A word is a
text and whether the shell runs it as written; `Fold`, `Bare` and `Below` are the case folding of
names, the program without its directory and the files below a directory.

## Runs

| Run | Bounds | Shows |
|---|---|---|
| `session_heads` | 2 processes, 3 sessions, 3 messages and one of bare results, `OneDimension` | chains and rollback points whole, counts are of what is shown, `NoUnseenDrop`, snapshots, `ManualTitleSticks`, the refinement of `Conversations` |
| `transfer_locks_gate` | transfers: 2 stores, 3 sessions, 4 messages, 4 commits, 2 exports; locks: 3 processes, 4 inodes, re-imports alone; gate: 5 words, 5 rules, one per tier at most, 11 calls, 4 modes, 1 grant | merges whole, idempotent, drop nothing unseen, a newer export lands; refinement of `SessionHold`, a live session keeps its artifacts; a rule holds what it would allow, no command gets through by its company, a grant holds and goes no further |
| `own_export` | the same transfers | **violation**, see Findings |
| `locks_reimport` | the same locks, re-imports anytime | **violation**, see Findings |
| `turn_queue` | queue: 3 prompts, 1 mode, channel of 2, 2 rounds, 4 ops; transcript: 6 messages, 2 retries of a summary, 12 transcripts found | nothing lost, nothing twice, right session, agreement on what is in flight; every request is one the API takes; a resume shows the model what it was shown |
| `turn_cancel` | terminal: 1 prompt, 2 modes, channel of 2, 2 rounds, 3 ops; printed run: 3 formats, 2 pieces; with fairness | a cancelled op ends; mode switches all take effect; status and result of a printed run are true; a signal or a lost reader ends it |
| `rounds` | every kind of call, 3 modes, 2 calls, 1 switch or picker, channel of 2, with fairness | consent is the user's own or a current verdict's; who waits can be answered; every call answered, truthfully; no write outlives its round; an interrupt ends the turn |
| `files_and_picker` | files: 2 texts, 2 lines, 3 calls, 1 foreign change, 2 starts of the session; picker: 3 sessions of 2 projects, pages of 1, 1 foreign write, 2 reloads, 1 op | the record is backed by the conversation; own writes are tracked; overwrites are of lines that were told; the listing is exact, one page is on its way at most, what was archived is gone |
| `picker_deleted` | pages of 2, no foreign write | **violation**, see Findings |
| `headless_unsaved` | 3 formats, 1 piece | **violation**, see Findings |
| `turn_and_login` | turns: 2 modes, 4 prompts, 5 messages, 2 switches, 2 task lists, 2 rounds, 2 failures; login: 2 processes, 2 pairs, 1 retry, 2 faults | the model knows its mode, tasks follow the conversation, usage billed once, turns bounded; one writer of the login, no valid token lost, none spent twice |
| `shells_and_reply` | shells: cap 2, 2 starts, 1 chunk, 2 sessions; reply: 1 retry, channel of 2, 2 blocks, 3 frames; with fairness | every stop ends and nothing survives its session; the reply shown is the reply, the bill what was told; every request ends; the refinement of `Wire` |

`files_and_picker`, `turn_and_login`, `shells_and_reply`, `turn_queue` and `turn_cancel` each check two
components that share no state, and `transfer_locks_gate` three. `part`,
chosen in `Init`, says which one a behaviour is of; the others stay as they began, where none
of their fair actions is enabled, so their liveness properties hold of them by themselves and the
run is the sum of its parts. A property of one component is decided by the behaviours of its part.

Several properties are conjunctions whose parts are stated and explained one by one in the module,
type correctness among them: `StoreSafety`, `GrantsHold`, `TransferSafe`, `LiveKeepsArtifacts`, `PromptsServed`,
`QueuesAgree`, `ImportsSound` (nothing unseen is dropped and a newer export lands), `FlightAgreed` (with the op channel, that never drops an op the UI waits for),
`RoundSound` (with results that are true to what ran), `TrackerBacked` (with
own writes that are tracked), `ListingTrue` (nothing archived is offered), `PagesAgree`,
`TalkAgrees` (`ModeTold` and `TasksKept`), `TurnBounded`, `LockGuards`, `LoginSafe` (`LoginKept` and
`ReloadSound`), `ResumeShowsSame`, `RunTold` (`ExitTold` and `ResultTold`), `ShellsReported` (with
no shell of a session that ended), `StopsEnd`, `ReplyFaithful`, `RequestEnds`.

Why the bounds are enough to meet the hard cases:

- Two processes on one session give every order of two head moves, and each can then fork. A
  third session lets a fork be forked. Three messages are a chain to copy, a message the other
  process adds, and one for a compaction root or a second round. A message is used once, so the
  message set bounds the length of a behaviour without a counter. With the bare results there can be a
  prompt, a reply that calls, its results, and one more message by a process that resumed there,
  in place or in a fork; then there are two sessions at most and no write fails. `OneDimension` keeps a long
  history apart from titles and archives, which never move a head; it cuts behaviours off after a
  step and disables no action before it.
- A merge needs an export, work on both sides, and a second export or a return:
  four commits and two files. Three sessions hold the original and two forks.
- Three processes on a lock file are a live one, a deleter and one that opens in between. One
  inode more than processes: each may hold an unlinked file while the path names another.
- Five words are two spellings of a program, one below a directory, an argument and an assignment;
  they occur in scripts of one and two commands, with odd syntax, a word that is no literal, and
  nothing but an assignment. A deny or an ask rule with an allow rule is every pair of tiers that
  can disagree. One grant meets every later call and mode.
- A channel of two fills with one op and one prompt, so every full-channel branch is taken.
  Three prompts are one active, one forwarded and one not. Two rounds reach the round cap and
  leave one boundary at which prompts are spliced in. Four ops are a turn, its interrupt, a
  switch, and one more op that races them. The real channel has room for 32 ops, which only
  makes it fill less often.
- Six messages are a whole round behind a prompt with a second round, an interrupt or a drained prompt
  after it; the transcripts found are cut after any message and begin with any, so calls without
  results and results without calls are both at either end. Two retries cut what was already cut.
- Two pieces of a printed run are text before a call and after it, or two texts of which the second is
  lost with its reader.
- Two calls are a parallel batch, two batches, or two turns, so a session
  rule meets the next call, and an abort in the first batch leaves a call none has reached. A
  channel of two loses a reply, and holds a reply and the interrupt behind it. One switch
  meets the classifier, an approval, a running call and a plan; one picker lies under a request.
  `yolo` is left out: its verdicts are those of `plan` for calls that write nothing. Interrupts
  are unbounded.
- Two lines and two texts tell a partial view from a full one, and the content read from the one
  that replaced it. Three calls are a read, a write that another program or an interrupt cuts
  across, and a call that relies on what they left. A second start is a resume.
- Three sessions of two projects, two of them last active at the same time, make a page that ends
  between equal times, a row that leaves one view for another, and a session out of scope. Pages
  of one row put a page boundary between any two. Two reloads are an opening and a switch while a
  page or an op is on its way, or a second picker while the first one's page is.
- Two prompts before and two inside or after a compaction, two modes and two rounds reach every
  end of a turn with a switch pending, a task list written and usage unbilled; two failures reach
  the pause.
- Two processes are a holder and a waiter that takes over, and either may die or stall; two pairs
  are the stored one and its rotation or a login; two faults are a suspension and a failed save.
- Two shells fill the cap while one is being stopped; one chunk is unread at the exit or not.
  Two attempts, three frames and a channel of two make a retry after a report, a notice the full
  channel loses, and a consumer that is behind.

Processes, sessions, messages, stores, inodes, prompts, texts and the modes of a turn are
interchangeable in the modules, and symmetry is used for them in runs without liveness.

Deadlock is checked in every run but four. `TurnProtocol` has the stutter `Rest`, enabled only when
both sides idle and both channels are empty, so that a user who stops is not a deadlock and a
UI that waits for nothing is. In `turn_cancel` a printed run that has exited stutters (`Gone`), so
every other state of it must have a successor; `headless_unsaved` has no such step and ends where the
process does. In the two runs of the picker
the calls, starts and reloads run out, and in
`shells_and_reply` a finished reply and an ended last session have nothing more to do: there the
system may really stop, and what must not stop is said by `StopsEnd` and `RequestEnds`.

### Fairness

`TurnProtocol!Spec` has weak fairness of `HandleEvent`, `Serve`, `Absorb` and `RunLocal`: the
UI loop reads events, the engine loop reads the next op, a raced operation polls the op
channel first (`biased`), and local database work ends. There is none for `Progress`: a model's
reply, a summary or a sign-in may never come, nor for the user. `CancelEnds` therefore says that
the interrupt alone ends an operation, whatever it waits for. `ToolRound!RSpec`
has weak fairness of the engine's own steps and of each `Land`: a write to a local disk ends,
and `drain_writes` waits for it with no timeout. It has none for the model, for a tool that
runs, for the classifier or for the user, so `InterruptEnds` too holds by the interrupt alone.

`BFairness` is of each supervisor, each pump and a call that can go on, all tasks the runtime
polls. There is none for a shell's own exit, for what holds its pipe, nor for the next session.
`SFairness` is of the delays, the consumer's reads, the sends into a channel with room, and the
notice that the receiver is gone. `consumer = "waiting" /\ Served` is fair because of
`read_timeout`: for a consumer that listens, the server answers or the silence ends the attempt.
For one that was dropped the server may stay silent, and `DropEndsRequest` holds without it.

`RunFairness` is of the driver's loop and of the engine's own steps (`EngineActs`): taking the next op,
reading an interrupt or the closed channel, finalizing. There is none for the model, the tools or the
signal, so `RunEnds` says that an interrupt or a hang-up alone ends the turn. In `turn_cancel` this
fairness is asked of the behaviours of a printed run alone, since the other part leaves its first
prompt unserved.

The other modules promise safety only.

### Mutants

A definition whose comment starts with "Mutant" is a wrong variant of the definition after it,
as a bug in that code would make it (a head check left out, a mark not cleared, an end not
reported). No specification uses it. `PROJECT.json` pairs each with the property that fails
when it takes the definition's place, so that every property is known to be about the code.

## Findings

- `own_export` (documentation): the guide says an import "keeps whichever copy is further
  along" even when one side compacted or rewound (`docs/guide/sessions.md:139`).
  `Import::landing` fast-forwards whenever the file holds the local head, so an export made
  before a refused turn was taken back (or before a rewind), imported where it was written,
  moves the head back to the messages that were taken off.
- `locks_reimport` (code): `SessionStore::delete` drops its lock and then unlinks the lock
  path. If the session is imported again and resumed in between, the live process keeps its
  lock on an inode no path names. A second delete then makes a new lock file, gets its lock,
  and removes the rows under the live writer, which the comment on `delete` says it never does.
- `picker_deleted` (code): `saved_deleted` "Drops a deleted session's row"
  (`ox-tui/src/slash/resume.rs:611`), but only from the rows listed so far. If the confirm modal is
  closed with the delete in flight and a key restarts the listing, a page read before the delete
  and taken after its event brings the row back. `archive_updated` compares `listed_at` for the
  same case and lists anew.
- `headless_unsaved` (code): `SessionHandle::report` carries a write failure "only the first time one
  occurs" (`ox-core/src/session/handle.rs:346`). A failure inside the turn is told as an event, so
  `Engine::finalize`, which "Returns the session's write failure, if any", returns none, and `drive`
  fails the run only for what `finalize` returns. A turn that completes after a failed write exits
  with 0 and a null `session_write_error`, against the status 1 and the field of the guide
  (`docs/guide/headless.md:37`, `:70`).

Seen on the way, with no run of its own: `INTERRUPTED` is documented as the result of a call interrupted
"while its tool ran" and `NOT_RUN` as that of one interrupted "before its tool started"
(`ox-core/src/engine/dispatch.rs:149-154`). An interrupt that waits in the channel as a batch starts is
read before any call is polled, and the calls, none of which started, are told to the model as calls
that "may have run partially". The result errs on the safe side, and `RoundSound` allows it.

## Proofs

### SessionStoreProofs

For every set of processes, sessions and messages:

- `Inductive`: `Spec => []IInv`;
- `TypeCorrect`: `Spec => []TypeOK`, the part of `StoreSafety` the rest is about;
- `StoreSafe`: `Spec => []StoreSafety`, that is, also `ChainsComplete`, `LiveSessionStored`,
  `ViewDurable` and `RollbackOnChain`;
- `CountsAlwaysShown`: `Spec => []CountsShown`;
- `NothingDroppedUnseen`, `ManualTitleAlwaysSticks`, `SnapshotsAlwaysDescribeHead`: `Spec => P` for the
  action properties `NoUnseenDrop`, `ManualTitleSticks` and `SnapshotsDescribeHead`;
- `ConversationsImplemented`: `Spec => ImplementsConversations`, the refinement of `Conversations`.

The only assumptions are on the constants: `ResultsAssumption`, that bare results are messages, and
`RowsAssumption`: the null ID and the mark of an unborn
message are no session and no message, and the set of messages is finite (so that
`message_count`, a cardinality, is a number). It may have any size, as may the sets of
processes and sessions.

Why an invariant is needed: `ChainsComplete` speaks of stored rows, but a process in memory
holds a `base` and a `tip` it will later write from, and a `mark` it will rewind to. `IInv` adds

- `OpenNamed`, `ClosedOff`: an open process names a session, a closed one has the state `Off`;
- `AbsentEmpty`: a session that is not stored has no messages left to collide with;
- `Held`: a process with a saved session is open, the session is stored, and `base` is one of
  its messages, and is the tip while writes land. This is what makes the fork's copy
  complete: the chain of `base` is taken from the same session, and `ChainsComplete` closes it
  under parents. `LiveSessionStored` and `ViewDurable` follow from it;
- `FreshAlone`: nobody else holds the ID a fresh session will insert, and its chain is empty;
- `RollbackOnChain`: the mark is on the chain of the tip, so a rewind target is in the session;
- `Counted` and `RowCounts`: messages form a forest (`Sound`), what a process counts for its tip and
  its mark is the size of a chain that is already written and the stub it shows, which both chains have the results
  for, and what a row counts for its head is the size of its chain or, if there are bare results in it, one more.

`CountsShown` alone is not inductive: a rewind sets the count back to the mark's, taken any number of
writes ago, and a fork writes the count of one process into a row of its own. `Counted` says it of
every count that can come back, and that a chain which is written never changes, since parents are
set once and no cycle can close over them.

The proof has one lemma per way a write lands (in place, created, forked, failed, skipped),
then one step per action of `Next`, then one step per conjunct. Facts about chains (a chain is
closed under parents, it grows by its new tip, it stays the same in a superset of rows) are
lemmas above it. The action properties and the refinement need no further invariant. Each is a case
for each way a write lands: in place, the stored head is the process's `base`, so whatever leaves the chain
was on the chain of `base`, which the process has seen, and the branch it replaces is the branch it
holds; forked, the old session keeps its rows and the new one is the abstract branch with the write.

### TurnAndLoginProofs: the turns

For every set of modes, any `MaxRounds` and `MaxFailures` and any bounds on the inputs
(`TurnAssumption`):

- `TurnInductive`: `ASpec => []AInv`;
- `ModeAlwaysTold`, `TasksAlwaysKept` and from them `TalkAlwaysAgrees`, `UsageAlwaysBilledOnce`,
  `TurnAlwaysBounded`: `ASpec => []P` for `ModeTold`, `TasksKept`, `TalkAgrees`, `UsageBilledOnce` and
  `TurnBounded`.

The properties are not inductive, because a refused turn goes back to a mark taken long
before: what holds of the transcript now must also have held of its prefix up to the mark. `AInv`
therefore states the same relation between messages and what the engine takes for granted twice,
of `talk` and of the prefix with the mark's `seen` and `unrecorded`; it bounds the mark by the
length of the transcript, ties the requests of a turn to its rounds by phase, and the failures in
a row to the count that pauses. `Told`, `Recorded` and `Latest` take the last message of a kind,
a maximum over positions, so the proof first shows that the maximum of a non-empty bounded set
exists (by the well-founded order of the naturals), and then what appending a message, cutting
to a prefix and starting from a summary do to each of the three.

### ShellsReplyPickerProofs: the reply

For any number of retries, blocks and frames and a channel of any size (`StreamAssumption`):

- `ReplyInductive`: `SSpec => []SInv`;
- `ReplyAlwaysFaithful`: `SSpec => []ReplyFaithful`;
- `WireImplemented`: `SSpec => WireKept`, the refinement of `Wire`.

`ReplyFaithful` speaks of the end of a reply, when the channel has been read. `SInv` says what is
true on the way there (`OnItsWay`): while the consumer waits, what it has shown and what the
channel holds are together the pieces of the accumulator's streaming blocks; the last usage in
the channel, or the consumer's if there is none, is what the server told last; only the last event
may end the stream, and none does before the task has ended. `Attempts` says that nothing has
come of an attempt that is retried, and that the attempts are one more than the retries. The
proof has a lemma for what appending to and taking from the channel does to these, one for each
way blocks change, then one per action. The refinement follows from `SInv`: a frame is a `Bring`
because its piece is newer than all in the blocks, a retry an `Attempt` because the blocks are
empty, and taking an event from the channel leaves what came as it is.

### ShellsReplyPickerProofs: the shells

For any number of shells, chunks and sessions and any cap (`ShellsAssumption`):

- `ShellsInvariant`: `BSpec => []BInv`;
- `ShellsAlwaysReported`: `BSpec => []ShellsReported`.

Each part of `ShellsReported` speaks of a moment that others have prepared. `NoShellSurvives` is about
the end of `stop_all`, so `Placed` follows each started shell to it: a shell is in the registry, awaited
by `stop_all`, awaited by the `bash_stop` that removed it, dropped by an interrupt, or its supervisor is
done; and a supervisor that is done left neither a tree that runs nor a process that shares its pipe
(`Sound`). `EndBringsAll` is about what a call reads after it has read the state, so `ToldTrue` says that
an end it was told of is still so, and `Sound` that a published end has nothing left in the pipe, unless
another process held it. `ListAgrees` asks for the list when no supervisor is about to publish; `Shows` says
which entry may differ meanwhile. Steps of one shell alone (`ShellMoves`) and of the call alone
(`CallMoves`) are one lemma each, which most actions are instances of.

### ShellsReplyPickerProofs: the picker

For any finite set of sessions, any page size and look-ahead, any times and any number of keys,
operations and writes of other processes (`PickerAssumption`):

- `PickerHolds`: `PSpec => []PickInv`;
- `ListingAlwaysTrue`: `PSpec => []ListingTrue`;
- `PagesAlwaysAgree`: `PSpec => []PagesAgree`.

`ListingExact` asks for every row only once the list is complete; `PickInv` says what holds on the way.
Of the sessions nobody changed since the listing began, the place the walk has reached has the
rows behind it and all that is still to come ahead of it (`Reached`). A page awaited, being read or
in the channel, was asked from that place, so it holds what comes next, in order, and its own walk
begins after its last row (`Follows`). That stays so while others write, because a session they
change no longer counts, and while scopes are switched, because a page asked before is either not
awaited (`One`) or only ends the wait for it. `Enough` is why a picker that is idle has rows enough.
`ArchivedGone` follows from the same: when an archive is done the session is out of the scope, its
row goes, and as a row nobody else changed it lies behind the walk, so that no awaited page brings
it back (`ArchiveAgrees`, `SettledGone`).

The proof rests on lemmas about the order. The rank of an element of a finite set, one more than
the number of those before it, grows along the order and is thus a bijection onto
`1..Cardinality(S)`; from it, `Ordered` is a sequence of exactly the set, each element once and in
order (so are `Listed`, the rows kept by `Keeping`, and a page, which is a prefix). `Precedes` on
places is a strict total order because IDs differ. Cardinalities also show that an ID no
outstanding page carries exists (`FreshRequest`), and that the query leaves the cursor a row.
A lemma per action then shows that `PickInv` is kept.

### TurnAndLoginProofs: the login

For any finite set of processes and any number of token pairs, attempts and faults
(`CredentialsAssumption`):

- `LoginInductive`: `CSpec => []CInv`;
- `LockAlwaysGuards`: `CSpec => []LockGuards`;
- `LoginAlwaysKept`: `CSpec => []LoginKept`, `ReloadAlwaysSound`: `CSpec => []ReloadSound`, and from
  them `LoginAlwaysSafe`: `CSpec => []LoginSafe`.

None of the three follows from itself. One writer at a time needs `Alone`: until a live holder's
lock is removed, every guard's time is the lock's, and only one process has one. That nothing is
lost needs `StoreKept`, where a pair on its way to the store replaces exactly the stored one
(`Brings`), and that a rotation cannot take it from under another process needs `Private`: a pair
in a reply, or one that could not be saved, is known to its process alone, because each pair is
newer than all before it (`Bounded`). `SentStored` says that with no fault behind it a token is
sent only while it is the stored one. A lemma per action shows that `CInv` is kept; those that
neither issue nor store a pair are instances of one lemma (`MoveInv`), and those that end a reload
of another (`ReturnInv`). That a fresh lock can always have a time no guard holds (`FreeTime`) is
the pigeonhole principle, and what the assumption that `Proc` is finite is for.

### FilesAndHeadlessProofs: the file tracker

For any texts, lines and numbers of calls, foreign changes and starts (`TrackerAssumption`, and
`NullAssumption`: the absent values are none of the present ones):

- `TrackerAlwaysBacked`: `FSpec => []TrackerBacked`;
- `OverwritesAlwaysKnown`: `FSpec => OverwritesKnown`, an action property.

Entry and conversation travel in pairs: the ones in memory, those of the rollback point, those that were
saved. A rollback or a resume brings back an older pair, so the invariant says of each pair that the
entry holds no line its conversation does not tell (`Tracked`), and of an entry of an earlier run that it
does if its call is still there (`Backed`). Of a rewrite in flight it says what its gate checked, which
remains true to the truncation because it runs alone (`Alone`); of a file a call wrote, that the record
has its content as long as the conversation or the rollback point has the call (`Authors`).

### FilesAndHeadlessProofs: a printed run

For any output formats and number of pieces (`HeadlessAssumption`):

- `FinishedRunTold`: `RunSpec => []RunTold`.

`RunTold` compares the exit status and the result with what the engine did, two tasks and a channel away.
While the driver reads, `RInv` splits what happened between what was read and the events on their way
(`Reading`): the pieces printed and those in the channel are what the turn said, in order; the message
kept and the pieces after the last call in the channel are its last reply; a failure or a fork is in the
summary or in the channel; and the end of the turn comes last, so that nothing is left unread behind it
(`EndTold`). Once the driver has left, `Left` says what it knew then, and why nothing the engine does
afterwards changes it: no prompt waits, no turn goes on, and `finalize` forks nothing. Lemmas say what
telling and reading a piece, a call or another event do to these, then one follows for each action.

### RoundsAndTranscriptProofs: the tool rounds

For any calls, kinds, modes and channel size (`RoundAssumption`):

- `RoundsAlwaysSound`: `RSpec => []RoundSound`;
- `ConsentAlwaysOwn`: `RSpec => OwnConsent`, `EffectsStayInRound`: `RSpec => EffectsInRound`, two action
  properties.

`RInv` is `Typed`, `Rounds` (every call of the round is in exactly one place: a batch to come, at the gate,
ready, or with its result, and what the result says is what the call did), `Wired` (each request, modal and
reply is about a call of its kind) and `Posed` (while the engine waits for an answer about a call, the
request is in the events or a modal, the reply is in the channel, or a full channel lost it).
`RoundSound` needs `Rounds` to say that nothing is left unanswered at the end, and `Posed`, which has to
hold over every step of the UI and of the channels in between, to say that a wait can end.

### TurnProtocolProofs

For any prompts and modes, any channel size, round cap and number of ops (`Modes`, `Bounds`,
`NoPromptIsNone`):

- `FlightInvariant`: `Spec => []FInv`;
- `FlightAlwaysAgreed`: `Spec => []FlightAgreed`, `ModeAlwaysAgrees`: `Spec => []ModeAgrees`;
- `QueuesAlwaysAgree`: `Spec => []QueuesAgree`.

`FInv` places the operation in flight: it is in the op channel, with the engine, or over in the event
channel, in one of them only and never twice (`Stages`); submissions are numbered (`Numbered`); what an
operation says of itself comes before its end (`Tells`); and an interrupt has an idle-only op behind it in
the channel only for the operation that is being cancelled (`Interrupts`). That no idle-only op reaches a
busy engine follows from the places excluding each other, though the UI learns of an end only when it
reads the event. `ModeAgrees` speaks of empty channels only; `Followed` says what holds until then: the
last mode in the events, or the one shown, is the engine's, and the last one in the ops, or the engine's,
is the one asked for. A mode that was received and not applied yet counts as the engine's (`Effective`).

`QueuesAgree` needs a second invariant next to `FInv`: `AInv`, which is `Agrees` of the four variables it
is about. `Chained` says that while the operation runs or is on its way, the forwarded prompts are, in
queue order, the ones confirmed in the events, then the engine's mailbox, then the ones in the op channel
(behind the prompt that starts the turn: what is ahead of it belongs to an earlier one and is answered as
stale); once the operation is over, the confirmations are still a prefix of them. `Speaks` says that only a
turn confirms and only a switch hops, `Told` that a switch that succeeded says so before its end, `Phased`
that the engine's phase is one of its operation, and `Shaped` that prompts are forwarded to a turn alone,
never from a held queue, and that a mark fits its queue. The three sequences are made by a recursive
function over places (`PromptsAt`); what it does to a concatenation is proved by induction on its length,
from the library's theorem that a well-founded order has minimal elements (`WFMin`, in `Climb` and `Grows`).

### TurnServedProofs

Under the assumptions of `TurnProtocolProofs`:

- `PromptsAlwaysServed`: `Spec => []PromptsServed`.

The theorem needs a third invariant next to `FInv` and `AInv`. `PromptsServed` itself says nothing of a
turn that is under way, where the UI holds prompts that the conversation has too, and what becomes of them
depends on events the UI has yet to read. `SInv` is `Serves` of all the variables:

- the UI holds a prompt in one place (`Apart`): in the input, in hand, queued or drained into the turn;
- a prompt of the turn is `Revocable` or `Lasting`. A refusal takes out the ones the turn has, and the ones
  whose confirmation is unread; but what was confirmed before a mid-turn summary, read or not, stays for
  good. `Recorded` says that the conversation has the lasting ones, has the revocable ones unless the turn
  is `Absent` (not begun, not sent after all, or rolled back), and has no other prompt the UI holds;
  `MarkAt` that the revocable ones are exactly those behind the rollback point, so that a refusal takes out
  these and no others;
- the word that a turn was not recorded or was rolled back, or that a switch is done, is the last of its
  operation (`Lasts`), and such a turn does not end as completed (`Fates`): what the UI hands back when it
  reads the end is then what the conversation lacks. A turn that is not yet begun has nothing but its own
  prompt (`Opening`);
- the UI's session is the engine's, or one behind with the hop unread (`Sessions`); what the UI holds and
  what is past a switch's mark is at home where it will be sent (`Homes`, `Aims`), and what was said is
  at home where it was said (`SaidWell`); no typed prompt is nowhere (`Kept`).

The steps differ in what they move and not in how, so most are instances of a few lemmas about `Serves`:
events that concern no prompt (`MuttersServes`, `HearServes`), a last word (`WordServes`), the mailbox going
in (`DrainServes`), a turn's beginning (`OpensServes`), a summary (`MidServes`), a refusal
(`RefusedServes`), and what an idle UI holds (`Holds`), to which every end of an operation comes back
(`SettlementHolds`) and from which each new one starts (`FineServes`). `AInv` is what these rest on: a
confirmation names the head of the queue, and the mailbox holds queued prompts only, each once.

### RoundsAndTranscriptProofs: the live transcript

For any transcripts a session may have been left with, any length and any number of retries
(`TranscriptAssumption`):

- `LiveHolds`: `LiveSpec => []LiveInv`;
- `RequestsAlwaysValid`: `LiveSpec => []RequestsValid`;
- `ResumeAlwaysShowsSame`: `LiveSpec => []ResumeShowsSame`.

Neither property is inductive: both speak of the repair of the whole chain, most of which was there before
the process began. `LiveInv` splits it (`Grown`): the chain is a `base`, as an earlier process or a summary
left it, and the messages `new` since then; memory holds the repair of `base` and the same `new`. The
messages of `new` are not empty, answer every call among themselves (`Matched`) and share no round with
`base` (`Apart`). The rollback point of an open turn is one place of `new` in both (`Rolls`), which is why
it is two numbers and why cutting both there leaves such a pair again (`GrownBack`). A request is then
valid because a repair makes any ordered transcript a matched one (`RepairedFacts`), joining matched
transcripts gives one (`MatchedJoined`), and so does dropping the oldest rounds before a reply of the
assistant (`DroppedValid`): the results lie behind their call with only the user's messages between, so no
cut at an assistant message parts them. That a resume shows the same is `ShownGrows`: the passes of the
repair leave `new` alone and do to `base` what they did the first time, sentinels excepted.

What a filter returns needs induction over sequences. The library's induction theorems cannot be used
here; `Climb` and `Grows` derive induction over a set of numbers and of sequences from the
well-foundedness of `<` on the naturals, and `FilterExists`, `ThoseAppend`, `ThoseConcat` and `ThoseEmbed` say with it
what `Those` is of an appended message, of two transcripts in a row, and where its messages come from.

### TransferLocksGateProofs: the transfers

For any stores, sessions, messages, commits and export files:

- `TransferInvariant`: `TSpec => []TInv`;
- `TransfersAlwaysSafe`: `TSpec => []TransferSafe`;
- `ImportsAlwaysSound`: `TSpec => ImportsSound`.

`BranchesWhole` is not inductive without the files: an import copies a row from one. `TInv` says the
same of each exported row (`FileHeld`), that the store it came from still holds all its messages, and
that later files of a session hold what earlier ones do (`Accumulate`), which is why a newer export
fast-forwards whatever was compacted or rewound in between. The rest is about chains: a chain is the
same in any larger set of rows if the smaller one holds its parents (`ChainSame`), so neither a commit,
whose messages are in no row yet, nor the union of two rows changes a transcript; and a message of the
export chains to messages of the export alone (`ExportHasChain`), so a fast-forward drops no others. For
`ImportIdempotent`, a row that an export landed on is one it lands on again and leaves as it is (`Lands`),
and a related fork means that there is a newest one (`NewestExists`), so a second import never makes
a second fork.

### TransferLocksGateProofs: the locks

For any processes and lock files, under `Reimports = "alone"`:

- `LocksInvariant`: `LSpec => []LInv`;
- `ArtifactsAlwaysKept`: `LSpec => LiveKeepsArtifacts`;
- `HoldImplemented`: `LSpec => HoldSpec`, the refinement of `SessionHold`.

The hypothesis is a value of the constant and not a claim about the code: with `"anytime"` the code does
not have these properties, as `locks_reimport` shows. `LInv` adds to the types that the lock a process
has is the one its step says (`Locks`), that an exclusive lock excludes shared ones on its inode, and that
all lock files that are open are one file, the one the path names while the session has its rows
(`OneFile`). The last one is what an inode lock does not give by itself, and it fails with the rows gone:
that is why a resume looks for the rows after it has its lock. In the refinement a resume takes
effect where it loads and a delete where it removes the rows; every other step is a stutter.

### TransferLocksGateProofs: the permission gate

For any words, rules and calls, any foldings of them (`RulesAssumption`; a name below another one
must stay below it when both are folded):

- `GrantsInductive`: `PermSpec => []PermInv`;
- `AllowedAlwaysHeld`, `PartsAlwaysJudged`, `GrantsAlwaysHold`: `PermSpec => []P` for
  `AllowedIsHeld`, `PartsJudged` and `GrantsHold`.

The first two are facts about the operators. A pattern that allows words finds each of its own
words at its own place, so `WordsHeld` has the places it looks for (the i-th word at i) though it
accepts many more. Of a command and one of its parts, every test `Settle` makes before it allows is
met by the command whenever it is met by the part, in the order of the tests. `GrantsHold` needs an
invariant: a grant is judged once, under the mode and rules of that moment, and must still pass
later. `Covered` says why it does: the configured rules do not change, no deny or ask rule holds a
granted call, and the rule that was admitted stays until the session ends.

### Only model-checked

Liveness under fairness (`CancelEnds`, `InterruptEnds`, `StopsEnd`, `RequestEnds`, `RunEnds`) is out of
the prover's reach. Every other property of a passing run is a theorem.

## Not modelled

- Power loss and SQLite's own durability: a commit is atomic and lasts.
- The content of messages, JSON payloads, usage rows.
- In `LiveTranscript` and `HeadlessRun`: what their sections leave out.
- A title write that started before its session was rolled away: the abort may come too late for
  a commit the task has already begun.
- Deletes between the transfers of `SessionTransfer`.
- In `FileTracker`: several paths, symlinks, binary files, line endings, ranges past the end.
- In `BackgroundShells`: foreground calls, capture budgets and spills, and a group ID that the
  system gives to another process between a release and a kill: the check under the lock and the
  removal of the entry are one step, as they are one critical section.
- In `Credentials`: the Keychain, a logout, a login whose reply has no refresh token, an unreadable
  store, and a guard that fails between `create_dir` and reading the mtime.
- In `StreamedReply`: a `message_start` without usage, headers, delays and JSON. A second start
  of a block that is open is skipped, and its deltas go to the open block, as in the code; the
  comment on `start_block` speaks of skipping them too, but the server never sends one.
- In `AgentTurn`: writes to the store that fail (`SessionStore`), token estimates, prices.
- In `SessionPicker`: what a row shows, how a query matches it, and resolving an ID prefix.
- In `PermissionRules`: how a path is resolved, a shell script read and a glob matched, the trust a
  project is given, the filters of searches, grants for a directory a command changes to, and how
  an edited rule is displayed.
- Git branches and directories.
- The parts listed as `not_modelled` in `PROJECT.json`, each with its reason.

## Plan

What is left, in this order:

1. `TitleTask`: the abort that races a write, composed with `SessionStore`.
2. `Logout` and the `stdio` runs of a slash command, next to `HeadlessRun`.
