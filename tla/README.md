# terminus in TLA+

terminus turns chat messages (Telegram, Slack, Discord, a local socket) into
commands for tmux sessions and AI harnesses, and the output back into messages.
This directory models its control in TLA+: TLC checks small instances of the
models, TLAPS proves the most important facts for every value of the constants.

Paths below are relative to the repository (`src/` is its Rust crate).

## 1. The system

| Component | Source | State it keeps | Operations |
|---|---|---|---|
| webhook queue, retry worker | `structured_output/queue.rs`, `worker.rs`, `webhook.rs` | one file per job under `tmp/`, `pending/`, `dead/`; backoff counters; shutdown flag and `Notify` | `enqueue`, `mark_delivering`, `unmark_delivering`, `remove`, `move_to_dead`, recovery in `new`, the worker loop |
| state store and persistor | `state_store.rs`, `state_persistor.rs` | the state file, its copy in memory, a debounce counter, a one-shot flag | `load`, `apply`, `persist`, `apply_force`, `mark_clean_shutdown`, `claim_dirty_send` |
| named-session index | `harness_registry.rs` | a copy of the persisted named sessions | `persist_named_session` (with eviction), lookups |
| main loop | `main.rs`, `app.rs` | the four channels it reads, `App` | a biased `select!`: power, state, cancel, command, health, poll, ctrl-c |
| command router | `command_router.rs`, `command.rs` | none of its own | dirty marker, chat binding, then the command |
| wake coordinator, banners | `wake.rs`, `banner.rs` | active chats, `pending_acks`, `prefixes` | startup banners, `handle_gap` |
| delivery tasks | `delivery.rs` | per platform: where each session's output goes | one handler per stream event |
| Slack, Discord, Telegram adapters | `chat_adapters/*.rs` | watermarks, dedup window, pause gate, `catchup_in_progress` | live events, catchup, pause, resume, send |
| sessions, output buffer | `session.rs`, `buffer.rs`, `tmux.rs` | the sessions and the foreground one; the anchor of the diff | new, fg, bg, kill, reconnect, health check, poll |
| socket server | `socket/*.rs` | connection count, pending requests, subscriptions and their LRU store, token buckets | accept, requests, cancel, drain, config reload |
| harness driver, subprocess lifecycle | `harness/mod.rs`, `harness/lifecycle.rs` | a turn's event stream | `drive_harness`, spawn, timeout, panic guard |
| harness back ends | `harness/claude.rs`, `codex.rs`, `gemini.rs`, `opencode.rs` | tool calls to be paired, text to be joined; conversations of terminals | `run_prompt`, `translate_event`, the read loop, subcommands |
| power | `power/*.rs` | the inhibitor child, last clocks | supervisor ticks, gap detector |

How they interact: the adapters and the socket send commands into one channel
(100) that only the main loop reads; everything that is to be persisted goes
through a channel of `StateUpdate`s (256), also read only by the main loop;
output goes out over a broadcast channel that every platform's delivery task
reads; the gap detector talks to the main loop over the power channel (32).
`handle_gap`, `handle_command` with its harness turns, and the shutdown run
inline on the main loop, so while one of them waits nothing else is read.

What is hard: work that must survive a crash or a power loss between two file
operations; a channel whose only reader is the task that waits for room in it; acks
that race their timeouts; two sources (live and catchup) of the same messages; tasks
nobody joins; waits without a timeout (requests to Slack and Discord, sends to a chat
or a socket, the stderr of a child). `PROJECT.json` lists each hazard at its line with
the properties that cover it.

What makes each component correct:

* queue: a job whose `enqueue` returned Ok is delivered, dead-lettered with a
  reason, or given up because its webhook was removed; it is never just gone.
* state: the clean-shutdown flag is exact; safety-critical updates are on disk
  when the main loop goes on; the named-session index never differs from what
  the store will be; watermarks never go back.
* gaps: `handle_gap` ends and resumes the adapters; each chat is told of the gap
  or gets a prefix; no ack outlives its gap.
* catchup: it ends, if its requests are answered; it leaves no hole; nothing is
  replayed by two catchups.
* intake: a message reaches the main loop again only if the dedup window has forgotten
  it; a watermark or an offset does not pass over what nobody handled.
* commands: what a user typed as flags and as a prompt stays apart; a prompt goes to
  the conversation it names, of the harness and in the directory it was begun.
* sessions: at most one foreground session, and a dead one is forgotten; output is
  neither repeated nor skipped.
* socket: never more connections than the limit; every request is answered once, with
  all its command said, to a client that reads; a cancel interrupts its own request,
  at most once; a removed client leaves no subscriptions; a subscriber that is too
  slow is told; the client list follows the file.
* harness: a turn ends with exactly one `Done`; the chat is told of everything that
  was read, in order; files outlive the child that reads them.
* power: the inhibitor is held exactly when the policy says so.

## 2. Modules and runs

| Module | Role |
|---|---|
| `WebhookOutbox` | abstract: what the queue promises, a status per job |
| `WebhookDelivery` | queue files, `drive_harness`'s attempt, worker, process |
| `StatePersistence` | state file, persistor, channel, index, bindings, select order |
| `GapRecovery` | `handle_gap`, acks, prefixes, broadcast, delivery tasks |
| `SlackCatchup` | WebSocket events, catchup, dedup window, gap detector, main loop |
| `IntakeMain` | what the next two share: messages, channels into the main loop, `handle_gap` |
| `DiscordIntake` | gateway tasks, `run_catchup`, watermark and dedup window of a channel |
| `TelegramPolling` | the long poll, the server's side of it, the offset's way to the state file |
| `ChatIntake` | composition: one of the two adapters (INSTANCE) with the main loop |
| `SocketRequests` | requests, attachments, cancels, replies and shutdown of socket connections, main loop |
| `Subscriptions` | operators: filters, registry of a connection, LRU store |
| `SocketServer` | accept, authentication, subscriptions, buses, rate limit, client reload, shutdown |
| `Sessions` | tmux sessions, `SessionManager`, output buffers, session commands, health check, polling |
| `HarnessBackends` | the task of a turn: read loops of the four back ends, child, panic guard, files |
| `HarnessTurn` | composition: that task with `drive_harness` and the message it works for |
| `Commands` | operators: `ParsedCommand::parse`, splitter and parser of harness flags |
| `HarnessSessions` | prompts, harness mode of terminals, index of named sessions, the back ends' memory |
| `MainLoop_proofs` | theorems of `HarnessTurn`, `Sessions` and `HarnessSessions`: what the main loop drives |
| other `*_proofs` | theorems of the module they are named for (section 3) |
| `MC*` | constants for TLC |

The modules meet in what they share: `HarnessTurn` ends a structured codex turn where
`WebhookDelivery` begins a job; `HarnessSessions` takes a turn for one step, and
`StateArm` of it for the channel and the writes between its index and the state file,
which `StatePersistence` has step by step; that is also behind the watermarks of the
intake modules; the connection tasks of
`SocketRequests` are the open connections of `SocketServer`.

### WebhookDelivery

A job is one file, so its place (`tmp`, `pending`, `.delivering`, `dead`, none)
is its state. `loc` is what a reader sees, `disk` the set of names a power loss
may leave instead: a write or rename adds to it, `fsync` of the file removes
"torn", `fsync` of the directory the older names. One action per await point of
`enqueue` and of the worker loop. A file operation may fail (`FsFaults`); the
model then takes the branch the code takes, most often "log and go on". Times
are left out: a timer may fire at any time, `RetryAgeCap` says whether a job can
become too old. `Registries` is the set of configurations a start may load.

| Run | Question | Result |
|---|---|---|
| `webhook_safety` | two jobs, all faults, two stops: is a job lost, does the queue implement `WebhookOutbox`? | holds |
| `webhook_live` | two jobs, a crash, a changed configuration, no failing file operation: does every job leave the queue, does the worker return? | holds |

Two jobs are enough for the order of a listing and for one job blocking another;
a third only repeats the second. Two stops let a power loss undo what a recovery
has done.

`NoConcurrentPost` states that the worker and the synchronous attempt never POST one
job at once. It does not hold (section 4) and is checked by no run.

Fairness: `drive_harness` continues the job it has and the worker task is
scheduled (weak fairness: tokio polls both); the receiver does not fail a job for
ever (strong fairness of acceptance, without which no queue drains). Crashes,
starts and the environment are not fair.

### StatePersistence

One action per arm of the select that touches the state, each with its whole
handler: `SelectState` is `apply_state_update` with the debounce and the write,
`RouteCommand` the dirty marker and the binding, `PersistNamedSession` the
eviction, the bounded send and the index. The bias of the select is the guard
`Drained`. A named session is its `last_used` stamp, the chats of the three
platforms are one set and the watermarks one number, because the code treats them
alike. The rename of the state file is atomic and durable here; the code does not
`fsync` the temporary file, so a power loss (not a crash) may break this. That is
listed as a hazard.

| Run | Question | Result |
|---|---|---|
| `state_persistence` | three names for two places, a channel of three, failing writes, a restart: flag, index, forced writes, watermarks | holds |

The channel of three is filled by the marker, a binding and a batch, so that both
refusals (`try_send` and the timeout) happen; three names for two places evict.
`BindingsDurable` does not hold (section 4).

### GapRecovery

`handle_gap` is a sequence of program points, with a step per chat where the code
loops; `InstallPending` precedes the broadcast. The oneshot of a chat is `rx`, its
sender `pending`; a timeout makes it "late", and the two locks of the fallback are
two steps. Each platform's delivery task has the events it has not yet received,
limited by `Cap` with loss of the oldest, the home of the session, and the event in
hand. A gap is a number. The output of one session stands for all output.

| Run | Question | Result |
|---|---|---|
| `gap_recovery` | two chats on two platforms, two gaps, lag, failing sends: stale acks, untold chats, adapters that stay paused | holds |

Fairness is on `HandleGap` alone: the future is polled and timers fire. Nothing is
assumed of delivery tasks, so `AdaptersResume` holds even if none answers.
`MarkerReachesChat` does not hold (section 4).

### SlackCatchup

One channel; the n-th message is n, a moment is the last message before it. The
WebSocket loop has a step per lock it takes, because a catchup may run in between; the
catchup has one for each request, each page, each send. A sleep is one step: messages
posted meanwhile are pushed or lost with the connection, and the detector reports the
last tick before. A request of the catchup may fail, or never be answered (`Stall`):
its client has no timeout, and `catchup_in_progress` then stays set. So may a command
never come back (`Hang`), whose sends to the chat have none either. The main loop
takes no command while it is in `handle_gap`; channel capacities are one, so every
send has to wait for it.

| Run | Question | Result |
|---|---|---|
| `slack_catchup` | two gaps, two pages, an overflowing window, failing and unanswered requests, a restart: replays, holes, deadlock | holds |

Fairness: the three tasks are scheduled, and `handle_gap` waits for acks no longer
than their timeout. Nothing is assumed of requests and of commands: `CatchupEnds` says
that a catchup ends, or stands in a request that is never answered, or the main loop
is stuck in a command - and never that the catchup and `handle_gap` wait for each
other. With pages of one message two messages make a catchup of two pages, and the
window of one overflows. `FailedGapIsRetried` does not hold (section 4).

### DiscordIntake, TelegramPolling, ChatIntake

`IntakeMain` has the main loop as far as an adapter sees it: the biased order of its
channels and `handle_gap` with pause, spawn of the catchup and resume. The n-th
message, or update, is n.

`DiscordIntake`: serenity runs every gateway event in a task of its own, so each
message has its own program counter (`handler`), with a step per lock or await of
`DiscordHandler::message`: pause gate, dedup window, watermark, state update, send.
`run_catchup` has a step for its snapshot, each request, each item and each of the
same four effects. Messages posted while the connection is down are pushed to nobody;
a request may fail for good, or never be answered (`CatchStalls`: serenity's client is
made without a timeout); a command may never come back (`MainHangs`); `Persists` gives
up on a full channel; the watermark in memory is inserted without a comparison, so it
may go back, as in the code. `begun`, `lived`, `got` and `evicted` (what the window
gave up) are history. One channel is modelled: watermarks and catchups of different
channels touch nothing common but the window and the cap.

`TelegramPolling`: the server keeps updates until a request confirms them by its
offset; an answer may be lost on the way, and the host may sleep or die at any point
of the poll. The offset is clamped when it is read from the state file, is sent with
`try_send`, and is written at the persistor's leisure. A pause is seen only before a
request. Downloads are left out.

| Run | Question | Result |
|---|---|---|
| `chat_intake` | either adapter under a sleep, a restart, lost answers, full channels and a window that overflows: a message repeated without need, a message passed over, an update forgotten; do catchups end and updates arrive? | holds |
| `discord_dropped` | is what was dropped while paused replayed? | no: see findings |

The first Discord process starts from a state file with the watermark 1 (`Watermarks`):
message 1 is an old one, and of the two that follow either is read by a catchup or comes
live meanwhile, or both. Pages and a cap of one reach the next page (behind a foreign
message) and the cap (with a rest), two sleeps a catchup that another gap follows. The
window of one overflows, as that of 200 does under a catchup of 1000: the code then
duplicates (section 4), and `GotOnce` counts that a message comes again only as often as
it was given up. Fairness: tokio polls the tasks; Telegram's requests, whose client has
a timeout, are answered or fail `MaxFaults` times. Nothing is assumed of Discord's, nor
of commands: `CatchupEnds` and `UpdatesArrive` except what they hold up.

### SocketRequests

A connection task is one loop: while it waits in `cmd_tx.send` ("sending") it reads,
drains and notices nothing, and between the send and its entry in `pending` ("sent")
the main loop may already have handled the message. A request is its number in the
order of acceptance, since a client may use an id again; `pending` maps ids to
requests. Replies are counted: `replied` by the handler, `chunks` by `drain_pending`;
`handled` is the set of requests whose message, and with it the only sender of the
reply channel, is dropped. `shell` is the request whose command the foreground session
runs, which the handler does not wait for. `send_envelope` has no timeout: when a
client does not read, the task waits in a write ("blocked", and in the shutdown's
drain "drain_blocked") until the client reads on, the write fails or the server is
stopped. Refused frames change nothing; a text frame of any kind drops an expected
attachment. Close stands for every way the loop ends (client, idle, pong, a name gone
from the configuration, a failed write), and its final drain stops at the first failed
write. Subscriptions, authentication and token buckets are those of `SocketServer`.
That a cancel interrupts its own request (`InterruptHitsItsRequest`) does not hold
(section 4).

| Run | Question | Result |
|---|---|---|
| `socket_requests` | three requests under two ids, attachments, cancels, channels of one, a client that stops reading, close and shutdown anywhere: is each request answered whole and once? | holds |

Three requests under two ids make a duplicate, a replaced entry and a full channel;
connections meet only in the two channels, which one client can fill, so the run has
one and the theorems are for any number. Fairness: the main loop takes what is ready
and its handlers return (what may keep a handler for ever is in `HarnessTurn`), and the
connection task is polled. Nothing is assumed of clients, of the program in the session,
or of Ctrl-C: `RequestsAnswered` excepts a connection that closes and one whose client
stopped reading, and the properties of what is answered hold for those too.

### SocketServer, Subscriptions

`at` is the place of each connection task: upgrading, open, between the two locks of
a restore, closing, between the lookup in the live client list and the lock of the
store. The watcher has a step for the debounce, the new watch, the read, the purge and
the new list; the file may be edited in place or replaced, with or without a gap, and
the watch is on the inode that was there. The two buses keep `BusCap` events for a slow
receiver. `Subscriptions` has the registry, the filters and the LRU store as operators,
import order and all. `late`, `since`, `heard` and `missed` are history: which clients
a closing connection saved after the watcher had purged them, and what each
subscription was owed, was told, and was told to have missed.

Of the rest: a rate-limited frame changes nothing; pings, idle timeout, protocol
errors and write errors are one action, `Leave`; a client is its name, so that a
rotated token is not told from an old one; an upgrade has no timeout and ends by
itself or by the abort at shutdown. That a revoked connection is closed and that the
server drains are actions, but nothing is claimed of their liveness: with the biased
select frames may keep the ping ticker waiting.

| Run | Question | Result |
|---|---|---|
| `socket_server` | two clients that subscribe, restore, lag, reconnect and close while the file is edited, replaced and reloaded: is the store in step, a revoked client forgotten, a lag told, the list that of the file? | holds |

Two connections are enough for two clients or for one that is connected twice; a store
and a bucket of one are always full or empty; a bus of one lags at the second event. A
store limit of 0, which the configuration may have, keeps one entry (section 4);
`StoreInStep` and its theorem speak of the limit in force (`StoreLimit`). `MaxWorld` =
3 bounds edits, events and living tasks together: each interesting case (purge against
close, a second edit during a reload, a lag) needs at most three. The run takes one
bus and one id: buses and ids do not touch each other in the code. The two properties
about the client list are theorems for any bounds.

### HarnessTurn, HarnessBackends

`HarnessBackends` is the task that runs a turn: `Prompt` with what each back end
refuses, the spawn, one action per line of the child's stream (`CodexLine`,
`GeminiLine`, `OpencodeLine`, `ClaudeLine` translate as `translate_event` does), the
flush, the reaping, the reading of stderr ("stderr"; "held" while a process the child
left behind has the pipe) and the panic guard. A line is its type and its tool call;
an event keeps the numbers of the lines it carries, so that order, loss and repetition
can be seen without any text. The pairing buffer evicts an arbitrary entry, as a hash
map does. `HarnessTurn` adds `drive_harness` with its batches, counts and last tool,
and `EndTurn`, which drops the message with its attachments even if the task still
works; a send to the chat may hang ("stuck").

| Run | Question | Result |
|---|---|---|
| `harness_turn` | every stream of three lines of each back end, with panics, timeouts, and children that die or hang: one Done, a faithful chat, files that outlast the child, an end, and nothing left? | holds |

Three lines (two of claude, which has no calls to pair) hold a call, its result and a
text, or two calls that overflow the buffers of one; eleven kinds of request cover
what each back end refuses and runs. The batch threshold of five lines is never
reached with three; that a batch may go out at any time (the timer) covers it.
`CallsTold` promises that a call is told only if it has its id to itself: an id that
starts again replaces its entry in the pairing buffer, and its first call is never
told of. `TextsTold` is about the texts that were read, and `AllRead` says what is
not: what stands behind the line that ends the loop. For opencode that line may come
too early, and `EveryStepRead`, what its comment and its test say, does not hold
(section 4). Fairness: tasks are polled, a silent child is killed after the timeout,
and a child that has said everything exits. Neither a process that holds stderr, which
no timeout covers and which the kill of the child does not reach, nor a send to the
chat need ever end: `TurnEnds` names the two as what alone can keep a turn.
`FilesOutlast` exempts claude: its attachments go with its task, and a child that
outlives the five seconds of the drain is still there. Discovery of new files
(`scan_new_files`) is reduced to the events it gives.

### HarnessSessions, Commands

`Commands` has the parser: tokens are words with an optional `=value`, already split
and with dashes normalised; built-in commands, harness words, the splitter that cuts
the leading flags from a prompt, the parser that consumes them, and the conflicts
between them. Error texts are one error; the blocklist is a set of words; of the check
of `--max-turns` only the legal values are kept. `HarnessSessions` routes what was
parsed: terminals, harness modes, `lookup_named_session` with its bare keys of older
versions, `persist_named_session` with its eviction, the `SessionStore` of each back
end, and what a back end is asked to resume, where. A turn is one step, after which
the back end reports a conversation, or none, and the state channel takes the update
or not. `saved` is the index in the state file: `StateArm` writes it, at any later
time or never, and `Restart`, a stop or a crash between any two steps, reads it back.
Notices about sessions and listings are left out.

| Run | Question | Result |
|---|---|---|
| `harness_sessions` | prompts by name, by id, with --continue and without, to three harnesses, from terminals in harness mode, across evictions and restarts elsewhere, with a state file behind the index: own conversation, prompt whole, names continued? | holds |

`PromptWhole` compares splitter and parser with what a user means (`Meant`) for all
sequences of up to three flag groups out of fifteen and three prompts. An index of two
places with names of three harnesses evicts; the initial index is one an older version
left, with a bare key. `Continues` is about the names used since, or read back: what the
file had not got at a restart is forgotten, and with it goes `recent`.

### Sessions

tmux is the environment: sessions print lines, lines leave a pane (history limit,
clear), sessions exit, and all of them outlive the process. A line is its number, and
output or noise (prompt, echo, blank); a pane is what was printed less what has left
it, as the tests of `buffer.rs` have it. `anchor` and `waiting` are the fields of
`OutputBuffer`; the snapshot only saves work and the echo is noise. One command, one
health check and one poll are one action each, since all run on the main loop; tmux
calls may fail, so a health check forgets any non-empty set of the dead, a capture
may leave the anchor where it is, and `kill` may leave the tmux session alive.
`told`, `repeated`, `from` and `disturbed` belong to the properties: which lines were
told, of which session one was told again, the last line before the latest command,
and the sessions that scrolled or that a start found but could not capture. Those two
really do repeat output (section 4), so nothing is claimed of them. Like the code,
`ReconcileStartup` does not look at the limit of sessions.

| Run | Question | Result |
|---|---|---|
| `sessions` | two sessions under all orders of commands, deaths, health checks, polls, stops and starts: one foreground, a buffer each, all output told and told once, the dead forgotten? | holds |

Two names let one session displace, outlive or replace the other. Three lines of which
a poll reads two make output behind noise, several messages after one command, and a
flood. Fairness: the health check and the poll of the foreground session run when they
can for good. The select is biased towards commands, so this assumes that they do not
come without a pause, and that tmux answers.

### Checking deadlock

`sessions`, whose process can always stop or start, `harness_turn` and
`harness_sessions` check it. The other runs set `CHECK_DEADLOCK FALSE`: the counters
that bound them leave states in which a finished system has nothing to do. Stuck
states are found by the liveness properties instead.

## 3. What is proved

For all values of the constants that satisfy the named assumptions:

* `WebhookDelivery_proofs`: `Typing`, `NothingLost`, `QueueImplementsOutbox`,
  `NothingStranded` (no file operation fails), `DeadLettersExplained` (no power loss;
  it adds that the `.reason` is there from the step after its write on). The
  inductive invariant adds to `NoJobLost` where the file is at each step of the
  synchronous path and of the worker: while `drive_harness` is in "post" the file
  is `.delivering` unless the worker's own branch explains otherwise, after the
  write-ahead `disk` has no name that recovery would delete, and a step that
  removes a file is reached only after acceptance. The refinement maps each step to
  a step of `WebhookOutbox` or to a stutter.
* `StatePersistence_proofs`: `Typing`, `CleanFlagIsExact`, `IndexNeverDrifts`,
  `ForcedUpdatesAreDurable`, `CleanStopIsComplete`, `WatermarkAdvances`. Strengthenings:
  the store has the flag of its phase (`MarkedDirty`); the disk is never ahead of the
  store (`DiskBehind`); the last update in the channel that touches a name agrees with
  the index, or else the store does (`Agrees`, `Bookkeeping`); no batch is left in the
  channel when ctrl-c is taken, because the select is biased (`NoBatchLeft`).

* `SocketRequests_proofs`: `TypeSafe`, `AnswersAreWhole`, `NoAnswerIsLost`,
  `OneInterruptEach`, `ReplacedByAttachments`. `IInv` adds: nothing is known of a
  number that was not given out (`Known`); a request is in one of connection, command
  channel, main loop, `handled` (`Queue`), which is why a handler cannot reply after
  the end; an entry belongs to a request of its connection and id without an end
  (`Entries`); what is being forwarded is newer than every entry, and has the id of one
  only if it is an attachment (`Forwards`). One lemma per action or per group of
  actions that change the same part of the state.

* `MainLoop_proofs`, of `HarnessTurn`: `StreamHasOneDone`, `FilesStay`, `ChatHearsAll`,
  for any tools, tool ids, requests, buffer sizes and lengths of a stream. `TurnInv` says
  where a turn is: before the task is at its guard its stream has no Done, from then on
  it ends with one (claude's with anything but a tool call; `Ends`); a child is there
  from the spawn to the reaping only (`Children`); a driver that has the Done, or found
  the stream closed, is behind a task at its end (`Hears`). One lemma gives, for any step
  of the task, the events it adds to the stream (`TaskStep`). `ChatInv` adds what
  `drive_harness` knows: messages and batch are two rows in the order of the events, the
  one before the other; a message with a count stands before as many calls of the same
  tool; from the last line of the batch to the last event taken there are calls of one
  tool only, which is what the count will say; every event taken is in one of the rows,
  is the Done, or is like the call before it (`Chat`). The four ways to go on - a call
  like the last, another call, anything else, the batch goes out - are lemmas about
  `Chat` for any stream and any rows, which the steps then use. A stream may close without
  a Done (claude); that no batch is lost then follows from its last event being no call.
* `MainLoop_proofs`, of `HarnessTurn` again: `AnswerIsTold`, for any lines, calls and
  buffers. `ToldInv` follows each line from the log to the chat. `TextsKept`: a text
  is in an event, or there is an error among the events, or it is in the locals of the
  read loop and the task can still send it - or it is of a structured codex turn that
  was not completed, the one case the property excepts (`Held`). `Matched`: for every
  id, the calls told and the one pending are no more than its starts; a pending call
  has its id for itself; and what started once, among no more starts than the buffer
  has room for, is told, pending, or behind an error. `LineFate` says for one line of
  each back end what becomes of the texts and of the pending calls, and `MatchedSaid`,
  `MatchedStart` and `MatchedFlush` are about any log, stream and set of pending
  calls: one call told, one started (an eviction needs a full buffer, and then more
  calls have started than fit), and all that are left told in any order. `ReadInv` is
  about what was not read: a task that left its loop with lines unread has an error
  among its events, or one to report, or the last line it read ends the turn
  (`Excused`). `Heeded`: a driver that goes on has taken no error, so that a turn that
  ends with Done has taken the whole stream, and `ChatInv` brings it into the chat.
* `MainLoop_proofs`, of `Sessions`: `TerminalTypes`, `ForegroundIsOne`,
  `BuffersAreSessions`, `NoLineTwice`. `TermInv` adds what relates a pane to its buffer
  (`Pane`): a dead session has no lines and nothing told of it, and of a session not
  disturbed nothing has left the pane, so that its anchor is never beyond the end and what
  is behind the anchor was not told; and that a process that is down tracks nothing
  (`Stopped`).
* `MainLoop_proofs`, of `HarnessSessions`: `ConversationIsOwn`, `NamedContinue`. A
  conversation belongs to the harness that began it and to the directory in which it was
  begun (`Begun`, `Owns`), and back ends only ever begin more (`Grows`), so what was true
  of an entry stays true. `RouteInv` says it of every entry of the index under the
  harness of its key (`IndexTrue`), of the terminals' conversations (`StoreTrue`, which a
  restart elsewhere empties) and keeps the names in the modes of the terminals valid
  (`ModesValid`, from `ParseNames`: whatever is typed, a name that gets past the parser
  is a valid one). `NamedContinue` needs the order of use: the sessions used last are the
  end of the index, place by place (`EndsWith`), which has a key only once (`Unique`).
  The lemmas about it are for any lists: both lose the entry in the same place, or only
  the index loses one in front of that end, and both get one. What is true of the index
  is true of the file written from it (`SavedTrue`), and stays true while back ends begin
  more, so that a restart may read it back. It rests on
  `KeysAssumption` - a valid name has no colon, so `build_session_key` is injective and
  no key is an old bare name - and on `IndexesAssumption` about the file of an older
  version; TLC evaluates both for the names and indexes of the run.

* `GapRecovery_proofs`: `NoAckIsStale`, `NoChatLeftOut`, `EveryChatTold`. `Inv`
  follows a chat through `handle_gap`: a sender in `pending_acks` has a waiting receiver
  or a chat the fallback loop will come to (`Senders`); a chat that was active is waited
  for, late, told or owed (`Known`). `Account` is the bookkeeping behind the counting
  half of `ToldOrMarked`: a gap's banner is broadcast after the gap began (`Fresh`), the
  events a task has yet to see are numbered (`Numbered`), so what it sends for a chat is
  a new banner of it and pays for the ack it resolves (`AllPaid`), even an ack that a
  later gap installed.

* `ChatIntake_proofs`: `NoUpdateForgotten`, if the state file began without a usable
  offset (`NoOffsetAtFirst`; section 4 has what a later one does). Each place an offset
  may come from - task, state channel, store, file - is behind what was handled
  (`OffsetsBehind`), and an answer goes on where the offset is (`BatchInOrder`).
  `PassedOverByLiveOnly`: the watermark, the copies in the state channel and in the
  file, and the cursor of the catchup pass over handled messages only, or lie below a
  live one (`AllPassed`); what is left of a page follows on the cursor (`Shape`); what
  is in the window, or about to be marked, was pushed (`Marked`). `RepeatedOnlyIfForgotten`,
  for both adapters and a window of any size: what main was given of a message, who holds
  it now and has looked, and its place in the window are together no more than one and
  what the window gave up (`OnceEach`); on Telegram it is below the offset (`HandsOnce`).

* `SlackCatchup_proofs`: `NothingReplayedTwice`, `NothingInGapMissing`. Wherever a
  catchup may still start from - the detector's tick, a queued signal, a main loop that
  is about to spawn one - what was replayed lies at or before it, the watermark, or the
  watermark about to be set (`Behind`, `Starts`). `Working` says what a running catchup
  has: found messages from the cursor to the new watermark, none twice, none replayed,
  and none missing that did not come live (`Complete`); `Pages` that a page goes up to
  the cursor without a hole. Windows and pages may be of any size.

* `SocketServer_proofs`: `ListIsCurrent`, whose invariant `Follows` says that without
  a waiting event the watch is on the file that is there and the list, or what was
  read for it, is its content; `RevokedAreForgotten`, whose invariant explains every
  name in the store both for the list in force and, after the purge, for the one to
  come (`Explained`), from what each operation does to the set of names, whatever
  their order. `StoreStaysInStep` is about that order, for any limit, 0 included: it
  has each name of the map once, and `Without`, `order.retain` of the code, keeps this
  because it keeps places in their order (lemmas about `Nth`). `LagIsReported`: what a
  receiver has read past is heard, or lost, and the numbers of a lag are the events
  between its place and the oldest that is kept.

Only model-checked, and why:

* Liveness (`QueueDrains`, `WorkerReturns`, `AdaptersResume`, `CatchupEnds`,
  `UpdatesArrive`, `RequestsAnswered`, `OutputTold`, `DeadForgotten`, `TurnEnds`):
  fairness and ENABLED are beyond TLAPS.
* `PromptWhole` compares recursive functions over sequences of tokens; induction over
  data is out of reach of the installed provers.

The type invariants of modules without a `Typing` theorem can be added to their run's
configuration, which keeps to one `INVARIANT` for each question. No module uses
RECURSIVE. Some operators are written so that they can be reasoned about: `Without` of
`Subscriptions` names the places that stay; `InOrder` of `SlackCatchup` and of
`HarnessBackends` is the set of rows that have a set's members in increasing order,
instead of a filtered sequence; `Skipping` of `HarnessSessions` removes the one place
there is, `Entries` is a set of entries and `With` spells out the new map, because the
provers do not know the operators of the library that filter and override.

## 4. Where the code and its words disagree

A property of the model may state a sentence of the repository that the code does not
keep. Such a property is in its module with the sentence it comes from; the ones below
are checked by no run but the first, and one added to the `.cfg` of its module
(`InterruptHitsItsRequest` and `WatermarkForward` as PROPERTY, the others as INVARIANT)
shows the behaviour. `PROJECT.json` has the sentences and the lines.

* `DroppedIsReplayed` (run `discord_dropped`): a message dropped while the adapter was
  paused is passed over for good when a later one comes over the gateway after the
  resume and before the catchup takes its snapshot of the watermark.
* `NoConcurrentPost`: the rename that is to keep the worker away comes after the file
  was visible to it.
* `BindingsDurable`: bindings wait in the debounce window.
* `MarkerReachesChat`: every platform's delivery task handles every message and takes
  the prefix of a chat it cannot send to.
* `InterruptHitsItsRequest`: a shell request is over for the connection as soon as its
  command was typed, so what a cancel interrupts is the program of another request.
* `FailedGapIsRetried`: the next catchup starts from the newer `paused_at`, beyond the
  messages of the failed one.
* `EveryStepRead`: opencode's read loop breaks after the first finished step.
* `WatermarkForward`: gateway tasks and the catchup insert watermarks without a
  comparison.

Further disagreements met while modelling: the worker is dropped, not
drained, at exit; an ack of an old banner counts for a new gap; a skipped catchup is
not covered by the running one; pages of a long catchup come newest page first; the
dedup window does not stop a live event that follows its catchup; the comment on
Discord watermarks; an attachment is checked neither for its id nor for the limit of
pending requests; a cancelled shell request gets no `result`; a pane that contracts
below the anchor is told again from its first line; a Discord catchup can push the ids
of its own range out of the window, and at its cap leaves the newest messages; a
Telegram offset waits in the debounce window; a subscription store limited to 0 keeps
one entry; an `error` event of codex ends a turn that
goes on, and claude's files come after the error that ends the turn; an implicit prompt
of codex is ephemeral; bare keys of older versions serve every harness; a connection
that closes during a purge, or before it has restored anything, stores or removes what
it should not; a ping, not the next message, closes a revoked connection; a dead
inhibitor child is not started again.

## 5. Not modelled

* Text: rendering, splitting, notification wording, HMAC, wire formats. Where a
  property is about text (flags of a command, lines of a pane or a stream) it is
  tokens.
* Attachments of Discord and Slack, threads, message edits: I/O without state that the
  rest sees. Sending is an event that succeeds or fails.
* The power inhibitor (`power/supervisor.rs` and the back ends for macOS and Linux):
  nothing waits for it and nothing it does is seen by the rest; its one hazard is in
  the findings.
* Configuration parsing: values become CONSTANTS. Quarantine of a corrupt state file.
* Power loss between the write and the rename of the state file, which the code does
  not `fsync`: with it the clean-shutdown flag would simply be wrong.
* tmux takes a prefix of a session's name for the name when there is no exact match,
  and it pads a screen with empty lines.
* The passing of subcommands to the harness CLIs beyond the start and the end of their
  process; screenshots, listings and help.

## 6. Plan

What would add most, in order:

1. One main loop for all: `StatePersistence` composed with the intake and the socket,
   so that the capacity of the shared channels is felt across components.
2. Liveness of `SocketServer` (a revoked connection closes, the server drains) on an
   instance without buses.
3. The quarantine of a corrupt state file, with a power loss in `StatePersistence`.
