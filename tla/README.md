# codiv in TLA+

codiv is a terminal client (`codiv`) that hosts a bash co-process and talks to a
daemon (`codivd`) that runs language-model agents with tools. This directory
holds TLA+ models of the parts where the two programs, their tasks and their
user interleave, the TLC configurations that check small instances, and proofs
about the core protocol for every instance. Paths below are relative to
`src/crates/` unless they start with `src/`.

## 1. Inventory

| Component | State | Operations | What makes it correct |
|---|---|---|---|
| **Shell lease, daemon side** (`codivd/src/agent/relay_manager.rs`, `handlers/shell.rs`) | `ops`: per lease a phase, a command phase, two oneshot senders, a timer task | `execute_bash`, the `on_*` handlers, `on_execution_timeout`, `cancel_all` | a started command's call gets an answer, one that waits is not lost; one call holds the shell; started commands are timed |
| **Shell lease, client side** (`codiv/src/ui/terminal/daemon/lease.rs`) | active lease, command ready to start, queue | acquire, execute, release, cancel, promotion | exclusive, first come first served, only on an idle shell |
| **Client event loop** (`codiv/src/ui/terminal/event_loop.rs`, `keys/`) | pending command, streaming flags, modals | `select!` on keys / messages / PTY / tick, then completion check, then start | the order of one iteration; user and agent share one PTY |
| **IPC** (`codivd/src/ipc/server.rs`, `codiv/src/ipc/client.rs`, `codiv-common/src/messages.rs`) | connections by client id, writer tasks, bounded queues | register, send, reader loops, heartbeat | FIFO per connection; a lost connection loses a suffix |
| **Daemon loop and session table** (`codivd/src/daemon.rs`, `session.rs`) | `ClientSession` per client id | dispatch one message at a time, collect returned agents, cleanup, reload, shutdown | handlers never interleave, agent tasks do |
| **Agent task lifecycle** (`codivd/src/handlers/agent.rs`, `agent/agent.rs`) | `agent`, `agent_task`, `agent_return_rx` | request, run, return, collect, cancel | its events are stored once, in the session of its prompt; each run starts with the whole timeline |
| **Streaming and retry** (`codivd/src/agent/streaming.rs`, `tools.rs`, `error.rs`) | attempt counter, collected events, queue of results | stream chunks and calls, retry with back-off, fail, store | each stored call has its result; attempts do not mix |
| **Client streaming UI** (`codiv/src/ui/terminal/daemon/streaming.rs`, `session.rs`, `codiv/src/ui/blocks.rs`) | `agent_streaming`, `active_request_id`, `pending_compaction_count`, queue of calls without result, blocks | start and end of a stream, blocks, session replay | streaming ends when the run does, and only then; a result is shown with its own call |
| **Compaction** (`codivd/src/handlers/compaction.rs`) | `needs_compaction`, new session | summarise, switch session | summary stored, session switched, client told |
| **Conversation store** (`codivd/src/store.rs`) | sessions, events, `UNIQUE(session_id, seq)` | append, load, name, delete | no event lost, order kept |
| **Permission gate** (`codivd/src/agent/permissions.rs`, `permission_evaluator.rs`, `llm_evaluator.rs`, `handlers/permission.rs`, `codiv/src/ui/terminal/keys/confirmation.rs`) | mode, rules, `pending` and `pending_meta`, the client's prompt | decide, judge, ask, answer, time out, save a rule | nothing asked about runs without a yes for it; each question ends; saved rules are the user's |
| **Command classification** (`codivd/src/agent/ast/`, `risk_classifier.rs`) | none | classify a syntax tree | a whole gets the care of its parts; more words never less care |
| **OAuth** (`codiv-common/src/auth/`, `codiv/src/cli/login.rs`) | credentials in `config.toml` | login, refresh, exchange for a key | the stored refresh token is the one in force; a key stays with its token |
| **Configuration** (`codiv-common/src/config.rs`, `codivd/src/agent/models.rs`) | file, memory of the daemon, watcher | load or write the template, watch, reload, save permissions | the daemon ends with what the file says; no writer undoes another |
| **Co-process and sentinel** (`codiv/src/shell/bash_coprocess.rs`, `codiv-common/src/shell/`) | output channel, sentinel id, PTY | write a line, read up to a sentinel, interrupt | output belongs to the command that printed it; the directory shown is bash's |
| **Completion engine** (`codiv/src/shell/completion_engine.rs`) | state of its initialisation on the same PTY | initialise in the background or on demand, ask, reset | asks only once its helper is defined; never blocks for good |
| **Line editor and popup** (`codiv/src/ui/input.rs`, `completion_popup.rs`, `terminal/keys/`) | buffer, cursor, history, paste blocks, popup | edit, paste, browse, submit, complete | what is sent is what was typed and pasted; markers and blocks stay in step |
| **Blocks, rendering, presenters, pickers** (`codiv/src/ui/`) | blocks, scroll position | draw, scroll, select | pairing of calls and results; the rest is what is seen |
| **File and search tools** (`codiv-tools/`) | none | read, write, edit, glob, grep | sequential file access |
| **Truncation** (`codiv-common/src/truncate.rs`) | none | shorten output | limits hold |
| **Providers** (`codivd/src/agent/providers.rs`) | none | build client objects | settings reach the library |
| **CLI and daemon control** (`codiv/src/cli/`, `codivd/src/main.rs`) | PID file, socket | start, stop, log in | one daemon per socket |

How they interact. A bash tool call in the daemon runs in the agent's tokio
task. It asks the client for the shell (lease), waits on a oneshot that the
daemon's main loop fires when the client answers, sends the command, waits for
a second oneshot, releases. The client handles one frame, key or tick per loop
iteration; its user types into the same shell. `CancelRequest` (Esc) makes the
main loop resolve every call of the session and abort its task. Frames are FIFO
on each connection; a reconnecting client gets a new client id and a new
session, and keeps its own lease state.

A prompt is an `AgentRequest`. The main loop stores it, lends the session's agent
(its history) to a new task and goes on; the task streams to the client, sends
`AgentComplete`, and returns the agent with its new events through a oneshot that
the main loop polls before each message. Meanwhile the user may run commands,
prompt again, switch the session or compact it.

A tool call of the model passes the gate in a task of its own; rules, mode and the
risk of its command decide whether it runs, is judged by a model, or becomes a
`ConfirmationRequest` that the client shows as a prompt. The user's answer comes
back through the main loop, which may also save it as a rule in `config.toml`. That
file is shared: the daemon's token refresh, its watcher, `codiv login` and the
user's editor write it without a lock.

The client's one bash runs the user's commands, the commands of leases, the
questions `pwd`, `git` and `env` after each of them, and the completion helper;
output is told apart by sentinels only.

Where the behaviour is hard: handlers that run between two awaits of a call;
a timer racing a late report; cancellation that the client is never told of;
reports that carry the lease active *now* rather than their own; a reconnect
that leaves old leases on one side only; an agent that comes back to a session
that is no longer the one it left; completions that do not say which request they
complete; two client sessions writing one conversation; an answer that arrives
after its question has timed out or been replaced on the screen; results paired
with calls by position; writers of one file that overlap or are killed half-way;
questions to bash given up at a limit whose answers come later; a list of pasted
blocks kept in step with markers in a line; commands that never end. `PROJECT.json` lists each hazard at
its line with the properties that guard it.

## 2. The modules

### Shell leases

| Module | Models |
|---|---|
| `LeaseProtocol` | the message sets and the two FIFO channels `d2c`, `c2d`; `conn`, the client id of the latest connection; `up` |
| `RelayManager` | the daemon: `pc[c]` (the await an `execute_bash` call has reached), `ops`, the two oneshots as `leaseRx` / `outcome`, `timer[c]`, `relay[c]` (whose RelayManager), `sessions`, and cancellation |
| `LeaseClient` | the client loop: `active`, `ready`, `queue`, `pending` (the command on the shell), `phase` (where the loop is in one iteration) |
| `ShellLease` | their composition with disconnect, reconnect and daemon stop; properties; fairness |
| `ShellArbiter` | the abstract specification of the client's shell: a holder, a line, a shell |
| `MCShellLease` | symmetry for TLC |
| `ShellLeaseProofs`, `ShellConservationProofs` | theorems and their proofs; the inductive invariants they prove stand in `ShellLease` |

How state and actions correspond to the code:

- One `execute_bash` call is a process with `pc` in
  `idle, acquire, lease, execute, result, cleanup, returned, aborted`, each
  value the point before the next await. The `ops` mutex makes each critical
  section one action (`Register`, `LeaseGranted`, `CleanUp`, ...).
- `leaseRx[c]` and `outcome[c]` are the oneshots: `pending`, fired, or (for the
  lease) `dropped`. `op.leaseTx` / `op.resultTx` say that the sender is still in
  the map. `cancel_all` drops the lease sender and uses the result sender.
- The main loop handles one frame per step (`DaemonHandle`). While
  `handle_cancel_request` is inside `cancel_all` and has not aborted the task
  (`cancelling`), it handles nothing else, but calls and timers go on.
- An aborted tool call may or may not notice: the agent library runs tools in
  tasks of its own and is not in this repository, so `doomed` calls may be
  dropped at any await or run to their end. No fairness on `Abort`.
- The client's loop is `select` (one of: a key, a frame, the PTY or tick),
  `drain` (further frames that are already there), `check` (did the sentinel
  appear, or five minutes pass), `start` (promote a lease, start a ready command).
- A mutant of a definition stands before it and is used by nothing; it is the
  plausible bug against which the property is tested.

Assumptions:

- a call has one lease id and one execution id, both fresh UUIDs
  (`relay_manager.rs:112-113`), so both are the call;
- a client that is connected keeps sending heartbeats (every 10 s,
  `event_loop.rs:509-518`; the limit is 120 s), so `CleanupStale` takes sessions
  whose connection is gone only;
- a frame sent to a closed socket is either lost silently or its send fails;
  what was in flight when the socket broke is lost but for a prefix that the
  daemon had read;
- commands, outputs and directories are left out: no step looks at them;
- the queues between tasks are unbounded here (256 frames in the code; a lease
  exchange has fewer than four in flight per call).

### Agent turns

| Module | Models |
|---|---|
| `Conversation` | the store as sequences of rows (`stored`), and `session_id` and `event_seq` of each client session (`sid`, `seq`); `append_event` with its unique seq (`Put`), `load_events` (`LoadEvents`, `EventCount`), `ensure_session` and `persist_event` |
| `AgentTurn` | the daemon: the agent of each session as its history (`agent`), the oneshot and task handle (`rx`), `needs_compaction` (`needs`), the tasks (`run`), those told to abort (`doomed`), the main loop inside a request or a compaction (`loop`) |
| `StreamClient` | the client: `active_request_id` (`active`), `pending_compaction_count` (`compacting`), `session.id` (`view`), and what the user does |
| `AgentSession` | their composition with lost links, restarts of either side and reconnection; properties; fairness |
| `MCAgentSession` | symmetry for TLC |
| `SessionProofs` | theorems and their proofs |

- A request is two steps: up to the await of an automatic compaction
  (`OnAgentRequest`), and the rest (`BeginRun`). A compaction is two more
  (`StartCompaction`, then `CompactDone` or `CompactFail`); in between the main
  loop does nothing else, but runs go on.
- A run ends in two steps, in the order of the code: the frame to the client
  (`Answer`, `Fail`), then the oneshot (`Return`). `Collect` is
  `collect_returned_agents` for one session; every message is handled with all
  agents collected, as is the clean-up of stale sessions, but not a reload.
- A run told to abort may still end by itself: an abort acts at an await.
- A session id is a number here, a fresh UUID in the code. An event is its kind
  and the prompt, command or session it belongs to.

Assumptions of this group:

- creating a session succeeds (an `append_event` may fail, `MaxFaults` times);
- tasks do not panic, so that `agent_task` and `agent_return_rx` are set and
  reset together and are one variable;
- a run's tool calls, reasoning, answer and token usage are one event;
- histories stay below the 100 events at which an agent forgets the oldest;
- names of sessions and their generation, replays and all drawing are left out:
  no property looks at them;
- a connected client does not become stale, as for the leases.

Three constants say what is assumed of the world in a run. `UserWaits`: the
user acts only when the client shows nothing going on and all messages are handled.
`SwiftReturn`: no message is handled between a run's last frame and the return of
its agent, a few instructions against a round trip through the user's hands.
`AutoCompact`: answers may exceed the compaction threshold. Section 3
says what happens without each restriction.

### Runs with tools

| Module | Models |
|---|---|
| `CommandRisk` | the classification of a bash command by its syntax tree (`ClassifyCommand`) and whether it only reads (`IsReadonly`); each table by a few names that tell its rules apart, a word by what the code asks of it |
| `PermissionGate` | the decision (`CheckPermission`: rules, then mode and risk) and the wrapper around one tool call, `gate[c]` being the await it has reached; `pending`, `pending_meta`, the oneshot `reply[c]`, the 60 s limit, saved rules, and the reload of rules and mode at any change of `config.toml` (`ReloadRules`, `ResetMode`), of which the client is not told (`reset`) |
| `RunStream` | a run on the daemon: chunks, calls in batches, results, `collected_events`, retry with back-off, failure, cancellation, and the bounded channel to the client, on which senders wait but `PermissionOutcome` is dropped when it is full; what is stored |
| `ToolView` | the client: the prompt with its keys, `pending_tool_calls`, the open text and thinking blocks, `BlockRegistry::blocks`; composed with the daemon's side as `ToolSpec`; what answers decide, which mode is shown, which results meet which calls |
| `ToolRun` | `ToolSpec` with fairness and the classification; the other properties |
| `MCToolRun` | the calls, commands, names and words for TLC |
| `ApprovalProofs`, `RunHistoryProofs` | theorems and proofs |

- The streaming library is external, as used by `streaming.rs`: it starts an
  announced call at any time and several side by side, reports results in the order
  of the calls, and streams on or ends when all are reported. The calls of a dropped
  stream go on, or are dropped at an await.
- The model that judges a call (`llm_evaluator.rs`) is a choice between its answers,
  failure and its 10 s limit included. The tool itself is one step.
- The user answers a prompt in each way the keys allow, or lets it stand; a second
  `ConfirmationRequest` replaces the first on the screen.
- A send that fails because the client has gone is left out, as is the connection.
- `CommandRisk` works on trees; the parser of bash is a library. A tree also holds the
  lists that the classifier does not visit, and `ToolRun` names them (`PassedOver`):
  bodies of functions and of the arithmetic `for`, substitutions in words, targets of
  redirections.

### Configuration and credentials

`ConfigStore` models `config.toml` as a document with the sections that more than
one party writes, whole, absent, empty or garbled, and four writers: the main loop
(a permission made permanent), the token refresh, the watcher's `load()` and the
command line (login). A write is three steps: read, empty the file, fill it
(`fs::write` truncates). `event` is what the file watcher has to handle, `notice`
what its channel to the main loop holds. The daemon loads the file first
(`StartDaemon`, `daemon.rs:184`) and registers the watcher afterwards (`Watch`,
`models.rs:210`): a write of another process in between raises no event, which `missed`
remembers until the next one. The daemon may be killed anywhere.
`raced` records that two accesses have overlapped, `want` what the file would hold
if each edit applied to the one before. `ConfigStoreProofs` holds the proofs.

### The client's bash

| Module | Models |
|---|---|
| `BashPty` | bash behind the terminal (external): lines of input, the one it runs, what it prints (a user's command any number of times), background jobs, an interrupt, its death |
| `Coprocess` | the client: the pending command that the event loop follows, with the cut of output that is too long and the replies about the cursor (`process_pty_bytes`), the steps that block it (`plan`: `pwd`, `git`, `env`, initialisation, a completion), the completion engine, Ctrl+C, keys typed ahead, the limits of 300 s, 10 s and of each question |
| `CoprocessProofs` | theorems, their proofs and the inductive invariant |

A reader takes from the channel whatever is there until its own sentinel. `loose`
are the lines whose output may turn up in the reading for another one: those
nobody waits for any more. `upset` records that an interrupt, typed-ahead keys, a
background job, a limit, the death of bash or a reply about the cursor that a program
did not read has occurred. `quiet` says that nothing was read and no key typed for five
minutes: any chunk and any key ends it, so that a command that prints on is never given
up.

### The input line

`LineEditor` models `InputLine`, the completion popup and the keys that work on
them. A large paste is one marker in the line and a block in a list beside it. The
code cannot tell markers apart; the model lets each carry its paste (one of
`Markers`, standing for its `Texts`), so that what is sent can be compared with what
was pasted. `mishaps` are the ways in which the code loses step (section 5, divergence 12): a paste that is
`OutOfStep`, before another marker, into an entry of the history or where an open
popup will put its choice, and a Ctrl+C that clears the blocks under a saved line.
Characters are one byte wide. `LineEditorProofs` holds the proofs.

## 3. The runs

Ten runs pass, two are violations.

### Shell leases

| Run | Instance | Shows |
|---|---|---|
| `lease_cancel` | 2 calls, 1 connection, 1 Esc | `TypeOK`; `WaiterServed`: a waiting call has its answer or a live sender; `ReportReachesItsCall`: a report under another lease is awaited by nobody; `RequestConserved`, `CommandConserved`: no request or command is lost while the link lives; `ArbiterSpec`: the client implements `ShellArbiter` |
| `lease_reconnect` | 2 calls, 2 connections, no Esc | `HolderIsActive`: one holder, across a reconnect with stale leases and a daemon restart |
| `lease_returns` | 2 calls, no Esc, fair | `EveryCallReturns`: a call whose command runs ends, also when the command never does, or when Ctrl+C or the inactivity limit drops it silently: the daemon's timer ends it; and a call that waits for the shell ends if the shell is free again and again |
| `lease_wait` | as `lease_cancel`, fair | *violated*: `LeaseWaitEnds`, the promise that waiting for a lease is bounded |

`lease_wait`: `cancel_all` (`relay_manager.rs:431`) tells the client nothing. A call
that held the shell when it was cancelled leaves its lease active on the client,
and the next call queues behind it with no timeout, where
`src/website/src/content/docs/architecture/client-daemon.md:22` says leases have
timeouts. Without any Esc the same happens when a command that has timed out keeps the
shell: it is not interrupted (`lease.rs:64-76`), and as long as it prints it is not given
up either. `EveryCallReturns` claims nothing there.

Bounds. `Calls` 2: every property relates one call to itself or to the one that
holds or waits before it; the queue then holds up to two stale entries and one
live one. `MaxConns` 2 is one reconnect: each further one adds a session that,
like the first, nobody serves. `MaxCancels` 1 is one Esc; a second one finds a
map that the first has emptied, and new calls start after the first as well.
`CHECK_DEADLOCK` is on in all of these: the user can always type, so the system
never stops by itself. The safety theorems of section 4 remove the bounds.

Fairness, and why the code justifies it:

- weak fairness on each call's steps, each timer, the daemon loop, the turn of
  the client's loop: tokio runs a ready task eventually, `sleep` ends, and every
  iteration of the client's loop ends;
- strong fairness on message handling in the client: `select!` picks at random among
  the ready branches, so a branch that is ready again and again is taken;
- none on commands, which need neither end nor fall quiet, and none on the user, the
  link, new calls, stale-session cleanup or the abort of a doomed call.

### Agent turns

| Run | Instance | Shows |
|---|---|---|
| `turn_free` | a user who waits for nothing, all inputs, automatic compactions, fair | `StreamEnds`: the client stops waiting, also when prompts, Esc and compactions cross, unless a run goes on for ever |
| `turn_waits` | a user who waits; no Esc, reloads or automatic compaction; fair | `AnswersStayHome`: an answer is in the session of its prompt; `PromptedWithTimeline`: a run starts with all its session holds; `HonestStream`: the client streams exactly while the daemon works; `AnswerStored`: a finished answer reaches the store |
| `turn_reconnect` | 2 connections; link, client and daemon stop, stale sessions go, an append fails, reloads, Esc | `NoDuplicates`: nothing is stored twice; `ViewMatches`: the client shows the session that is written to; `DropsExplained`: `append_event` finds the seq of the client's session taken only after a failed append, or where a run that an earlier connection left behind has stored its outcome since the session was loaded |

Two ways to lose an event are in `turn_reconnect`, and `DropsExplained` says that there
are no others: a restarted client opens the session its former self's run still writes
to, and one of two events with the same seq is dropped; and after a failed append, loading
the session continues at a seq that is taken (`daemon.rs:119`, `handlers/session.rs:82`).

`turn_waits` is about a user who waits and a run that is back in time, so it shows what
the protocol gives when nothing overlaps; what overlaps is the matter of the other two.
What is known to break its properties is left out. Put back into the `.cfg`, each
shows a divergence:

- `turn_waits` with `Reloads = TRUE`: a reload drops idle agents and the next
  request starts from an empty history (`daemon.rs:274`);
- `turn_waits` with `UserWaits = FALSE` and `Repertoire = {"clear"}`: `/clear`
  during a run, and old history and answer arrive in the fresh session
  (`handlers/session.rs:24`), against `PromptedWithTimeline` and `AnswersStayHome`;
  with `{"command"}`, a command that completes during a run goes to a stand-in
  agent that the returning one replaces (`daemon.rs:453`);
- `turn_waits` with `AutoCompact = TRUE`: the `CompactionComplete` of an automatic
  compaction ends the client's stream of the run it precedes, and Esc no longer
  cancels that run (`daemon/session.rs:346`), against `HonestStream`;
- `turn_waits` with `SwiftReturn = FALSE`: a message overtakes the agent's return;
- `turn_free` with `CompactionMayFail = TRUE`: after a compaction that fails the
  client ignores `AgentComplete` until it is restarted (`handlers/compaction.rs:147`,
  `daemon/streaming.rs:206`); `StreamEnds` excepts that (`Abandoned`).

Bounds. `Requests` 2: one run and one that crosses or follows it; with two
sessions reachable this is where answers and prompts part. `MaxInputs` 2 or 3: a
command to have something stored, `/clear` and `/sessions` to go away and come
back. `MaxConns` 2: one reconnection, whose former session lives on.
`MaxFaults` 1: one failed append makes one gap, behind which a load miscounts. `CHECK_DEADLOCK` is off: when
the user's prompts and inputs are used up and everything is answered, this
system rests.

Fairness: weak, on the return of a run that has ended or was told to abort, on the main
loop's own steps (a compaction ends within 60 s) and on the client's handling of messages.
None on a run's end: the loop over the stream (`streaming.rs:429`) has no timeout, and a
bash call of the run can wait for the shell for ever (`lease_wait`); `StreamEnds` says so
as its premise. None on the user, the link, reloads and clean-up.

### Runs with tools

`tool_run`: one prompt, two calls in one run. The first is `git push`, which in the
configured mode `auto` is judged; the second removes a tree, which is always asked,
or reads a file. One failure of the provider, cancellation or mode change.

| Property | Says |
|---|---|
| `RunsOnlyIfApproved`, `RefusedStaysOut` | what is asked about runs only with a yes for that very call; what was refused does not run, whichever prompt replaced another and whenever the answer arrives |
| `SavedAsAnswered` | each rule the gate saved is the entry of a call to which the user gave a permanent answer; an "always" to a call that is itself critical saves none |
| `PendingServed` | a waiting call can be reached by an answer until it is answered; `pending` and `pending_meta` agree |
| `ModeShownOrConfigured` | at rest, the daemon's mode is the one the client shows, or the configured one if the user has not set it since the session began or `config.toml` was last read |
| `EveryQuestionEnds` | every question is decided, whatever the user does |
| `ResultsPairUp` | unless a stream was dropped with a call in it, results are shown with their own calls |
| `StoredCallsHaveResults` | what is stored can be sent to a provider again: each call with its one result |
| `RiskCoversParts` | a command gets at least the care (none, the judge, the user) of each command in the parts of it that the classifier visits |
| `MoreWordsNeverSafer` | once the subcommand is there, a further word never lowers the care; the name `env` is left out, which is classified by what follows it |

An entry goes by the tool and the first two words of the command
(`extract_args_pattern`, `permission_evaluator.rs:59-73`): "always" for `git push`
also lets `git push --force` through. `SavedAsAnswered` is about where entries come from,
not about what else they match.

`RiskCoversParts` does not hold of what the classifier passes over (`PassedOver`; section
5, divergence 14). The samples have commands in these places too, so what the claim leaves
out is there.

The last two are statements about all commands of the samples in `MCToolRun`; they
are evaluated in each mode before the first run, since the decision depends on
rules, mode and command alone. The samples have two leaves in each kind of
compound, so that a property of the whole that looked at one of them only fails.

Bounds. `MaxCalls` 2: two prompts at once, two results that may swap. `Capacity` 2:
the channel (256 frames in the code) is full often, so senders wait and outcomes
are dropped. `MaxRetries` 1 of 3: what a second retry does, the first does.
`CHECK_DEADLOCK` is off: at the end of the run everything rests. Fairness: weak, on
the client's handling of frames and on calls that are to be decided, which the
runtime polls and timers wake. None on the user, the provider, or the tools. `config.toml`
may change at any time, as the daemon's own refresh task, a login and an editor write it.

### Configuration

`config`: three operations (saves, refreshes, logins, kills of the daemon) of one
provider that overlap in any way, from a file that is there or not.

| Property | Says |
|---|---|
| `NothingLost` | up to the first overlap, and while the template has replaced nothing, the file holds every edit |
| `StoredTokenHonoured` | up to the first overlap, the refresh token in the file is one the server honours, unless a refresh is under way |
| `KeyOfToken` | always: the key in use is the stored access token |
| `MemoryIsFile` | with no event or write open, the running daemon works with what the file says, unless somebody wrote between its load and the registration of its watcher |
| `SettlesAgain` | the watcher is not kept busy by the writes of its own `load()` |

`config_login` (*violated*, `LoginReachesDaemon`): a login before the daemon has ever
run creates a file without `default_provider` and `default_model`. The daemon finds
that it does not parse and writes the template over it (`models.rs:153`), where
`codiv-common/src/auth/storage.rs:57` says that the daemon reads the key.

Bounds. `MaxOps` 3: a write, one that overlaps it and a kill. The passing run has one
provider; codex, whose exchanged key is a second edit, takes part in `config_login`
only, as `KeyOfToken` is not claimed for it. Fairness: weak, on the watcher, the main
loop, the refresh and each write that has begun. Nobody has to begin one, nor
restart the daemon (`MemoryIsFile` is about a running one).

### The client's bash

`shell`: two commands, completions or resets and one event (Ctrl+C, typed-ahead key,
background job, reply about the cursor, death of bash).

| Property | Says |
|---|---|
| `ForeignOutputIsLoose` | foreign output in a report comes only from lines nobody waits for |
| `ReportIsComplete` | a report holds all that its command printed or, where that was too long, the last part of it without a gap: no other reader takes any |
| `CwdIsBashs` | with no upset, the directory shown and reported is bash's |
| `HelperIsThere`, `CandidatesAreOwn` | with no upset, a completion finds its helper and offers its own candidates, though commands may overrun the initialisation |
| `FreeAgain` | the user can go on again and again, unless a command prints or is typed to without end |

Bounds: a command and what follows it are enough for one reading to reach into the
other; `MaxEvents` 1 sets `upset`, after which the claims of the others end but the
first two and the last go on. `MaxPrints` 2: the first text of a command and those that
follow, of which there may be any number while somebody follows the command; one that was
given up does not repeat itself. `MaxKept` 3 texts stand for the 1 MB of `io.rs:138`: two
texts, a repeated one and the sentinel already need a cut. Fairness: weak, on the client's
own steps, the clock and its timers. None on bash or on the program it runs, which need
not end, read or fall quiet; the five minutes are over only if nothing was read or typed
in them.

### The input line

`editor`: lines of up to 4 characters with up to 2 large pastes at a time, with text
around them, submitted as they are; a history of one entry.

| Property | Says |
|---|---|
| `SubmitsAsMeant` | each paste is sent where its marker stands, unless a mishap has occurred in the line |
| `MarkersHaveBlocks` | each marker has its block, so that Backspace and Delete never index out of the list |
| `PopupCompletesWord` | a choice replaces the word it was offered for |

Bounds: two markers can be swapped, the other characters leave room for text between
and before them; a history of one has an entry and the line kept aside. Every line can
be submitted; what comes after is followed (`Followed`) up to a history of `MaxHistory`
entries, none longer than `MaxKept`, and up to a Ctrl+C that clears the blocks under a
saved line. So lines of two pastes with text are sent, and entries of one character are
browsed. Longer lines, entries and histories are covered by the proofs (section 4).

## 4. The proofs

All by TLAPS, for every value of the constants that satisfies the modules'
`ASSUME`s, which every run evaluates.

*Leases* (any set `Calls`, any `MaxConns`, any `MaxCancels`):

- `Inductive` (`Spec => []IInv`), and from it `TypeCorrect`, `WaiterAlwaysServed`,
  `StartedAlwaysTimed`. `WaiterServed` is not inductive: that a call waiting for
  its *result* has a sender needs that it had one while it waited for its lease,
  and a report may resolve a call only under its own execution id, which
  `Attributed` supplies: a frame travels under its own lease or under none. That
  in turn needs `ClientInv`, that the client's ready command is the active
  lease's.
- `Ownership` (`Spec => []OwnershipInv`), and from it `OneHolder`
  (`[]HolderIsActive`) and `ClientArbitrates` (`Spec => ArbiterSpec`).
  `HolderIsActive` is not inductive: the active lease changes when a
  `ReleaseShellLease` frame is handled, so the invariant says that such a frame
  is sent only past the last use of the lease; and a grant is announced only by
  a client that has made the call active, which needs that a call that has not
  asked yet is nowhere in the queue, on the wire or active. `LineInv` says that
  the line is empty wherever the next request could be granted at once: it is
  what keeps a request from overtaking the line.
- `Conservation` (`Spec => []ConservationInv`), and from it `NoRequestLost`
  (`[]RequestConserved`), `NoResultLost` (`[]CommandConserved`) and
  `StrayReportsUnawaited` (`[]ReportReachesItsCall`). A request is handed from the
  call to a frame, the client's line, its hand and back, a command from the call to
  a frame, the shell, a report and the oneshot, with the timer beside it; each
  action must put into the next place what it takes from one, so the properties'
  own clauses (`RequestHeld`, `CommandHeld`) are part of the invariant. They are
  preserved only because a report under no lease, which the daemon cannot match, and
  a lease that is given back come from calls past waiting; `CourseInv` says so, and
  that nothing of a command exists before it was sent. `WaitInv` says what the two
  oneshots tell of the op, `SessionInv` that an open connection has its session. The
  invariant is inductive relative to `IInv` and `OwnershipInv`.

*Agent turns* (any set of prompts, any number of connections, restarts, failing appends
and other inputs, with and without reloads, breaks and the restrictions of section 2):

- `StoredOnce` (`Spec => []NoDuplicates`), without a hypothesis. `SessionTypes` says that
  messages and frames name prompts, sessions and commands that are there (sessions are
  never removed, so what named one goes on doing so). `OnceInv` follows a prompt: it is
  not yet sent, on its way, in the hands of the main loop or with its task, one of
  them at a time, and at most one session awaits the task. `RowInv` says what a row
  rules out: a stored prompt has begun, a stored answer is of a task that is back and
  that nobody awaits, a stored command is not on its way any more. So what a step
  adds was not there, and `UniqueInv`, two rows with one event are one row, is
  preserved; `NoDuplicates` counts with `Cardinality` what `UniqueInv` says.
- `ViewIsWritten` (`Spec => []ViewMatches`), without a hypothesis. The property speaks
  of empty channels; `ViewInv` of any: the client shows its session, or the last
  `SessionCreated` under way names it, or the client's own `LoadSession` is under
  way. A message of an earlier connection that the daemon reads late changes the
  session of that connection, not of this one.
- `LossExplained` (`Spec => DropsExplained`), without a hypothesis: for any number of
  connections and failing appends. `CountInv`: until an append fails no seq is
  skipped, no session counts more rows than there are (a load counts them all,
  `AllCounted`), and the rows that the latest session has not counted are outcomes of
  runs that other connections began. For that nothing else may be written by an earlier
  connection once the latest has loaded a session, which `OrderInv` says: messages arrive
  in the order of the connections, and a stale session's runs are all that is left of it.
- `StoredForGood` (`Spec => [][Kept]_vars`), without a hypothesis: no step removes or
  overwrites a row, in whatever session and whoever writes beside it; only a seq that
  was skipped may be filled later. `LogKept` proves it of `Put`, the other lemmas of the
  steps that call it.
- `StreamIsHonest` (`Spec => []HonestStream`) for a user who waits and does not press
  Esc, without automatic compaction and breaks (`Patient`). Section 3 shows a divergence
  for automatic compaction; Esc lets a cancelled run go on while the client shows none.
  When runs may fail, agents come back late and the configuration be reloaded, it still
  holds. `HonestStream` looks at the moments when both channels are empty; the
  invariant `WaitInv` says of every moment at which of five stages the session is: the
  message is on its way, the main loop has a request or a compaction, a task runs, or
  what is left is frames. At each it names the frames that are under way, in their
  order, and what the client streams: `Rest` lists the endings, and reading any frame of
  one leaves another of the list.

*Configuration* (any number of operations, any entries):

- `KeysPaired` (`Spec => []KeyOfToken`). The property looks at the file only, but a
  writer puts back what it read long ago: the invariant `DocInv` says of *every*
  document, in the file or in the hands of a writer, that key and token are paired,
  and that only codex ever has an edit of the key alone. Each edit preserves
  this (`ApplyPairs`), so it does not matter who overtakes whom.
- `DaemonFollowsFile` (`Spec => []MemoryIsFile`). `WatchInv` drops the part about
  other writers: unless an event is open, one was missed or the watcher is replacing
  the file, the daemon has read the file as it is. Emptying and filling the file raise an
  event in the same step, or are remembered as missed before the watcher is registered,
  which is what makes it inductive. The load and the registration are two steps.
- `EditsKept` (`Spec => []NothingLost`). Unless two accesses have overlapped, at most
  one writer is between reading and writing, the copy it holds is what the file was
  when it read, and the file is what the edits so far make of it (`WriteInv`).
- `LoginsLast` (`Spec => []StoredTokenHonoured`). A refresh invalidates the token in the
  file before it writes the new one. `OwnInv`: a token has one owner, so that one
  provider's refresh does not touch the other's; `LiveInv`: what the server honours is
  in the file, or the refresh that will write it began from the file as it is and
  nobody has written since. Relative to `WriteInv` and the documents' types.

*Gate* (any set of calls, any requests, any client):

- `QuestionsServed` (`RunSpec => []PendingServed`). `RunSpec` is the daemon's part of a
  run with *any* steps of the client in between, which leave the gate alone; its one
  assumption, `ModesArrive`, is that a `SetPermissionMode` message carries a mode,
  which its type in `messages.rs` says. The strengthening is that a call has no
  answer before it is asked.

*Approval* (any number of calls, prompts, chunks, failures and retries, any capacity of
the channel), of `ToolSpec`, the runs with tools without their fairness:

- `OnlyApprovedCallsRun` (`ToolSpec => RunsOnlyIfApproved`), `NoRefusedCallRuns`
  (`[]RefusedStaysOut`) and `RulesAreTheUsers` (`[]SavedAsAnswered`). None is inductive:
  that a refused call never runs needs that it was asked about once. `ApprovalInv`
  follows the one question of a call: it is on the wire, on the screen or answered,
  never two of them (`OnceInv`); a call that has a question is past asking and runs by
  a yes only, which is the user's (`YesInv`); what travels to the daemon is what the
  user chose (`AnswerInv`); "always" is offered for calls that are not critical only,
  and its rule is there when the answer is (`RuleInv`). `RulesAreTheUsers` says of which
  calls the saved entries are, not what they match. A question that is
  overwritten on the screen leaves all three places, which breaks nothing: its call
  can only time out. The channels are typed (`TypeInv`), which also discharges
  `ModesArrive` (`QuestionsServedInRuns`).

*Histories, modes and blocks* (as general as *Approval*, and relative to `ApprovalInv`):

- `StoredHistoryComplete` (`ToolSpec => []StoredCallsHaveResults`). While a run streams,
  the list of events and the batch complement each other: a call in the list has
  its result behind it or is in the batch (`EventsInv`), and no event is there twice.
  A list is stored when the batch is empty, and thrown away otherwise; runs are
  numbered, so a stored list shares no event with the next one (`RequestInv`,
  `StoredInv`).
- `OneMode` (`ToolSpec => []ModeShownOrConfigured`), without a hypothesis. The last
  `PermissionModeChanged` under way names the daemon's mode, or there is none and the
  client shows it (`Agreed`), unless a change is on its way to the daemon or a change
  of `config.toml`, at any time, has brought the configured mode back.
- `ResultsKeepTheirArguments` (`ToolSpec => []ResultsPairUp`). The client pairs by
  position. `Pairing`: as long as no call is lost, there are four numbers, results
  seen, calls seen, results sent, calls sent, such that queue, wire and batch hold
  the numbers between them in order (`Seen`, `Wired`, `Counts`) and no result
  overtakes its call (`InTurn`).

*Input line* (any markers, texts, length of lines and number of history entries):

- `LineInvariant` (`Spec => []IInv`), and from it `PastesAreSentAsMeant`
  (`[]SubmitsAsMeant`), `EveryMarkerHasBlock` (`[]MarkersHaveBlocks`) and
  `ChoicesCompleteWord` (`[]PopupCompletesWord`). A line is sent as meant because,
  while nothing has gone wrong, the markers of the line being written, in their order,
  are the blocks of the list; this line is the one on the screen or, while an
  entry of the history is shown, the one kept aside, and the entry has no markers
  of its own. The first attempt failed at a choice from an open popup: the range it
  replaces may hold a marker pasted since, which vanishes while its block stays. The
  property was false there; the paste is the third disjunct of `OutOfStep`.

*The client's bash* (any number of operations, events and texts, any limit of what is kept):

- `CoprocessInvariant` (`Spec => []IInv`), and from it `ForeignIsLoose`
  (`[]ForeignOutputIsLoose`), `ReportsComplete` (`[]ReportIsComplete`), `PromptShowsCwd`
  (`[]CwdIsBashs`), `HelperDefined` (`[]HelperIsThere`) and `CandidatesOwn`
  (`[]CandidatesAreOwn`). None is inductive: a report is made of what was read long
  after it was written, and whose reading it falls into depends on every line before it.
- `LineInv`: the lines bash has yet to read and the one it runs are apart, so that each
  prints once. `StreamInv`: what is on its way or read
  belongs to a line that is waited for or is `loose`, and nothing of a line comes after
  its sentinel. `ReportInv`: the pending command's output is all there, read or to come,
  up to what the cut has dropped from its front.
- `PipeInv` and `CalmInv` speak of a shell that has not been upset. Then the last
  line written is the one that is waited for, so that once its sentinel is read bash is
  quiet: what the next step writes finds nothing in its way. On this rest the
  directory (the answer to `pwd` is bash's at each stage of its way to the prompt), the
  helper (the lines that define it go before any line that calls it) and the candidates
  of a completion.

Model-checked only: what `CommandRisk` computes (a recursive definition), and with it
`RiskCoversParts` and `MoreWordsNeverSafer`; `AnswersStayHome` and `PromptedWithTimeline`,
for a user who waits (the latter compares histories through `SelectSeq`, itself
recursive); and all liveness (fairness and ENABLED
are beyond the prover).

## 5. Where code and documentation, or code and intent, part

Beside the two violation runs, met while modelling; the models do what the code does,
and the properties above say where their claims end.

1. After a retry or a cancellation with calls under way the client's queue keeps
   their arguments, and later results are shown with those of earlier calls
   (`codiv/src/ui/blocks.rs:213-231`).
2. Two writers of `config.toml` that overlap lose one edit; a reader that comes between
   emptying and filling finds no configuration and writes the template.
3. Any change of `config.toml`, a refreshed token or a saved rule of the daemon itself
   included, sets the mode of every session to the configured one without telling the
   client (`codivd/src/daemon.rs:257-278`). For the same reason a configured mode other
   than `auto` is in force while a new client shows `auto`.
4. `src/website/src/content/docs/usage/ai-mode.md:61` keeps "the most recent turns in
   full detail"; a compaction keeps the summary only.
5. `enforce_limit` (`codivd/src/agent/agent.rs`) may cut between a call and its result.
6. An `Error` frame leaves the client's text block open; a `Text` frame that arrives
   after Esc opens one that belongs to no run.
7. `last_permission_outcome` goes to the next result of the same tool, whichever call
   it was about.
8. A retry drops the events of tools that have run and were shown; the prompt of a
   question that has timed out stays on the screen. `curl -d` is looked at for the
   first `-d` only.
9. A login without account or refresh token leaves the former ones
   (`write_oauth_tokens_to_config`); the exchange for a codex key may be overtaken.
10. Comments that give other limits than the code: "every 4 minutes" for 30 s
    (`streaming.rs:137`), "within 5 minutes" for one (`auth/flows.rs:373`).
11. A command typed while the completion engine initialises takes the sentinel it
    waits for: it stays in initialisation until Tab blocks the client for up to 10 s.
    An `execute` that reaches its limit yields a wrong or empty directory. When bash
    dies the client notices after 300 s.
12. Pasting before an earlier marker swaps the two texts; pasting or deleting a
    marker in an entry of the history acts on the blocks of the line kept aside;
    Ctrl+C while browsing clears the blocks under that line, and Backspace on its
    marker then panics. When Tab extends a word to the common prefix the popup keeps
    the old end, and a choice leaves the rest of the word behind. A paste does not
    dismiss the popup (`event_loop.rs:157`): a large one left of the popup's end lands
    in the range the choice replaces (`replace_range`, `input.rs:237`), its marker
    vanishes and its block stays, or the range ends inside the marker's three bytes.
13. A leased command that is cancelled or has timed out is not interrupted
    (`lease.rs:64`), where `codiv-common/src/messages.rs:105` says it was. As long as it
    prints or is typed to, it keeps the shell.
14. The classifier takes a function and an arithmetic `for` to be harmless without a look
    at their bodies (`classify.rs:158`, `195`), and looks neither into the substitutions of
    a word nor into those a redirection goes to. The test `command_substitution_analyzed`
    (`classify.rs:904`) looks at a command whose own name decides.
15. Output beyond 1 MB loses its front, in the report to the agent as well
    (`io.rs:138-149`).
16. The client answers a program that asks where the cursor is by typing into bash's
    terminal (`io.rs:153-171`). If the program does not read the answer, it becomes the
    front of the next line, which is `pwd`: the directory on the prompt is then wrong.
17. The daemon hears nothing of a change of `config.toml` between its load
    (`daemon.rs:184`) and the registration of its watcher (`models.rs:210`), and works
    with the old configuration until the next change.
18. Two client sessions that write one conversation count `event_seq` each for itself:
    the later of two events with one seq is dropped (`store.rs:115`), as is one after a
    failed append and a load.

## 6. What is not modelled, and why

- *Heartbeats* and the staleness of a connected client while the main loop sits in a
  compaction: the models have no clocks.
- *Providers*, *file and search tools*, *truncation*, *rendering*, *markdown*,
  *themes*: no state, or none that another step depends on; their results are what
  their unit tests look at.
- *Command line and daemon control*: PID file, launchd and systemd are calls to the
  operating system in sequence.
- *PKCE, the callback server, the forms of requests* in a login: one party and one
  answer.
- *The backend on plain pipes* (`shell/pipe_io.rs`): nothing uses it.
- *Whole tables* of the classification: the model has a few names of each. Whether
  `readonly.rs` and `risk_tables.rs` agree name by name is a question for a test.

## 7. Plan

1. `ConversationLog`, a set of conversations to each of which one writer appends, as
   the abstract specification of `AgentSession` where one session writes a conversation.
2. `Connection`: heartbeats with a clock, the writer's bounded queue, stale clients.
3. `DaemonControl`: PID file and socket, two daemons started at once.
