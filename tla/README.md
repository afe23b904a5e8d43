# A TLA+ model of smidja

smidja is a coding agent: it keeps a conversation in a session file, sends it to
a language model, runs the tools the model asks for, and lets extensions observe
and steer all of that. It runs in a terminal UI, as a line-mode prompt, for one
prompt, or behind a chat gateway. This directory holds specifications of the
parts where order, concurrency and crashes decide whether a conversation stays
correct, with the runs that check them and the proofs about them.

Line numbers are those of `src/`; paths without a directory are in
`src/internal/cli`.

| module | what it is |
| --- | --- |
| `HostMailbox` | deliveries of extensions, the turns that drain them, rebind and shutdown |
| `SessionHistory` | session file, host copy and turn history: three copies of one conversation |
| `HostCompaction` | compactions an extension asks for: slots, jobs and who settles them |
| `ContextCompaction` | what a compaction does to the conversation, now and after a reload |
| `SessionController` | the current session and its replacement by /new, /resume, /fork |
| `TuiLifecycle` | the worker of the TUI, its queue and gates, and how it is left |
| `CommandInvocation` | the session changes of one extension command |
| `SessionLog`, `SessionTree` | the session file with its lock and recovery, and what it promises |
| `WorkspaceScheduler` | the gate of each workspace and the semaphore of all, with waiters that give up |
| `Gateway` | `EXTENDS WorkspaceScheduler`; submissions, journal, actors, replay, shutdown, crash |
| `DeliveryDispatcher` | the bounded queue of replies |
| `TelegramTransport` | polling, offsets and answers of Telegram around the gateway's life |
| `WebEvents` | the event stream of the web page: ring, subscription, reconnects, restarts |
| `McpClient` | calls to an MCP server over the generations of its connection |
| `PackageStore`, `CredentialStore` | files that several processes share |
| `DelegatedRuns` | agents that run agents: lineage, tools, session files |
| `EventBus` | custom events between extensions |
| `MainScreen`, `RenderScheduler` | the differential renderer, and when it draws |
| `ModalDialogs` | who shows a dialog, where the keys go, who gets the focus back |
| `HostJobs` | six components that share no state, one at a time |
| `HostData` | twelve more; `StoredData`, `TurnData`, `TransportData` and `ShownData` hold their instances |
| `MCHostMailbox`, `MCHostDrivers`, `MCGateway`, `MCHostJobs`, `MCHostData` | instances and symmetry for TLC |
| `HostMailboxProofs`, `SessionHistoryProofs`, `GatewayProofs`, `HostJobsProofs`, `HostDataProofs` | theorems of those specifications and their proofs (section 8) |
| `StoredDataProofs`, `TurnDataProofs`, `TransportDataProofs` | the invariants `HostDataProofs` rests on |

## 1. Inventory

Every component with its state, its operations, what makes it hard and what
would make it correct.

**Host mailbox** (`host_mailbox.go`, `host_scheduled.go`). State: four queues
(`steer`, `followUp`, `deferred`, `nextTurn`), scheduled turns, flags
`continuationQueued`, `skipSteerOnce`, `jobQueued`, a continuation token.
Operations: sends from any goroutine, boundaries called by the loop, the
dispatcher of scheduled turns. Hard: a send decides by `turnActive` under
`turnMu` while the turn ends; scheduled turns wait for `loopMu` and may be stale
by then; messages are popped before they are persisted. Correct: no accepted
message is doubled, silently lost, stranded or put into the wrong session; the
model is never asked again for nothing. *`HostMailbox`.*

**Host runtime** (`host_runtime.go`, `host_session_actions.go`,
`host_context.go`, `host_compaction.go`). State: the bound session and its
generation, the messages and entry ids handlers see, `turnActive`, `closed`, the
pending model, compaction jobs. Hard: four mutexes and callbacks of extensions; a
handle captured before a rebind and used after it; commit, rebind, shutdown and
failure race to settle a job. Correct: stale handles are refused, shutdown leaves
nothing behind, copies follow the session, a request is reported at most once.
*`HostMailbox`, `HostCompaction`, `CommandInvocation`.*

**Agent loop** (`../agent/loop.go`). State: the history of one turn. Poll the
mailbox, refresh entry ids, request, record, run a batch of tools, poll again.
Hard: every step can fail, and what was recorded by then stays. Correct: calls
and results pair up, deliveries come only between batches, a request matches the
session. *`SessionHistory`.*

**Chat drivers** (`chat.go`, `session_projection.go`) and **TUI bridge**
(`tui_bridge.go`). They move histories between session, host and loop; the TUI
has one worker that reloads the session around every turn. Hard: admission, a
pending session change, shutdown with jobs waiting. Correct: each job runs once
or is dropped at shutdown, in order; an interrupt reaches the turn that runs; the
program can always be left. *`SessionHistory`, `TuiLifecycle`.*

**Session controller** (`session_controller.go`, `session_commands.go`). A
change is prepared, then committed or disposed of; `Close` waits for what is in
flight. Correct: every open handle belongs to somebody who will close it, no file
of a committed session is removed, screen and host show the current session.
*`SessionController`.*

**Session file** (`../session`, `../sessionimport`). Appends under a lock file,
partial lines, failed syncs, strict and lenient loads. Correct: an acknowledged
entry, with all it hangs from, is never lost again. *`SessionLog` implements
`SessionTree`.*

**Context manager and summaries** (`../contextmanager`, `../summary`). Chooses
what a compaction replaces and names the rest by an anchor entry. Hard: memory
keeps a selection, a reload rebuilds from the anchor. Correct: no call is parted
from its result, nothing that was kept is lost at a reload, ids stay aligned.
*`ContextCompaction`.*

**Gateway** (`../gateway`). State: a journal of inbound messages, an actor with a
mailbox per chat, a gate per workspace and a global semaphore, a counter of
admitted messages, a queue of replies. Hard: waiters that are cancelled while
they are handed the gate, a crash or a failed write between two journal records,
replay and shutdown against `Submit`. Correct: one turn per workspace, the cap is
kept, a message runs at most once over all lives of the process, an acknowledged
one is settled or replayed. *`WorkspaceScheduler`, `Gateway`,
`DeliveryDispatcher`.*

**Gateway transports** (`../gateway/telegram`, `../gateway/web`). Hard: an update
is confirmed by the next poll, across crashes; a stream subscribes, replays and
reconnects while events arrive. Correct: no update is forgotten before it is
handled, none is run or answered twice; a page misses nothing behind its back.
*`TelegramTransport`, `WebEvents`.*

**MCP client** (`../mcp`). Calls wait on a condition variable for a connection
generation; a supervisor restarts the server. Correct: every call ends with its
answer, its deadline or the loss of its connection, and is written to one
generation only. *`McpClient`.*

**Packages and content** (`../packages`, `../content`), **auth store**
(`../authstore`). Files shared by processes under a lock. Correct: index and
directories tell the same story; no change is lost to another process.
*`PackageStore`, `CredentialStore`.*

**Extension runtime** (`../extensions`, `../extensionui`, `sdk`): an event bus
with a nesting limit (*`EventBus`*); hook chains are calls. **Agents and
subagents** (`../agents`, `../subagent`): delegated runs, their depth, cycle
check, tools and session files (*`DelegatedRuns`*). **TUI widgets and rendering**
(`../tui`, `../ui`): what was drawn is only remembered (*`MainScreen`*), when to
draw is a web of flags and timers (*`RenderScheduler`*); dialogs, logins and the
search compete for the screen and the keys while extensions replace the editor
(*`ModalDialogs`*).

Without a module (section 10): command line, providers, tools, self update,
retry, loop detector, configuration and entry points.

How they interact: the drivers and the bridge call `runTurn`; it takes `loopMu`,
copies the host's messages, calls the loop; the loop calls back into the mailbox
at its boundaries and into the recorder, which writes the session file and the
host's copy, and asks the preparer for a compaction before it sends. Extensions
call the host from handlers inside the loop and from goroutines of their own.
Session changes rebind the host. Scheduled turns and compactions go to goroutines
of their own in line mode and to the worker in the TUI. Behind the gateway an
actor runs such turns, transports submit and the dispatcher takes the replies.

## 2. HostMailbox


| code | model |
| --- | --- |
| `hostMailbox` | `steer`, `followUp`, `deferred`, `nextTurn`, `scheduled`, `continuationQueued`, `skipSteerOnce`, `continuationToken`, `jobQueued` |
| `closed`, `generation`, `turnActive` | variables of the same name; `cleared` says that shutdown emptied the mailbox and cancelled every context |
| a dispatched callback | a record in `jobs`, `"dispatched"` before its check and `"ready"` while it waits for `loopMu` |
| goroutines about to call `scheduleMailbox` | the count `kicks` |
| the holder of `loopMu` | `turn`, with its phase |
| contexts | `liveTurns`: turns whose context lives; `returning`: turns past `loopMu` whose caller has not cancelled yet |
| a popped delivery | `hand` |
| `enqueueDelivery` | the seven `Send...` actions, one per way out that accepts |
| `scheduleMailbox` | `ScheduleMailbox`; its callback is `JobStarts`, `JobSkipped`, `JobRefused`, `JobAdmitted` |
| `mailboxBoundary` | `Poll...` before a request, `Stop...` after an answer without tools, then `PersistDelivery` or `PersistDeliveryFails` |
| `endTurn` | `EndCanceled` or `EndNormal`, `DrainPops`, `DrainPersists`, `TurnFinishes` |
| `runTurn` and its callers | `PromptAdmitted`, `BeginTurn`, `RequestContinues`, `RequestStops`, `RequestReturns`, `ContextReleased` |
| `runOwnedAgentTurn` | a turn of kind `"agent"`: it polls nothing |
| `bindSession`, `shutdown` | `BindSession`; `ShutdownCloses` and `ShutdownClears` |

Choices. The token and its sequence are equal at every unlock, so one variable
stands for both. The slice of scheduled turns is a set ordered by the stamp of
its members, which only ever grow. Everything under `turnMu` and `mailboxMu`
together is one step; pop and persist are two, since the lock is released
between them. The two steps of `bindSession` are one: sends that see them apart
are refused, as they are before. A scheduled turn is tested for staleness before
and under `loopMu`; the first test only saves work and is merged with the second.
Contents, display callbacks and panics are left out. A refused send changes
nothing and is no step. `fate` and `log` are history variables the properties
read; `mishaps` records the two failures that excuse a message that stays.

A prompt may still be admitted after shutdown: the callers do not look at
`closed`, only their context is cancelled.

Bounds: `Deliveries`, `MaxPrompts`, `MaxGenerations`, `MaxFaults` are in guards
of sends, prompts, rebinds and failures. Two messages are enough for the order
within a queue, for a continuation queued against one being consumed, and for
a message that arrives while the other is delivered; one prompt or `/agent` turn
gives a second turn next to the scheduled ones; one failure or interrupt is
enough for every recovery path, two sessions for every stale handle. `CHECK_DEADLOCK FALSE`
because a host with no more input is idle for ever.

Fairness (`FairSpec`). Goroutines that can run do: weak fairness of the
dispatcher, of the steps of a turn, of the release of its context and of the
second half of shutdown. Strong fairness of `JobStep`: Go mutexes are free of
starvation, a job that waits for `loopMu` gets it although prompts take it again
and again. Strong fairness of `RequestStops`: a model that is asked for ever
stops calling tools at some point; nothing in the mailbox bounds a turn. The
liveness run starts with a part of the bounds spent (`LiveInit`): either the turn
of the user and the session change are used up and a failure is left, or the
failure is used up and the others are left.

## 3. SessionHistory

A message is its position in the log, so that a history is a sequence of
positions and the projection of the log is the positions that are no provider
errors. `log` is the session file, `host` is `hostRuntime.messages`, `hist[r]`
the history of runner `r` (and `b.history` of the TUI). `HostMailbox` says which
message is delivered when; here only how many wait counts.

| code | model |
| --- | --- |
| `refreshProjection` before and after a turn | `Load`, `Reload`, then `Sync` |
| `runTurn` up to `beginTurn` | `LineTurn` or `Load`, `Snapshot`, `SetMessages`, `BeginTurn`: a delivery can come between any two |
| `RunTurn`, `runTurnLoop` | `RecordPrompt`, `Poll`, `Refresh`, then one of the answers `Stops`, `UsesTools`, `CutWithCalls`, `ProviderError`, `StreamFails`, `Overflows` |
| a batch of tools | `ToolResult`, `ToolBlocked`, `ToolFails`, `Warns` |
| the retry after an overflow | `ContinueTurn` |
| `persistDelivery` outside a boundary | `PersistCommits`, `PersistLoads`, `PersistSets` under `deliveryMu` |
| `setMessages` after a line-mode turn | `GiveBack` |
| `validateModelHistoryTools` | `Paired` |

The detector's verdict is arbitrary here, although the program's own
configuration never gets as far as a block (section 9). The program's hooks
report no error to the loop; the fault "hook" stands for a recorder that fails.
Recording an entry is one step: while a turn is active no other delivery is
persisted, so no reader sees it half done. The entry ids are represented by the
check that compares their number (`Aligned`). Whether a scheduled job is stale
is left open (`StaleJob`). Session changes, `/agent` turns and compaction entries
are not part of this module.

Bounds: two turns show what one leaves to the next, two deliveries one that
waits and one that comes in between, one failure every way out of the loop;
answers hold at most two calls, so that a batch has a last and an earlier one.
The model stops asking for tools when the log holds `MaxLog` entries.

## 4. WorkspaceScheduler and Gateway

`WorkspaceScheduler` is `../gateway/scheduler.go` alone, with a next-state
relation in which any goroutine may acquire, give up and release. `Gateway`
extends it: each of its actions takes the scheduler's step that the code takes
there, or leaves the scheduler's variables unchanged.

| code | model |
| --- | --- |
| `WorkspaceGate.busy`, `wait` | `busy`, `wait` (a waiter's channel is named by its actor) |
| a closed channel nobody has received from | the actor is in `handed` |
| `Scheduler.sem` | `sem` |
| a goroutine inside `Acquire` or `Release` | `stage`; `ws` is the argument |
| contexts of turns | `cancelled`: those that are done |
| `WorkspaceGate.acquire` | `EnterGate`, then `TakeHandover`, or `AbandonWait` and one of `HandBack` and `LeaveQueue` |
| the select of `Acquire`; `Release` | `EnterSem`, `AbandonSem`; `LeaveSem`, `LeaveGate` |
| `Journal.byID`, the file | `mem`, `disk`: the last status of a message in memory, and the one a reader of the file finds; `order` is the order of the accepted records |
| a partial last line | `torn`: the next record is glued to it and both are skipped by `load` |
| `appendLocked` | `AppendOk`; `AppendFails`, with nothing, a part or all of the line written |
| `mark` and its five callers | `MarkOk`, `MarkErr`; `Mark` where the caller ignores the error |
| `Gateway.started`, `Router.ctx`, progress of `Start` and `Shutdown` | `life` |
| `RateLimiter.active` | `active` |
| a call of `Submit` | `sub[s]`: `SubmitAdmits`, `SubmitAppends` or `SubmitBounces`, `SubmitRoutes`, `SubmitPosts`, and on errors `SubmitEndsTurn`, `SubmitCancels` |
| `Router.actors`, `Actor.closed`, `mailbox` | `home` (the workspace of a started actor), `closed`, `mailbox` |
| `Actor.run`, `process` | `at` and `cur`: `TakeMessage`, `Acquires`, `TurnRefused` or `TurnStarts`, `Run`, `TurnOutcome`, `Releases`, `TurnEnds`; at the end of a life `SeeDone`, `CancelMessage`, `ActorExits` |
| a crash, or an exit, and the next `New` | `NewLife`: of all variables only the file and the histories survive |

Choices. A section under one mutex is one step. Where two sections follow each
other and the second only changes the limiter's counter (`CancelMessage`,
`TurnEnds`), they are one step, since nothing else in between reads the counter
but the next admission. A cut line is assumed to be cut inside the record and
not between the record and its newline. Data that `Sync` has returned for
survives a crash. Refusals before `TryBeginTurn` (message invalid or too large,
user over the rate, gateway not started) change nothing the properties see.
`Journal.Compact` has no caller in the program, and replies are a module of
their own (`DeliveryDispatcher`, section 6). A transport may deliver a message once in each
life (`polled`): Telegram repeats what was not confirmed, a user may press send
again.

Three histories name what the properties exclude; each exclusion was seen to be
needed, the property fails without it:

- `damaged`: a record of the message was written badly, so memory and file
  differ. A completed turn whose record was lost may be run again.
- `raced`: the message was appended between `started.CompareAndSwap` and
  `ReplayPending` (`gateway.go:137`, `144`). Both `Submit` and `resume` post it;
  the second copy is stopped by `MarkStarted`, so `RunOnce` needs no exclusion
  for it, but `Submit` may cancel the record of the running copy when its own
  post finds the mailbox full.
- `resumed`: replayed messages take no admission slot but give one back
  (`gateway.go:205`, `actor.go:174`), so `active` is too low from then on and
  more messages than the cap may be admitted. `SlotsBalanced` is about lives
  without a replay.

`AckedSettles` excludes `Wedged` (finding 4), a shutdown, and `Stranded`: a
record left `started` by a crash is never replayed, which is what makes a
message run at most once, and nobody settles it either.

Bounds: `MaxLives`, `MaxCancels` and `MaxTroubles` (stops, failed writes, torn
lines together) are in guards. `GatewayTurns`: two chats, each with one message,
two workspaces of which one chat has the first and the other either, one slot;
this has both the contended gate and the contended semaphore, and a cancel can
come anywhere. `GatewayCrash`: two messages of one chat with a mailbox of one, so
that a second message waits, a third position overflows (a replayed copy beside
a submitted one), over three lives: one that accepts, one that replays, one that
must not replay again. One trouble is enough for every error path; two in
sequence are not covered. `CHECK_DEADLOCK FALSE` because a gateway without input
is idle.

Fairness (`FairSpec`). Every goroutine that can go on does: weak fairness of the
steps of `Start`, of each submitter, of each actor and of `Shutdown`; this
assumes that `TurnRunner.Run` returns. Strong fairness of
`EnterSem` for each actor: Go serves the goroutines blocked on a channel send in
the order they came. New messages, cancels, stops and crashes have none.

## 5. The host's other parts

**`HostCompaction`** (`host_compaction.go`, `context_preparer.go`). A request
reads the attached adapter and then either takes its one slot (`TakeSlot`: a turn
runs) or becomes a job (`Capture`, `Register`, `Dispatch`, `StartJob`,
`Compacted`, `Commit`, `ReportResult`); a turn takes what waits in the slot
(`Prepare`, `ExplicitSucceeds`, `ExplicitFails`). `BindSession`, `RequestModel`,
`CancelPending`, `AttachPreparer`, `CloseHost`, `SettleAll` and `Stop` run beside
it. Every lock section is a step; `outbox` holds errors that are sent after the
unlock. `OneOutcome` is about `claimSettlement` and `commitCompaction`: whoever
settles a request, its sender hears of it at most once and never of a failure
when the entry was written. Two requests, two turns, two adapters: a job beside a
slot, and a model change in between. That a request is reported *at all* does not
hold after a shutdown (section 9), so `ReportsOutcome` is in no run.

**`ContextCompaction`** (`../contextmanager/compact.go`, `manager.go`,
`session_projection.go`, `../session/loader.go`). A message is the number of its
session entry; `log` is the session, `history` what a turn holds, `Projection`
what a load builds. A compaction picks any set of messages the selector may pick
(`Selections`), closes it under calls and results (`Closed`), and writes the id of
the first as its anchor. `Prompt`, `Refresh`, `Prepare`, `PrepareExplicit`,
`Answer`, `Overflow`, `Fail` and `EndTurn` are the rounds of a turn;
`CompactIdle` and `Reload` come between turns. Sizes are free choices.
`CompactionHonest`: every request and every load is paired, ids name the same
message in memory and in the session, and what the latest compaction kept is in
every later load. It names three exceptions. A compaction that was requested and
written under a turn leaves the loop the messages it had, so the ids of that turn
align no more (`explicit`). A later compaction of the same turn may then take the
id of another message for its anchor (`astray`, finding 5): from then on nothing
is promised of what loads show. And when the first message kept is the summary of
an earlier compaction (`atHead`), the entry of that one becomes the anchor
(`../contextmanager/compact.go:157`); it lies behind older messages that were
kept too, and the next load leaves them out, although
`docs/decision-record-draft.md:93` says that what is kept stays ("restano
verbatim"). Two compactions show one on top of another; six entries hold both, a
call with its result and two more messages. No anchor goes astray
within these bounds; `ContextPairs` has more entries and gets there, and the
theorem (section 8) holds for any number.

**`SessionController`** (`session_controller.go`): `Open`, fork and new of three
changes with every error path, `Commit` with a failing apply and the way back,
abort, and `Close` at any moment. `ControllerSafe` = `HandlesOwned`, `FilesStay`,
`ShownIsCurrent`.

**`TuiLifecycle`** (`tui_bridge.go`): `Submit`, `WorkerNext`, `AwaitAdmission`,
`Gated`, `RunJob`, `TrackTurn`, `JobEnds`, `JobPanics`, `Interrupt`, `Leave`,
`Shutdown`, `CancelWork`, `Wait`; two turns and two session changes.
`LifecycleSafe`: `sessionChanges` counts what it says while the program serves,
an interrupt reaches the turn that runs, jobs run in order after the gate.

**`CommandInvocation`** (`tui_bridge.go`): three goroutines of one command ask for
a session change while its handler returns. `ChangesWithin`: none runs after the
handler, none beside another.

**`McpClient`** (`../mcp/client.go`): `request` and `roundTrip` of a call and a
listing, `supervise` with its restart budget and framing correction, the
handshake, `Close`. `CallsKept`: a sleeper is woken by what it waits for, no entry
is left behind, a call is written to one generation only, no process is leaked.

**`RenderScheduler`** (`../tui/component.go`): requests, forced requests, the
timer and its fired callback, the barriers of suspend and stop. `RenderBarrier`:
nothing is drawn over the editor or after stop. `RequestsRendered`: a request is
merged, never lost.

**`ModalDialogs`** (`../ui/dialogs.go`, `oauth_login.go`, `extension_modal.go`,
`extension_editor.go`; `../tui/overlay.go`, `container.go`). A call acquires the
session of the modal service or waits for it (`Acquire`, `TakesOver`, `Abandon`),
publishes its component (`ShowBegins`, `ShowsOverlay`, `Publish`: the lock is free
between them), and releases (`Ends`, `Leaves`, `Settles`, `SettleReleases`; the
release of a login that is being published is left to `Publish`). The input
goroutine gives keys to the topmost overlay and opens and closes the search,
`RequestExit` closes the search and the service and waits for the last session,
extensions replace the editor in two steps. What a dialog answers, and when its
context ends, is free: both are read in `Abandon` and `Ends` only. `OneModal`: one
dialog at a time, held by whoever the service thinks, with somebody in front of
every waiter and the keys kept from the editor. `FocusReturns`: after the last
overlay the keys go to the active editor, but for the case of section 9.
`ShutdownEnds`: `RequestExit` returns. `MCHostData` checks the first two, with
three calls, and with two calls while the editor is replaced twice (where the
program does not exit); `MCHostJobs` the third, with two.

These modules (`HostCompaction` and `ContextCompaction` apart) are composed in
`HostJobs`: `Init` picks one component and only that one moves, so their states
add up instead of multiplying; they share no state in the code at this level but
through the calls their environment actions stand for. `MCHostJobs` gives the
constants values. Fairness: goroutines that
can run do (weak fairness per goroutine); a turn that was cancelled ends; the
handshake and the process that was killed end; a model, a server or a user that
does not answer has none. `RenderScheduler` and `ModalDialogs` have one weak
fairness for all their timers and goroutines (`Runtime`): some of them runs as
long as one can, which is less than the Go runtime gives.

## 6. Data, transports and screen

Composed in `HostData` and checked by `MCHostData`, one component at a time as
well, each property where its component moves; no fairness. The instances stand
in four modules (`StoredData`: log, store, credentials; `TurnData`: compaction
jobs, compactions, agents, bus; `TransportData`: Telegram, dispatcher, web;
`ShownData`: screen and dialogs), each with its variables and assumptions, so
that a proof about one component sees the variables of its group only.

**`SessionLog`** (`../session/session.go`, `open.go`, `loader.go`). The file is a
sequence of lines, of which a write leaves nothing, a part, the line without its
newline, or all; a write behind an unterminated line continues it. `Create`,
`FirstWriteHeader`, `FirstWriteLine`, `AppendEntry`, `Close`, `Crash`,
`OpenLoad` (before the lock), `OpenRefused`, `OpenLock`. `ContextOfWriter`: while
a process is alone with the file a load builds what it thinks it wrote.
`ImplementsTree` is the refinement: `SessionTree` has a tree of entries and the
acknowledged ones, and only two kinds of steps, one that adds an entry and one
that loses entries nothing acknowledged depends on; a torn line, a failed write,
a second process that opened an old file, a crash are all steps of it or
stutters. Two processes, three entries, two faults: one to tear a line and one to
fail its repair.

**`PackageStore`** (`../packages`): two processes, a package that depends on
another, three commands, one crash; the lock ages at any moment (`LockAges`) and
is taken over. `StoreConsistent` holds while no takeover let two in at once
(`overlap`), except for what a crash left half done (`damaged`).

**`CredentialStore`** (`../authstore/store.go`): two processes, two providers,
three changes, a failed write or a crash. `CredentialsKept`: the file is the last
successful change of every provider.

**`DelegatedRuns`** (`../agents`): three agents, two of which may delegate, a
depth of two, three runs; the root's tools change meanwhile. `DelegationSafe` =
`Lineage`, `ToolsContained`, `SessionsOwned`.

**`EventBus`** (`../extensions/events.go`): three emissions, two subscribers, a
queue of one, close and wait at any moment. `EventsDelivered` = `CallsInOrder`,
`NothingStranded`, `JoinedIsQuiet`.

**`MainScreen`** (`../tui/render_main.go`): the renderer with the terminal beside
it: rows, cursor, scrolling. Frames of up to three lines over two texts, screens
of two or three rows, resizes, stop. `ScreenShows`: the visible lines are those
of the frame, nothing stands below. Frames the code draws wrongly (`Strays`,
section 9) make `astray` true until a frame clears the screen.

**`TelegramTransport`** (`../gateway/telegram`, `gateway.go`,
`../gateway/actor.go`). Telegram holds updates and forgets those below the offset
it is asked for; a process polls, hands each update of a batch to `Submit`, which
journals or refuses it, and asks again. `UserSends`, `Launch`, `GatewayStarts`,
`ShutdownBegins`, `ProcessEnds`, `Registers`, `Checks`, `Fetch`, `Handle`,
`BatchDone`, `RunTurn`, `SettleTurn`, `Reply`, `Dispatch`. `UpdatesOnce`: an
update is forgotten only when it has a record or was refused; it is run once and
answered once over all lives. Two updates make a batch with a middle, two lives a
redelivery.

**`DeliveryDispatcher`** (`../gateway/delivery.go`): two senders, three replies, a
buffer of one, stop. Each of the three selects of `Send` is a step.
**`WebEvents`** (`../gateway/web/events.go`, `app.js`): a ring of two, a channel of
one, three events of two users, reconnects, a restart. `RepliesAccounted`: each
reply is delivered, queued, counted as dropped or came after stop, in order; an
open stream shows each event once, or its page is told of a gap, or the channel
overflowed.

## 7. Runs

| run | states | what it shows |
| --- | --- | --- |
| `HostDrivers` | 1,371,911 | line mode with a goroutine per job, and the serial worker with a rebind: a message is in one place until it settles and is committed at most once, in order and in its own session; a waiting trigger owns exactly one continuation and a continuation always has something to deliver; no wake-up is lost |
| `HostMailboxLive` | 303,422 | with fairness, whatever triggers a turn settles |
| `HostMailboxLate` | violated | finding 1 |
| `SessionHistoryModes` | 1,577,102 | in the TUI a request sends exactly what the file holds and at rest the host shows the file; there and in line mode, repl and job side by side, copies are never doubled or out of order, and calls and results stay together |
| `SessionHistoryTools` | violated | finding 2 |
| `SessionLogStrict` | violated | finding 3 |
| `GatewayTurns` | 204,928 | turns of a workspace exclude each other, the cap holds, and with fairness every acknowledged message settles unless a gate was lost |
| `GatewayCrash` | 3,659,499 | over three lives no message runs twice, a turn that runs owns its record, no acknowledged message is forgotten, settled records stay, slots balance |
| `GatewayGate` | violated | finding 4 |
| `ContextPairs` | violated | finding 5 |
| `HostJobs` | 90,541 | section 5: what each component keeps, that closing ends, that a frame is drawn |
| `HostData` | 1,163,827 | section 6, with `HostCompaction`, `ContextCompaction` and `ModalDialogs` |

`NothingLostOrDuplicated` accepts one outcome that a user would call a loss: a
delivery whose commit was refused is in no queue and not in the session
(`fate = "lost"`), and its sender is not told. `TriggersSettle` counts it as
settled. Finding 1 is the case where this happens without any failure.

Every property of a passing run has a mutant in `PROJECT.json`: an operator
`Mutant...` next to the definition it changes, under which TLC reports the
property violated. `CHECK_DEADLOCK FALSE` throughout: a program without input is
idle, and a program that was left has stopped.

### Where the code and its words differ

1. **A message sent after the final stop poll is lost**
   (`host_mailbox.go:395`). A handler's send carries the context of its turn.
   Accepted after the last stop poll, it gets a continuation from `endTurn`, as
   `docs/sdk-runtime.md:133` says; then the caller cancels that context, and the
   continuation pops the message and refuses to persist it.
2. **An answer that is cut off makes the session unloadable**
   (`../agent/loop.go:322`). It is recorded with the calls it holds, which get no
   result, and `session_projection.go:447` refuses the session from then on
   (`docs/sdk-runtime.md:137`). A recorder that fails between two results leaves
   the same state.
3. **A strict `Open` turns a torn line into a bad one** (`../session/open.go:43`):
   it terminates the torn last line, which no later strict load excuses.
   `open_test.go:263` asks for recovery.
4. **A workspace can be blocked for ever** (`../gateway/scheduler.go:88`). A
   cancelled waiter finds its channel open and then calls `remove`. If `release`
   comes in between, it closes the channel and takes the waiter off the queue;
   `remove` finds nothing and the gate stays busy with nobody to release it.
   `scheduler_test.go:189` asks for the gate to be usable after a cancelled
   waiter, with a sleep where the race is.
5. **A second compaction of a turn may break the session**
   (`tui_bridge.go:1046`, `chat.go:936`). A compaction an extension requests is
   written at once (`host_compaction.go:437`), while the loop goes on with the
   messages it had. The next refresh compares the number of ids with the number
   of messages and nothing else. A load shows the entries of older compactions
   again where they lie (`../session/loader.go:264`), so the numbers may agree
   while every id names a neighbour of its message; the next compaction of the
   turn, requested or not, then anchors at the wrong entry. `ContextPairs` finds
   an anchor at a tool result whose call is not shown: no later load accepts the
   session (`session_projection.go:434`), which
   `session_compaction_pairs_test.go:126` rules out ("reopen after compaction failed"). It took the proof of
   `CompactionHonest` to meet it: the property fails without the exception
   `astray`, in sessions larger than those the passing run explores.

## 8. Proofs

The theorems hold for all values of the constants that satisfy the assumptions
the modules name: `MailboxAssumption`, `HistoryAssumption`, `SchedulerAssumption`,
`GatewayAssumption`, `HostJobsAssumption`, and, one per component that needs one,
`LogAssumption`, `StoreAssumption`, `CredentialAssumption`,
`CompactionAssumption`, `BusAssumption`, `ContextAssumption`,
`TelegramAssumption`, `DispatcherAssumption` and `WebAssumption`. They say that
bounds are numbers, that a ring has room for one event, that finite things are
finite, and that no name is one of the model's own values; none restricts the
program. The bounds that make TLC's state space finite are arbitrary numbers
here.

Every proof has the same shape: the property is strengthened to an inductive
invariant, a conjunction of named parts; one lemma per action or group of actions
shows that it is kept; the theorem puts them together. The next-state relation of
a component is everything the invariant assumes of its surroundings.

### HostMailboxProofs

`TypeCorrect`: `TypeOK` is inductive. One lemma per group of actions, over frame
lemmas that say that an action keeps the type of what it leaves alone.

- `ClearedCorrect`: `ClearedStaysEmpty` needs `cleared => closed`, since a closed
  host accepts no send. A turn that ends afterwards queues no continuation
  because both queues are empty.
- `OwnSessionCorrect`: `OwnSession` needs that a turn admitted and not yet begun
  is one of the bound session (`AdmittedInv`): its prompt is recorded without
  another check. No session can be bound between the two, since the worker is
  busy.
- `NoLostWakeupCorrect`: `NoLostWakeup` needs that `jobQueued` stands for a
  dispatched job of the bound session that will clear it (`HeldInv`), and that
  scheduled turns belong to the bound session (`BoundInv`). With these, a
  dispatch that finds `jobQueued` set may return: the job it stands for asks
  again.
- `NextTurnStaysCorrect`: an action property. It needs that only the turn of an
  external input ever has `external` set (`ExternalInv`); the actions that
  shorten `nextTurn` are then counted off.
- `DeferredDrainedCorrect`: `DeferredDrained` needs that `turnActive` holds in the
  phases of a turn and in no other, and that a deferred message waits only while a
  turn runs or is drained, or after a drain that failed (`DrainInv`).
- `ContinuationsPairedCorrect` and `NoStrandedDeliveryCorrect` share `ClaimInv`,
  which is `DrainInv` and two more parts. `TokenInv`: a turn that is left has no
  token newer than `continuationToken`, and of the current ones there is one, so
  that a new token makes every older continuation stale. `WaitInv`: what is steered
  asks for a continuation; `continuationQueued` stands for a current one that no
  job has started.
- `NothingLostOrDuplicatedCorrect` counts places, so `PlaceInv` says it with a
  function instead: there is a `w` that maps every message to the one place that
  has it, or to "nowhere" exactly when its fate is not `queued` (`SpotInv`). It
  needs that no queue and no two turns have a message twice, that a boundary holds
  one message and only while it persists it (`HandInv`), that a scheduled turn has
  the one message it was scheduled for (`TextInv`), and that the session has the
  persisted ones, each once (`LogInv`). An action changes `w` at the messages it
  moves.
- `FifoPerQueueCorrect`: `OrderInv` follows the stamps: a queue is in the order of
  its stamps, and what has left it, into a hand or into the session, has a smaller
  one.

### SessionHistoryProofs

`HistoriesInOrderCorrect`, `RequestMatchesSessionCorrect`,
`HostFollowsSessionCorrect` and `PairsStayTogetherCorrect`, for any number of
runners, deliveries, turns and failures, from one invariant, `HistoryInv`:

- `Held`: one runner at most is inside a turn, `deliveryMu` has the owner its
  phase says, and in the TUI only the worker runs turns.
- `Ordered`: every copy is a selection of the log without doubles and without gaps
  in a batch.
- `Requests`: from its reload to its requests the history of the worker holds no
  message of a provider error, and at a request it is the projection. `Refresh`
  compares lengths only; `AlignedIsProjection` shows that an ordered copy without
  errors of the right length *is* the projection.
- `Follows`: at rest the host shows the projection.
- `Batches`: the batch of calls that runs is the last one in the log, and lacks as
  many results as it has calls to do; every other one is answered unless a mishap
  the property excludes has happened.

The projection is written with `CHOOSE` and `Cardinality` (the n-th message is the
one with n messages up to it): `SelectSeq` is recursive in the library, and what
it selects could not be proved. `Newer` of `WebEvents` and `Keeping` of
`ContextCompaction` are written so too.

### GatewayProofs

The scheduler alone, for any number of actors and workspaces, any capacity and
any cancellations, from `SchedulerAssumption`: `SchedTypeCorrect`,
`WorkspaceExclusion` and `ActiveTurnsBounded`. `MutualExclusion` is not
inductive: between `release` and the moment the waiter looks at its channel, the
gate belongs to a goroutine that does not know it. The invariant `GateInv`
therefore speaks of `Holds`, which begins at the hand-over (`HolderInv`); of the
queue, which holds only waiters that were not handed the gate, each once
(`QueueInv`), so that a release cannot hand it to two; and of `handed`
(`HandedInv`). `RemoveAtProperties` says what the removal of a waiter leaves.
`SemInv` says that the semaphore counts the actors inside it, which also keeps
it from going below zero. There is one lemma per way the queue changes
(`EnterGateKeeps`, `FreeGateKeeps`, `LeaveQueueKeeps`) and one for all others
(`QuietKeeps`).

`GatewayImplementsScheduler`, from `GatewayAssumption` as well, shows
`Spec => SchedSpec`, the gateway's steps being steps of the scheduler or
stutters, whatever its other state; it needs that a started actor has a
workspace (`HomeInv`). `GatewayExclusion` and `GatewayActiveCap` follow.

`RunOnceCorrect` and `SettledStaysCorrect`, for any number of messages, chats,
transports and lives. The journal alone does not give the first one, because
`validTransition` admits `started` for a record that is `started` already.
`RecordInv` adds what does: a message that still waits anywhere (in Start's list,
in a submission, in a mailbox, in the hands of an actor that acquires) has a
`started` record only while its own actor runs it or the journal is closed
(`Waits`, `Runs`). A message that was queued twice, by a replay and by its
submission, goes to one actor (`RoutedInv`), which takes the second copy after it
has settled the first; a terminal mark that fails makes the record a damaged one,
which both theorems exclude. `mem[m] = disk[m]` carries the statuses over a crash.
The other parts are that a marked message has not run and that one that has run is
past `accepted`. `WaitKeeps` covers the steps that write no record, `SettleKeeps`
those that settle one; `AppendKeeps`, `BounceKeeps`, `TurnStartKeeps`, `RunKeeps`
and `NewLifeKeeps` are the others.

`TurnOwnsRecordCorrect` and `AckedOwnedCorrect` rest on `OwnerInv` besides:
`HandsInv` says what every actor has in hand at each step; and `OwnInv`, of each
message, that one which is anywhere in the process has a record (`RecordedInv`),
that it is in Start's list, with one submission or with its actor, in only one of
the three (`ApartInv`, unless it was appended while Start was about to read the
journal), and that an acknowledged one has a record which is past `accepted` when
its actor runs it and has an owner while it is still `accepted` (`AckedInv`,
unless its record was written badly). `SlotsBalancedCorrect` needs `SlotInv`: until a
message was resumed in this life, the limiter counts what is owed to it: the
admitted submissions, the actors with a message and the messages in mailboxes.
These are cardinalities, which is why `GatewayAssumption` asks for finitely many
`Submitters`.

### HostJobsProofs

The five safety properties of the run `HostJobs`.

- `ControllerCorrect` (`HandlesOwned`, `FilesStay` and `ShownIsCurrent`
  together; none stands alone). `Exclusive` says that `prepMu` has one holder, so
  that no two commits overlap; `Settled`, that the current session and each
  earlier one was committed and is no candidate any more, so that an abort or a
  dispose never removes its file; `FilesThere`, that a candidate's file exists
  until it is disposed of; `Displayed`, what a commit has put on the screen and
  would put back if it fails; `Handles`, which sessions are held.
- `ChangesWithinCorrect`. `Token`: the slot is free or one caller has it, and only
  that one can be changing the session; `Counted`: the wait group counts the one
  that is, so the handler that waits for it leaves nothing behind.
- `RenderBarrierCorrect`. `FramesInv`: once a suspend or a stop has passed the
  barrier no frame holds `renderMu`, nor can one begin.
- `LifecycleCorrect`. `Employed`: the worker has a job from the moment it takes
  one, and only a stop makes it give one up; `Gate`: nothing runs before the gate
  opened; `Line`: the jobs submitted are those that ran, the one taken and those
  that wait, in this order; `sessionChanges` is the number of the changes that
  wait (`Waits`).
- `CallsKeptCorrect`. `ProcessInv`: one process lives at a time, the published one
  or the one in its handshake; `SleepInv`: whoever sleeps has something to wait
  for, or is woken; `AnswerInv`: a tool call ends with the first process it was
  written to.

### HostDataProofs

Ten of the eleven properties of the run `HostData`, each from the invariant of
its component. The invariants and their steps are in three modules, one per group
of components, so that a proof sees few variables; `HostDataProofs` adds what
`HostData` does with the other components.

`StoredDataProofs`:

- `ImplementsTreeCorrect`: the session file implements the tree of entries, step by
  step. A step of the file adds one entry with its link, loses some that nothing
  left hangs from, or changes no entry (`Grows`, `Loses`); each of them is a step
  of `SessionTree`, provided that no acknowledged entry is lost. That needs
  `StandIn`: an acknowledged entry has a line of its own, with its newline.
  `LogTypes` has the order of the ids and that a header is the first line;
  `LogPhases`, that before a first entry nothing was acknowledged and one process
  writes; `SoleOwns`, that a process which is alone with the file finds it whole.
- `ContextOfWriterCorrect`. The way from an entry to the root is a recursive function
  (`Branch`), defined by a choice. An entry hangs from an older one (`Rooted`), so
  such a function exists (`WayExists`), any two agree where their entries do
  (`WaysAgree`), and a way climbs (`WayClimbs`): inductions in disguise, by the
  first number that fails. Hence an appended entry extends the active branch
  (`AppendBranch`), and a newline changes nothing (`SameBranch`). The invariant:
  while a process is alone with the file, its leaf and branch are those a load
  finds (`SoleKnows`); a load that waits for the lock has the leaf and branch of
  what it saw (`BranchOk`), which is the file if nobody wrote in between. A
  compaction keeps entries drawn before it (`KeptLower`), so what it names lies
  once on the branch, before it (`ContextIs`).
- `StoreConsistentCorrect`, until a stolen lock lets two processes in (`overlap`):
  one process is inside (`OneInside`), what it found under the lock is still so
  when it acts (`AllReady`), and index and directories agree but for the package
  in its hands (`AllAgree`).
- `CredentialsKeptCorrect`. A rename puts a copy in place that was read some steps
  before. Whoever is past the lock is its holder (`Holder`), hence the copy about
  to be renamed is the file of this moment with the one change in it
  (`CopyIsFile`), and a process that has renamed remembers the file (`Remembers`).
  A process that dies gives the lock up with its copy.

`TurnDataProofs`:

- `OneOutcomeCorrect`. `Attached` and `Slotted` say which adapter exists and where a
  request waits. Of each request, `Unsettled`: nobody has reported on one that is
  not settled, so whoever claims it is the first; `Reported`: what was reported
  excludes what would contradict it.
- `EventsDeliveredCorrect`. `OneDrain`: one goroutine drains; `QueueHolds`: the queue
  has the queued events, each once, and is being drained; `Deliveries`: the calls
  made are a prefix of those that were due and those of one event are not
  interrupted by another's; `Waited`: the waiter waits for the last drain there
  can be.
- `DelegationSafeCorrect`. `Chain`: a run stands under those before it and sees its
  tools through the one before; `Waiting`: whoever waits for a run is in its turn;
  `OwnFiles` and `Files`: which run has which session file, and what is on disk
  besides. The tools of a run are a recursive function down the stack
  (`GetActive`), which `ViewEquation` unfolds once; that a run has no more than
  everything above it is an induction in disguise, by the least run that has.
- `CompactionHonestCorrect`, with arithmetic over positions that no other proof
  here needs. `ShownShape` is what a load shows in closed form. `Recorded`: results
  follow their calls at once, anchors and kept messages lie before their
  compaction. `Informed`: while a turn asks for ids and was not compacted on
  request, its messages are what the session shows and its ids are its messages.
  `Sound`, until an anchor is astray: the history, what is sent and hence every
  load have whole groups in ascending order, and each anchor means what it was
  chosen for (`Means`): all that was kept lies between it and its compaction and
  no group lies across it (`AnchorSound`), or it is the summary of the exception.
  `KeepingPaired` counts what remains of the messages by their rank; `BatchAdds`
  adds a batch at the end; `CompactionSound` puts a compaction together. The
  invariant was not inductive without the exception `astray`: this is how
  finding 5 was met.

`TransportDataProofs`:

- `UpdatesOnceCorrect`. `Polling`: all below the offset was handled, and a batch in
  hand follows what Telegram forgot without a hole, so that the offset of its last
  update claims no other; `Running`: a message waits in a mailbox only with an
  accepted record and has not run before it is started; `Answering`: an answer is
  at one place on its way (its actor, once in the queue, or sent) and its outcome
  is recorded. `Rest` says what a poll returns.
- `RepliesAccountedCorrect` covers two components. `DispatcherInv`: whoever was
  asked to send is inside `Send`, or its delivery is counted (`Balanced`, in
  cardinalities), and queue and deliveries are in order (`Lined`). `WebInv`: the
  ring holds the last events (`Ring`), what is pushed ascends (`Channel`), what a
  page shows is its user's and ascends (`Display`), and an event is shown, in the
  channel, about to be pushed, or overflowed when it was appended since the stream
  read the ring (`Fresh`), and shown, to be replayed or reported as a gap when it
  was there before (`Read`).

### Only model-checked

`ScreenShows` has the renderer in it, whose output is folded over the operations
of a frame (`MainScreen`), which is out of the prover's reach, and the dialogs.
And all liveness: `TriggersSettle`, `AckedSettles`, `ClosingEnds`, `RequestsRendered`; the
prover has no rules for fairness and ENABLED.

Every other invariant and action property of a passing run is proved.

## 9. Observations

Met while modelling; true of the code, in no run of their own. Properties named
here are defined and were seen violated.

*Host.* Steering is not polled before every request: an external turn that
injects next-turn messages goes from the last of them straight to the request
(`host_mailbox.go:329`, `SteeringPolled`). In line mode the returned history
replaces the host's messages after the drain has put a delivery there
(`chat.go:766`; `RequestsAlign` fails outside the TUI). A compaction request may stay
unreported after shutdown (`docs/sdk-runtime.md:271`). An explicit compaction in
the middle of a turn leaves the loop's history longer than the ids, and the next
refresh usually ends the turn with an error (when it does not: finding 5). A
compaction of the line-mode repl may carry an anchor no entry has
(`role:ts#i`), so a reload shows the whole branch again. Memory keeps a selection
with holes while the reload shows everything from the anchor on; pins are never
set by the program. In the loop detector a warning clears the window and the loop
observes one call at a time, so the count of consecutive warnings starts again
and a block is never reached with `DefaultConfig`.

*Gateway.* When an actor refuses during shutdown the journal may be closed before
`MarkCancelled`; the error is ignored and the refused message runs in the next
life (`../gateway/gateway.go:199`, `RefusedIsCancelled`). The poller keeps polling
while `Shutdown` refuses: such an update is confirmed and gone
(`gateway.go:361`); the transport starts before `g.Start` (`gateway.go:291`). When
`getMe` or `deleteWebhook` fails, polling ends for good while the start-up message
says it is on. A fresh web page asks with `since=-1`, which `events.go:105`
answers with 400, so it gets no events until it has seen one. `hello` sets the
page's `since` to the latest number before the replay, so a login during it
skips events. After a restart the ring counts from zero while the page keeps its
number. A full channel of a subscriber drops events silently.

*Screen.* A frame that only takes two or more lines off the end moves the cursor
up instead of down while it erases (`../tui/render_main.go:355`,
`DeletedLinesErased`, `render_main_test.go:146`). A cursor marker above the
viewport puts the remembered row wrong. A resize undone before the next frame is
not noticed. `Stop` of the scheduler leaves `renderRequested` set. An overlay that
gives the focus back gives it to the editor it was opened over, also when an
extension has replaced that editor since (`../tui/overlay.go:134`): with the
search open, a new editor set, and a dialog shown and closed, closing the search
leaves the keys with the old editor, which is not on the screen
(`FocusFollows`). `SetFocus` of the new editor hides this while one overlay is
open.

*Shared files.* Two processes may both take a stale lock of the package store
(`../packages/store.go:197`; the updater has the same protocol at
`../update/update.go:331` and looks up the release before the lock). A crash after
the rename of a version leaves a directory that can be neither installed nor
removed. The index keeps the latest version only; deactivating does not look at
dependents.

*Others.* The retry of `ListTools` can meet the same dead generation twice. The
event bus counts every emission of a drain as nested, those of other goroutines
included (`docs/sdk-runtime.md:244`). A retry that gives up on an aborted answer
reports no end of the retry.

## 10. Not modelled

- **Command line, configuration, entry points**: straight-line code that sets the
  program up; **self update**: one sequence under a lock whose protocol is in
  `PackageStore`.
- **Providers**: HTTP, streaming parsers, OAuth; their stop reasons and errors are
  inputs of `SessionHistory`. **Tools**: a call with a result, any of which is
  possible there.
- **Retry**: a loop that counts; **loop detector**: pure comparison of texts in one
  goroutine. Neither shares state.
- **TUI widgets**, key codes, images, the alternate screen, layout: drawing without
  concurrency, where the data, not the control, is the difficulty.
- Within modelled components: prompt expansion and display callbacks; slash
  commands and start-up of the chat; choosing models and clients (a pending model
  only where a compaction meets it); rate buckets and message sizes; pages of an
  MCP listing and the invalidation of its cache; hook chains of extensions;
  verification of packages; the code a user pastes into a login dialog; login and
  read-only routes of the web server;
  listing, deletion and import of sessions.

## 11. What could follow

1. `DeliveryLedger`: an abstract mailbox (accepted, then committed once or given
   up, in order) with `HostMailbox` as its refinement.
2. `Gateway` composed with `TelegramTransport`, which has a set of turns in its
   place.
3. The alternate screen (`../tui/render_alt.go`) beside `MainScreen`.
