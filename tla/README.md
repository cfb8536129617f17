# A verification companion to the Mosoo agent driver

The driver (`src/src`, TypeScript on Bun) runs one coding-agent session inside a
sandbox. A control plane sends it commands (`input.start`, `turn.cancel`,
`session.stop`, `mcp.execute`, `permission.resolve`); the driver runs one agent
backend (Claude, OpenAI app-server, ACP or Pi), forwards what the backend does
as events, and owes the control plane exactly one terminal for every run and
exactly one for itself.

The program has one thread, so what makes it hard is not shared memory. State
read before an `await` is stale after it; an RPC may be carried out although its
reply is lost or late; a command may be delivered twice; a shutdown may begin at
any await of anything else; and what a call does on its way out (its catch and
finally blocks) runs after the world has moved on. The modules here are about
those behaviours. An action is what happens between two awaits, with every
assignment the code makes there; where two continuations run in neighbouring
microtasks and others may be scheduled between them, they are two actions.

## The system and its parts

| Part (under `src/src`) | State it keeps | Operations | Talks to | What is hard, what must hold |
|---|---|---|---|---|
| `core/driver-terminal-state.ts` | the active run with its revision, cancellation, selected terminal, first failure; the instance terminal | begin, claim cancellation, select, acknowledge, abandon, settle input, release, record failure, request shutdown, select the instance terminal | called by the dispatcher, the socket and the process with tickets they keep across awaits | a ticket may be stale; one terminal per run, a cancelled run never completes, what is reported is what was published |
| `core/driver-command-delivery.ts` | one promise chain and the last known status per command | accept, finish | the host's status RPC | lost, late and repeated RPCs; nothing reaches the host after the final status |
| `core/driver-command-dispatcher.ts` | active and queued input, MCP tasks, seen commands, the loop | poll, handle a command, run an input, hand off, cancel, shut down | all of `core/` | five kinds of task that wait for each other; the next input waits for all the last one left |
| `core/driver-runtime-state.ts` | status, owner generation, open approvals | begin, end, begin and end approval, shut down | process, dispatcher, broker | callers arrive in any order; busy exactly when a run owns the driver |
| `mcp.execute` (`driver-command-dispatcher.ts`, `external-tool-effect-settlement.ts`, `host-ports/`) | the task; the host's ledger of effects | observe, claim, execute, settle, report | the ledger, the tool | crashes, lost and late requests; the tool is called at most once per effect |
| `core/agent-backend-lifecycle.ts`, `utils/async.ts` | start, shutdown, the cleanup owners and their deadlines | start, shutdown, late stops | the backend | a backend that never answers; two stops never overlap |
| `core/driver-permission-broker.ts` | pending requests, late deliveries, leases | request, deliver, recover, reject all, wait | control plane, runtime state | timeouts racing late answers; no request stays open at the host |
| `core/async-value-queue.ts` | buffered values, waiting readers, counters | push, pushMany, pushReserved, next, close | kernel, Claude query | limits, the reserve, order |
| `infrastructure/runtime/driver-instance-socket.ts`, `driver-event-envelope.ts` | connection, run ticket, retained envelopes, delivery lane, conflict fence | connect, push events, claim and report terminals | terminal state, control plane | retries of what was already received; nothing of a run after its terminal |
| `bin/driver-process.ts`, `core/driver-heartbeat-loop.ts` | the memoised shutdown, the remembered terminal, the phase of `run()` | boot, run, signals, shutdown, finalize | all of the above | failures from five sources at once; cleaned up before it reports, truthful, and it ends |
| `core/agent-driver-kernel.ts`, `core/driver-runtime-io.ts` | queues of commands and events, lifecycle, retained pushes | dispatch, push, start, stop | a host that embeds the driver | the same duties without a process |
| `runtimes/driver-event-publisher.ts`, `driver-event-admission.ts` | buffered and unacknowledged batches | publish, flush, retry | backends, socket | batching and retry of a stream that ends in a terminal |
| `runtimes/pi` | the turn, open items, requests of the RPC client, the abort | input, cancel, stop | Pi over JSON lines | the end of the agent, the reply to the prompt, an abort and its timeouts race |
| `runtimes/acp` | the turn, the update inbox, the transcript, the terminals of the agent | input, cancel, updates, terminal requests, stop | an ACP agent | updates that outlive their turn; a prompt that is never answered; a terminal created while the session stops |
| `runtimes/claude` | the query kept for the next turn, the warm query, message state, session usage | input, cancel, read the stream, stop | the Claude Agent SDK | a query that ended or was interrupted between turns; messages retracted after they were shown |
| `runtimes/openai` | turn tracker, the queue of server messages, item state, usage baselines | input, cancel, messages and requests, stop | the Codex app-server | a turn that runs although the reply that names it was lost; a terminal that cannot be published |
| `runtimes/child-process.ts` | the snapshot of an owned process tree | spawn, terminate | the kernel of the operating system | pids are reused, children fork while the tree is killed |
| `runtimes/native-checkpoint.ts`, `atomic-file.ts`, `*-checkpoint.ts` | bundles, staged trees, the provider's home | create, verify, prune, restore | backends, host | a crash between two writes; a restoration that fails half way |
| `runtimes/skill-*.ts`, `skill-package/` | the live catalog, stages, the marker, the lock | materialize, recover, sweep, finish | boot | a crash inside the rename transaction, two generations at once |
| `contract/` | a session snapshot, the updates a preview buffers | reduce mutations, sync, propose, buffer and apply previews | hosts | lost, late and repeated batches; a replica is never something the authority was not, what has ended stays so |
| `protocol/`, `runtime-command/`, `boot/` | none | parse and validate | everything | pure |
| `projections/`, `stores/`, `surfaces/` | claims with leases, records, subscriptions, the session's status and pending permissions | record a driver event, claim, renew, settle, stream (experimental adapter) | the kernel, HTTP clients | a command is posted twice, its lease runs out; a client reconnects while records are replaced |
| `infrastructure/logging`, `observability/` | counters, files | log | everything | diagnostics only |

`PROJECT.json` lists the same parts with what is modelled of each, the hazards
at the lines where they bite, and the lines each definition stands for; a helper
whose lines lie inside those of a listed definition is not listed separately.

## Modules

| Module | Models | State and actions |
|---|---|---|
| `RunOutcome` | the promise about runs (abstract) | per drive of a run: open, decided, closed |
| `TerminalState` | `driver-terminal-state.ts` | one action per method, applied to any ticket ever handed out |
| `CommandDelivery` | `driver-command-delivery.ts` | the promise chain of a command with `accept` and `finish`, `reject` past it; RPCs on the wire |
| `RuntimeState` | `driver-runtime-state.ts` | one operator per method, and a specification in which any caller comes at any time |
| `CommandDispatcher` | `driver-command-dispatcher.ts` | EXTENDS `TerminalState` and `RuntimeState`; the loop, the input tasks, joins, MCP tasks and shutdown each have a program counter; what was last told of a command |
| `McpEffect` | one `mcp.execute` over several lives of the driver | the task's program counter, the ledger and tool (external), requests still under way |
| `BackendContract` | what the process relies on (abstract) | a started backend answers every shutdown, and stopped means stopped |
| `BackendLifecycle` | `agent-backend-lifecycle.ts` | owners with their deadlines, stop generations, late stops |
| `AsyncValueQueue` | `async-value-queue.ts` | one action per operation |
| `PermissionBroker` | `driver-permission-broker.ts` | a program counter per request, late deliveries, waits |
| `InstanceSocket` | `driver-instance-socket.ts` | EXTENDS `TerminalState`; pushes, the delivery lane, the control plane (external) |
| `EventLog` | the promise about events (abstract) | events owed, events the host has, runs whose terminal was withdrawn |
| `EventPublisher` | `driver-event-publisher.ts`, `driver-event-admission.ts` | calls, the drain with the delivery it works at, the settlement of a terminal; the event port (the socket, reduced to its rules) |
| `DriverProcess` | `driver-process.ts` | EXTENDS `RuntimeState` and `BackendContract`; `run()`, the shutdown attempts, signals |
| `DriverKernel` | `agent-driver-kernel.ts`, `driver-runtime-io.ts` | EXTENDS `TerminalState`, `RuntimeState` and `BackendContract`; the start, the command loop, pushes with retained receipts, failures, finalization and the retried stop |
| `BackendTurn` | what the dispatcher relies on in a provider's turn (abstract) | a turn is answered once; what the answer says agrees with the terminal and with what the provider did; no turn begins over a running one |
| `PiBackend`, `AcpBackend`, `ClaudeBackend`, `OpenAiBackend` | the turns of the four providers | the program counter of `handleInput`, of the cancellation and of the stop; the queue of what the provider says; the provider itself (external), which may answer, fail, vanish or stay silent |
| `AcpTranscript`, `ClaudeItems`, `OpenAiItems` | what a provider's stream becomes at the host | the state of the translator, the pushes it makes and which of them were received |
| `AcpTerminals` | `acp-terminal-manager.ts` | a program counter per terminal for its creation, kill, release and exit |
| `RunUsage` | `app-server-event-state.ts`, `agent-sdk-session-usage.ts` | totals of a thread or a session, the baselines they are differenced against, what was charged |
| `SkillCatalog` | `skill-materialization.ts` | a file system with a durable and a cached tree; one program counter per generation |
| `NativeCheckpoints` | `native-checkpoint.ts`, `atomic-file.ts` | bundles by run, staging, synchronisation, verification, pruning, hand-over |
| `CheckpointRestore` | the restoration in `claude/agent-sdk-checkpoint.ts` and `openai/native-checkpoint.ts` | trees of the home moved away and in, undone in reverse, and removed at the end; every step can fail |
| `ProcessTree` | `child-process.ts` | processes with pid, parent and owner; scans of `/proc`; kills |
| `CmaStore` | `stores/memory/`, `surfaces/cma-http/session-events.ts`, `projections/cma/outbound.ts` | the session's status and pending permissions, records with their cursors, a step per await of a posted command, the server's end of each stream; driver, dispatcher and client are external |
| `SessionLog` | the reducer and its rules in `contract/` | the authority's log with its snapshots, proposals, one replica; admission of a mutation is the conjunction of what the reducer asserts |
| `PreviewStream` | `contract/preview.ts` | the buffer with its timer and drain, batches under way, the text the receiver shows |
| `*Proofs` | | theorems about the module they are named after; `CommandContractsProofs` is about the five components of `MCCommandContracts`, `SessionStorageProofs` about the four of `MCSessionStorage` |
| `MC*` | | the instances TLC checks |

Composition is by extension: the dispatcher and the socket call the very
operators of `TerminalState` that are checked and proved on their own, the
process those of `RuntimeState`, and the process sees its backend through
`BackendContract`, which `BackendLifecycle` is shown to implement. The four
backends are shown to implement `BackendTurn`, what the dispatcher takes a turn
to be.

Parts that share no state are checked together by alternation:
`MCCommandContracts`, `MCProviderTurns`, `MCProviderItems`, `MCSessionStorage`
and `MCSessionReaders` start in one of their parts and stay there, so that a
behaviour of the module is a behaviour of one part with the fairness of that
part, and one property states the promise all of them make. A driver has one
provider, so nothing that could happen between two parts of `MCProviderTurns`
is lost. What a part of `MCCommandContracts` needs of another (the outcome of
a delivery, the end of a run) is a nondeterministic choice inside it.

Data is abstracted to identity: event bodies, command payloads and messages are
model values or tags, and the deep-equality comparison of two terminals is
equality of their identities.

## Runs

| Run | Asks | Bounds, and why they are enough |
|---|---|---|
| `command_contracts` | Can lost, late and repeated RPCs disturb the final status the chain of a command sends? Is the tool called at most once, and is what is reported true? Is a permission request forgotten open at the host, or an answer acted on that the host does not have? Do stops overlap, does the lifecycle implement `BackendContract`? Does anybody wait for ever? | delivery: one command (chains are independent), three calls, two attempts each. Effect: three lives, since a claim of the first may arrive while the second works and the third sees what both left. Permissions: two requests at a time, one wait. Lifecycle: two shutdowns, three cleanup owners |
| `dispatcher_handoff` | Two inputs of two runs, the first delivered once more at any time, a cancellation of the queued one and a stop: does the second start only after everything of the first, does a command have one verdict, does it agree with the terminal, is a replay of work under way spared a refusal, and is a stop last? | two inputs are all the dispatcher ever holds, and the first can be replayed while it is queued, at work, over, or over with the second at work; `MaxShutdowns` 2 |
| `dispatcher_control` | One run with every command that controls it, each delivered once or twice: does everyone get an answer and does a shutdown end the loop? | one command of each kind; the interruptions are a signal and a failure; `MaxShutdowns` 1 |
| `instance_socket` | Does anything of a run arrive after its terminal, does a retry change what was sent, is what is acknowledged received? | two pushes and one report: three deliveries share the lane; one run (`MaxRevision` 1) |
| `driver_process` | Is everything cleaned up before the end is reported, is the report true, is the status that of the owning run, does a shutdown end the process? | two runs with an approval each, both signals, four shutdown attempts of which two are finalize's |
| `event_publisher` | Does the publisher keep an ordered log whatever fails, whatever joins a delivery, and whenever the run ends or is cancelled? Is everyone who waits served, within the bound? | three calls, two runs, three pending events: a call can join a delivery while another is refused for lack of room; the second run starts while the settlement of the first is still there |
| `event_publisher_alone` | Does a terminal travel alone, as the event port demands? It does not (see Findings). | the same instance |
| `driver_kernel` | Is every command and push of the embedded driver answered, is a failure told, is what a push reports the outcome of its own run, is a stop that resolved clean, does a stop end? | one run id driven twice (`MaxRevision` 2), two inputs for a queue of one, two pushes, three attempts of the backend's stop, two stops (a second after one that was rejected) |
| `provider_turns` | Does every provider's turn keep `BackendTurn`, is nothing it opened left behind, is the session the host was told the provider's, and do cancelled turns and stops end? | any number of turns one after another, so that a turn inherits what the last one left; two updates, two terminals of which one may live, one message of Claude, two queued messages of the app-server |
| `provider_items` | Whatever a stream repeats, reorders, retracts or leaves open, and whichever push fails: is every item closed, does the final message stand, is a run charged its own, does the queue keep order and counts? | transcripts with two native ids and two tools, three ids, two retained; Claude with three frames of a message; OpenAI with two items and three frames; tokens to three; a queue of three with a reserve of two, six values and six reads |
| `session_storage` | With failing calls and a crash anywhere: is what was durable recoverable, does a catalog only move forward, is nothing of a process tree left, does work end? | three generations (one at work, one that supersedes it, one after the crash), two faults (a step and its compensation), one crash; three runs and two creators of checkpoints; four processes over three pids: with fewer a tree is never large enough to fork into both of the final scans |
| `session_readers` | Does any order of calls with any tickets, stale ones included, break the promise about a run's one outcome? Does a client of the CMA store, a replica of the log, a receiver of previews have the truth up to where it is, and in the end all of it? Does what is posted or proposed twice happen once, does what has ended stay? | Outcome: two run ids, two drives, two sources, since a stale ticket can carry the id of the run being driven. Events: four, of all ten kinds, with two permissions, each delivered any number of times. Clients: two posts of one command, two connections one after another of which one may be open, one pending record (the third record overflows it), two events of the driver out of a delta, which is not kept, and a failure, which ends the session. Log: two revisions from two starts, of three runs (one a child, one a retry), one proposal. Preview: three chunks, a buffer that is full at three |

Every property has mutants in `PROJECT.json`: a definition of the code it
guards, changed as a plausible bug would change it, for which the run must
fail. A property that states the promise of several parts has one for each.

### What may surprise a reader of a run

* CommandDelivery and CommandDispatcher. `reject` sends the "failed" of a refusal
  past the chain of the command and past its verdict
  (`driver-command-delivery.ts:124`). A command of an ended run that is delivered
  again while another run is active is refused, so the host can hear "completed"
  and then "failed" of one command; what the driver keeps stays the verdict, and
  the next replay that is not refused repeats it. No comment or test says that
  the host hears one status only. What holds is that the chain sends one verdict
  (`VerdictStands`), that whoever tells a verdict tells the one the command has
  (`SaysItsVerdict`), and that a command still queued or at work is refused only
  when the driver is about to go down (`RefusalsSpareWork`). A refusal is told
  apart in the models ("refused"); on the wire it is a "failed".
* Dispatcher. Waiting for the joined tasks may end by timeout; after it the
  terminal barrier is no longer registered, so `TerminalAfterMcpWork` and
  `FailedMcpFailsRun` speak of the time the loop runs. A `session.stop` may be
  completed although the queued input it cancelled failed.
* McpEffect. The ledger may repair a claim to `unknown` at any time. A late
  claim or settlement may arrive in a later life; the verdict may be recorded
  although the call that carried it failed.
* BackendLifecycle. The backend owes nothing: its start and its stops may never
  settle. What ends them is a timer of the driver.
* PermissionBroker. Request ids are used once; events arrive in order and once.
* InstanceSocket. The host takes messages in order and accepts a prefix of a
  batch. Splitting a batch by `eventBatchMaxSize` is the same as a partial
  acceptance. An event's envelope is prepared at once, a terminal's only after
  it passed the barrier. The log of the host is a sequence of what the messages
  brought it, each a set: a batch with more than one event has no terminal, so
  nothing is lost by it, and a message that brings nothing new leaves no entry.
* EventPublisher. One attempt of the port is one step, and the host may have
  more of it than the publisher learns. A backend that fails aborts the signal
  of its run without a claim (`pi-driver-backend.ts:447`), so a completed
  terminal may be withdrawn after the host took it: `EventLog` allows a second
  terminal of a run only then. A settlement waits for the drain that runs when
  it starts, not for what that drain retains. `abandoned` and `log` are history.
* DriverKernel. A push of a terminal waits for its own event to be taken by
  the host's iterator; the kernel's queue takes it at once and its
  acknowledgement is the next microtask.
* AcpTerminals. A terminal whose creation failed on its way to the host (an
  orphan) may be killed and "terminal.killed" published for it, although the
  host never heard "created".
* OpenAiBackend. A turn that a stop cancels publishes no terminal. A turn whose
  failed terminal was being published when it was cancelled still throws
  `DriverTurnCancelledError` (`app-server-driver-backend.ts:578`);
  `settleInput` counts both as failures (`driver-terminal-state.ts:257`), and
  the mapping to `BackendTurn` calls both rejected (`OaVerdict`). A turn may be
  stranded (`OaStranded`): if the provider interrupts it and publishing that
  end fails, `failQueuedProtocol` returns because the client is stopping,
  cancelling does nothing any more, and the turn is settled only by a stop. The
  dispatcher's grace period (`ACTIVE_INPUT_SETTLE_GRACE_MS`) then fails the
  driver, so `TurnsEnd` excepts it for a cancellation and not for a stop.
* OpenAiItems. A start or a patch that comes after the end of a tool starts it
  again: what is claimed is that every item is closed at the end, not that a
  tool ends once. A push that failed was not received. Plan texts are left out.
* RunUsage. Each request of the app-server sends one update, in order; nothing
  consumes tokens of a Claude session between two runs.
* SkillCatalog. If synchronising the marker fails and finishing the generation
  fails as well, the generation is reported failed and a later crash may yet
  make its catalog durable, even after a newer generation began: what
  `SkCatalogIsKept` claims is that a durable catalog is always a whole one and
  never an older one.
* NativeCheckpoints. The export of OpenCode does not check the turn, temporary
  directories left by a crash are never pruned. `CpVerifies` FALSE leaves out
  that OpenAI, Claude and Pi verify a copy once more: nothing depends on it.
* CheckpointRestore. After a crash the trees put aside stay there: nothing
  removes them, and nothing old is lost. When the removal after the swap fails
  the restore throws although the checkpoint is in place, and nothing is put
  back ("uncleaned"); a start that is tried again restores over it.
* CmaStore. A session has ended with `run.failed` unless it may be retried:
  nothing is shown after it, not even the answer of a command that was settled
  before. A claim whose lease ran out is never given again, so a command whose
  keeper failed stays "accepted": its effect is unknown, and it is not repeated.
  A client may miss an accepted record whose settled one took its place.
* SessionLog. The coordinator that commits is not in the repository; what it
  must do is what the reducer demands of it. A proposal is checked against the
  snapshot of the moment, so the same proposal can be accepted only once.
* PreviewStream. After a gap nothing is shown until the whole text comes again;
  an update that is dropped is reported, and the reader is told nothing.
* ProcessTree. A tree in which every process forks and exits while each of the
  two final scans runs escapes (`PsEscapes`). A kill and the check of identity
  before it are one step.
* DriverProcess. Errors are told apart as the code does, by identity and
  message. The catch block and the finalization of `run()` are two steps here
  and one turn in the code. Loading the backend is assumed to settle.

### Findings

* `runtimes/driver-event-publisher.ts:936`: a terminal that is submitted while
  an earlier event of the run is retained is sent in one batch with it, on every
  attempt, and `core/driver-runtime-io.ts:76` refuses a batch of a terminal and
  something else. The terminal is never delivered. A `pushTerminal` without
  closures after a failed push gets there (`pi-driver-backend.ts:189`).
* `README.md:151` of the driver says that retries reuse a recorded result. A
  re-dispatched `mcp.execute` that is aborted, or whose `running` event is not
  delivered, is reported cancelled or failed before it observes the effect
  (`driver-command-dispatcher.ts:962`), although the ledger has its result. The
  tool is not called again (`CalledAtMostOnce`), so `McpEffect` treats this as
  intended.

## Fairness

Only what the code itself drives is fair: continuations of settled promises and
timers. The dispatcher has weak fairness on the steps of the loop, the joins and
the shutdown (each await there has a timeout or a task that ends); the MCP task
on its own steps, except `Prepare`, which has no deadline and is fair only once
aborted; the lifecycle on its timers and continuations and on nothing the
backend does; the broker on request, late-delivery and wait steps, each of which
has a timer; the process on `run()`, on its shutdown attempts and on the answer
`BackendContract` promises; the kernel on its loop, its stop and its pushes. Of a
provider nothing is fair except that a process that was killed dies: a turn ends
by the timers of its backend. The app-server backend has strong fairness on the
tasks that wait for an attempt of each other (a cancellation that is retried
while the queue of messages moves); a terminal of an agent, a generation of
skills and a creator of checkpoints have weak fairness each of their own. A
client that is connected to the CMA store reads, a subscription of the log
delivers something new in the end, and a flush of the preview buffer returns:
these three are assumptions about the outside. The
liveness properties of the composed runs are stated as []<> "nobody waits": who
waits stays waiting until answered, so that this is that every wait ends. That
the dispatcher's loop ends after a shutdown,
which the process assumes, is `ShutdownEndsLoop` of the dispatcher (a part of
`ControlEnds`). The socket
and the publisher have no fairness: their properties are about safety, and that
nobody waits in vain is there the invariant that whatever is awaited is queued,
at work or about to be answered.

## Theorems

`tlapm` checks the following for every value of the constants.

* `TerminalStateProofs`: the type invariant; one terminal per drive; a cancelled
  run is never completed; a reported outcome is the published one; the blame of
  the first failure stays; the instance terminal is final; and `TerminalState`
  implements `RunOutcome`. The inductive invariant relates the active run to
  its history: every ticket handed out has a revision at most the current one,
  a run that is not active is closed in the history, and the selected terminal of
  the active run agrees with what the history says was decided. The revision is
  what makes it inductive: without it a stale ticket of the same run id is
  indistinguishable from the current one.
* `DriverProcessProofs`, of `RuntimeState` and of `DriverProcess`: the approvals
  counted are those of the owning run, busy means owned, and a shut-down driver
  never accepts a run again. These are inductive once the type invariant and "an
  idle driver counts nothing" are added; `OwnerIsReported` joins the first two
  as the property the process run checks. Every step of the process is a step of
  that machine or a stutter (`ProcessDrivesMachine`), so they hold of the process
  too (`ProcessOwnerIsTrue`, `ProcessNeverReopens`). `ReportsAreTrue`: what the
  process reports of itself is true. Its invariant relates the place `run()` has
  reached to what is remembered of the terminal and of the last attempt to shut
  down, and says which failures can still be on their way at each place.
* `CommandContractsProofs`, of `McpEffect`: the tool is called at most once and verdicts are true. The
  invariant says what a ledger entry and each request under way imply about the
  calls made: at most one token is granted, a call was made only by the token
  granted, a settlement under way carries what that call returned.
* `CommandContractsProofs`, of `BackendLifecycle`: for any number of shutdown calls and cleanup owners,
  the type invariant, one stop at a time, stopped means stopped, and every step
  is a step of `BackendContract` (the safety half of `RefinesContract`). The
  invariant has seven parts beside the types: only the latest stop can be in
  flight; a final stop is issued only after the start is over; nobody owns a
  cleanup unless somebody asked; the stops an owner has still to issue bound the
  stop number (`Budget`), since an owner may issue two and the type invariant
  needs the numbers to stay below twice the owners; and (`LateOk`) a late stop
  that joined another owner is the latest stop only while that owner has still
  to issue its own. The last part is the one that makes it inductive. It also shows
  that the branch of `#acceptLateStop` that lets a late stop stand after the
  owner it joined has failed is never taken: a failed owner that was joined has
  always issued a later stop. `OrderlyStops` joins the two promises about stops.
* `CommandContractsProofs`, of `RunUsage`: for every number of tokens, a turn of the app-server is
  charged what it used once its updates are in, and a Claude run never more than
  it used. The invariant (`UoInv`, `UcInv`) says what each baseline is: that of
  a turn, once known, is what the thread had counted before the turn, up to the
  one update on its way, and while it is unknown nothing was charged; that of a
  Claude session is what the session had counted at the last boundary, so that
  the difference during a run is what was used since (`UcEpoch`).

* `CommandDispatcherProofs`: the invariants the two dispatcher runs check but
  `RefusalsSpareWork`, and their action property,
  for any commands and any number of runs, inputs and MCP commands. None of them
  is inductive. `DispatcherIndInv` says what each actor may rely on of the
  others while it awaits: an input is with one actor at a time and has a verdict
  once its task has settled; an input the backend had is with its task, or is
  over for the host, or the driver shuts down; the fence of a run stands from
  before the selection of its terminal to its end; what a stop waits for is all
  that is at work, and whatever replaces a task it waits for is waited for too,
  or fails the wait (`StopsWait`, the part that took longest to find); the input
  a cancellation found has a verdict, can no longer reach the backend, or is
  awaited. Most of the 43 actions only mark the work of the others (`Calm`), so
  that the lemmas say once what such a step keeps. `FailedWorkFailsRun` needs a
  second invariant on top of it (`FailuresKnown`): a run with failed MCP work is
  in `#mcpRunFailures` as long as it is driven, and once it is not, its input has
  its verdict; an MCP command at work is of the driven run or of a run that is
  over. The last part keeps a late failure from being booked on a run that could
  still be published otherwise. `SaysItsVerdict`, a part of `VerdictsAreFinal`,
  has an invariant of its own (`VerdictsAreKnown`): a place of the loop or of an
  MCP task that tells a verdict is reached only when the command has one, and
  what is known of a command never changes once it is a verdict (`Learns`).
* `CommandContractsProofs`, of `CommandDelivery`: for any number of commands, calls and attempts, the
  host sees nothing after a verdict but the verdict again and refusals, which
  are in no chain, so that nothing that is ordered waits for one. The order of the
  chain is the argument: an accept is queued before every finish of its command
  (`AcceptsSettle`, `FinishIsLast`), so a terminal is sent only after the accept
  has settled, and then its update was received or the chain is broken.
* `InstanceSocketProofs`: for any runs, events, batches and calls of
  `pushEvents`, `EnvelopesStand` and `HostLogStands`, the two properties of the
  socket's run, and that every step of the socket is a step of `TerminalState` or
  a stutter (`SocketDrivesMachine`). `SocketIInv` follows an event from the call
  to the host's log. The lane holds the deliveries under way and only its head has
  been sent; a message on the wire belongs to a push that still awaits it, and then
  it is the only one of that push, or to one that gave up. Among all
  that waits in the lane, is on the wire or in the log, a run has one terminal, the
  one selected as long as the run lasts (`TerminalIsOne`), and no event of the run
  is behind it in the lane, between lane and wire, or between wire and log
  (`EventsInOrder`): a step moves an event over one of these borders at most, so
  each part is what the next one needs. That an acknowledged terminal is in the
  log rests on both: the host knows an event by its id and run, and by
  `TerminalIsOne` what it knows under them is the very terminal.
* `CommandContractsProofs`, of `PermissionBroker`: for any number of requests and waits, no request
  stays open at the host unless somebody still owes its resolution. The
  invariant records that debt (`DebtIsRecorded`): a request whose call is over
  and of which something was sent is closed at the host or is a recorded
  failure. A wait that ends well has closed what it covers because the idle
  promise resolves only when no call is under way.
* `DriverKernelProofs`: for any inputs, pushes, calls of `stop` and attempts of
  the backend's stop, the three invariants the kernel's run checks:
  `NothingLeftPending`, `FailureIsTold` and `ReportedOutcomeIsPublished`. The
  argument begins with the status: whatever ends the loop or asks the backend
  to go down has made it one of a shutdown before, and such a status is for good
  (`ShutdownIsKnown`), so nothing is dispatched, begun or recorded once the
  events begin to close (`EndIsQuiet`). What was emitted of the current run is
  acknowledged, in the run while it lasts and as its last terminal afterwards
  (`EmittedIsAcked`), and the failure of the end is that run's
  (`FailureIsOfTheRun`): it is emitted only if nothing was. A stop that is
  waiting, wherever it waits, knows the attempt that will answer it
  (`StopIsTrue`, `AttemptsAreTrue`).
* `SessionStorageProofs`: `LeftAsPromised`, of the composition and of each of
  its four parts, for any number of generations, runs, creators, processes and
  pids, faults and crashes.
  `SkillCatalog`: the tree the process sees and the durable one each hold one
  transaction at most, and what it holds says how to end it
  (`TransactionIsClear`), a condition on one tree that every operation on the
  file system keeps; who is at a step of the commit or the recovery holds the
  lock, so the others find the tree as they left it (`OthersStand`). What makes
  it inductive is that nothing of a generation is on disk before it stages,
  also while it mends the transaction of another (`NothingEarly`).
  `SkCatalogIsKept`, a property of its steps, rests on a stronger invariant
  (`SkKeptInv`): every operation on the file system leaves the catalog that a
  recovery would end with (`KeepsCatalog`), except the marker of a commit; only
  the newest generation sets one, and it is newer than every catalog there is
  (`CatalogsAreOlder`), whole and durable by then (`WholeIsKept`). The durable
  tree lags behind by such a marker at most, of the newest generation, or of one
  that was told it failed (`MarkerLags`).
  `NativeCheckpoints`: a sealed bundle holds its run's turn, and while the
  cleanup may run the driver knows which bundle the host committed
  (`HostIsKnown`). `CheckpointRestore`: the renames recorded say where every tree
  is as long as each could be undone (`MovesAreTrue`), and after one that could
  not, where the old one is (`OldIsSomewhere`); once all are in, an error moves
  nothing any more. `ProcessTree`: a scan misses a
  process only if it was forked since the pids were listed
  (`ScanMissesForksOnly`), so an empty one without a fork is the truth, and
  remains it: what does not live does not fork (`EmptyIsTrue`).

Assumptions on constants are the named `ASSUME`s of each module, and the runs of
a module check them as well. Most say that a bound is a natural number or that a
null value is no value. Those that say more: `TerminalsAssumption` (no verdict
is called "none", "accepted" or "refused") and `BrokerBounds` (finitely many permission requests);
`DeliveriesAssumption` (a delivery succeeds or fails); `CommandsAssumption`,
that every command but a stop names its run and that the host begins a run with
one input, as the contract demands (`contract/command-validation.ts:260`):
without the latter the MCP commands of a run could not be told from those of
another drive of the same run; `KernelAssumption`, that a stop is not an input
and that a push has the status of a terminal; `PsAssumption`, that pids are
numbers and a tree has a root.

A bound in a guard (`MaxShutdowns`, `MaxRevision`, `MaxHeld` and the like) is a
constant of the theorem as well: it holds for every value of it.

What a proof found in the models: the operators `SelectionResult` and
`SettleInput` of `TerminalState` were written as CASEs with overlapping arms,
whose value the language leaves open; they follow the order of the conditions
in the code now. Two assumptions were missing (`CallsBound`,
`TerminalsAssumption`), and that of the dispatcher did not say which commands
name a run. The host's log in `InstanceSocket` was a sequence built with
`SelectSeq`, of which the provers know nothing for an arbitrary length; it is a
sequence of sets now, and `TerminalIsLastOfRun` says of it what it said before,
and also that no terminal is logged together with another event of its run.

Two properties were found to say too much. `FailureIsTold` said that a stop
which resolves found no failure: with a second `stop` after a rejected one that
is false (`stop()` returns at once when the status is "stopped", whatever
`#terminalCause` is), and the repository's tests accept it
(`tests/agent-driver-kernel-commands.test.ts:854`), so it is claimed of the first
stop; the run makes two now. `PsTreeIsGone` spoke of a driver that had died since
it was told: the count of empty scans, and with it the mark of an escape, begins
anew with the supervisor. It is claimed of a driver that lives, and then of the
supervisor. With three processes no tree escapes, so the run had not found it:
it has four now. `VerdictStands` and `VerdictsAreFinal` said that the
host hears one verdict of a command, which a refused replay contradicts, and
`RestoreIsWhole` that a restore which throws leaves the home as it found it,
which a failing removal contradicts: `reject` and that failure are in the models
now, and the properties say what holds with them.

Model-checked only: everything under fairness (TLAPS has no rules for it here),
the liveness half of `RefinesContract` included; the refinement of `EventLog` by
the publisher and of `BackendTurn` by the four backends; and the invariants of
the queue, the publisher, the backends, their items and the session's readers.
`QueueIsTrue` is beyond these provers: it speaks of folds over the buffered
values, whose lemmas need an induction over sequences.

## What is left out

Pure parsing and validation (`protocol/`, `runtime-command/`, schemas), the
translation of message contents by the providers, session negotiation and the
generated types of the app-server, process groups, sessions and platforms
without `/proc`, archive extraction and path admission of skills, the encoding
of checkpoint manifests, logging and diagnostics, the interfaces of
`host-ports/`, the byte budgets of permissions, MCP arguments and events, the
times, usage and capabilities in a session snapshot, the schemas of commands
and leases in `contract/`, agents and environments of the CMA store, the remote
MCP executor, and `ready`, `pushLogs` and `heartbeat` of the socket, which keep no state of
their own.

## Plan

1. The remote MCP executor behind `McpEffect`; the commands and leases of
   `contract/` once code uses them.
2. Theorems: `CallsAreServed` of the publisher; the step refinement of
   `BackendTurn` by `PiBackend`, the smallest of the four.
