# A TLA+ model of Symphlo's Local Runtime

Symphlo executes a linear Flow of Nodes (agents, models, tools, evaluations, Artifact publication) in one
local process and keeps the evidence of every Run in a SQLite database of its own. This directory models
the parts of it that are concurrent or durable: the life of a Run between the thread that executes it, the
HTTP threads that cancel it, the workspace that shuts down and starts again, and the commits that a crash
can fall between; inside a Node, its child process and the threads around it; the three files of saved tasks, Flows and Capabilities with the
requests that change them; how a saved Flow becomes a Run while it is edited; and what a client that polls a Run is
told while all this goes on. TLC checks the models on small instances; TLAPS proves the safety properties for every Flow, any number of Runs, any contents of the stores, any edits and any of the three process adapters.

Paths below are relative to the repository; `runtime.py` etc. stand for `src/symphlo/runtime.py`.

## 1. Inventory

| Part | State it keeps | Operations | Talks to |
|---|---|---|---|
| Run execution (`runtime.py`, `LocalRuntime`) | none of its own: locals `context`, `active_node_id` | `admit`, `execute`, `_finish_cancelled` | evidence store, executors, `CancellationToken` |
| Evidence store (`store.py`) | per Run directory a SQLite file: `flows`, `runs`, `node_runs`, `events`, `context_entries`, `artifacts`; each method is one transaction | start/finish/cancel/interrupt a Run, start/reuse/finish/reject a Node, record Context, events, Artifacts; `run_evidence` reads five tables | – |
| Local workspace (`workspace.py`) | `_active_run` slot under `_run_lock`; `workspace.json` under `_lock`; `mutation_lock`; one directory `run-NNNN` per Run with `app-run.json` | admit a Run, cancel, shutdown, reconcile at start; task CRUD; compile a Console Flow; readers | all of the above |
| HTTP API (`local_app.py`) | none | one thread per request; public and Console cancellation routes | workspace, Console |
| Console compatibility (`console_compat.py`) | `console-flows.json` under `_lock` | save, update, delete, import, run a saved Flow, fork | workspace |
| Capabilities (`capabilities.py`) | `capabilities.json` | CRUD, probe, fingerprint | workspace |
| Executors (`executors.py`, `capability_executors.py`, `opencode_adapter.py`) | `CancellationToken`; child processes; session and MCP connections | execute one Node, cancel, escalate TERM to KILL, time out | token, operating system |
| Integration bundles (`integration_bundles.py`) | none | install into three stores with rollback | capabilities, workspace, Console |
| Outcome, history, maintenance, comparison (`run_outcomes.py`, `run_history.py`, `maintenance.py`) | none | pure projections of evidence | workspace |
| Effect authorization (`effect_authorization.py`), contracts (`contracts.py`) | none | pure decisions and value objects | admission |
| Command line, doctor, demo, evidence page | none | entry points, reports | – |
| Web Console (`apps/web`), desktop shell (`apps/desktop`) | browser state; a child process | poll, edit, start and stop the Runtime | HTTP API |

**Where it is hard.** A Run has one writer thread, but its rows are also written by any HTTP thread
that cancels it, by `shutdown`, and by the next start of the process. Two locks order them:
`CancellationToken.transition_lock` (an RLock the worker holds for a *section*: start a Node, accept its
result, declare success, or finish after an exception) and `LocalWorkspace._run_lock` (held for a whole
admission, and to read or clear the slot). A section is many transactions, so a crash or a failing commit can cut it
anywhere. Each exception releases the lock before a handler takes it again.

**What makes each part correct.** A Run: its status follows a small automaton, terminal state is never
rewritten, Nodes are accepted in order and only while nobody has asked to stop, the journal ends with what
happened, whatever is left behind can be projected, and a visible Run ends. The workspace: at most one Run is
active, the slot always names it, a directory is used once. Catalog and Flow store: every saved Flow has its
task, no Capability in use disappears. Executors: a cancelled child is reaped, a late answer is dropped.
Bundles: all or nothing. `PROJECT.json` lists the hazards at their lines.

## 2. Modules

| Module | What it is |
|---|---|
| `RunStatus` | The abstract promise of a Run: status and accepted Nodes. One action per compare-and-set of `EvidenceStore`, and `Accept(n)` in Flow order. |
| `RunLifecycle` | The detailed model of one Run from admission to the release of the slot. |
| `MCRunLifecycle` | Instances of it for TLC (the symmetry of the clients); the `.cfg` files give the constants. |
| `RunLifecycleTypes` | Theorem `TypeCorrect` and the lemmas it rests on. |
| `RunLifecycleProofs` | The inductive invariant and the theorems drawn from it. |
| `RunEvidenceProofs` | What the tables of a Run say together, and how they move: a second invariant above the first. |
| `RunReports` | What readers make of evidence, as operators: `build_run_outcome`, the Console's steps, `build_run_comparison`, `build_stability_report`, and when each of them refuses. |
| `EvidenceReader` | `RunLifecycle` composed with a request that reads it table by table and a client that polls. |
| `MCEvidenceReader` | Instances of it for TLC: the histories that the Run may find. |
| `EvidenceReaderProofs` | The inductive invariant of the reader and its theorems. |
| `Workspace` | Several Runs over one slot: admission, numbered directories, forks, cancellation by id, tails of ended threads, crash and start. |
| `MCWorkspace` | Instances of it for TLC (the symmetry of the Runs). |
| `WorkspaceProofs` | Its inductive invariant and theorems. |
| `ChildProcess` | The child process of a Node, `CancellationToken`, `signal_process_tree`: what the process-backed adapters share. |
| `CommandCall`, `OpenCodeCall`, `McpCall` | One adapter each: `run_cancellable_process`, `invoke_opencode_server`, the MCP stdio session with its line reader. |
| `NodeProcess` | Their composition: one call, by whichever adapter, and one cancellation. |
| `NodeProcessProofs` | Its inductive invariant and theorems. |
| `Catalog` | `capabilities.json`, the tasks of `workspace.json` and `console-flows.json`: the requests that change them, the installation of bundles, failing accesses, crash and start. |
| `MCCatalog` | Instances of it for TLC: the drafts, the bundle, the symmetry. |
| `CatalogProofs` | Its inductive invariant and theorems. |
| `FlowAdmission` | From a saved Flow to a Run: the reads of a request, compilation, effect authorization, forks, and the conversations of session groups. |
| `MCFlowAdmission` | Instances of it for TLC: the Flows that authors save, the Capabilities, the symmetry. |
| `FlowAdmissionProofs` | Its inductive invariant and theorems. |

`RunStatus` is the seam: `RunLifecycle` implements it commit by commit, and every Run of `Workspace` implements it
section by section. `EvidenceReader` stands on both: its writer is `RunLifecycle` itself, every action of it, and that the Runs before it are over and stay as they are is what
`Workspace` shows (`OneActive`, `TerminalRunsImmutable`). So what `RunLifecycle` shows of the inside of a Run and what `Workspace` shows between Runs are about the same promise.

### `RunLifecycle` and the code

The grain is one SQLite transaction (or file operation) per step: it is what a crash cuts at and what other
threads can see. `worker` is the step the Run's thread takes next, and its values are named for the commit
they make:

| Steps of `worker` | Code | Lock held |
|---|---|---|
| `start_run` … `reused`, `metadata`, `thread` | `admit` and `_admit_run` | `_run_lock` |
| `next` | head of the loop: resolve the executor, then enter a section | none |
| `start_node`, `started` | the first section of a Node | `transition_lock` |
| `executing`, `result` | `executor.execute`, then the entry of the result section | none |
| `context` … `node_succeeded`, `reject_accepted` … `finish_failed`, `finish_succeeded` | the result section, its rejection branch and the final section | `transition_lock` |
| `cancelled`, `except` | an exception on its way to its handler | none |
| `cancel_nodes` … `finish_cancelled`, `fail_event`, `fail_finish` | `_finish_cancelled` and the general handler | `transition_lock` |
| `ended`, `clear`, `gone` | the `finally` of `_execute_admitted_run` | `_run_lock` for `clear` |

`status`, `nodes`, `context`, `artifacts` and `journal` are the tables; `metadata` says that `app-run.json`
exists (only then can a request or the next start find the Run); `token` and `slot` are in memory and die with
the process; `client[c]` is the step of one cancelling request through `do_POST` and `cancel_run`, `receipt[c]`
what it was answered; `shutdown` the step of `LocalWorkspace.shutdown`. `verdict` is what the executor
returned: it may answer at any time, also after it was cancelled, may reject if it is an evaluation, may
answer malformed, may raise. `OperationRaises` is any store or file operation that fails and commits nothing;
`Crash` ends the process anywhere; `Restart` is the next start with its reconciliation. `start` is the
fork point: `_fork_context` admits exact prefixes only, so a fork is a number.

Left out of it: payloads, hashes, time stamps, session facts (`executor.session.*` events carry no control),
the retry of `os.replace`, the unbounded waiting for a lock (a step with `LockFree` in its guard waits), and
`Shutdown` is taken at most once per process. The per-Node events of one `UPDATE` loop are one journal entry
about a set of Nodes. `run.effects_authorized` and `run.effects_evaluated` are one entry, `run.effects`.

### `Workspace` and the code

Here a section under `transition_lock` is one step, because `RunLifecycle` has shown what goes on inside it and no other
Run can see it. What the Runs share stays in detail: `_run_lock`, the slot, the directories, `app-run.json` and
the status rows.

| State | Code |
|---|---|
| `slot`, `token` | `_active_run` and its `CancellationToken`, lost with the process |
| `worker[r]` | the next step of the admission of `r` (`check` … `thread`, under `_run_lock`), then of its thread (`run`, `ended`, `clear`) |
| `made`, `place[r]` | the directories `run-NNNN`, and the one of `r` |
| `index[d]` | the Run that `app-run.json` of directory `d` names: only these are seen by `_find_run`, `_assert_no_active_run` and the reconciliation |
| `status`, `accepted` | the row of `runs`, and how many Nodes are accepted or reused |
| `parent`, `reused` | what `fork_console_run` read before it asks for its admission |
| `up`, `unread` | the process, and the directories a start has still to reconcile |

An admission is eight steps: the slot is checked (`CheckSlot`, which also drops a slot whose Run has ended), then every listed Run
(`CheckRuns`); the directory is made (`MakeDirectory`); the grant is checked (`Denied` leaves the directory without a Run),
the row inserted (`StartRun`), the reused Nodes copied (`ReuseNode`), `app-run.json` written and the thread
started, which takes the slot. `OperationRaises` abandons it anywhere, so orphaned directories and
rows without a listing happen. A terminal Run frees the slot for the next admission *before* its own thread has passed
`finally`: `RewriteMetadata` and `ClearSlot` of the earlier Run interleave with the later one.

`FindRun` merges the search for the Run with the reading of the slot under `_run_lock`; a listed Run stays
listed, so nothing is hidden by that. `shutdown` is left to `RunLifecycle`: a process that shuts down admits nothing after it.
`LastNumber` stands for 9999, the last number the glob of `_next_run_sequence` matches.
`SharedSpec` adds the start of another process on the same state root.

### `NodeProcess` and the code

`RunLifecycle` lets an executor answer, raise or be cancelled at any time; `NodeProcess` opens that box for the executors that
have a process. Three threads act: the one in `execute` (`worker`, its values name the statements it is at), the one in
`CancellationToken.request` (`canceller`), which runs the callback that the call has registered, and for MCP the
thread of `_McpLineReader` (`reader`). The process (`child`) is live, exited, or reaped by a `poll` or `wait`.

A call is `Check`, `Spawn`, `Register` and then its adapter's own steps:

| Adapter | Steps | Its `finally` |
|---|---|---|
| `command` | the polling loop: `CommandPoll`, one `Turn...` per branch, `CommandOverdue`, `CommandExited` | `CommandFinally`, `CommandKill` |
| `opencode` | `OpenCodeReady`, `OpenCodeConfigure`, `OpenCodeSession`, `OpenCodeEntered`, `OpenCodeMessage`, `OpenCodeAnswered` | `OpenCodeFinally`, `OpenCodeDelete`, `OpenCodeStop`, `OpenCodeWait`, `OpenCodeLeave` |
| `mcp` | `McpSends`, `McpAwaits`, `McpAnswered`, each for `initialize` and for the call | `McpFinally`, `CloseStdin`, `CloseWait`, `CloseStdout` |

Time is abstracted to two facts: a second has passed since the process was asked to end (`started`), and the deadline has
passed (`late`). A bounded `wait` may end early or late: both outcomes are steps. `lines` is the bounded queue; a line is
what `_mcp_request` makes of it. Requests and answers have no content.

Left out: Windows, descendants of the process, the reuse of process ids, the limit on the bytes read, what each adapter parses
from an output. A call without a token is one that is never cancelled.

### `Catalog` and the code

Each of the three files has its lock and is replaced atomically, so a step is one access to one file. A request that needs more than one
holds `mutation_lock` from its first step to its last (`owner`); `at[c]` is its next access and `local[c]` its local variables.

| State | Code |
|---|---|
| `capabilities[x]` | the entry of `capabilities.json`: who owns it, and its fingerprint. `discovered` counts as `manual`: no operation tells them apart |
| `tasks[t]` | the task of `workspace.json`: the name it has is that of the Flow it was last given, or its own |
| `flows[t]` | the Flow of `console-flows.json` under a task id: its portable id and its pins. `NoFlow` is a missing entry |
| `used` | the ids `uuid4` has drawn |
| `starting` | the samples that `LocalAppServer.__init__` has still to install |

| Request | Steps |
|---|---|
| save, delete a Capability | `SaveCapability`; `DeleteCapability` (the references), `Remove` |
| probe | `Probe`, `UpdateProbe`, without `mutation_lock` in between |
| create a task | `CreateTask` |
| save a Flow | `SaveFlow` (the pins), `Create`, `PutOverride`, `GetSaved`; `Undo` when the second fails |
| update, delete a Flow | `UpdateFlow`, `Update`, `PutOverride`, `GetSaved`; `DeleteFlow`, `Delete`, `Pop` |
| install a bundle | `Install` (the plan, computed again under the lock), `InstallCapability`, `InstallFlow` with the steps of a save, `Installed`; on an exception `RollbackFlow` with the steps of a deletion, `RollbackCapability`, `RolledBack` |

`Fails` is an access that raises, and where the exception goes from there. `Shown` is what a reader is given for a task: its Flow with the pins of samples refreshed,
or a Flow that is computed (`Golden` for the seeded task). The confirmation phrase and the hash of an installation are functions of the
bundle and add nothing to the plan being computed again. Titles, topics, layout and validation of a Flow are left out, and portable ids of
computed Flows are none that a bundle brings (it would be refused).

### `FlowAdmission` and the code

A request for a Run holds no lock until `_admit_run`: it reads the task, the saved Flows and the task again, each in a file of its own, while
an author holds `mutation_lock` and writes the same two files one after the other. So a step is one read of a file, one write of the author, or the
whole of `_run_lock` (`Workspace` and `RunLifecycle` have its steps). Inside a Run a step is a whole Node.

| State | Code |
|---|---|
| `tasks`, `flows`, `author` | the row of a task, the Flow saved for it, and the second write of a save, an update or a deletion |
| `at[c]`, `local[c]` | what the request of a client does next, and its local variables |
| `confirmed` | the challenges that users have confirmed; a client may send any of them with any request |
| `runs[r]` | what `app-run.json` and the store record of a Run: the compiled Flow, input, executor, parent, the fork's Node, how far it is, its session evidence |
| `bound[r]` | `_sessions` of the executors of that Run's registry, one object per executor |

| Request | Steps |
|---|---|
| Run of a saved Flow | `RequestRun`, `GetTask`, `GetOverride`, `CompileRun` |
| Run by portable id | `RequestPortableRun`, `ListFlows`, `MatchPortable`, then as above |
| fork | `RequestFork`, `GetTask`, `GetOverride`, `CompileFork` |
| each of them | `Admit`, or `AnswerChallenge` (428) and then `Confirm` or `Decline` by the user, or `RefuseAdmission` |

`Compiles` is `_compile_console_flow` with the checks of `NodeDefinition` and `FlowDefinition`, `Definition` its result; the hashes (`semantic_hash`, `authorization_id`)
are what they are computed from. `run_flow` is a save followed by a request for the task it saved, and `run_task` of the public API has Flows nobody edits: neither is a request of its own.
Capabilities are constant here: `PinsResolve` of `Catalog` shows that what a saved Flow names does not change.

### `EvidenceReader` and the code

`EvidenceStore.run_evidence` sends five SELECTs over one connection but not in one transaction, and takes neither `transition_lock` nor `_run_lock`. So each SELECT
is a step, and any commits of `RunLifecycle` fall between two of them.

| State | Code |
|---|---|
| `reader`, `view` | the SELECT that comes next (`idle` before `_find_run`, `answer` after the last), and the rows that were fetched |
| `given[n]`, `answer[n]` | the columns of `node_runs` that `start_node` and `finish_node`, `reject_node` write; a reused row has its parent's (`ReuseRow`) |
| `earlier`, `parent` | the evidence of the Runs before this one, and which of them it was forked from |
| `shown` | the outcome the client was last answered with |

`ReadRun` is `_find_run`, which needs `app-run.json`, and the row of the Run; `ReadNodes`, `ReadEvents` (the events a projection looks at) and `ReadArtifacts` follow in the order of the code.
`Answer` projects what was read with the operators of `RunReports`; `Inconsistent`, `Incomparable` and `Unpoolable` are the conditions under which the code raises, which the
HTTP API answers as an error. The comparison and the stability report read the later Run with the same five SELECTs and the others from rows that no longer change, so they are
evaluated on `view` and `earlier` at `answer`, as properties. A crash ends the request; the client polls again after the next start.

Left out: `context_entries` (read between the events and the rest, and shown as they are), names, types, hashes, sizes and URLs, durations, the second reading of a Run by the HTML page.

## 3. Runs

| Run | Instance | Question |
|---|---|---|
| `lifecycle` | 3 Nodes: Artifact, evaluation, Artifact; every fork point; 2 requests; 1 failing operation; crashes unbounded | All safety properties and the refinement of `RunStatus` |
| `lifecycle_live` | 2 Nodes, one Artifact; 2 requests; no failing operation; crashes unbounded | A visible Run ends, the slot is released |
| `lost_node` (violation) | 2 Artifact Nodes, 1 request | "`running -> cancel_requested -> cancelled`" |
| `evidence_reader` | 2 Nodes, the first with an Artifact, the second an evaluation; fresh and forked; a shutdown, 1 failing operation, crashes unbounded; histories of no or two earlier Runs | What a request that reads between the commits tells a client that polls, compares and asks for the stability |
| `workspace` | 3 Runs of 2 Nodes and their forks, 3 numbers, 1 client, 1 failing operation; crashes unbounded | What Runs may do to each other: one active Run, slot, directories, history, forks; each Run keeps `RunStatus` |
| `two_processes` (violation) | 1 Run, `SharedSpec` | "A terminal Run is immutable." |
| `node_process` | the three adapters, a queue of 2 lines | A call returns, leaves no process, loses no cancellation |
| `mcp_reaped` (violation) | the MCP adapter | "terminated and reaped before the Run becomes `cancelled`" |
| `catalog` | 2 clients, 3 tasks, a sample and a Capability of the client, a bundle of one Capability and two Flows, 1 failing access; crashes unbounded | Do the three files agree, and does an installation keep its promises |
| `catalog_shown` (violation) | 1 client, no failing access | "A saved Flow that references a Capability prevents its deletion." |
| `admission` | 1 client, 1 task with 2 goals, 3 Flows (a session group of two Nodes, a write, and the computed one), 3 Runs, 2 confirmed challenges | May a Run write what nobody confirmed, is a fork one of its parent, do the turns of a group continue |
| `session_group` (violation) | a Flow whose group has two Capabilities, one that does not compile, 1 Run | "used the same opaque external conversation" |

**Bounds.** Three Nodes are the least Flow with a first Node, an evaluation that has a Node before and one
after it, and two Artifact Nodes, so that the second `mkdir` fails. Two requests are the least that race each other as well as the worker.
One failing operation (`MaxFaults`) can hit any commit of any path; the handlers are then themselves hit by
crashes. Crashes need no bound because nothing of the process survives one. The journal is
bounded by the program: no step is taken twice for a Node.

In `EvidenceReader` two Nodes are the least Flow with an Artifact, an evaluation that may be rejected and a fork that reuses something. There are no cancelling requests: what they write a shutdown
writes as well (`cancel_requested` beside a running Node, and the thread's way out), and the theorems are about any number of them. The histories have a Run of another Flow, one that succeeded,
one that failed and may be the parent, and one that is itself a fork and must not be pooled; together with the Run that is read a pool has none, one or two members. Two outputs
let an answer differ from the earlier one.

In `Workspace` three Runs are a thread that is in its tail, a later Run that executes and a third that asks for its admission.
Every Run is one admission request, so each reaches `gone` once and the model is finite. Two Nodes give a fork a prefix of none or one, and
its parent one that is too short. The theorems then hold for any number of Runs and Nodes.

In `NodeProcess` one call and one request are all that share a token at a time: the Nodes of a Flow run one after the other, and every request but the
first returns at once. A queue of two lines is full, half full and empty, which is what `put` and `get` distinguish.

In `Catalog` the bundle brings a Capability that one of its Flows uses, and a second Flow that uses a sample: an installation can fail before, between and after
them, and either Capability, either Flow, or all of it may be there before. Two new tasks are the least for two Flows; the seeded task is the third. Two fingerprints make a conflict.
One failing access is enough to fail any step, and a second would be one in a rollback, after which nothing is promised; a second client
is enough for every race with the holder of the lock.

In `FlowAdmission` the requests of clients meet only in `_run_lock` and in the stores, so that one client against the author has every race of the reads; the Runs that other clients
would start are those of its own earlier requests. Three Runs are a parent, its fork and a fork of that, or a fork and a Run of the changed Flow. Two confirmed challenges are those of a Run that writes and of its fork, and either may be sent for
something else. Two Nodes in the group let a fork enter at its first Node and ask for its second; the computed Flow can be entered after an accepted Node. `admission` and `session_group` have no deadlock check: Run ids are drawn once, and when they are used up the model stops.

**What they show.** The full safety instance holds: in particular a request that is answered
`accepted=true` is never followed by success (`AcceptedNeverSucceeds`), nothing is accepted after the
cancellation is durable whatever the executor answers (`NothingAcceptedLate`), a terminal Run is not
rewritten by its thread, a late cancellation or an interruption (`TerminalImmutable`), the
journal of a terminal Run ends with its event even if the process died between `run.succeeded` and
`finish_run` (`JournalEndsWithStatus`), and nothing runs or is published after a rejected evaluation (`RejectionStops`).
That what is left can always be projected is shown by the stronger `NeverRefused` of `evidence_reader`, which need not even be read at one moment.
Each property has a mutant in `RunLifecycle` (an operator commented `Mutant:` before the definition it
stands for) that breaks it.

`lost_node` is a defect. The Runtime creates the Artifact directory of a Run with `exist_ok=False`, so a second
Artifact Node always fails, after its row is `succeeded`. The Run then normally ends as `failed`; but if a
cancellation takes `transition_lock` between the failed section and the handler, the handler finds a
cancelled Run whose active Node is not running, raises, and the Run stays `cancel_requested`
without a thread. `lifecycle_live` therefore has one Artifact Node, and its result `RunSettles` is about such Flows.

`evidence_reader` holds because of one decision in the code, the order of the SELECTs. The Run's row is read first, so a terminal status says that everything read after it is final, and
`build_run_outcome` never meets a success with a Node missing (`NeverRefused`; its mutant reads that row last). The Artifacts are read last, so that one which was announced is listed
(`EventsAgree`). What the order does not give is a view of one moment: an outcome may list the Artifact of a Node that it still shows as running, and show `EVALUATION_REJECTED` at one. `EventsAgree` says
how far that can go: the Artifact can be served, the Node has failed for good, nothing after it is shown. A client that stops polling at a terminal status has the Run as it stays (`ShownIsFinal`), and
no poll takes anything back, across crashes too (`PollsAdvance`). A fork can be compared with its parent at once and the first difference is never before its fork point (`ForkDivergesNoEarlier`); the stability
report means what it says about whatever Runs it pools (`StabilityAsSpecified`). No liveness is claimed for a reader: nobody need poll.

A divergence that is modelled but that no run is spent on: PROJECT_SPEC.md:599-602 says that only a real transition returns `accepted=true`. The route computes `accepted` from the outcomes before and
after (`Reply` of `RunLifecycle`), so two requests that race may both be told that theirs was accepted.

The `workspace` run holds: whatever was refused, denied, failed or interrupted, no two listed Runs are active (`OneActive`); a thread that executes is the one
the slot names and its Run is active (`ExecutingInSlot`), so a cancellation asks it instead of declaring it dead; a directory is never
used twice; and the tail of an earlier thread disturbs neither the slot nor the history of a later Run. Of a row without
a listing it shows that it harms nobody, not that it is ever ended.

`two_processes`: nothing keeps a second process off a state root. `create_local_app` constructs the workspace, and so reconciles, before it binds the
port: even a start that fails for a port in use marks the live Run of the first process as failed, while its thread goes on
accepting Nodes and recording events. With one process a terminal Run is immutable in `Workspace`, which is the theorem `TerminalRunsImmutable`.

Directories are numbered with `{sequence:04d}` but the latest is searched with a glob of four
digits. From 10000 on every Run is put into the same directory; its `app-run.json` is replaced and the earlier Run vanishes from the history.
`HistoryKept` and `DirectoryUsedOnce` hold as long as the numbers last, which is the bound of the run and the hypothesis of the theorems.

`node_process`: a cancelled or overdue call ends even if its process ignores SIGTERM (`EveryCallReturns`), a request
that races the registration of the callback still reaches the process (`CancellationNotLost`), and the thread that reads lines ends, also behind a full queue (`ReaderEnds`).
Three exceptions are named in the properties because the code has them. `Sending`: a write to an MCP server that does not read its input has no deadline.
`unsent`: see `mcp_reaped`. `garbled`: an answer to the abort or delete request of OpenCode that is not UTF-8 (`UnicodeDecodeError`), or not HTTP (`HTTPException`),
passes the `except RuntimeError` around it, and the signal, or the stop in `finally`, is skipped.

`mcp_reaped`: `_mcp_send` to a server that has closed its input raises `BrokenPipeError` and leaves the data in the stream's buffer; `_close_process` then closes the stream
outside its `try`, which flushes and raises again, so the server is neither waited for nor signalled.

`catalog` holds: a Capability named by `console-flows.json` is never gone or different (`PinsResolve`), not even after a crash or a failed rollback, because Capabilities are
written first and removed last; a probe that ends late brings nothing back (`FingerprintsImmutable`); a receipt describes what is there (`ReceiptHolds`); an installation touches nothing it
has not made (`InstallKeepsOthers`), and after a failure leaves nothing of it (`RollbackComplete`). Two exceptions are named in the properties because the code has them. `torn`: a crash,
or a failure that is not undone, falls between two files; README.md calls the rollback "request-level", so this is by design. `missed`: `save` raises after the Flow was saved
(its last read fails) or without having undone its task, so the installation never learns the task id. The Flow stays, and the Capability it uses with it.

`catalog_shown`: the guard of `delete_capability` reads `console-flows.json`, but the Flow of the seeded task is computed and names the session fixture sample. Once that sample is deleted
`list_saved` raises `KeyError` for every client until the next start. If a manual Capability is saved under the id of the sample meanwhile, that start fails: `InstallSample` is blocked.

`admission` holds: whatever is edited between a challenge and the retry, or between the reads of one request, a Run writes only what was confirmed for its very Flow, input, parent and fork point (`WritesConfirmed`);
a fork has its parent's Flow and input, although it reads the Flow anew (`ForkRepeatsParent`); and no fork enters a session group whose conversation it cannot know (`TurnsContinue`).
It does not say that a confirmation is used once, or that it was given to this client: one authorization admits any number of Runs of the same scope, which is what the code does.
Nor that a Run by portable id runs a Flow with this id: the id is resolved first and the Flow read again, and an update in between is not noticed.

`session_group`: compilation looks at each grouped Node alone. With two session-capable Capabilities in a group each binds a conversation of its own, both Nodes are accepted, and afterwards
`_project_run` refuses the evidence: the Console can list no Run any more.

**Fairness** (`FairSpec` of `RunLifecycle`): weak fairness of the Run's thread, of each request that was sent, of a shutdown that
began and of the next start. The threads are operating-system threads of a
running process; executors are bounded by their timeouts, which is why `ExecutorReturns` or `ExecutorRaises`
eventually happens. Nothing is assumed of users (no request need be sent), of faults or of crashes.
A step that waits for `transition_lock` is weakly fair only because each request takes it once: a waiter
is overtaken finitely often.

`FairSpec` of `NodeProcess`: the call's thread, the callback and the reader run on, time passes, and a stream ends when its writer is gone. Each HTTP request ends
because it has a timeout (a server that sends a byte at a time could stretch it; that is not modelled). SIGKILL is taken to end a process within the second that
the code waits for it, and a signal to one's own process to be allowed, except once in the polling loop (`TurnRaises`), which is what its `finally` is for. Of the process
nothing is assumed: it need not read, write, exit or listen to SIGTERM. `node_process` has no deadlock check: a call that has returned, or one that writes to a server that does not read, stops.

## 4. Proofs

TLAPS proves, from `LifecycleAssumption` alone (any number of Nodes, any set of requests, any placement of
evaluation and Artifact Nodes that an evaluation does not open the Flow, any bound on failures):

* `TypeCorrect`: the type invariant. It needs `CursorInFlow` (a step inside a section is at a Node of the Flow).
* `Invariance`: the inductive invariant `Inv == Typed /\ Control /\ Progress`.
  * `Control` says who may be where: `Exclusive` (one holder of `transition_lock`), `Admitting` (during
    an admission nobody else knows the slot and nothing interrupts the Run), `Owned` (a worker that is past its
    admission has the slot, so no request takes the Run for a dead one), `StatusKnown` (which statuses each step can see).
  * `Progress` says how far the evidence is at each step: rows form a prefix, at most one runs and it is the
    cursor's, the event that announces a terminal status is the last entry, Context is as long as the step implies.
  Neither is invariant without the other: that `finish_run` finds the status it expects follows from
  who holds the lock, and what the journal ends with follows from the status.
* From it: `NodesSettled`, `JournalEnds`, `ContextInOrder`, `TerminalNeverRewritten`,
  `CancelledAcceptsNothing`, `AcceptedStaysAccepted`, and `KeepsPromise`, the refinement
  `Spec => ImplementsRunStatus`.

* `RunConcludes`: whenever the thread of a visible Run has left `_execute_admitted_run`, the Run is over, unless an operation raised (`faults > 0`) or the Run is the one of `lost_node`. It needs
  `Unbroken`, which says, while nothing has raised, that the Artifact directory is the work of an Artifact Node at or before the cursor (`DirectoryKnown`) and that `active_node_id` names a Node the handlers will
  find running (`ActiveKnown`); that is what `_finish_cancelled` and the failure handler ask before they finish the Run. `SoundRunIsOver` is its consequence for Flows with one Artifact and no failing
  operation: the theorem that the violation in `lost_node` is the counterpart of.
* `ThreadRunsDown`: every step of the thread, one that raises included, makes `StepsLeft` smaller, a natural number that nobody else increases, so that a thread takes at most about 33 steps for each Node and for what surrounds them.

* `SlotIsOfThread`: the slot is taken exactly while the thread executes the Run or is in its `finally` (`SlotFollowsThread`), except that the rewrite of `app-run.json` may raise before `finally` reaches the slot. With `ThreadRunsDown`
  it is the safety half of `SlotReleased`: the slot is freed by the last of a bounded number of steps.

`RunConcludes` and `ThreadRunsDown` are the safety halves of `RunSettles`, for every Flow length: the thread cannot go on for ever, and where it stops the Run is over. The third part, that a
step is always enabled and so taken under the fairness of `FairSpec`, is about ENABLED and stays with TLC, which also checks the whole of `RunSettles` on `lifecycle_live`.

Each preservation proof has one lemma or step per action.

Above `Inv`, `RunEvidenceProofs` proves what the tables say together:

* `EvidenceAgrees`: the inductive invariant `EvidenceInv`. `RowsInOrder`: a row follows an accepted one, and at which steps the current Node has its row. `Seeded`: a fork has reused its whole prefix before it can be
  found, and executes the rest. `Published`: an Artifact belongs to a Node that succeeded and its file exists. `RejectedOnce`: a rejection is of one evaluation Node that failed, and the thread is on its way out.
  `AnnouncedLate`: the event of an Artifact follows its row. `Complete`: a Run that succeeded accepted every Node.
* `RejectionIsFinal`, the action property `RejectionStops`.
* `Advances`: what one step can do to what a reader has read. Rows go from absent to running to an end; from `cancel_requested` on no Node is accepted and no Artifact listed; what is terminal stays.

`EvidenceReaderProofs` proves, for every Flow length, any requests and faults and any earlier Runs (`ReaderAssumption`: they are what a Run leaves behind):

* `ReaderKeepsRun`: the composition keeps both invariants of the Run, because a reader writes nothing.
* `ReaderInvariance`: the inductive invariant of the reader. `Behind` says, for each SELECT, what of the view is still true of the tables: a row that was read as ended is as it was, one read as running has
  moved to an end at most, and after a terminal status everything is equal. `Remembered` says the same of the last answer, and what every view under way must still repeat of it. `Forked` ties reused rows to the parent's.
  None of the properties is inductive: each relates values that were read at different moments, and what relates these is only how the tables can move in between (`Advances`).
* From it all seven properties of the run: `ReaderTypes`, `PollsAnswered`, `TerminalOutcomeIsFinal`, `EventsAgreeWithRows`, `ForkFirstDiverges`, `StabilityMeansWhatItSays` (finite pools of any size, by the cardinality
  theorems) and `PollsOnlyAdvance`.
* `HistoryStaysReal` discharges that assumption: the evidence of a Run that is over is complete and consistent, whatever happened to it, so that the earlier Runs followed by this one are again a history that `ReaderAssumption`
  allows. It needs one more conjunct of the invariant, `Written`: a row that exists has its input, and an accepted one its output. By induction over Runs, which is left to the reader, the
  theorems about the reader hold of every Run of a workspace and not of the first alone.

For `Workspace` TLAPS proves, from `WorkspaceAssumption` (any set of Runs and clients, any number of Nodes and bound on failures)
and under the hypothesis `[](NextRunSequence <= LastNumber)` that the directory numbers last:

* `WorkspaceInvariance`: the inductive invariant `Inv`. `Directories` and `Listing` say which Run has a directory
  and an `app-run.json` at each of its steps; `Locking` that past its checks an admission faces an empty slot and no active
  listed Run; `Executing` what a thread knows of its row and token; `Requests` that what a cancellation read of the slot still decides when it acts; `Stopped`
  and `Reading` that a start has the state root to itself. `OneActive` alone is not inductive: an admission makes its Run active long
  after it looked, and only `Locking` says that nothing has happened since.
* `FreshNumber`: the next number is above every four-digit one, from the existence of a maximum (`Greatest`, by well-founded induction).
* From them `WorkspaceTypes`, `OneRunAtATime`, `ExecutionHasSlot`, `DirectoryOfOneRun`, `TerminalRunsImmutable`, `HistoryIsKept`,
  `ForksAreSeeded` and `RunsImplementRunStatus`, the refinement of `RunStatus` by each Run.
* `ExecutionDecidesItself`: of a Run that its thread executes the status changes in two ways only. The thread ends it; or a cancellation that found it in the slot makes it `cancel_requested` and sets its token in the same step.
  No interruption and no reconciliation reaches it (`Requests`, `Stopped`), which is what the executors' polling of the token relies on.
* `ActiveRunsAttended`: a workspace that serves lists no active Run without a thread (`Attended`), as long as no operation has raised; with a failing operation TLC finds one. `Attended` is not inductive: `Attention` adds that a start
  has still to read every listed Run that is active, and that a thread comes to its `finally` with its Run over.

For `Catalog` TLAPS proves, from `CatalogAssumption` (any clients, Capabilities, samples, tasks, drafts and bundles, any number of failing accesses):

* `CatalogTyped`, and `CatalogInvariance`: the inductive invariant `Inv`. Its heart is `Good(c)`: a client inside a request holds `mutation_lock`, no
  start is under way, and what it knows is still true: the pins it is about to write resolve (`InFlight`), the Capability it is about to remove is named by no Flow (`Removal`),
  what it has to install is not there (`Planning`), its task is as the last step left it (`Pending`), and neither that task nor those it made were there before its installation (`Own`).
  `PinsResolve` alone is not inductive: a request reads the catalog when it starts and writes the Flow two files later.
* From it: `SavedPinsResolve`, `SavedStoresAgree`, `ManualFingerprintsKept` and `InstallationKeepsOthers`.
* `RequestsRunDown`: each step of a request, a failing one included, makes `StepsLeft(c)` smaller, a natural number that nobody else makes larger, and `mutation_lock` is held by a client inside such a request only. An installation counts, besides
  its step (`Place`), eight for each Flow that it has still to save, three for each it can still take back, two and one for Capabilities; so no branch of the rollback starts anything over. It assumes that a bundle is finite (`FiniteBundles`), of the catalog
  nothing. That the next step is always taken is not proved: a file operation may block, and nothing in the code bounds it.
* `OnlyGoldenLosesItsOwn`: what `catalog_shown` refutes is true while the session fixture is listed, so that the computed Flow of the seeded task is the only one that can be shown without its Capability.

Above `Inv`, the invariant `Books` (`InstallationBooked`) follows one installation entry by entry. `Ledger` says of the plan: what is still to do is not there, what is done is shown by a single
task with the pins of the bundle, and between the two files the one Flow under way belongs to neither. It needs that a bundle names a Flow id once, which `_parse_bundle` demands
(`integration_bundles.py:291-293`, a conjunct of `CatalogAssumption`): otherwise the second Flow of an id would match the task of the first. `Traced` says that what is there now is what was there before plus what the installation has made,
unless an error was recorded or a Flow was lost sight of. From it: `ReceiptsHold` and `RollbacksComplete`, the properties `ReceiptHolds` and `RollbackComplete`.

For `FlowAdmission` TLAPS proves, from `AdmissionAssumption` and `RecordsAssumption` (any Flows that authors may save, any Capabilities, clients, inputs and confirmations):

* `AdmissionInvariance`: the inductive invariant `Inv == Typed /\ Sealed /\ Sound`. `Sealed` says of every Run that its Flow was compiled (`Placed`), its challenge was empty or confirmed
  (`Consented`), and that it is a fork of what it names (`Repeats`); `Sound` what of a request's reads is still so at its step, in particular that the parent of a fork is terminal and as it was read,
  which no step of any thread can undo. `CompiledShape` is what compilation guarantees of a Flow.
* From it: `AdmissionTypes`, `NoUnconfirmedWrite`, `ForksRepeatTheirParent`.
* `ConversationsContinue`, the property `TurnsContinue`, from an invariant of its own, `Conversed`: the conversations that a Run's executors hold are exactly those its turns say; the turns agree among each other on which conversation it is and whether there was one (`Agreeing`); and no group lies on both sides
  of a fork point (`WholeGroups`). The fork check alone does not give it: that a Node finds the conversation of its group also needs that compilation keeps groups together.
* `BoundGroupsConverse`: what `session_group` refutes, `OneConversation`, is true of Flows in which the steps of a group name one Capability (`GroupsBindOnce`), whatever the adapters answer. So the check that
  `_compile_console_flow` lacks is this one, and it would be enough.

For `NodeProcess` TLAPS proves, from `NodeProcessAssumption` (any of the three adapters, any capacity of the line queue):

* `CallInvariance`: the inductive invariant `Inv == TypeOK /\ Placed /\ Processes /\ Signals`. `Placed` says at which steps the thread of each adapter can be; `Processes` at which of them the child is not started, there, or reaped,
  and that only the two named cases end with it unreaped; `Signals` what a request has done to a callback that was registered before it, or what a registration finds of a request that came first.
* From it: `CallTypes` (with the bound of the queue), `ProcessesReaped`, the property `ReapedWhenReturned`, and `CancellationsArrive`, the property `CancellationNotLost`.
* `CallsKeepContract`: what `RunLifecycle` takes for granted of an executor. A call that ends as cancelled was cancelled (the guard of `ExecutorCancelled`), and one that leaves its process behind ends with an error: a result, a cancellation
  and a timeout never do. It needs an invariant of its own, `Account`, on the verdict that a call carries through its `finally`.
* `CommandsReapedBeforeCancelled`: where every adapter is a command, `ReapedBeforeCancelled` holds, which `mcp_reaped` refutes of MCP.
* `EndingCallsRunDown`: from its cancellation, its deadline or its `finally` on, a call is `Ending` and stays so, and each step of its thread makes `CallLeft` smaller, which is at most 20 and which neither the process nor the server,
  the callback, the clock or the reader makes larger. The one exception is the poll of a command in the second between SIGTERM and SIGKILL (`InGrace`). This is the safety half of `EveryCallReturns`.

* `ReadersRunDown`: after the `finally` of its session the reader is told to stop before the process is closed (`ReaderRunsDown`); it does not wait for room in a queue nobody reads any more, and takes at most two more steps. It needs `Reading`: only a session has a
  reader, from its registration on. This is the safety half of `ReaderEnds`.

What is left of `EveryCallReturns`, `ReaderEnds`, `RunSettles` and `SlotReleased` is that an enabled step is taken under the fairness assumed: it is about ENABLED, and stays with TLC.

## 5. Plan

All modules of the table are done, with their proofs. What could be added, in order of what it would say:

1. the query, order and limit of the history, and the counts and executors of a stability entry, in `RunReports`;
2. `node_process` on Windows: `taskkill` and `CTRL_BREAK_EVENT` in `signal_process_tree`;
3. a second process on the same state root for `Catalog`, as `two_processes` has it for `Workspace`.

## 6. Not modelled

* The web client and the desktop shell: no durable state; the desktop's effect on the Runtime is `Crash` and `Shutdown`.
* The command line, doctor and demo: no concurrency, no state.
* The HTML of the evidence page; what its data is read from is in `EvidenceReader`.
* Of the history its query, order and limit; of a stability entry its counts and executors: projections of one read.
* Of the adapters what they parse from an answer, and the Windows branches; the HTTP executor is one request with a timeout.
* Discovery and probing of Capabilities, except that a probe ends late.
* SQLite itself: a transaction is atomic and durable. File replacement is taken to be atomic, as `os.replace` is.
