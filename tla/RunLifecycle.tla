---------------------------- MODULE RunLifecycle ----------------------------
(***************************************************************************)
(* One Run of a linear Flow, from its admission to the release of the      *)
(* workspace's run slot.                                                   *)
(*                                                                         *)
(* Four kinds of actor touch it: the thread that admits and executes it    *)
(* (LocalRuntime.admit, execute and _execute_admitted_run; `worker` is the *)
(* step it takes next), HTTP threads that cancel it (`client`), the        *)
(* workspace's shutdown, and the process itself, which may die between any *)
(* two commits and be started again.  Each SQLite transaction is one step: *)
(* that is the grain at which a crash cuts and at which readers look.      *)
(*                                                                         *)
(* Two locks order them.  `transition_lock` of the Run's CancellationToken *)
(* is held by whoever is inside one of its sections (LockFree); the        *)
(* workspace's `_run_lock` is held for the whole admission (RunLockFree).  *)
(***************************************************************************)
EXTENDS Naturals, Sequences

CONSTANTS
  N,              \* the number of Nodes of the Flow
  EvaluationNodes,\* the evaluation.task Nodes
  ArtifactNodes,  \* the Nodes whose executor publishes an Artifact
  Clients,        \* HTTP requests that may cancel the Run
  MaxFaults       \* bound: store or file operations that raise

Nodes == 1..N

ASSUME LifecycleAssumption ==
  /\ N \in Nat \ {0}
  /\ EvaluationNodes \subseteq 2..N    \* an evaluation consumes an earlier Node
  /\ ArtifactNodes \subseteq Nodes
  /\ EvaluationNodes \cap ArtifactNodes = {}
  /\ MaxFaults \in Nat

VARIABLES
  up,         \* the Local Runtime process is running
  start,      \* 0 for a fresh Run, k for a fork from Node k
  metadata,   \* app-run.json exists: the Run is visible to the App
  status,     \* runs.status
  nodes,      \* node_runs.status by Node, "absent" before the row exists
  context,    \* context_entries, by Node
  artifacts,  \* the Nodes with a row in artifacts
  journal,    \* the events table
  directory,  \* artifact_root/run_id exists
  worker,     \* what the Run's thread does next
  cursor,     \* the Node it is at
  active,     \* active_node_id, 0 for None
  verdict,    \* what the executor of the current Node returned
  stopped,    \* cancelled_nodes of _finish_cancelled
  token,      \* CancellationToken.cancelled
  slot,       \* LocalWorkspace._active_run is this Run
  client,     \* what each cancelling request does next
  receipt,    \* what it was answered
  shutdown,   \* what LocalWorkspace.shutdown does next
  faults      \* operations that have raised so far

evidence == <<status, nodes, context, artifacts, journal>>
thread   == <<worker, cursor, active, verdict, stopped>>
requests == <<client, receipt, shutdown>>
vars     == <<up, start, metadata, evidence, directory, thread, token, slot,
              requests, faults>>

ActiveRun   == {"running", "cancel_requested"}
TerminalRun == {"succeeded", "failed", "cancelled"}
NodeStatus  == {"absent", "running", "succeeded", "failed", "cancelled", "reused"}
Accepted    == {"succeeded", "reused"}

\* The steps of the Run's thread: admission (under _run_lock), the sections of
\* execute's try block that hold transition_lock and those that do not, its two
\* exception handlers, and the finally clause of _execute_admitted_run.
Admission == {"start_run", "created", "effects", "forked", "reuse",
              "reuse_context", "reused", "metadata", "thread"}
TryLocked == {"start_node", "started", "context", "evaluated", "accepted",
              "mkdir", "artifact", "artifact_event", "node_succeeded",
              "reject_accepted", "rejected", "node_failed", "run_failed",
              "finish_failed", "finish_succeeded"}
TryFree   == {"next", "executing", "result"}
HandlerLocked == {"cancel_nodes", "node_cancelled", "run_cancelled",
                  "finish_cancelled", "fail_event", "fail_finish"}
HandlerFree   == {"cancelled", "except"}
Finally   == {"ended", "clear"}
Worker    == Admission \cup TryLocked \cup TryFree \cup HandlerLocked
             \cup HandlerFree \cup Finally \cup {"gone"}
Locked    == TryLocked \cup HandlerLocked

RunEvents  == {"run.created", "run.effects", "run.forked", "run.cancel_requested",
               "run.interrupted", "run.succeeded", "run.failed", "run.cancelled"}
NodeEvents == {"node.reused", "node.ready", "executor.started", "evaluation.passed",
               "evaluation.rejected", "result.accepted", "artifact.created",
               "node.succeeded", "node.failed", "node.cancelled"}
Event == [type : RunEvents, about : {{}}] \cup [type : NodeEvents, about : SUBSET Nodes]

TypeOK ==
  /\ up \in BOOLEAN
  /\ start \in 0..N
  /\ metadata \in BOOLEAN
  /\ status \in {"absent"} \cup ActiveRun \cup TerminalRun
  /\ nodes \in [Nodes -> NodeStatus]
  /\ context \in Seq(Nodes)
  /\ artifacts \subseteq Nodes
  /\ journal \in Seq(Event)
  /\ directory \in BOOLEAN
  /\ worker \in Worker
  /\ cursor \in 1..(N + 1)
  /\ active \in 0..N
  /\ verdict \in {"none", "accept", "reject", "malformed"}
  /\ stopped \subseteq Nodes
  /\ token \in BOOLEAN
  /\ slot \in BOOLEAN
  /\ client \in [Clients -> {"idle", "slot", "interrupt", "request", "token",
                              "reply", "done"}]
  /\ receipt \in [Clients -> {"none", "accepted", "refused", "console"}]
  /\ shutdown \in {"no", "request", "token", "join"}
  /\ faults \in 0..MaxFaults

Init ==
  /\ up = TRUE
  /\ start \in 0..N
  /\ metadata = FALSE
  /\ status = "absent"
  /\ nodes = [n \in Nodes |-> "absent"]
  /\ context = <<>>
  /\ artifacts = {}
  /\ journal = <<>>
  /\ directory = FALSE
  /\ worker = "start_run"
  /\ cursor = 1
  /\ active = 0
  /\ verdict = "none"
  /\ stopped = {}
  /\ token = FALSE
  /\ slot = FALSE
  /\ client = [c \in Clients |-> "idle"]
  /\ receipt = [c \in Clients |-> "none"]
  /\ shutdown = "no"
  /\ faults = 0

-----------------------------------------------------------------------------
(* The store and the locks.                                                *)

\* transition_lock: nobody is inside one of its sections.
LockFree ==
  /\ worker \notin Locked
  /\ \A c \in Clients : client[c] # "token"
  /\ shutdown # "token"

\* _run_lock: no admission is under way.
RunLockFree == worker \notin Admission

\* record_event appends one row.
Record(type, about) == journal' = Append(journal, [type |-> type, about |-> about])

RunningNodes == {n \in Nodes : nodes[n] = "running"}

\* cancel_running_nodes, fail_running_nodes: one UPDATE over the running rows.
SettleRunning(s) == [n \in Nodes |-> IF nodes[n] = "running" THEN s ELSE nodes[n]]

\* Mutant: an unconditional UPDATE.
StoreRequestCancelBlind ==
  status' = "cancel_requested" /\ Record("run.cancel_requested", {})

\* request_cancel: the compare-and-set and its event are one transaction.
StoreRequestCancel ==
  IF status = "running"
  THEN status' = "cancel_requested" /\ Record("run.cancel_requested", {})
  ELSE UNCHANGED <<status, journal>>

\* Mutant: the interruption is recorded after the failure it explains.
MarkInterruptedSwapped ==
  IF status \in ActiveRun
  THEN /\ status' = "failed"
       /\ nodes' = SettleRunning("failed")
       /\ journal' = journal \o <<[type |-> "run.failed", about |-> {}],
                                  [type |-> "run.interrupted", about |-> {}]>>
  ELSE UNCHANGED <<status, nodes, journal>>

\* mark_interrupted: one transaction over the Run, its running Nodes and the
\* events that say so (the per-Node rows of the loop are one entry here).
MarkInterrupted ==
  IF status \in ActiveRun
  THEN /\ status' = "failed"
       /\ nodes' = SettleRunning("failed")
       /\ journal' = journal
            \o (IF RunningNodes = {} THEN <<>>
                ELSE <<[type |-> "node.failed", about |-> RunningNodes]>>)
            \o <<[type |-> "run.interrupted", about |-> {}],
                 [type |-> "run.failed", about |-> {}]>>
  ELSE UNCHANGED <<status, nodes, journal>>

\* finish_run: "cancelled" only from cancel_requested, the others from running.
Finishable(s) == status = IF s = "cancelled" THEN "cancel_requested" ELSE "running"

\* One step of the Run's thread inside the process; the rest of the world waits.
Step(from, to) ==
  /\ worker = from
  /\ worker' = to
  /\ UNCHANGED <<up, start, requests, faults>>

\* A step that only appends one event.
Journal(from, to, type, about) ==
  /\ Step(from, to)
  /\ Record(type, about)
  /\ UNCHANGED <<metadata, status, nodes, context, artifacts, directory, cursor,
                 active, verdict, stopped, token, slot>>

-----------------------------------------------------------------------------
(* Admission: LocalRuntime.admit inside LocalWorkspace._admit_run.         *)

FirstNode == IF start = 0 THEN 1 ELSE start

StartRun ==
  /\ Step("start_run", "created")
  /\ status' = "running"
  /\ UNCHANGED <<metadata, nodes, context, artifacts, journal, directory, cursor,
                 active, verdict, stopped, token, slot>>

RunCreated == Journal("created", "effects", "run.created", {})

\* run.effects_authorized or run.effects_evaluated: one entry stands for both.
RunEffects ==
  Journal("effects", IF start = 0 THEN "metadata" ELSE "forked", "run.effects", {})

RunForked ==
  Journal("forked", IF FirstNode = 1 THEN "metadata" ELSE "reuse", "run.forked", {})

ReuseNode ==
  /\ Step("reuse", "reuse_context")
  /\ nodes' = [nodes EXCEPT ![cursor] = "reused"]
  /\ UNCHANGED <<metadata, status, context, artifacts, journal, directory, cursor,
                 active, verdict, stopped, token, slot>>

\* Mutant: a fork reuses the Node and forgets its Context.
ReuseContextForgotten ==
  /\ Step("reuse_context", "reused")
  /\ UNCHANGED <<evidence, metadata, directory, cursor, active, verdict, stopped,
                 token, slot>>

ReuseContext ==
  /\ Step("reuse_context", "reused")
  /\ context' = Append(context, cursor)
  /\ UNCHANGED <<metadata, status, nodes, artifacts, journal, directory, cursor,
                 active, verdict, stopped, token, slot>>

NodeReused ==
  /\ Step("reused", IF cursor + 1 = FirstNode THEN "metadata" ELSE "reuse")
  /\ Record("node.reused", {cursor})
  /\ cursor' = cursor + 1
  /\ UNCHANGED <<metadata, status, nodes, context, artifacts, directory,
                 active, verdict, stopped, token, slot>>

\* _write_run_metadata: from here the Run is found by cancel and by recovery.
WriteMetadata ==
  /\ Step("metadata", "thread")
  /\ metadata' = TRUE
  /\ UNCHANGED <<evidence, directory, cursor, active, verdict, stopped, token, slot>>

\* A fresh CancellationToken, the run slot and the worker thread.
StartThread ==
  /\ Step("thread", "next")
  /\ slot' = TRUE
  /\ UNCHANGED <<metadata, evidence, directory, cursor, active, verdict, stopped, token>>

-----------------------------------------------------------------------------
(* Execution: the try block of LocalRuntime.execute.                       *)

\* A failed admission check, an unknown executor or changed effects.
ResolveFails ==
  /\ Step("next", "except")
  /\ cursor <= N
  /\ UNCHANGED <<metadata, evidence, directory, cursor, active, verdict, stopped,
                 token, slot>>

\* raise_if_cancelled at the head of a section.
CancelledAtSection(from) ==
  /\ Step(from, "cancelled")
  /\ LockFree
  /\ token
  /\ UNCHANGED <<metadata, evidence, directory, cursor, active, verdict, stopped,
                 token, slot>>

NodeReady ==
  /\ Journal("next", "start_node", "node.ready", {cursor})
  /\ cursor <= N
  /\ LockFree
  /\ ~token

StartNode ==
  /\ Step("start_node", "started")
  /\ nodes' = [nodes EXCEPT ![cursor] = "running"]
  /\ active' = cursor
  /\ UNCHANGED <<metadata, status, context, artifacts, journal, directory, cursor,
                 verdict, stopped, token, slot>>

ExecutorStarted == Journal("started", "executing", "executor.started", {cursor})

\* The executor answers in its own time, also after it was cancelled.  An
\* evaluation may reject; a decision where none belongs is malformed.
ExecutorReturns ==
  /\ Step("executing", "result")
  /\ verdict' \in {"accept", "malformed"}
                  \cup (IF cursor \in EvaluationNodes THEN {"reject"} ELSE {})
  /\ UNCHANGED <<metadata, evidence, directory, cursor, active, stopped, token, slot>>

\* It raises, or it notices the cancellation and raises ExecutionCancelled.
ExecutorRaises ==
  /\ Step("executing", "except")
  /\ UNCHANGED <<metadata, evidence, directory, cursor, active, verdict, stopped,
                 token, slot>>

ExecutorCancelled ==
  /\ Step("executing", "cancelled")
  /\ token
  /\ UNCHANGED <<metadata, evidence, directory, cursor, active, verdict, stopped,
                 token, slot>>

MalformedResult ==
  /\ Step("result", "except")
  /\ LockFree
  /\ ~token
  /\ verdict = "malformed"
  /\ UNCHANGED <<metadata, evidence, directory, cursor, active, verdict, stopped,
                 token, slot>>

\* Mutant: the result section does not look at the token again.
AcceptResultUnchecked ==
  /\ Step("result", "context")
  /\ LockFree
  /\ verdict = "accept"
  /\ nodes' = [nodes EXCEPT ![cursor] = "succeeded"]
  /\ UNCHANGED <<metadata, status, context, artifacts, journal, directory, cursor,
                 active, verdict, stopped, token, slot>>

\* finish_node.
AcceptResult ==
  /\ Step("result", "context")
  /\ LockFree
  /\ ~token
  /\ verdict = "accept"
  /\ nodes' = [nodes EXCEPT ![cursor] = "succeeded"]
  /\ UNCHANGED <<metadata, status, context, artifacts, journal, directory, cursor,
                 active, verdict, stopped, token, slot>>

RecordContext ==
  /\ Step("context", IF cursor \in EvaluationNodes THEN "evaluated" ELSE "accepted")
  /\ context' = Append(context, cursor)
  /\ UNCHANGED <<metadata, status, nodes, artifacts, journal, directory, cursor,
                 active, verdict, stopped, token, slot>>

EvaluationPassed == Journal("evaluated", "accepted", "evaluation.passed", {cursor})

ResultAccepted ==
  Journal("accepted", IF cursor \in ArtifactNodes THEN "mkdir" ELSE "node_succeeded",
          "result.accepted", {cursor})

\* mkdir(exist_ok=False): a second Artifact of the same Run raises here, and
\* leaving the section releases the lock before the handler takes it again.
MakeDirectory ==
  /\ Step("mkdir", IF directory THEN "except" ELSE "artifact")
  /\ directory' = TRUE
  /\ UNCHANGED <<metadata, evidence, cursor, active, verdict, stopped, token, slot>>

RecordArtifact ==
  /\ Step("artifact", "artifact_event")
  /\ artifacts' = artifacts \cup {cursor}
  /\ UNCHANGED <<metadata, status, nodes, context, journal, directory, cursor,
                 active, verdict, stopped, token, slot>>

ArtifactCreated ==
  Journal("artifact_event", "node_succeeded", "artifact.created", {cursor})

\* Mutant: the loop skips a Node.
NodeSucceededSkipping ==
  /\ Step("node_succeeded", "next")
  /\ Record("node.succeeded", {cursor})
  /\ active' = 0
  /\ cursor' = cursor + 2
  /\ UNCHANGED <<metadata, status, nodes, context, artifacts, directory, verdict,
                 stopped, token, slot>>

\* The last commit of the section; active_node_id is cleared with it.
NodeSucceeded ==
  /\ Step("node_succeeded", "next")
  /\ Record("node.succeeded", {cursor})
  /\ active' = 0
  /\ cursor' = cursor + 1
  /\ UNCHANGED <<metadata, status, nodes, context, artifacts, directory, verdict,
                 stopped, token, slot>>

\* Mutant: the rejected candidate is stored with finish_node.
RejectResultAsSuccess ==
  /\ Step("result", "reject_accepted")
  /\ LockFree
  /\ ~token
  /\ verdict = "reject"
  /\ nodes' = [nodes EXCEPT ![cursor] = "succeeded"]
  /\ UNCHANGED <<metadata, status, context, artifacts, journal, directory, cursor,
                 active, verdict, stopped, token, slot>>

\* reject_node: the candidate stays on the failed evaluation Node.
RejectResult ==
  /\ Step("result", "reject_accepted")
  /\ LockFree
  /\ ~token
  /\ verdict = "reject"
  /\ nodes' = [nodes EXCEPT ![cursor] = "failed"]
  /\ UNCHANGED <<metadata, status, context, artifacts, journal, directory, cursor,
                 active, verdict, stopped, token, slot>>

RejectAccepted == Journal("reject_accepted", "rejected", "result.accepted", {cursor})

EvaluationRejected == Journal("rejected", "node_failed", "evaluation.rejected", {cursor})

NodeFailed == Journal("node_failed", "run_failed", "node.failed", {cursor})

RunFailed == Journal("run_failed", "finish_failed", "run.failed", {})

\* finish_run after a step that checks what it returned: a refusal raises.
Finish(from, s) ==
  /\ Step(from, IF Finishable(s) THEN "ended"
                ELSE IF from \in TryLocked THEN "except" ELSE "ended")
  /\ status' = IF Finishable(s) THEN s ELSE status
  /\ UNCHANGED <<metadata, nodes, context, artifacts, journal, directory, cursor,
                 verdict, stopped, token, slot>>

\* The rejected Run ends and execute returns.
FinishRejected ==
  /\ Finish("finish_failed", "failed")
  /\ active' = IF Finishable("failed") THEN 0 ELSE active

RunSucceeded ==
  /\ Journal("next", "finish_succeeded", "run.succeeded", {})
  /\ cursor = N + 1
  /\ LockFree
  /\ ~token

FinishSucceeded ==
  /\ Finish("finish_succeeded", "succeeded")
  /\ UNCHANGED active

-----------------------------------------------------------------------------
(* execute's handlers and _finish_cancelled.                               *)

\* The head of _finish_cancelled, for a Run that is not terminal: ask, unless
\* somebody has, and go on to the Nodes.  A terminal Run is left alone.
BeginFinishCancelled(from) ==
  /\ Step(from, IF status \in ActiveRun THEN "cancel_nodes" ELSE "ended")
  /\ LockFree
  /\ StoreRequestCancel
  /\ UNCHANGED <<metadata, nodes, context, artifacts, directory, cursor, active,
                 verdict, stopped, token, slot>>

\* except ExecutionCancelled.
HandleCancelled == BeginFinishCancelled("cancelled")

\* except Exception, when the Run was asked to stop.
HandleFailureOfCancelled ==
  /\ token \/ status = "cancel_requested"
  /\ BeginFinishCancelled("except")

CancelRunningNodes ==
  /\ Step("cancel_nodes", "node_cancelled")
  /\ nodes' = SettleRunning("cancelled")
  /\ stopped' = RunningNodes
  /\ UNCHANGED <<metadata, status, context, artifacts, journal, directory, cursor,
                 active, verdict, token, slot>>

\* One node.cancelled per stopped Node; then "active Node cancellation state
\* was lost" is raised out of the handler when the active Node is not one.
NodesCancelled ==
  /\ Step("node_cancelled",
          IF active # 0 /\ active \notin stopped THEN "ended" ELSE "run_cancelled")
  /\ IF stopped = {} THEN UNCHANGED journal ELSE Record("node.cancelled", stopped)
  /\ UNCHANGED <<metadata, status, nodes, context, artifacts, directory, cursor,
                 active, verdict, stopped, token, slot>>

RunCancelled == Journal("run_cancelled", "finish_cancelled", "run.cancelled", {})

FinishCancelled ==
  /\ Finish("finish_cancelled", "cancelled")
  /\ UNCHANGED active

\* except Exception, when it was not: fail_running_nodes, run.failed, finish_run.
HandleFailure ==
  /\ Step("except", "fail_event")
  /\ LockFree
  /\ ~token
  /\ status # "cancel_requested"
  /\ nodes' = SettleRunning("failed")
  /\ UNCHANGED <<metadata, status, context, artifacts, journal, directory, cursor,
                 active, verdict, stopped, token, slot>>

FailureRecorded == Journal("fail_event", "fail_finish", "run.failed", {})

FinishFailed ==
  /\ Finish("fail_finish", "failed")
  /\ UNCHANGED active

\* finally: rewrite app-run.json, then clear the slot under _run_lock.
RewriteMetadata ==
  /\ Step("ended", "clear")
  /\ UNCHANGED <<metadata, evidence, directory, cursor, active, verdict, stopped,
                 token, slot>>

\* Mutant: finally rewrites app-run.json and leaves the slot.
ClearSlotForgotten ==
  /\ Step("clear", "gone")
  /\ UNCHANGED <<metadata, evidence, directory, cursor, active, verdict, stopped,
                 token, slot>>

ClearSlot ==
  /\ Step("clear", "gone")
  /\ slot' = FALSE
  /\ UNCHANGED <<metadata, evidence, directory, cursor, active, verdict, stopped, token>>

\* A store or file operation of the thread raises and commits nothing.  The
\* exception leaves the section, so transition_lock is free again: admission
\* answers an error and leaves the slot alone, the try block goes to its
\* handler, a handler ends execute, and finally does not reach the slot.
OperationRaises ==
  /\ faults < MaxFaults
  /\ faults' = faults + 1
  /\ worker \in Locked \/ LockFree
  /\ \/ worker \in Admission \ {"thread"} /\ worker' = "gone"
     \/ worker \in TryLocked /\ worker' = "except"
     \/ worker \in {"next", "result"} /\ ~token /\ worker' = "except"
     \/ worker \in HandlerLocked \cup HandlerFree /\ worker' = "ended"
     \/ worker = "ended" /\ worker' = "gone"
  /\ UNCHANGED <<up, start, metadata, evidence, directory, cursor, active, verdict,
                 stopped, token, slot, requests>>

-----------------------------------------------------------------------------
(* POST /api/v1/runs/{id}/cancellations, over LocalWorkspace.cancel_run.   *)

\* One step of request c inside the process.
Request(c, from, to) ==
  /\ up
  /\ client[c] = from
  /\ client' = [client EXCEPT ![c] = to]
  /\ UNCHANGED <<up, start, metadata, context, artifacts, directory, thread, slot,
                 shutdown, faults>>

\* The route reads the outcome first, and calls cancel_run only on "running".
ReadOutcome(c) ==
  /\ metadata
  /\ Request(c, "idle", IF status = "running" THEN "slot" ELSE "done")
  /\ receipt' = IF status = "running" THEN receipt ELSE [receipt EXCEPT ![c] = "refused"]
  /\ UNCHANGED <<status, nodes, journal, token>>

\* The Console's route calls cancel_run at once, and answers from its result.
ConsoleCancel(c) ==
  /\ metadata
  /\ Request(c, "idle", "slot")
  /\ receipt' = [receipt EXCEPT ![c] = "console"]
  /\ UNCHANGED <<status, nodes, journal, token>>

\* Mutant: the slot is read without _run_lock.
ReadSlotUnlocked(c) ==
  /\ Request(c, "slot", IF slot THEN "request" ELSE "interrupt")
  /\ UNCHANGED <<status, nodes, journal, token, receipt>>

\* cancel_run reads the slot under _run_lock, which waits out the admission.
ReadSlot(c) ==
  /\ RunLockFree
  /\ Request(c, "slot", IF slot THEN "request" ELSE "interrupt")
  /\ UNCHANGED <<status, nodes, journal, token, receipt>>

\* No thread owns the Run: an active one is interrupted.
Interrupt(c) ==
  /\ Request(c, "interrupt", "reply")
  /\ MarkInterrupted
  /\ UNCHANGED <<token, receipt>>

\* Under transition_lock: the durable request, and the token while it stands.
CancelRequest(c) ==
  /\ LockFree
  /\ StoreRequestCancel
  /\ Request(c, "request", IF status \in ActiveRun THEN "token" ELSE "reply")
  /\ UNCHANGED <<nodes, token, receipt>>

SetToken(c) ==
  /\ Request(c, "token", "reply")
  /\ token' = TRUE
  /\ UNCHANGED <<status, nodes, journal, receipt>>

\* Mutant: accepted because the Run was running before the call.
ReplyFromBefore(c) ==
  /\ Request(c, "reply", "done")
  /\ receipt' = IF receipt[c] = "console" THEN receipt
                ELSE [receipt EXCEPT ![c] = "accepted"]
  /\ UNCHANGED <<status, nodes, journal, token>>

\* The route reads the outcome again and accepts what it finds cancelled.
Reply(c) ==
  /\ Request(c, "reply", "done")
  /\ receipt' = IF receipt[c] = "console" THEN receipt
                ELSE [receipt EXCEPT ![c] =
                        IF status \in {"cancel_requested", "cancelled"}
                        THEN "accepted" ELSE "refused"]
  /\ UNCHANGED <<status, nodes, journal, token>>

-----------------------------------------------------------------------------
(* LocalWorkspace.shutdown, the end of the process and the next start.     *)

Closing(from, to) ==
  /\ up
  /\ shutdown = from
  /\ shutdown' = to
  /\ UNCHANGED <<up, start, metadata, nodes, context, artifacts, directory, thread,
                 slot, client, receipt, faults>>

Shutdown ==
  /\ RunLockFree
  /\ Closing("no", IF slot THEN "request" ELSE "join")
  /\ UNCHANGED <<status, journal, token>>

ShutdownRequest ==
  /\ LockFree
  /\ StoreRequestCancel
  /\ Closing("request", "token")
  /\ UNCHANGED token

\* The token is set whatever the Run's status is; then join waits 3 seconds.
ShutdownToken ==
  /\ Closing("token", "join")
  /\ token' = TRUE
  /\ UNCHANGED <<status, journal>>

\* The process dies, or exits with the daemon thread still running.  Its
\* threads, locks, token and slot go with it; requests lose their answer.
Crash ==
  /\ up
  /\ up' = FALSE
  /\ worker' = "gone"
  /\ slot' = FALSE
  /\ token' = FALSE
  /\ shutdown' = "no"
  /\ client' = [c \in Clients |-> IF client[c] = "idle" THEN "idle" ELSE "done"]
  /\ UNCHANGED <<start, metadata, evidence, directory, cursor, active, verdict,
                 stopped, receipt, faults>>

\* Mutant: the next start serves before it reconciles.
RestartUnreconciled ==
  /\ ~up
  /\ up' = TRUE
  /\ UNCHANGED <<start, metadata, evidence, directory, thread, token, slot,
                 requests, faults>>

\* The next start reconciles every Run it can see before it serves anyone.
Restart ==
  /\ ~up
  /\ up' = TRUE
  /\ IF metadata THEN MarkInterrupted ELSE UNCHANGED <<status, nodes, journal>>
  /\ UNCHANGED <<start, metadata, context, artifacts, directory, thread, token, slot,
                 requests, faults>>

-----------------------------------------------------------------------------

Admit ==
  \/ StartRun \/ RunCreated \/ RunEffects \/ RunForked
  \/ ReuseNode \/ ReuseContext \/ NodeReused
  \/ WriteMetadata \/ StartThread

Execute ==
  \/ ResolveFails \/ CancelledAtSection("next") \/ NodeReady \/ StartNode
  \/ ExecutorStarted \/ ExecutorReturns \/ ExecutorRaises \/ ExecutorCancelled
  \/ CancelledAtSection("result") \/ MalformedResult
  \/ AcceptResult \/ RecordContext \/ EvaluationPassed \/ ResultAccepted
  \/ MakeDirectory \/ RecordArtifact \/ ArtifactCreated \/ NodeSucceeded
  \/ RejectResult \/ RejectAccepted \/ EvaluationRejected \/ NodeFailed
  \/ RunFailed \/ FinishRejected \/ RunSucceeded \/ FinishSucceeded

Handle ==
  \/ HandleCancelled \/ HandleFailureOfCancelled \/ CancelRunningNodes
  \/ NodesCancelled \/ RunCancelled \/ FinishCancelled
  \/ HandleFailure \/ FailureRecorded \/ FinishFailed
  \/ RewriteMetadata \/ ClearSlot

\* The Run's thread, faults aside.
RunThread == Admit \/ Execute \/ Handle

\* What an HTTP thread does once its request is in.
Serve(c) ==
  \/ ReadSlot(c) \/ Interrupt(c) \/ CancelRequest(c) \/ SetToken(c) \/ Reply(c)

Close == ShutdownRequest \/ ShutdownToken

Next ==
  \/ RunThread
  \/ OperationRaises
  \/ \E c \in Clients : ReadOutcome(c) \/ ConsoleCancel(c) \/ Serve(c)
  \/ Shutdown \/ Close
  \/ Crash \/ Restart

Spec == Init /\ [][Next]_vars

\* The threads of a process run; users, faults and crashes are under no
\* obligation; a process that died is started again.
FairSpec ==
  /\ Spec
  /\ WF_vars(RunThread)
  /\ \A c \in Clients : WF_vars(Serve(c))
  /\ WF_vars(Close)
  /\ WF_vars(Restart)

-----------------------------------------------------------------------------
(* Safety.                                                                 *)

\* The journal of a terminal Run ends with the event of its status: no event is
\* recorded after it, and a crash between the event and finish_run is told by
\* the interruption that follows.
JournalEndsWithStatus ==
  status \in TerminalRun =>
    /\ journal # <<>>
    /\ journal[Len(journal)].type =
         CASE status = "succeeded" -> "run.succeeded"
           [] status = "failed"    -> "run.failed"
           [] status = "cancelled" -> "run.cancelled"

\* Context holds the accepted Nodes in Flow order; a crash or a failure between
\* the two commits may cost it the last of them, never another.
ContextFollowsNodes ==
  /\ \A i \in DOMAIN context : context[i] = i /\ nodes[i] \in Accepted
  /\ \A n \in Nodes : nodes[n] \in Accepted => n <= Len(context) + 1

\* After an evaluation rejected a candidate the Run does not succeed, and no
\* later Node ever has a row, a Context entry or an Artifact.
RejectionStops ==
  \A i \in DOMAIN journal : journal[i].type = "evaluation.rejected" =>
    /\ status # "succeeded"
    /\ \A n \in journal[i].about :
         /\ nodes[n] = "failed"
         /\ \A m \in Nodes : m > n => nodes[m] = "absent" /\ m \notin artifacts
         /\ \A k \in DOMAIN context : context[k] < n

\* A terminal Run leaves no Node running.
SettledWhenTerminal == status \in TerminalRun => RunningNodes = {}

\* A cancellation that was answered with accepted=true was one: the Run does not
\* succeed afterwards, also when the request raced its natural completion.
AcceptedNeverSucceeds ==
  \A c \in Clients : receipt[c] = "accepted" => status \notin {"running", "succeeded"}

-----------------------------------------------------------------------------
(* Action properties.                                                      *)

\* Terminal state is never rewritten: not by the Run's own thread, not by a late
\* cancellation, not by an interruption that takes a live Run for a dead one.
TerminalImmutable == [][(status \in TerminalRun) => UNCHANGED evidence]_vars

\* From the moment the cancellation is durable no Node starts, none is accepted,
\* and nothing enters Context or the Artifacts, whatever the executor returns.
NothingAcceptedLate ==
  [][status = "cancel_requested" =>
       /\ UNCHANGED <<context, artifacts>>
       /\ \A n \in Nodes : nodes'[n] = nodes[n] \/ nodes'[n] \in {"cancelled", "failed"}]_vars

\* The Run keeps the promise of RunStatus.
Promise == INSTANCE RunStatus WITH accepted <- {n \in Nodes : nodes[n] \in Accepted}

ImplementsRunStatus == Promise!Spec

-----------------------------------------------------------------------------
(* Liveness, under FairSpec.                                               *)

\* A Run that can be seen ends, also when its process dies at any point.
RunSettles == (metadata /\ status \in ActiveRun) ~> (status \in TerminalRun)

\* The run slot does not stay taken.
SlotReleased == slot ~> ~slot

\* "running -> cancel_requested -> cancelled": a Run asked to stop stops.
CancellationSettles == (status = "cancel_requested") ~> (status \in TerminalRun)
=============================================================================
