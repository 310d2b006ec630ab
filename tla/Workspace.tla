----------------------------- MODULE Workspace -----------------------------
(***************************************************************************)
(* The Runs of one Local workspace: the admission of one after the other   *)
(* through the run slot, their numbered directories, forks of earlier      *)
(* Runs, cancellation by id, the tail of threads whose Run has ended, and  *)
(* the process that dies and reconciles what it finds.                     *)
(*                                                                         *)
(* Inside a Run this is the grain of RunStatus: a section that holds       *)
(* transition_lock is one step here and many in RunLifecycle.  Between     *)
(* Runs it is the grain of _run_lock, of the files and of the rows.        *)
(***************************************************************************)
EXTENDS Naturals, FiniteSetsExt

CONSTANTS
  Runs,         \* run ids; an admission request each
  NoRun,        \* no Run
  Clients,      \* HTTP threads that cancel Runs
  N,            \* the number of Nodes of every Flow
  LastNumber,   \* the last number the four-digit pattern matches, 9999
  MaxFaults     \* bound: operations that raise

ASSUME WorkspaceAssumption ==
  /\ NoRun \notin Runs
  /\ N \in Nat \ {0}
  /\ LastNumber \in Nat \ {0}
  /\ MaxFaults \in Nat

VARIABLES
  up,         \* "down", "starting" while it reconciles, or "serving"
  unread,     \* directories the start has still to reconcile
  slot,       \* LocalWorkspace._active_run
  worker,     \* what the thread of each Run does next, from its admission on
  token,      \* CancellationToken.cancelled of each Run
  client,     \* what each cancelling thread does next
  target,     \* the Run it cancels
  made,       \* numbers of the directories run-NNNN
  place,      \* the directory of each Run, 0 before it has one
  index,      \* the Run app-run.json of each directory names
  status,     \* runs.status of each Run
  accepted,   \* how many Nodes it has accepted or reused
  parent,     \* parent_run_id of a fork
  reused,     \* how many Nodes the fork reuses
  faults      \* operations that have raised so far

files  == <<made, place, index>>
rows   == <<status, accepted>>
fork   == <<parent, reused>>
memory == <<slot, token, client, target>>
vars   == <<up, unread, memory, worker, files, rows, fork, faults>>

Active    == {"running", "cancel_requested"}
Terminal  == {"succeeded", "failed", "cancelled"}
Numbers   == 1..(LastNumber + 1)
Admission == {"check", "scan", "directory", "start_run", "reuse", "metadata", "thread"}
Worker    == Admission \cup {"idle", "queued", "run", "ended", "clear", "gone"}

TypeOK ==
  /\ up \in {"down", "starting", "serving"}
  /\ unread \subseteq Numbers
  /\ slot \in Runs \cup {NoRun}
  /\ worker \in [Runs -> Worker]
  /\ token \in [Runs -> BOOLEAN]
  /\ client \in [Clients -> {"idle", "interrupt", "request"}]
  /\ target \in [Clients -> Runs \cup {NoRun}]
  /\ made \subseteq Numbers
  /\ place \in [Runs -> {0} \cup Numbers]
  /\ index \in [Numbers -> Runs \cup {NoRun}]
  /\ status \in [Runs -> {"absent"} \cup Active \cup Terminal]
  /\ accepted \in [Runs -> 0..N]
  /\ parent \in [Runs -> Runs \cup {NoRun}]
  /\ reused \in [Runs -> 0..N]
  /\ faults \in 0..MaxFaults

Init ==
  /\ up = "serving"
  /\ unread = {}
  /\ slot = NoRun
  /\ worker = [r \in Runs |-> "idle"]
  /\ token = [r \in Runs |-> FALSE]
  /\ client = [c \in Clients |-> "idle"]
  /\ target = [c \in Clients |-> NoRun]
  /\ made = {}
  /\ place = [r \in Runs |-> 0]
  /\ index = [d \in Numbers |-> NoRun]
  /\ status = [r \in Runs |-> "absent"]
  /\ accepted = [r \in Runs |-> 0]
  /\ parent = [r \in Runs |-> NoRun]
  /\ reused = [r \in Runs |-> 0]
  /\ faults = 0

-----------------------------------------------------------------------------

\* _run_lock is held for a whole admission.
RunLockFree == \A r \in Runs : worker[r] \notin Admission

\* What the glob over app-run.json finds.
Visible(r) == \E d \in made : index[d] = r

\* Mutant: the latest directory's number, without the increment.
NextRunSequenceReused == Max({1} \cup (made \cap 1..LastNumber))

\* _next_run_sequence: directories whose number has more digits do not count.
NextRunSequence == Max({0} \cup (made \cap 1..LastNumber)) + 1

\* A step of the thread of r.
Step(r, from, to) ==
  /\ worker[r] = from
  /\ worker' = [worker EXCEPT ![r] = to]
  /\ UNCHANGED <<up, unread, client, target>>

-----------------------------------------------------------------------------
(* A fork reads its parent before it asks for its admission.               *)

\* Mutant: an active parent can be forked.
RequestForkOfActive(r, p, k) ==
  /\ up = "serving"
  /\ r # p
  /\ Visible(p)
  /\ k < N
  /\ k # 0 => k <= accepted[p] /\ reused[p] = 0
  /\ Step(r, "idle", "queued")
  /\ parent' = [parent EXCEPT ![r] = p]
  /\ reused' = [reused EXCEPT ![r] = k]
  /\ UNCHANGED <<slot, token, files, rows, faults>>

\* fork_console_run: a terminal parent whose first k Nodes succeeded, and were
\* not themselves reused; all of it read outside any lock.  Whether the first
\* Node of a parent that accepted none has a row is left open.
RequestFork(r, p, k) ==
  /\ up = "serving"
  /\ r # p
  /\ Visible(p)
  /\ status[p] \in Terminal
  /\ k < N
  /\ k # 0 => k <= accepted[p] /\ reused[p] = 0
  /\ Step(r, "idle", "queued")
  /\ parent' = [parent EXCEPT ![r] = p]
  /\ reused' = [reused EXCEPT ![r] = k]
  /\ UNCHANGED <<slot, token, files, rows, faults>>

-----------------------------------------------------------------------------
(* _admit_run, under _run_lock.                                            *)

\* A fresh Run, or a fork that has read its parent.
TakeRunLock(r) ==
  /\ up = "serving"
  /\ RunLockFree
  /\ Step(r, "idle", "check") \/ Step(r, "queued", "check")
  /\ UNCHANGED <<slot, token, files, rows, fork, faults>>

\* _assert_no_active_run: the slot's Run if it is active, else an empty slot.
CheckSlot(r) ==
  IF slot # NoRun /\ status[slot] \in Active
  THEN /\ Step(r, "check", "gone")
       /\ UNCHANGED <<slot, token, files, rows, fork, faults>>
  ELSE /\ Step(r, "check", "scan")
       /\ slot' = NoRun
       /\ UNCHANGED <<token, files, rows, fork, faults>>

\* Mutant: only the slot is consulted.
CheckRunsSkipped(r) ==
  /\ Step(r, "scan", "directory")
  /\ UNCHANGED <<slot, token, files, rows, fork, faults>>

\* ... and then every Run that has an app-run.json.
CheckRuns(r) ==
  /\ Step(r, "scan",
          IF \E s \in Runs : Visible(s) /\ status[s] \in Active
          THEN "gone" ELSE "directory")
  /\ UNCHANGED <<slot, token, files, rows, fork, faults>>

\* EvidenceStore(state_dir) makes the directory, or takes the one that is there.
MakeDirectory(r) ==
  /\ Step(r, "directory", "start_run")
  /\ place' = [place EXCEPT ![r] = NextRunSequence]
  /\ made' = made \cup {NextRunSequence}
  /\ UNCHANGED <<slot, token, index, rows, fork, faults>>

\* require_effect_authorization refuses: the directory stays, without a Run.
Denied(r) ==
  /\ Step(r, "start_run", "gone")
  /\ UNCHANGED <<slot, token, files, rows, fork, faults>>

StartRun(r) ==
  /\ Step(r, "start_run", "reuse")
  /\ status' = [status EXCEPT ![r] = "running"]
  /\ UNCHANGED <<slot, token, files, accepted, fork, faults>>

ReuseNode(r) ==
  /\ accepted[r] < reused[r]
  /\ Step(r, "reuse", "reuse")
  /\ accepted' = [accepted EXCEPT ![r] = @ + 1]
  /\ UNCHANGED <<slot, token, files, status, fork, faults>>

Admitted(r) ==
  /\ accepted[r] = reused[r]
  /\ Step(r, "reuse", "metadata")
  /\ UNCHANGED <<slot, token, files, rows, fork, faults>>

WriteRunMetadata(r) ==
  /\ Step(r, "metadata", "thread")
  /\ index' = [index EXCEPT ![place[r]] = r]
  /\ UNCHANGED <<slot, token, made, place, rows, fork, faults>>

\* The slot is taken, the thread runs and _run_lock is released.
StartThread(r) ==
  /\ Step(r, "thread", "run")
  /\ slot' = r
  /\ UNCHANGED <<token, files, rows, fork, faults>>

-----------------------------------------------------------------------------
(* _execute_admitted_run.                                                  *)

\* Mutant: the loop does not end with the Flow.
AcceptNodePastEnd(r) ==
  /\ ~token[r]
  /\ Step(r, "run", "run")
  /\ accepted' = [accepted EXCEPT ![r] = @ + 1]
  /\ UNCHANGED <<slot, token, files, status, fork, faults>>

\* Mutant: a result is accepted after the cancellation.
AcceptNodeUnchecked(r) ==
  /\ accepted[r] < N
  /\ Step(r, "run", "run")
  /\ accepted' = [accepted EXCEPT ![r] = @ + 1]
  /\ UNCHANGED <<slot, token, files, status, fork, faults>>

\* A Node is accepted: nothing in this section reads runs.status.
AcceptNode(r) ==
  /\ ~token[r]
  /\ accepted[r] < N
  /\ Step(r, "run", "run")
  /\ accepted' = [accepted EXCEPT ![r] = @ + 1]
  /\ UNCHANGED <<slot, token, files, status, fork, faults>>

\* finish_run is a compare-and-set: a Run that is not running stays as it is.
FinishRun(r, s) ==
  /\ Step(r, "run", "ended")
  /\ status' = [status EXCEPT ![r] = IF @ = "running" THEN s ELSE @]
  /\ UNCHANGED <<slot, token, files, accepted, fork, faults>>

Succeed(r) == ~token[r] /\ accepted[r] = N /\ FinishRun(r, "succeeded")

Fail(r) == ~token[r] /\ FinishRun(r, "failed")

\* _finish_cancelled: request, if nobody has, then cancel.
FinishCancelled(r) ==
  /\ token[r]
  /\ Step(r, "run", "ended")
  /\ status' = [status EXCEPT ![r] = IF @ \in Active THEN "cancelled" ELSE @]
  /\ UNCHANGED <<slot, token, files, accepted, fork, faults>>

RewriteMetadata(r) ==
  /\ Step(r, "ended", "clear")
  /\ index' = [index EXCEPT ![place[r]] = r]
  /\ UNCHANGED <<slot, token, made, place, rows, fork, faults>>

\* Mutant: whatever the slot holds by now.
ClearSlotBlind(r) ==
  /\ RunLockFree
  /\ Step(r, "clear", "gone")
  /\ slot' = NoRun
  /\ UNCHANGED <<token, files, rows, fork, faults>>

\* A thread clears the slot only of its own Run.
ClearSlot(r) ==
  /\ RunLockFree
  /\ Step(r, "clear", "gone")
  /\ slot' = IF slot = r THEN NoRun ELSE slot
  /\ UNCHANGED <<token, files, rows, fork, faults>>

\* An operation raises: an admission is abandoned where it is, the thread is
\* refused by the system after the slot was taken, a handler does not reach
\* its last commit, or finally does not reach the slot.
OperationRaises(r) ==
  /\ faults < MaxFaults
  /\ faults' = faults + 1
  /\ \/ worker[r] \in Admission /\ Step(r, worker[r], "gone")
     \/ Step(r, "run", "ended")
     \/ Step(r, "ended", "gone")
  /\ slot' = IF worker[r] = "thread" THEN r ELSE slot
  /\ UNCHANGED <<token, files, rows, fork>>

-----------------------------------------------------------------------------
(* cancel_run.                                                             *)

Request(c, from, to) ==
  /\ client[c] = from
  /\ client' = [client EXCEPT ![c] = to]
  /\ UNCHANGED <<up, unread, slot, worker, files, accepted, fork, faults>>

\* The Run is found by its app-run.json, and the slot read under _run_lock.
FindRun(c, r) ==
  /\ up = "serving"
  /\ Visible(r)
  /\ RunLockFree
  /\ Request(c, "idle", IF slot = r THEN "request" ELSE "interrupt")
  /\ target' = [target EXCEPT ![c] = r]
  /\ UNCHANGED <<token, status>>

\* mark_interrupted.
Interrupt(c) ==
  /\ Request(c, "interrupt", "idle")
  /\ status' = [status EXCEPT ![target[c]] = IF @ \in Active THEN "failed" ELSE @]
  /\ target' = [target EXCEPT ![c] = NoRun]
  /\ UNCHANGED token

\* Under transition_lock: request_cancel, and the token while the request stands.
RequestCancel(c) ==
  /\ Request(c, "request", "idle")
  /\ status' = [status EXCEPT ![target[c]] = IF @ = "running" THEN "cancel_requested" ELSE @]
  /\ token' = [token EXCEPT ![target[c]] = @ \/ status[target[c]] \in Active]
  /\ target' = [target EXCEPT ![c] = NoRun]

-----------------------------------------------------------------------------
(* The process.                                                            *)

Crash ==
  /\ up # "down"
  /\ up' = "down"
  /\ unread' = {}
  /\ slot' = NoRun
  /\ worker' = [r \in Runs |-> IF worker[r] = "idle" THEN "idle" ELSE "gone"]
  /\ token' = [r \in Runs |-> FALSE]
  /\ client' = [c \in Clients |-> "idle"]
  /\ target' = [c \in Clients |-> NoRun]
  /\ UNCHANGED <<files, rows, fork, faults>>

\* LocalWorkspace.__init__: _reconcile_unfinished_runs before anyone is served.
Start ==
  /\ up = "down"
  /\ up' = "starting"
  /\ unread' = {d \in made : index[d] # NoRun}
  /\ UNCHANGED <<memory, worker, files, rows, fork, faults>>

Reconcile(d) ==
  /\ up = "starting"
  /\ unread' = unread \ {d}
  /\ status' = [status EXCEPT ![index[d]] = IF @ \in Active THEN "failed" ELSE @]
  /\ UNCHANGED <<up, memory, worker, files, accepted, fork, faults>>

ServeForever ==
  /\ up = "starting"
  /\ unread = {}
  /\ up' = "serving"
  /\ UNCHANGED <<unread, memory, worker, files, rows, fork, faults>>

\* A second process that starts on the same state root reconciles what it finds.
OtherStart(d) ==
  /\ index[d] # NoRun
  /\ status' = [status EXCEPT ![index[d]] = IF @ \in Active THEN "failed" ELSE @]
  /\ UNCHANGED <<up, unread, memory, worker, files, accepted, fork, faults>>

-----------------------------------------------------------------------------

AdmitRun(r) ==
  \/ TakeRunLock(r) \/ CheckSlot(r) \/ CheckRuns(r) \/ MakeDirectory(r)
  \/ Denied(r) \/ StartRun(r) \/ ReuseNode(r) \/ Admitted(r)
  \/ WriteRunMetadata(r) \/ StartThread(r)

ExecuteAdmittedRun(r) ==
  \/ AcceptNode(r) \/ Succeed(r) \/ Fail(r) \/ FinishCancelled(r)
  \/ RewriteMetadata(r) \/ ClearSlot(r)

CancelRun(c) == Interrupt(c) \/ RequestCancel(c)

Next ==
  \/ \E r \in Runs :
       \/ \E p \in Runs, k \in 0..N : RequestFork(r, p, k)
       \/ AdmitRun(r) \/ ExecuteAdmittedRun(r) \/ OperationRaises(r)
       \/ \E c \in Clients : FindRun(c, r)
  \/ \E c \in Clients : CancelRun(c)
  \/ Crash \/ Start \/ ServeForever
  \/ \E d \in unread : Reconcile(d)

Spec == Init /\ [][Next]_vars

\* Nothing keeps another process off the state root; this is what its start
\* alone, before it admits a Run of its own, does to the Runs of this one.
SharedNext == Next \/ \E d \in made : OtherStart(d)

SharedSpec == Init /\ [][SharedNext]_vars

-----------------------------------------------------------------------------
(* Safety.                                                                 *)

\* One active Run per workspace: no two of the Runs that can be seen are.
OneActive ==
  \A r, s \in Runs :
    Visible(r) /\ Visible(s) /\ status[r] \in Active /\ status[s] \in Active => r = s

\* A thread that still executes an active Run is the one cancel_run finds in
\* the slot, so that a cancellation asks it and never pronounces it dead.
ExecutingInSlot ==
  \A r \in Runs : worker[r] = "run" => slot = r /\ status[r] \in Active

\* No two Runs share a directory, whatever was refused, failed or crashed.
DirectoryUsedOnce ==
  \A r, s \in Runs : place[r] = place[s] /\ place[r] # 0 => r = s

\* What a fork was seeded with is what its parent accepted, and still does.
ForkedFromAccepted ==
  \A r \in Runs : parent[r] # NoRun =>
    /\ status[parent[r]] \in Terminal
    /\ reused[r] <= accepted[parent[r]]

\* A terminal Run is immutable.
TerminalImmutable ==
  [][\A r \in Runs : status[r] \in Terminal =>
       status'[r] = status[r] /\ accepted'[r] = accepted[r]]_vars

\* A Run that was in the history stays in it.
HistoryKept == [][\A r \in Runs : Visible(r) => Visible(r)']_vars

\* Each Run keeps the promise of RunStatus.
Promise(r) == INSTANCE RunStatus WITH status <- status[r], accepted <- 1..accepted[r]

RunsKeepPromise ==
  /\ \A r \in Runs : Promise(r)!Init
  /\ [][\A r \in Runs : Promise(r)!Next \/ UNCHANGED Promise(r)!vars]_vars
=============================================================================
