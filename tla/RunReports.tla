----------------------------- MODULE RunReports -----------------------------
(***************************************************************************)
(* What the readers make of the evidence of Runs: the outcome and the      *)
(* Console's steps of one, the comparison of two, the stability of all     *)
(* Runs of a Flow.                                                         *)
(*                                                                         *)
(* They are functions of evidence v, a record of what run_evidence and     *)
(* app-run.json say of one Run: `nodes` are the statuses of its rows,      *)
(* `given` what start_node put into a row (input, executor, effects),      *)
(* `answer` what finish_node or reject_node did (output, evidence level).  *)
(* Of the events only those count that a projection looks at, and          *)
(* finished_at is set exactly when the status is terminal.                 *)
(***************************************************************************)
EXTENDS RunLifecycle, FiniteSets

CONSTANTS
  Flows,      \* task and semantic hash of Flows, all of N Nodes
  Inputs,     \* inputs and executors that a Node can have
  Outputs,    \* outputs and evidence levels that it can answer with
  None        \* NULL in a row

ASSUME ReportsAssumption == None \notin Inputs \cup Outputs

RunEvidence ==
  [flow : Flows, parent : Nat, status : {"absent"} \cup ActiveRun \cup TerminalRun,
   nodes : [Nodes -> NodeStatus], given : [Nodes -> Inputs \cup {None}],
   answer : [Nodes -> Outputs \cup {None}], rejected : SUBSET Nodes,
   announced : SUBSET Nodes, artifacts : SUBSET Nodes]

Observed(v) == {n \in Nodes : v.nodes[n] # "absent"}

-----------------------------------------------------------------------------
(* run_outcomes.py and _project_run.                                       *)

FailedNodes(v) == {n \in Nodes : v.nodes[n] = "failed"}

\* _project_failure looks at the first Node that failed.
FirstFailed(v, n) == n \in FailedNodes(v) /\ \A m \in FailedNodes(v) : n <= m

\* build_run_outcome fails closed.
Inconsistent(v) ==
  \/ \E m \in Nodes, n \in Observed(v) : m < n /\ m \notin Observed(v)
  \/ v.status = "succeeded" /\ \E n \in Nodes : v.nodes[n] \notin Accepted
  \/ v.status = "failed" /\ \E n \in v.rejected : n = 1 \/ ~FirstFailed(v, n)

\* Mutant: whatever has no row is shown as skipped.
UnobservedSkipped(v) == "skipped"

\* What a Node without a row is shown as.
Unobserved(v) == IF v.status \in TerminalRun THEN "skipped" ELSE "pending"

\* Mutant: a Node without a row has no status.
ShownNodeRaw(v, n) == v.nodes[n]

ShownNode(v, n) == IF n \in Observed(v) THEN v.nodes[n] ELSE Unobserved(v)

\* _SETTLED_NODE_STATUSES, the ones that progress counts.
SettledNode == {"succeeded", "failed", "cancelled", "reused", "skipped"}

Failure(v) ==
  IF v.status # "failed" THEN "none"
  ELSE IF v.rejected # {} THEN "evaluation_rejected"
  ELSE IF FailedNodes(v) # {} THEN "node_failed" ELSE "run_failed"

Outcome(v) ==
  [status    |-> v.status,
   nodes     |-> [n \in Nodes |-> ShownNode(v, n)],
   artifacts |-> v.artifacts,
   failure   |-> Failure(v)]

SettledNodes(o) == {n \in Nodes : o.nodes[n] \in SettledNode}

\* The error of a step in the Console.
StepError(v, n) ==
  IF n \in v.rejected THEN "EVALUATION_REJECTED"
  ELSE IF v.nodes[n] = "failed" THEN "NODE_FAILED" ELSE "none"

-----------------------------------------------------------------------------
(* build_run_comparison.                                                   *)

\* _normalize_comparison_run raises.
Incomparable(v) ==
  \/ v.status \notin TerminalRun
  \/ \E n \in Observed(v) : v.nodes[n] = "running"

\* compare_runs answers for two terminal Runs of the same Flow only.
Comparable(l, r) == l.flow = r.flow /\ ~Incomparable(l) /\ ~Incomparable(r)

\* An executed and a reused success are the same outcome in another mode.
NormalOutcome(s) == IF s = "reused" THEN "succeeded" ELSE s

\* _compare_node: the reason codes of a Node.
Differences(l, r, n) ==
  IF n \notin Observed(l) \cap Observed(r)
  THEN IF n \in Observed(l) \cup Observed(r) THEN {"observation"} ELSE {}
  ELSE {d \in {"given", "outcome", "answer", "execution_mode"} :
          \/ d = "given" /\ l.given[n] # r.given[n]
          \/ d = "outcome" /\ NormalOutcome(l.nodes[n]) # NormalOutcome(r.nodes[n])
          \/ d = "answer" /\ l.answer[n] # r.answer[n]
          \/ d = "execution_mode" /\ (l.nodes[n] = "reused") # (r.nodes[n] = "reused")}

\* The Nodes with a substantive difference; first_divergent_node_id is the least.
Divergent(l, r) == {n \in Nodes : Differences(l, r, n) \ {"execution_mode"} # {}}

-----------------------------------------------------------------------------
(* build_stability_report over the Runs that task_stability pools.         *)

\* Terminal Runs of exactly this Flow that executed every Node themselves.
Pool(runs, f) ==
  {i \in DOMAIN runs : /\ runs[i].flow = f
                       /\ runs[i].parent = 0
                       /\ runs[i].status \in TerminalRun}

\* _normalize_run raises.
Unpoolable(v) ==
  \E n \in Observed(v) : v.nodes[n] \notin {"succeeded", "failed", "cancelled"}

\* Mutant: one observation is evidence enough.
ClassificationEager(runs, pool, n) ==
  LET seen      == {i \in pool : n \in Observed(runs[i])}
      succeeded == {i \in seen : runs[i].nodes[n] = "succeeded"}
  IN IF seen = {} THEN "not_observed"
     ELSE IF Cardinality(succeeded) = Cardinality(seen) THEN "stable_success"
     ELSE IF succeeded = {} THEN "repeated_failure" ELSE "unstable"

\* _node_stability of Node n over the Runs runs[i], i \in pool.
Classification(runs, pool, n) ==
  LET seen      == {i \in pool : n \in Observed(runs[i])}
      succeeded == {i \in seen : runs[i].nodes[n] = "succeeded"}
      failed    == {i \in seen : runs[i].nodes[n] \in {"failed", "cancelled"}}
  IN IF seen = {} THEN "not_observed"
     ELSE IF Cardinality(seen) < 2 THEN "insufficient_evidence"
     ELSE IF Cardinality(succeeded) = Cardinality(seen) THEN "stable_success"
     ELSE IF Cardinality(failed) = Cardinality(seen) THEN "repeated_failure"
     ELSE "unstable"
=============================================================================
