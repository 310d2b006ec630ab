----------------------------- MODULE RunStatus -----------------------------
(***************************************************************************)
(* What a Run promises its readers, whatever its worker thread, the HTTP   *)
(* threads that cancel it and the process that hosts them do: a lifecycle  *)
(*                                                                         *)
(*     running -> succeeded | failed                                       *)
(*     running -> cancel_requested -> cancelled | failed                   *)
(*                                                                         *)
(* in which Nodes are accepted in Flow order, only while the Run is        *)
(* running, and success needs every Node.  The compare-and-set updates of  *)
(* EvidenceStore are the source of the status transitions; RunLifecycle is *)
(* shown to implement this module.                                         *)
(***************************************************************************)
EXTENDS Naturals

CONSTANT N      \* the number of Nodes of the Flow

VARIABLES
  status,       \* runs.status, "absent" before the row exists
  accepted      \* the Nodes whose result the Run has accepted or reused

vars == <<status, accepted>>

Nodes    == 1..N
Active   == {"running", "cancel_requested"}
Terminal == {"succeeded", "failed", "cancelled"}

TypeOK ==
  /\ status \in {"absent"} \cup Active \cup Terminal
  /\ accepted \subseteq Nodes

Init ==
  /\ status = "absent"
  /\ accepted = {}

\* EvidenceStore.start_run inserts the row.
StartRun ==
  /\ status = "absent"
  /\ status' = "running"
  /\ UNCHANGED accepted

\* A Node is accepted after every earlier one, while the Run is running.
Accept(n) ==
  /\ status = "running"
  /\ n \notin accepted
  /\ \A m \in Nodes : m < n => m \in accepted
  /\ accepted' = accepted \cup {n}
  /\ UNCHANGED status

\* EvidenceStore.request_cancel.
RequestCancel ==
  /\ status = "running"
  /\ status' = "cancel_requested"
  /\ UNCHANGED accepted

\* EvidenceStore.finish_run("succeeded").
Succeed ==
  /\ status = "running"
  /\ accepted = Nodes
  /\ status' = "succeeded"
  /\ UNCHANGED accepted

\* EvidenceStore.finish_run("cancelled").
Cancel ==
  /\ status = "cancel_requested"
  /\ status' = "cancelled"
  /\ UNCHANGED accepted

\* EvidenceStore.finish_run("failed") and EvidenceStore.mark_interrupted.
Fail ==
  /\ status \in Active
  /\ status' = "failed"
  /\ UNCHANGED accepted

Next ==
  \/ StartRun \/ RequestCancel \/ Succeed \/ Cancel \/ Fail
  \/ \E n \in Nodes : Accept(n)

Spec == Init /\ [][Next]_vars
=============================================================================
