--------------------------- MODULE EvidenceReader ---------------------------
(***************************************************************************)
(* A request that reads a Run while its thread, cancelling requests, a     *)
(* crash or the next start change it, and what it reports of it.           *)
(*                                                                         *)
(* EvidenceStore.run_evidence asks five tables one after the other.  The   *)
(* SELECTs are not one transaction and readers take neither                *)
(* transition_lock nor _run_lock, so that commits of RunLifecycle fall     *)
(* between any two of them; `view` is what has been read so far.  The      *)
(* Run's row comes first, the Artifacts last: the properties are what this *)
(* order is worth.  A client polls: `shown` is the outcome it was last     *)
(* answered with.  The Runs before this one are over (Workspace!OneActive) *)
(* and never change (TerminalImmutable); reports pool and compare them.    *)
(***************************************************************************)
EXTENDS RunReports

CONSTANTS
  ThisFlow,     \* the Flow of this Run
  EarlierRuns   \* the histories that it may find: sequences of evidence

\* What RunLifecycle leaves of a Run that is over.
Finished(v) ==
  /\ v \in RunEvidence
  /\ v.status \in TerminalRun
  /\ ~Inconsistent(v) /\ ~Incomparable(v)
  /\ v.parent = 0 => ~Unpoolable(v)
  /\ \A n \in Observed(v) : v.given[n] \in Inputs
                            /\ (v.nodes[n] \in Accepted => v.answer[n] \in Outputs)

ASSUME ReaderAssumption ==
  /\ ThisFlow \in Flows
  /\ \A h \in EarlierRuns : h \in Seq(RunEvidence) /\ \A i \in DOMAIN h : Finished(h[i])

VARIABLES
  earlier,    \* the evidence of the Runs before this one, oldest first
  parent,     \* the Run it was forked from, 0 for none
  given,      \* node_runs.input_json, executor and effects, by Node
  answer,     \* node_runs.output_json and evidence_level, by Node
  reader,     \* the table the request reads next
  view,       \* what it has read
  shown       \* the outcome the client was answered with

fixed      == <<earlier, parent>>
rows       == <<given, answer>>
readerVars == <<reader, view, shown>>
allVars    == <<vars, fixed, rows, readerVars>>

\* The Nodes that the events of this type are about.
About(type) == UNION {journal[i].about : i \in {j \in DOMAIN journal : journal[j].type = type}}

\* run_evidence of a single moment.
Evidence ==
  [flow |-> ThisFlow, parent |-> parent, status |-> status, nodes |-> nodes, given |-> given,
   answer |-> answer, rejected |-> About("evaluation.rejected"),
   announced |-> About("artifact.created"), artifacts |-> artifacts]

NoRows == [n \in Nodes |-> None]

Unread ==
  [flow |-> ThisFlow, parent |-> parent, status |-> "absent",
   nodes |-> [n \in Nodes |-> "absent"], given |-> NoRows, answer |-> NoRows,
   rejected |-> {}, announced |-> {}, artifacts |-> {}]

NoOutcome == Outcome(Unread)

\* A fork was admitted over a prefix that an earlier Run of its Flow executed.
ReaderInit ==
  /\ earlier \in EarlierRuns
  /\ parent \in 0..Len(earlier)
  /\ start = 0 <=> parent = 0
  /\ parent # 0 => /\ earlier[parent].flow = ThisFlow
                   /\ 1 \in Observed(earlier[parent])
                   /\ \A n \in Nodes : n < start => earlier[parent].nodes[n] = "succeeded"
  /\ given = NoRows
  /\ answer = NoRows
  /\ reader = "idle"
  /\ view = Unread
  /\ shown = NoOutcome

-----------------------------------------------------------------------------
(* The Run goes on, and writes its rows.                                   *)

\* start_node.
StartNodeRow ==
  /\ StartNode
  /\ \E i \in Inputs : given' = [given EXCEPT ![cursor] = i]
  /\ UNCHANGED answer

\* finish_node and reject_node.
AnswerRow ==
  /\ AcceptResult \/ RejectResult
  /\ \E o \in Outputs : answer' = [answer EXCEPT ![cursor] = o]
  /\ UNCHANGED given

\* Mutant: a reused row forgets the output of its source.
ReuseRowEmpty ==
  /\ ReuseNode
  /\ given' = [given EXCEPT ![cursor] = earlier[parent].given[cursor]]
  /\ UNCHANGED answer

\* reuse_node copies the row of the fork seed.
ReuseRow ==
  /\ ReuseNode
  /\ given' = [given EXCEPT ![cursor] = earlier[parent].given[cursor]]
  /\ answer' = [answer EXCEPT ![cursor] = earlier[parent].answer[cursor]]

\* The steps of the thread after one of these three.
RowWritten == {"started", "context", "reject_accepted", "reuse_context"}

RunStep ==
  \/ StartNodeRow \/ AnswerRow \/ ReuseRow
  \/ Next /\ (worker' = worker \/ worker' \notin RowWritten) /\ UNCHANGED rows

-----------------------------------------------------------------------------
(* The request.                                                            *)

\* One SELECT: the Run and its other actors stand still.
Select(from, to) ==
  /\ up
  /\ reader = from
  /\ reader' = to
  /\ UNCHANGED <<vars, fixed, rows, shown>>

\* _find_run, which needs app-run.json, and the row of the Run.
ReadRun ==
  /\ metadata
  /\ Select("idle", "nodes")
  /\ view' = [Unread EXCEPT !.status = status]

ReadNodes ==
  /\ Select("nodes", "events")
  /\ view' = [view EXCEPT !.nodes = nodes, !.given = given, !.answer = answer]

\* context_entries are read next and shown as they are.
ReadEvents ==
  /\ Select("events", "artifacts")
  /\ view' = [view EXCEPT !.rejected = Evidence.rejected, !.announced = Evidence.announced]

\* Mutant: the row of the Run is read last.
ReadRunLast ==
  /\ Select("artifacts", "answer")
  /\ view' = [view EXCEPT !.artifacts = artifacts, !.status = status]

\* Mutant: the events are read after the Artifacts (the read here is theirs).
ReadEventsLast ==
  /\ Select("artifacts", "answer")
  /\ view' = [view EXCEPT !.announced = Evidence.announced]

ReadArtifacts ==
  /\ Select("artifacts", "answer")
  /\ view' = [view EXCEPT !.artifacts = artifacts]

\* The projection of what was read; an inconsistency is answered as an error.
Answer ==
  /\ up
  /\ reader = "answer"
  /\ reader' = "idle"
  /\ view' = Unread
  /\ shown' = IF Inconsistent(view) THEN shown ELSE Outcome(view)
  /\ UNCHANGED <<vars, fixed, rows>>

Read == ReadRun \/ ReadNodes \/ ReadEvents \/ ReadArtifacts \/ Answer

\* A request dies with the process; the client will poll again.
ReaderNext ==
  \/ Read
  \/ /\ RunStep
     /\ IF up' THEN UNCHANGED <<reader, view>> ELSE reader' = "idle" /\ view' = Unread
     /\ UNCHANGED <<fixed, shown>>

ReaderSpec == (Init /\ ReaderInit) /\ [][ReaderNext]_allVars

-----------------------------------------------------------------------------
(* Properties.                                                             *)

ReaderTypeOK ==
  /\ earlier \in Seq(RunEvidence)
  /\ parent \in 0..Len(earlier)
  /\ given \in [Nodes -> Inputs \cup {None}]
  /\ answer \in [Nodes -> Outputs \cup {None}]
  /\ reader \in {"idle", "nodes", "events", "artifacts", "answer"}
  /\ view \in RunEvidence
  /\ shown \in [status : {"absent"} \cup ActiveRun \cup TerminalRun,
                nodes : [Nodes -> SettledNode \cup {"pending", "running"}],
                artifacts : SUBSET Nodes,
                failure : {"none", "evaluation_rejected", "node_failed", "run_failed"}]

\* However the commits fall between the reads, nothing that is made of them is
\* refused: build_run_outcome never fails closed, so that a poll of a live Run is
\* not answered with an error and does not take the history of its Flow with it,
\* and a status read as terminal comes with rows that a comparison and the
\* stability report accept.
NeverRefused ==
  reader = "answer" =>
    /\ ~Inconsistent(view)
    /\ view.status \in TerminalRun => ~Incomparable(view)
    /\ \A i \in Pool(Append(earlier, view), ThisFlow) : ~Unpoolable(Append(earlier, view)[i])

\* A client stops polling at a terminal status.  What it has then is the Run as
\* it stays for ever, every Node, every Artifact and the failure code, and its
\* progress is complete.  An outcome that shows cancel_requested shows every Node
\* and every Artifact that the Run will ever have accepted.
ShownIsFinal ==
  /\ shown.status \in TerminalRun => shown = Outcome(Evidence) /\ SettledNodes(shown) = Nodes
  /\ shown.status = "cancel_requested" =>
       /\ shown.artifacts = artifacts
       /\ \A n \in Nodes : nodes[n] \in Accepted <=> shown.nodes[n] \in Accepted

\* What the events say agrees with the rows beside them, although a row may have
\* been read before its event: an Artifact that is announced is listed, and one
\* that is listed can be served, its file written and its Node accepted for good;
\* EVALUATION_REJECTED is shown only at a Node that has failed for good, and
\* nothing after it is shown as begun.
EventsAgree ==
  /\ reader = "answer" => view.announced \subseteq view.artifacts
  /\ \A n \in view.artifacts \cup shown.artifacts : directory /\ nodes[n] = "succeeded"
  /\ \A n \in Nodes : StepError(view, n) = "EVALUATION_REJECTED" =>
       /\ nodes[n] = "failed"
       /\ ShownNode(view, n) \in {"pending", "running", "failed"}
       /\ \A m \in Nodes : m > n => m \notin Observed(view) \cup view.artifacts

\* "This lets a parent failed Run and its child fork identify the rerun target as
\* the first substantive difference": nothing before it ever differs.
ForkDivergesNoEarlier ==
  reader = "answer" /\ parent # 0 /\ Comparable(earlier[parent], view) =>
    \A n \in Divergent(earlier[parent], view) : n >= start

\* What the class of a Node says of the Runs that are pooled.
ClassMeans(runs, pool, n) ==
  LET seen  == {i \in pool : n \in Observed(runs[i])}
      class == Classification(runs, pool, n)
      Ok(i) == runs[i].nodes[n] = "succeeded"
  IN /\ class = "not_observed" <=> seen = {}
     /\ class = "insufficient_evidence" <=> \E i \in seen : seen = {i}
     /\ class \in {"stable_success", "repeated_failure", "unstable"} <=> \E i, j \in seen : i # j
     /\ class = "stable_success" => \A i \in seen : Ok(i)
     /\ class = "repeated_failure" => \A i \in seen : ~Ok(i)
     /\ class = "unstable" => \E i, j \in seen : Ok(i) /\ ~Ok(j)

\* The five classes of the stability report mean what PROJECT_SPEC.md:391-398 says,
\* whatever Runs are pooled and whenever this one was read.
StabilityAsSpecified ==
  reader = "answer" =>
    LET runs == Append(earlier, view)
    IN \A n \in Nodes : ClassMeans(runs, Pool(runs, ThisFlow), n)

\* Between two polls nothing is taken back, across crashes and starts as well:
\* what was settled or listed stays so and a terminal outcome does not change.
PollsAdvance ==
  [][shown # NoOutcome =>
       /\ \A n \in SettledNodes(shown) : shown'.nodes[n] = shown.nodes[n]
       /\ shown.artifacts \subseteq shown'.artifacts
       /\ shown.status \in TerminalRun => UNCHANGED shown
       /\ shown.status = "cancel_requested" => shown'.status \notin {"running", "succeeded"}]_allVars
=============================================================================
