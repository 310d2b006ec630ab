------------------------ MODULE EvidenceReaderProofs ------------------------
(***************************************************************************)
(* What a reader of a Run is told, for every Flow, every history of        *)
(* earlier Runs and every interleaving of its SELECTs with the commits.    *)
(*                                                                         *)
(* A reading request takes no step of the Run, so that the invariants of   *)
(* RunEvidenceProofs hold under it.  Behind says how what it has read so   *)
(* far lags the tables, Remembered how what the client was last shown      *)
(* does; the order of the SELECTs is what makes them inductive.            *)
(***************************************************************************)
EXTENDS EvidenceReader, RunEvidenceProofs, FiniteSetTheorems

\* A step of the Run under the reader's eyes.
LEMMA RunStepIs ==
  ASSUME RunStep PROVE [Next]_vars
BY DEF RunStep, StartNodeRow, AnswerRow, ReuseRow, Next, RunThread, Admit, Execute

\* A step of the reader is no step of the Run.
LEMMA ReaderSteps ==
  ASSUME [ReaderNext]_allVars PROVE [Next]_vars
<1>1. CASE Read
  BY <1>1 DEF Read, ReadRun, ReadNodes, ReadEvents, ReadArtifacts, Answer, Select
<1>2. CASE RunStep
  BY <1>2, RunStepIs
<1>3. CASE UNCHANGED allVars
  BY <1>3 DEF allVars
<1>4. QED
  BY <1>1, <1>2, <1>3 DEF ReaderNext

\* Whatever the reader does, the Run keeps its invariants.
THEOREM ReaderKeepsRun == ReaderSpec => [](Inv /\ EvidenceInv)
<1>1. ReaderSpec => Spec
  BY ReaderSteps, PTL DEF ReaderSpec, Spec
<1>2. QED
  BY <1>1, Invariance, EvidenceAgrees, PTL

-----------------------------------------------------------------------------
(* Types.                                                                  *)

\* Whatever a client can be shown.
Outcomes ==
  [status : {"absent"} \cup ActiveRun \cup TerminalRun,
   nodes : [Nodes -> SettledNode \cup {"pending", "running"}],
   artifacts : SUBSET Nodes,
   failure : {"none", "evaluation_rejected", "node_failed", "run_failed"}]

\* What is projected from evidence is an outcome.
LEMMA OutcomeType == ASSUME NEW v \in RunEvidence PROVE Outcome(v) \in Outcomes
<1>1. v.nodes \in [Nodes -> NodeStatus] /\ v.artifacts \in SUBSET Nodes
      /\ v.status \in {"absent"} \cup ActiveRun \cup TerminalRun
  BY DEF RunEvidence
<1>2. \A n \in Nodes : ShownNode(v, n) \in SettledNode \cup {"pending", "running"}
  BY <1>1 DEF ShownNode, Observed, Unobserved, SettledNode, NodeStatus
<1>3. Failure(v) \in {"none", "evaluation_rejected", "node_failed", "run_failed"}
  BY DEF Failure
<1>4. QED
  BY <1>1, <1>2, <1>3 DEF Outcome, Outcomes

\* Events are about Nodes of the Flow.
LEMMA AboutType == ASSUME TypeOK, NEW t PROVE About(t) \in SUBSET Nodes
<1>1. \A i \in DOMAIN journal : journal[i].about \in SUBSET Nodes
  BY DEF TypeOK, Event
<1>2. QED
  BY <1>1 DEF About

\* The tables hold evidence, and so does a view of nothing.
LEMMA EvidenceType ==
  ASSUME TypeOK, parent \in Nat, given \in [Nodes -> Inputs \cup {None}],
         answer \in [Nodes -> Outputs \cup {None}]
  PROVE  Evidence \in RunEvidence /\ Unread \in RunEvidence
<1>1. About("evaluation.rejected") \in SUBSET Nodes /\ About("artifact.created") \in SUBSET Nodes
  BY AboutType
<1>2. ThisFlow \in Flows
  BY ReaderAssumption
<1>3. Evidence \in RunEvidence
  BY <1>1, <1>2 DEF Evidence, RunEvidence, TypeOK
<1>4. NoRows \in [Nodes -> Inputs \cup {None}] /\ NoRows \in [Nodes -> Outputs \cup {None}]
  BY DEF NoRows
<1>5. [n \in Nodes |-> "absent"] \in [Nodes -> NodeStatus]
  BY DEF NodeStatus
<1>6. Unread \in RunEvidence
  BY <1>2, <1>4, <1>5 DEF Unread, RunEvidence
<1>7. QED
  BY <1>3, <1>6

\* The types hold when the Run is admitted and nobody has asked for it.
LEMMA ReaderTypeInit == Init /\ ReaderInit => ReaderTypeOK
<1> SUFFICES ASSUME Init, ReaderInit PROVE ReaderTypeOK
  OBVIOUS
<1>1. earlier \in Seq(RunEvidence)
  BY ReaderAssumption DEF ReaderInit
<1>2. parent \in 0..Len(earlier) /\ parent \in Nat
  BY <1>1 DEF ReaderInit
<1>3. given \in [Nodes -> Inputs \cup {None}] /\ answer \in [Nodes -> Outputs \cup {None}]
  BY DEF ReaderInit, NoRows
<1>4. Unread \in RunEvidence
  BY <1>2, <1>3, TypeInit, EvidenceType DEF Typed
<1>5. Outcome(Unread) \in Outcomes
  BY <1>4, OutcomeType
<1>6. QED
  BY <1>1, <1>2, <1>3, <1>4, <1>5 DEF ReaderInit, ReaderTypeOK, NoOutcome, Outcomes

-----------------------------------------------------------------------------
(* The fork and its seed.                                                  *)

\* A fork has a parent of its Flow that executed what the fork reuses, and the
\* rows that it reuses are the parent's.
Forked ==
  /\ start = 0 <=> parent = 0
  /\ parent # 0 => /\ earlier[parent].flow = ThisFlow
                   /\ \A n \in Nodes : n < start => earlier[parent].nodes[n] = "succeeded"
  /\ \A n \in Nodes : nodes[n] = "reused" => /\ given[n] = earlier[parent].given[n]
                                             /\ answer[n] = earlier[parent].answer[n]
  /\ \A i \in DOMAIN earlier : Finished(earlier[i])

\* An admitted fork has reused nothing yet.
LEMMA ForkedInit == Init /\ ReaderInit => Forked
<1> SUFFICES ASSUME Init, ReaderInit PROVE Forked
  OBVIOUS
<1>1. \A i \in DOMAIN earlier : Finished(earlier[i])
  BY ReaderAssumption DEF ReaderInit
<1>2. QED
  BY <1>1 DEF Init, ReaderInit, Forked

\* What a step of the Run does to the contents of its rows.
RowsKept ==
  /\ \A n \in Nodes : nodes[n] # "absent" => given'[n] = given[n]
  /\ \A n \in Nodes : nodes[n] \notin {"absent", "running"} => answer'[n] = answer[n]
  /\ status \in TerminalRun => UNCHANGED rows

\* start_node and reuse_node write a row that was not there; finish_node and
\* reject_node answer one that was running.
LEMMA RunKeepsRows ==
  ASSUME Inv, EvidenceInv, ReaderTypeOK, RunStep
  PROVE  RowsKept
<1>0. /\ given \in [Nodes -> Inputs \cup {None}] /\ answer \in [Nodes -> Outputs \cup {None}]
      /\ Typed /\ cursor \in Nat
  BY DEF ReaderTypeOK, Inv, Typed, TypeOK
<1>1. CASE StartNodeRow
  <2>1. cursor \in Nodes /\ nodes[cursor] = "absent" /\ worker \notin Finally \cup {"gone"}
    BY <1>0, <1>1, CursorIsNode
    DEF StartNodeRow, StartNode, Step, AtNode, TryLocked, EvidenceInv, RowsInOrder,
        Unstarted, Finally
  <2>2. PICK x \in Inputs : given' = [given EXCEPT ![cursor] = x]
    BY <1>1 DEF StartNodeRow
  <2>3. answer' = answer
    BY <1>1 DEF StartNodeRow
  <2>4. QED
    BY <1>0, <2>1, <2>2, <2>3, TerminalIsOver DEF RowsKept
<1>2. CASE AnswerRow
  <2>1. worker = "result"
    BY <1>2 DEF AnswerRow, AcceptResult, RejectResult, Step
  <2>2. cursor \in Nodes /\ nodes[cursor] = "running" /\ worker \notin Finally \cup {"gone"}
    BY <1>0, <2>1, CursorIsNode DEF AtNode, EvidenceInv, RowsInOrder, MayRun, Finally
  <2>3. PICK x \in Outputs : answer' = [answer EXCEPT ![cursor] = x]
    BY <1>2 DEF AnswerRow
  <2>4. given' = given
    BY <1>2 DEF AnswerRow
  <2>5. QED
    BY <1>0, <2>2, <2>3, <2>4, TerminalIsOver DEF RowsKept
<1>3. CASE ReuseRow
  <2>1. cursor \in Nodes /\ nodes[cursor] = "absent" /\ worker \notin Finally \cup {"gone"}
    BY <1>0, <1>3, CursorIsNode
    DEF ReuseRow, ReuseNode, Step, AtNode, EvidenceInv, RowsInOrder, Unstarted, Finally
  <2>2. PICK x, y : /\ given' = [given EXCEPT ![cursor] = x]
                    /\ answer' = [answer EXCEPT ![cursor] = y]
    BY <1>3 DEF ReuseRow
  <2>3. QED
    BY <1>0, <2>1, <2>2, TerminalIsOver DEF RowsKept
<1>4. CASE UNCHANGED rows
  BY <1>4 DEF RowsKept, rows
<1>5. QED
  BY <1>1, <1>2, <1>3, <1>4 DEF RunStep

\* Reading and standing still write nothing.
LEMMA ReadsKeep ==
  ASSUME Read \/ UNCHANGED allVars PROVE UNCHANGED <<vars, fixed, rows>>
BY DEF Read, ReadRun, ReadNodes, ReadEvents, ReadArtifacts, Answer, Select, allVars

\* The fork stays one, and its prefix its parent's.
LEMMA ForkedStep ==
  ASSUME Inv, EvidenceInv, ReaderTypeOK, Forked, [ReaderNext]_allVars
  PROVE  Forked'
<1>1. CASE Read \/ UNCHANGED allVars
  BY <1>1, ReadsKeep DEF vars, evidence, fixed, rows, Forked, Finished
<1>2. CASE RunStep /\ UNCHANGED fixed
  <2>0. [Next]_vars
    BY <1>2, RunStepIs
  <2>1. UNCHANGED <<earlier, parent, start>>
    BY <1>2, <2>0, StartStays DEF fixed
  <2>2. \A n \in Nodes : nodes[n] = "reused" => given'[n] = given[n] /\ answer'[n] = answer[n]
    BY <1>2, RunKeepsRows DEF RowsKept
  <2>3. ASSUME NEW n \in Nodes, nodes'[n] = "reused"
        PROVE  /\ given'[n] = earlier[parent].given[n]
               /\ answer'[n] = earlier[parent].answer[n]
    <3>1. CASE nodes[n] = "reused"
      BY <2>2, <3>1 DEF Forked
    <3>2. CASE nodes[n] # "reused"
      <4>1. worker' = "reuse_context" /\ worker = "reuse"
        <5>1. ~StartNode /\ ~AcceptResult /\ ~Unaccepted(n)
          BY <2>3, <3>2 DEF StartNode, AcceptResult, Unaccepted, Inv, Typed, TypeOK
        <5>2. QED
          BY <2>0, <5>1, OnlyRows DEF EvidenceInv, RowsWritten, ReuseNode, Step
      <4>2. ReuseRow
        BY <1>2, <4>1
        DEF RunStep, RowWritten, StartNodeRow, StartNode, AnswerRow, AcceptResult,
            RejectResult, Step
      <4>3. /\ nodes \in [Nodes -> NodeStatus] /\ given \in [Nodes -> Inputs \cup {None}]
            /\ answer \in [Nodes -> Outputs \cup {None}]
        BY DEF Inv, Typed, TypeOK, ReaderTypeOK
      <4>4. n = cursor
        BY <2>3, <3>2, <4>2, <4>3 DEF ReuseRow, ReuseNode
      <4>5. PICK x, y : /\ x = earlier[parent].given[cursor]
                        /\ y = earlier[parent].answer[cursor]
                        /\ given' = [given EXCEPT ![cursor] = x]
                        /\ answer' = [answer EXCEPT ![cursor] = y]
        BY <4>2 DEF ReuseRow
      <4>6. QED
        BY <4>3, <4>4, <4>5
    <3>3. QED
      BY <3>1, <3>2
  <2>4. QED
    BY <2>1, <2>3 DEF Forked, Finished
<1>3. QED
  BY <1>1, <1>2 DEF ReaderNext

\* A row is written with its input and executor, an accepted one with its output.
Written ==
  /\ \A n \in Nodes : nodes[n] # "absent" => given[n] \in Inputs
  /\ \A n \in Nodes : nodes[n] \in Accepted => answer[n] \in Outputs

\* start_node and finish_node write what the Node was given and answered, and a
\* reused row is as complete as the row of the seed.
LEMMA WrittenStep ==
  ASSUME Inv, EvidenceInv, ReaderTypeOK, Forked, Written, [ReaderNext]_allVars
  PROVE  Written'
<1>0. /\ nodes \in [Nodes -> NodeStatus] /\ given \in [Nodes -> Inputs \cup {None}]
      /\ answer \in [Nodes -> Outputs \cup {None}]
  BY DEF Inv, Typed, TypeOK, ReaderTypeOK
<1>1. CASE Read \/ UNCHANGED allVars
  BY <1>1, ReadsKeep DEF vars, evidence, rows, Written
<1>2. CASE RunStep
  <2>0. RowsWritten
    BY <1>2, RunStepIs, OnlyRows DEF EvidenceInv
  <2>1. CASE StartNode
    <3>1. StartNodeRow
      BY <1>2, <2>1
      DEF RunStep, RowWritten, StartNode, AnswerRow, AcceptResult, RejectResult, ReuseRow,
          ReuseNode, Step
    <3>2. PICK x \in Inputs : given' = [given EXCEPT ![cursor] = x]
      BY <3>1 DEF StartNodeRow
    <3>3. nodes' = [nodes EXCEPT ![cursor] = "running"] /\ answer' = answer
      BY <3>1 DEF StartNodeRow, StartNode
    <3>4. QED
      BY <1>0, <3>2, <3>3 DEF Written, Accepted
  <2>2. CASE AcceptResult
    <3>1. AnswerRow
      BY <1>2, <2>2
      DEF RunStep, RowWritten, StartNodeRow, StartNode, AcceptResult, ReuseRow, ReuseNode,
          Step
    <3>2. PICK x \in Outputs : answer' = [answer EXCEPT ![cursor] = x]
      BY <3>1 DEF AnswerRow
    <3>3. nodes' = [nodes EXCEPT ![cursor] = "succeeded"] /\ given' = given
      BY <2>2, <3>1 DEF AnswerRow, AcceptResult
    <3>4. nodes[cursor] = "running"
      BY <2>2 DEF AcceptResult, Step, EvidenceInv, RowsInOrder, MayRun
    <3>5. QED
      BY <1>0, <3>2, <3>3, <3>4 DEF Written
  <2>3. CASE ReuseNode
    <3>1. ReuseRow
      BY <1>2, <2>3
      DEF RunStep, RowWritten, StartNodeRow, StartNode, AnswerRow, AcceptResult,
          RejectResult, ReuseNode, Step
    <3>2. cursor \in Nodes /\ cursor < start /\ parent # 0
      BY <2>3, CursorIsNode
      DEF ReuseNode, Step, AtNode, Inv, Typed, CursorInFlow, FirstNode, EvidenceInv, Seeded,
          Forked
    <3>3. Finished(earlier[parent]) /\ earlier[parent].nodes[cursor] = "succeeded"
      BY <3>2 DEF Forked, ReaderTypeOK
    <3>4. PICK x, y : /\ x = earlier[parent].given[cursor]
                      /\ y = earlier[parent].answer[cursor]
                      /\ given' = [given EXCEPT ![cursor] = x]
                      /\ answer' = [answer EXCEPT ![cursor] = y]
      BY <3>1 DEF ReuseRow
    <3>5. x \in Inputs /\ y \in Outputs
      BY <3>2, <3>3, <3>4 DEF Finished, Observed, Accepted
    <3>6. nodes' = [nodes EXCEPT ![cursor] = "reused"]
      BY <2>3 DEF ReuseNode
    <3>7. QED
      BY <1>0, <3>4, <3>5, <3>6 DEF Written
  <2>4. CASE \A n \in Nodes : Unaccepted(n)
    BY <1>2, <2>4, RunKeepsRows DEF RowsKept, Unaccepted, Written, Accepted
  <2>5. QED
    BY <2>0, <2>1, <2>2, <2>3, <2>4 DEF RowsWritten
<1>3. QED
  BY <1>1, <1>2 DEF ReaderNext

\* The types are kept: a reused row has the types of the row it is copied from.
LEMMA ReaderTypeStep ==
  ASSUME Inv, Inv', EvidenceInv, Forked, ReaderTypeOK, [ReaderNext]_allVars
  PROVE  ReaderTypeOK'
<1>0. /\ TypeOK /\ TypeOK' /\ parent \in Nat /\ given \in [Nodes -> Inputs \cup {None}]
      /\ answer \in [Nodes -> Outputs \cup {None}] /\ view \in RunEvidence
      /\ shown \in Outcomes
  BY DEF Inv, Typed, ReaderTypeOK, Outcomes
<1>1. Evidence \in RunEvidence /\ Unread \in RunEvidence
  BY <1>0, EvidenceType
<1>2. CASE Read \/ UNCHANGED allVars
  <2>1. UNCHANGED <<earlier, parent, given, answer>>
    BY <1>2, ReadsKeep DEF fixed, rows
  <2>2. reader' \in {"idle", "nodes", "events", "artifacts", "answer"}
    BY <1>2
    DEF Read, ReadRun, ReadNodes, ReadEvents, ReadArtifacts, Answer, Select, allVars,
        readerVars, ReaderTypeOK
  <2>3. view' \in RunEvidence
    <3>1. CASE ReadRun
      BY <1>0, <1>1, <3>1 DEF ReadRun, RunEvidence, TypeOK
    <3>2. CASE ReadNodes
      BY <1>0, <3>2 DEF ReadNodes, RunEvidence, TypeOK
    <3>3. CASE ReadEvents
      <4>1. Evidence.rejected \in SUBSET Nodes /\ Evidence.announced \in SUBSET Nodes
        BY <1>1 DEF RunEvidence
      <4>2. QED
        BY <1>0, <3>3, <4>1 DEF ReadEvents, RunEvidence
    <3>4. CASE ReadArtifacts
      BY <1>0, <3>4 DEF ReadArtifacts, RunEvidence, TypeOK
    <3>5. CASE Answer
      BY <1>1, <3>5 DEF Answer
    <3>6. CASE UNCHANGED allVars
      BY <1>0, <3>6 DEF allVars, readerVars
    <3>7. QED
      BY <1>2, <3>1, <3>2, <3>3, <3>4, <3>5, <3>6 DEF Read
  <2>4. shown' \in Outcomes
    BY <1>0, <1>2, OutcomeType
    DEF Read, ReadRun, ReadNodes, ReadEvents, ReadArtifacts, Answer, Select, allVars,
        readerVars
  <2>5. QED
    BY <2>1, <2>2, <2>3, <2>4 DEF ReaderTypeOK, Outcomes
<1>3. ASSUME RunStep, UNCHANGED <<fixed, shown>>,
             \/ UNCHANGED <<reader, view>>
             \/ reader' = "idle" /\ view' = Unread
      PROVE  ReaderTypeOK'
  <2>1. given' \in [Nodes -> Inputs \cup {None}] /\ answer' \in [Nodes -> Outputs \cup {None}]
    <3>1. CASE StartNodeRow
      BY <1>0, <3>1 DEF StartNodeRow
    <3>2. CASE AnswerRow
      BY <1>0, <3>2 DEF AnswerRow
    <3>3. CASE ReuseRow
      <4>1. worker = "reuse" /\ cursor \in Nodes
        BY <3>3, CursorIsNode DEF ReuseRow, ReuseNode, Step, AtNode, Inv
      <4>2. parent # 0
        BY <4>1 DEF EvidenceInv, Seeded, Forked
      <4>3. earlier[parent] \in RunEvidence
        BY <4>2 DEF ReaderTypeOK
      <4>4. /\ earlier[parent].given[cursor] \in Inputs \cup {None}
            /\ earlier[parent].answer[cursor] \in Outputs \cup {None}
        BY <4>1, <4>3 DEF RunEvidence
      <4>5. PICK x \in Inputs \cup {None}, y \in Outputs \cup {None} :
              /\ given' = [given EXCEPT ![cursor] = x]
              /\ answer' = [answer EXCEPT ![cursor] = y]
        BY <3>3, <4>4 DEF ReuseRow
      <4>6. QED
        BY <1>0, <4>5
    <3>4. CASE UNCHANGED rows
      BY <1>0, <3>4 DEF rows
    <3>5. QED
      BY <1>3, <3>1, <3>2, <3>3, <3>4 DEF RunStep
  <2>2. Unread' = Unread
    BY <1>3 DEF Unread, fixed
  <2>3. QED
    BY <1>0, <1>1, <1>3, <2>1, <2>2 DEF ReaderTypeOK, Outcomes, fixed
<1>4. QED
  BY <1>2, <1>3 DEF ReaderNext

-----------------------------------------------------------------------------
(* How far what was read lags the tables.                                  *)

\* The statuses of a Run that was asked to stop.
Stopped == {"cancel_requested", "cancelled", "failed"}

\* Since the Run's row was read: a terminal status is final, a cancellation has
\* not been taken back, and the Run was visible.
BehindRun ==
  /\ view.flow = ThisFlow /\ view.parent = parent
  /\ reader # "idle" =>
       /\ view.status # "absent"
       /\ view.status \in TerminalRun => status = view.status
       /\ view.status = "cancel_requested" => status \in Stopped
       /\ \A n \in Nodes : n < start => nodes[n] = "reused"

\* A row that was read as ended is as it was, one read as running is there.
BehindNode(n) ==
  /\ view.nodes[n] \notin {"absent", "running"} =>
       nodes[n] = view.nodes[n] /\ given[n] = view.given[n] /\ answer[n] = view.answer[n]
  /\ view.nodes[n] = "running" => nodes[n] \in {"running", "succeeded", "failed", "cancelled"}

\* Since the rows were read.
BehindNodes ==
  reader \in {"events", "artifacts", "answer"} =>
    /\ \A m, n \in Nodes : m < n /\ view.nodes[n] # "absent" => view.nodes[m] \in Accepted
    /\ \A n \in Nodes : BehindNode(n)
    /\ \A n \in Nodes : n < start => view.nodes[n] = "reused"
    /\ view.status \in TerminalRun => view.nodes = nodes
    /\ view.status \in {"cancel_requested"} \cup TerminalRun =>
         \A n \in Nodes : nodes[n] \in Accepted <=> view.nodes[n] \in Accepted

\* Since the events were read.
BehindEvents ==
  /\ reader \notin {"artifacts", "answer"} => view.rejected = {} /\ view.announced = {}
  /\ view.rejected \subseteq UNION Rejections
  /\ view.announced \subseteq artifacts
  /\ reader \in {"artifacts", "answer"} /\ view.status \in TerminalRun =>
       view.rejected = UNION Rejections

\* Since the Artifacts were read.
BehindArtifacts ==
  /\ reader # "answer" => view.artifacts = {}
  /\ view.artifacts \subseteq artifacts
  /\ reader = "answer" =>
       /\ view.announced \subseteq view.artifacts
       /\ view.status \in {"cancel_requested"} \cup TerminalRun => view.artifacts = artifacts

Behind == BehindRun /\ BehindNodes /\ BehindEvents /\ BehindArtifacts

\* The events of one type, as the store and the proofs see them.
LEMMA AboutIs == ASSUME NEW t PROVE About(t) = UNION Abouts(journal, t)
BY DEF About, Abouts

\* Who has asked for nothing is behind nothing.
LEMMA UnreadBehind ==
  ASSUME reader' = "idle", view' = Unread, UNCHANGED parent PROVE Behind'
BY DEF Behind, BehindRun, BehindNodes, BehindEvents, BehindArtifacts, Unread

\* The reader begins with nothing read.
LEMMA BehindInit == Init /\ ReaderInit => Behind
BY DEF ReaderInit, Behind, BehindRun, BehindNodes, BehindEvents, BehindArtifacts, Unread

\* What each SELECT adds to the view.
LEMMA ReadRunAdds ==
  ASSUME ReadRun
  PROVE  /\ reader = "idle" /\ reader' = "nodes" /\ metadata
         /\ view'.flow = ThisFlow /\ view'.parent = parent /\ view'.status = status
         /\ view'.rejected = {} /\ view'.announced = {} /\ view'.artifacts = {}
BY DEF ReadRun, Select, Unread

\* The rows of the Nodes.
LEMMA ReadNodesAdds ==
  ASSUME view \in RunEvidence, ReadNodes
  PROVE  /\ reader = "nodes" /\ reader' = "events"
         /\ view'.flow = view.flow /\ view'.parent = view.parent
         /\ view'.status = view.status
         /\ view'.nodes = nodes /\ view'.given = given /\ view'.answer = answer
         /\ view'.rejected = view.rejected /\ view'.announced = view.announced
         /\ view'.artifacts = view.artifacts
BY DEF ReadNodes, Select, RunEvidence

\* The events.
LEMMA ReadEventsAdds ==
  ASSUME view \in RunEvidence, ReadEvents
  PROVE  /\ reader = "events" /\ reader' = "artifacts"
         /\ view'.flow = view.flow /\ view'.parent = view.parent
         /\ view'.status = view.status
         /\ view'.nodes = view.nodes /\ view'.given = view.given
         /\ view'.answer = view.answer
         /\ view'.rejected = UNION Rejections /\ view'.announced = UNION Publications
         /\ view'.artifacts = view.artifacts
<1>1. Evidence.rejected = UNION Rejections /\ Evidence.announced = UNION Publications
  BY AboutIs DEF Evidence, Rejections, Publications
<1>2. QED
  BY <1>1 DEF ReadEvents, Select, RunEvidence

\* The Artifacts.
LEMMA ReadArtifactsAdds ==
  ASSUME view \in RunEvidence, ReadArtifacts
  PROVE  /\ reader = "artifacts" /\ reader' = "answer"
         /\ view'.flow = view.flow /\ view'.parent = view.parent
         /\ view'.status = view.status
         /\ view'.nodes = view.nodes /\ view'.given = view.given
         /\ view'.answer = view.answer
         /\ view'.rejected = view.rejected /\ view'.announced = view.announced
         /\ view'.artifacts = artifacts
BY DEF ReadArtifacts, Select, RunEvidence

\* A SELECT is up to date when it is made.
LEMMA ReadsStayBehind ==
  ASSUME Inv, EvidenceInv, ReaderTypeOK, Behind, Read PROVE Behind'
<1>0. /\ view \in RunEvidence /\ UNCHANGED <<vars, fixed, rows>>
      /\ nodes \in [Nodes -> NodeStatus]
  BY ReadsKeep DEF ReaderTypeOK, Inv, Typed, TypeOK
<1>1. /\ UNCHANGED <<start, status, nodes, artifacts, parent, given, answer>>
      /\ UNCHANGED <<Rejections, Publications>>
  BY <1>0 DEF vars, evidence, fixed, rows, Rejections, Publications
<1> USE DEF Behind, BehindRun, BehindNodes, BehindNode, BehindEvents, BehindArtifacts
<1>2. CASE ReadRun
  <2>1. status # "absent"
    BY <1>2 DEF ReadRun, Inv, Control, Admitting
  <2>2. \A n \in Nodes : n < start => nodes[n] = "reused"
    BY <1>2 DEF ReadRun, EvidenceInv, Seeded
  <2>3. QED
    BY <1>1, <1>2, <2>1, <2>2, ReadRunAdds DEF Stopped
<1>3. CASE ReadNodes
  BY <1>0, <1>1, <1>3, ReadNodesAdds DEF EvidenceInv, RowsInOrder, NodeStatus
<1>4. CASE ReadEvents
  <2>1. UNION Publications \subseteq artifacts
    BY DEF EvidenceInv, AnnouncedLate
  <2>2. QED
    BY <1>0, <1>1, <1>4, <2>1, ReadEventsAdds
<1>5. CASE ReadArtifacts
  BY <1>0, <1>1, <1>5, ReadArtifactsAdds
<1>6. CASE Answer
  BY <1>1, <1>6, UnreadBehind DEF Answer
<1>7. QED
  BY <1>2, <1>3, <1>4, <1>5, <1>6 DEF Read

\* The Run goes on without the reader falling out of step.
LEMMA RunStaysBehind ==
  ASSUME Inv, EvidenceInv, ReaderTypeOK, Behind, [Next]_vars, RowsKept,
         UNCHANGED <<fixed, reader, view>>
  PROVE  Behind'
<1>0. Advance /\ UNCHANGED <<start, parent, reader, view>> /\ nodes \in [Nodes -> NodeStatus]
  BY Advances, StartStays DEF fixed, Inv, Typed, TypeOK
<1>1. status \in TerminalRun => UNCHANGED <<status, nodes, artifacts, Rejections>>
  BY <1>0 DEF Advance, evidence, Rejections
<1>2. \A n \in Nodes : RowMove(n)
  BY <1>0 DEF Advance
<1>3. BehindRun'
  <2>1. reader # "idle" /\ view.status = "cancel_requested" => status' \in Stopped
    BY <1>0, <1>1 DEF Behind, BehindRun, Advance, Stopped, TerminalRun
  <2>2. \A n \in Nodes : nodes[n] = "reused" => nodes'[n] = "reused"
    BY <1>2 DEF RowMove
  <2>3. QED
    BY <1>0, <1>1, <2>1, <2>2 DEF Behind, BehindRun
<1>4. BehindNodes'
  <2> SUFFICES ASSUME reader \in {"events", "artifacts", "answer"}
               PROVE  BehindNodes'
    BY <1>0 DEF BehindNodes
  <2>1. \A n \in Nodes : BehindNode(n)'
    BY <1>0, <1>2 DEF Behind, BehindNodes, BehindNode, RowMove, RowsKept
  <2>2. view.status \in TerminalRun => view.nodes = nodes'
    BY <1>1 DEF Behind, BehindRun, BehindNodes
  <2>3. view.status \in {"cancel_requested"} \cup TerminalRun => Same
    BY <1>0 DEF Behind, BehindRun, Stopped, Advance, TerminalRun
  <2>4. QED
    BY <1>0, <2>1, <2>2, <2>3 DEF Behind, BehindNodes, Same
<1>5. BehindEvents'
  BY <1>0, <1>1 DEF Behind, BehindRun, BehindEvents, Advance
<1>6. BehindArtifacts'
  BY <1>0, <1>1 DEF Behind, BehindRun, BehindArtifacts, Advance, Stopped, TerminalRun
<1>7. QED
  BY <1>3, <1>4, <1>5, <1>6 DEF Behind

\* What was read lags the tables by no more than the order of the reads allows.
LEMMA BehindStep ==
  ASSUME Inv, EvidenceInv, ReaderTypeOK, Behind, [ReaderNext]_allVars
  PROVE  Behind'
<1>1. CASE Read
  BY <1>1, ReadsStayBehind
<1>2. CASE RunStep /\ UNCHANGED <<fixed, reader, view>>
  BY <1>2, RunStepIs, RunKeepsRows, RunStaysBehind
<1>3. CASE RunStep /\ UNCHANGED fixed /\ reader' = "idle" /\ view' = Unread
  BY <1>3, UnreadBehind DEF fixed
<1>4. CASE UNCHANGED allVars
  <2>1. RowsKept /\ UNCHANGED vars /\ UNCHANGED <<fixed, reader, view>>
    BY <1>4 DEF allVars, readerVars, RowsKept, rows
  <2>2. QED
    BY <2>1, RunStaysBehind
<1>5. QED
  BY <1>1, <1>2, <1>3, <1>4 DEF ReaderNext

-----------------------------------------------------------------------------
(* What the client was last shown.                                         *)

\* A terminal outcome is the Run's for ever, a cancelled one has all that the Run
\* will accept, and what was shown as settled or listed is so in every later read.
Remembered ==
  /\ shown.status \in TerminalRun =>
       shown = Outcome(Evidence) /\ (reader # "idle" => view.status = shown.status)
  /\ shown.status = "cancel_requested" =>
       /\ status \in Stopped /\ shown.artifacts = artifacts
       /\ \A n \in Nodes : nodes[n] \in Accepted <=> shown.nodes[n] \in Accepted
       /\ reader # "idle" => view.status \in Stopped
  /\ shown.status \notin TerminalRun =>
       \A n \in SettledNodes(shown) :
         /\ shown.nodes[n] \in {"succeeded", "failed", "cancelled", "reused"}
         /\ nodes[n] = shown.nodes[n]
         /\ reader \in {"events", "artifacts", "answer"} => view.nodes[n] = shown.nodes[n]
  /\ shown.artifacts \subseteq artifacts
  /\ reader = "answer" => shown.artifacts \subseteq view.artifacts

\* Nothing has been shown yet.
LEMMA RememberedInit == Init /\ ReaderInit => Remembered
<1> SUFFICES ASSUME Init, ReaderInit PROVE Remembered
  OBVIOUS
<1>1. /\ shown.status = "absent" /\ shown.artifacts = {}
      /\ \A n \in Nodes : shown.nodes[n] = "pending"
  BY DEF ReaderInit, NoOutcome, Outcome, Unread, ShownNode, Observed, Unobserved, TerminalRun
<1>2. SettledNodes(shown) = {}
  BY <1>1 DEF SettledNodes, SettledNode
<1>3. QED
  BY <1>1, <1>2 DEF Remembered, TerminalRun, ReaderInit

\* A terminal status makes the whole view final.
LEMMA TerminalViewIsWhole ==
  ASSUME Behind, reader = "answer", view.status \in TerminalRun
  PROVE  Outcome(view) = Outcome(Evidence)
<1>1. /\ view.status = status /\ view.nodes = nodes /\ view.artifacts = artifacts
      /\ view.rejected = UNION Rejections
  BY DEF Behind, BehindRun, BehindNodes, BehindEvents, BehindArtifacts
<1>2. /\ Evidence.status = status /\ Evidence.nodes = nodes /\ Evidence.artifacts = artifacts
      /\ Evidence.rejected = UNION Rejections
  BY AboutIs DEF Evidence, Rejections
<1>3. Failure(view) = Failure(Evidence)
  BY <1>1, <1>2 DEF Failure, FailedNodes
<1>4. \A n \in Nodes : ShownNode(view, n) = ShownNode(Evidence, n)
  BY <1>1, <1>2 DEF ShownNode, Observed, Unobserved
<1>5. QED
  BY <1>1, <1>2, <1>3, <1>4 DEF Outcome

\* The outcome of a terminal Run does not change.
LEMMA OutcomeStays ==
  ASSUME UNCHANGED evidence PROVE Outcome(Evidence)' = Outcome(Evidence)
<1>1. /\ Evidence'.status = Evidence.status /\ Evidence'.nodes = Evidence.nodes
      /\ Evidence'.artifacts = Evidence.artifacts /\ Evidence'.rejected = Evidence.rejected
  BY DEF evidence, Evidence, About
<1>2. Failure(Evidence') = Failure(Evidence)
  BY <1>1 DEF Failure, FailedNodes
<1>3. \A n \in Nodes : ShownNode(Evidence', n) = ShownNode(Evidence, n)
  BY <1>1 DEF ShownNode, Observed, Unobserved
<1>4. QED
  BY <1>1, <1>2, <1>3 DEF Outcome

\* An answer shows what was read.
LEMMA AnswerRemembered ==
  ASSUME Inv, EvidenceInv, ReaderTypeOK, Behind, Remembered, Answer
  PROVE  Remembered'
<1>0. UNCHANGED <<vars, fixed, rows>> /\ reader = "answer" /\ reader' = "idle"
  BY DEF Answer
<1>1. UNCHANGED <<status, nodes, artifacts, evidence>>
  BY <1>0 DEF vars, evidence
<1>2. Outcome(Evidence)' = Outcome(Evidence)
  BY <1>1, OutcomeStays
<1>3. CASE UNCHANGED shown
  BY <1>0, <1>1, <1>2, <1>3 DEF Remembered, SettledNodes
<1>4. CASE shown' = Outcome(view)
  <2>1. /\ shown'.status = view.status /\ shown'.artifacts = view.artifacts
        /\ \A n \in Nodes : shown'.nodes[n] = ShownNode(view, n)
    BY <1>4 DEF Outcome
  <2>2. view.status \in TerminalRun => shown' = Outcome(Evidence)'
    BY <1>0, <1>2, <1>4, TerminalViewIsWhole
  <2>3. ASSUME view.status = "cancel_requested"
        PROVE  /\ status \in Stopped /\ view.artifacts = artifacts
               /\ \A n \in Nodes : nodes[n] \in Accepted <=> ShownNode(view, n) \in Accepted
    BY <1>0, <2>3
    DEF Behind, BehindRun, BehindNodes, BehindArtifacts, ShownNode, Observed, Unobserved,
        Accepted
  <2>4. ASSUME view.status \notin TerminalRun, NEW n \in Nodes,
               ShownNode(view, n) \in SettledNode
        PROVE  /\ ShownNode(view, n) \in {"succeeded", "failed", "cancelled", "reused"}
               /\ nodes[n] = ShownNode(view, n)
    <3>1. view.nodes[n] \in NodeStatus
      BY DEF ReaderTypeOK, RunEvidence
    <3>2. ShownNode(view, n) = view.nodes[n] /\ view.nodes[n] \notin {"absent", "running"}
      BY <2>4 DEF ShownNode, Observed, Unobserved, SettledNode
    <3>3. QED
      BY <1>0, <3>1, <3>2 DEF Behind, BehindNodes, BehindNode, NodeStatus
  <2>5. view.artifacts \subseteq artifacts
    BY DEF Behind, BehindArtifacts
  <2>6. QED
    BY <1>0, <1>1, <2>1, <2>2, <2>3, <2>4, <2>5 DEF Remembered, SettledNodes
<1>5. QED
  BY <1>3, <1>4 DEF Answer

\* A SELECT finds what was shown.
LEMMA ReadsRemember ==
  ASSUME Inv, EvidenceInv, ReaderTypeOK, Behind, Remembered,
         ReadRun \/ ReadNodes \/ ReadEvents \/ ReadArtifacts
  PROVE  Remembered'
<1>0. UNCHANGED <<vars, fixed, rows, shown>> /\ view \in RunEvidence
  BY DEF ReadRun, ReadNodes, ReadEvents, ReadArtifacts, Select, ReaderTypeOK
<1>1. UNCHANGED <<status, nodes, artifacts, evidence, shown>>
  BY <1>0 DEF vars, evidence
<1>2. Outcome(Evidence)' = Outcome(Evidence)
  BY <1>1, OutcomeStays
<1>3. Outcome(Evidence).status = status
  BY DEF Outcome, Evidence
<1> USE DEF Remembered, SettledNodes
<1>4. CASE ReadRun
  BY <1>1, <1>2, <1>3, <1>4, ReadRunAdds
<1>5. CASE ReadNodes
  BY <1>0, <1>1, <1>2, <1>5, ReadNodesAdds
<1>6. CASE ReadEvents
  BY <1>0, <1>1, <1>2, <1>6, ReadEventsAdds
<1>7. CASE ReadArtifacts
  BY <1>0, <1>1, <1>2, <1>7, ReadArtifactsAdds
<1>8. QED
  BY <1>4, <1>5, <1>6, <1>7

\* The Run takes back nothing that was shown.
LEMMA RunRemembers ==
  ASSUME Inv, EvidenceInv, ReaderTypeOK, Behind, Remembered, [Next]_vars,
         UNCHANGED shown, UNCHANGED <<reader, view>> \/ reader' = "idle"
  PROVE  Remembered'
<1>0. Advance /\ UNCHANGED shown
  BY Advances
<1>1. Outcome(Evidence).status = status
  BY DEF Outcome, Evidence
<1>2. ASSUME shown.status \in TerminalRun
      PROVE  shown = Outcome(Evidence)' /\ UNCHANGED <<status, nodes, artifacts>>
  <2>1. UNCHANGED evidence
    BY <1>0, <1>1, <1>2 DEF Remembered, Advance
  <2>2. QED
    BY <1>2, <2>1, OutcomeStays DEF Remembered, evidence
<1>3. ASSUME shown.status = "cancel_requested"
      PROVE  /\ status' \in Stopped /\ artifacts' = artifacts
             /\ Same
  BY <1>0, <1>3 DEF Remembered, Advance, Stopped, TerminalRun, evidence
<1>4. \A n \in Nodes : nodes[n] \in {"succeeded", "failed", "cancelled", "reused"}
                         => nodes'[n] = nodes[n]
  BY <1>0 DEF Advance, RowMove
<1>5. artifacts \subseteq artifacts'
  BY <1>0 DEF Advance
<1>6. QED
  BY <1>0, <1>2, <1>3, <1>4, <1>5 DEF Remembered, SettledNodes, Same

\* What was shown is remembered by every step.
LEMMA RememberedStep ==
  ASSUME Inv, EvidenceInv, ReaderTypeOK, Behind, Remembered, [ReaderNext]_allVars
  PROVE  Remembered'
<1>1. CASE Read
  BY <1>1, AnswerRemembered, ReadsRemember DEF Read
<1>2. CASE RunStep /\ UNCHANGED shown /\ (UNCHANGED <<reader, view>> \/ reader' = "idle")
  BY <1>2, RunStepIs, RunRemembers
<1>3. CASE UNCHANGED allVars
  <2>1. UNCHANGED vars /\ UNCHANGED shown /\ UNCHANGED <<reader, view>>
    BY <1>3 DEF allVars, readerVars
  <2>2. QED
    BY <2>1, RunRemembers
<1>4. QED
  BY <1>1, <1>2, <1>3 DEF ReaderNext

-----------------------------------------------------------------------------
(* The inductive invariant of the reader, and what follows from it.        *)

\* Inductive beside the invariants of the Run.
ReaderInv == ReaderTypeOK /\ Forked /\ Written /\ Behind /\ Remembered

ReaderAndRun == Inv /\ EvidenceInv /\ ReaderInv

\* What was read lags the tables only so far, wherever the commits fell.
THEOREM ReaderInvariance == ReaderSpec => []ReaderAndRun
<1>1. Init /\ ReaderInit => ReaderInv
  <2>1. Init /\ ReaderInit => Written
    BY DEF Init, ReaderInit, Written, Accepted
  <2>2. QED
    BY <2>1, ReaderTypeInit, ForkedInit, BehindInit, RememberedInit DEF ReaderInv
<1>2. Inv /\ Inv' /\ EvidenceInv /\ ReaderInv /\ [ReaderNext]_allVars => ReaderInv'
  BY ReaderTypeStep, ForkedStep, WrittenStep, BehindStep, RememberedStep DEF ReaderInv
<1>3. QED
  BY <1>1, <1>2, ReaderKeepsRun, PTL DEF ReaderSpec, ReaderAndRun

\* Whatever is read and answered is well-typed.
THEOREM ReaderTypes == ReaderSpec => []ReaderTypeOK
<1>1. ReaderAndRun => ReaderTypeOK
  BY DEF ReaderAndRun, ReaderInv
<1>2. QED
  BY <1>1, ReaderInvariance, PTL

\* A terminal Run has no running Node (NodesSettled).
LEMMA NoneRuns ==
  ASSUME Inv, status \in TerminalRun PROVE \A n \in Nodes : nodes[n] # "running"
BY TerminalIsOver DEF Inv, Progress, OneRuns, MayRun, Finally

\* What has been read when the request answers.
LEMMA AtAnswer ==
  ASSUME ReaderAndRun, reader = "answer"
  PROVE  /\ view \in RunEvidence /\ view.nodes \in [Nodes -> NodeStatus]
         /\ \A m, n \in Nodes : m < n /\ view.nodes[n] # "absent" => view.nodes[m] \in Accepted
         /\ view.status \in TerminalRun =>
              status = view.status /\ nodes = view.nodes
              /\ \A n \in Nodes : view.nodes[n] # "running"
<1>1. view \in RunEvidence /\ view.nodes \in [Nodes -> NodeStatus]
  BY DEF ReaderAndRun, ReaderInv, ReaderTypeOK, RunEvidence
<1>2. \A m, n \in Nodes : m < n /\ view.nodes[n] # "absent" => view.nodes[m] \in Accepted
  BY DEF ReaderAndRun, ReaderInv, Behind, BehindNodes
<1>3. view.status \in TerminalRun => status = view.status /\ nodes = view.nodes
  BY DEF ReaderAndRun, ReaderInv, Behind, BehindRun, BehindNodes
<1>4. QED
  BY <1>1, <1>2, <1>3, NoneRuns DEF ReaderAndRun

\* What was read of a rejection: an evaluation Node that failed for good.
LEMMA RejectedFailed ==
  ASSUME ReaderAndRun, NEW n \in view.rejected
  PROVE  n \in EvaluationNodes /\ n \in Nodes /\ n # 1 /\ nodes[n] = "failed"
<1>1. PICK a \in Rejections : n \in a
  BY DEF ReaderAndRun, ReaderInv, Behind, BehindEvents
<1>2. n \in EvaluationNodes /\ nodes[n] = "failed"
  BY <1>1 DEF ReaderAndRun, EvidenceInv, RejectedOnce
<1>3. QED
  BY <1>2, LifecycleAssumption DEF Nodes

\* The outcome of what was read is never refused.
LEMMA ViewConsistent ==
  ASSUME ReaderAndRun, reader = "answer" PROVE ~Inconsistent(view)
<1>1. ~ \E m \in Nodes, n \in Observed(view) : m < n /\ m \notin Observed(view)
  BY AtAnswer DEF Observed, Accepted
<1>2. ASSUME view.status = "succeeded", NEW n \in Nodes PROVE view.nodes[n] \in Accepted
  <2>1. AcceptedNodes = Nodes /\ nodes = view.nodes
    BY <1>2, AtAnswer DEF ReaderAndRun, EvidenceInv, Complete, TerminalRun
  <2>2. QED
    BY <2>1 DEF AcceptedNodes
<1>3. ASSUME view.status = "failed", NEW n \in view.rejected
      PROVE  n # 1 /\ FirstFailed(view, n)
  <2>1. n \in Nodes /\ n # 1 /\ view.nodes[n] = "failed"
    BY <1>3, AtAnswer, RejectedFailed DEF TerminalRun
  <2>2. ASSUME NEW m \in Nodes, view.nodes[m] = "failed" PROVE n <= m
    BY <2>1, <2>2, AtAnswer DEF Nodes, Accepted
  <2>3. QED
    BY <2>1, <2>2 DEF FirstFailed, FailedNodes
<1>4. QED
  BY <1>1, <1>2, <1>3 DEF Inconsistent

\* The members of the pool, this Run among them, are what build_stability_report
\* accepts.
LEMMA PoolAccepted ==
  ASSUME ReaderAndRun, reader = "answer",
         NEW i \in Pool(Append(earlier, view), ThisFlow)
  PROVE  ~Unpoolable(Append(earlier, view)[i])
<1> DEFINE v == Append(earlier, view)[i]
<1>1. /\ earlier \in Seq(RunEvidence) /\ view \in RunEvidence
      /\ i \in 1..(Len(earlier) + 1)
      /\ v.parent = 0 /\ v.status \in TerminalRun
  BY AtAnswer DEF Pool, ReaderAndRun, ReaderInv, ReaderTypeOK
<1>2. CASE i \in 1..Len(earlier)
  <2>1. v = earlier[i] /\ i \in DOMAIN earlier
    BY <1>1, <1>2
  <2>2. Finished(v)
    BY <2>1 DEF ReaderAndRun, ReaderInv, Forked
  <2>3. QED
    BY <1>1, <2>2 DEF Finished
<1>3. CASE i = Len(earlier) + 1
  <2>1. v = view
    BY <1>1, <1>3
  <2>2. view.nodes = nodes /\ \A n \in Nodes : view.nodes[n] # "running"
    BY <1>1, <2>1, AtAnswer
  <2>3. start = 0
    BY <1>1, <2>1 DEF ReaderAndRun, ReaderInv, Forked, Behind, BehindRun
  <2>4. \A n \in Nodes : nodes[n] # "reused"
    BY <2>3 DEF ReaderAndRun, EvidenceInv, Seeded, Nodes
  <2>5. \A n \in Observed(view) : view.nodes[n] \in {"succeeded", "failed", "cancelled"}
    BY <2>2, <2>4, AtAnswer DEF Observed, NodeStatus
  <2>6. QED
    BY <2>1, <2>5 DEF Unpoolable
<1>4. QED
  BY <1>1, <1>2, <1>3

\* No poll, comparison or stability report is refused because commits fell
\* between the SELECTs of run_evidence.
THEOREM PollsAnswered == ReaderSpec => []NeverRefused
<1>1. ASSUME ReaderAndRun PROVE NeverRefused
  <2>1. ASSUME reader = "answer", view.status \in TerminalRun PROVE ~Incomparable(view)
    BY <1>1, <2>1, AtAnswer DEF Incomparable, Observed
  <2>2. QED
    BY <1>1, <2>1, ViewConsistent, PoolAccepted DEF NeverRefused
<1>2. QED
  BY <1>1, ReaderInvariance, PTL

\* The outcome of a terminal Run is settled at every Node.
LEMMA TerminalIsSettled ==
  ASSUME Inv, status \in TerminalRun PROVE SettledNodes(Outcome(Evidence)) = Nodes
<1>1. \A n \in Nodes : nodes[n] \in NodeStatus /\ nodes[n] # "running"
  BY NoneRuns DEF Inv, Typed, TypeOK
<1>2. Evidence.nodes = nodes /\ Evidence.status = status
  BY DEF Evidence
<1>3. \A n \in Nodes : ShownNode(Evidence, n) \in SettledNode
  BY <1>1, <1>2 DEF ShownNode, Observed, Unobserved, SettledNode, NodeStatus
<1>4. QED
  BY <1>3 DEF SettledNodes, Outcome

\* The poll at which the client stops has the Run as it stays.
THEOREM TerminalOutcomeIsFinal == ReaderSpec => []ShownIsFinal
<1>1. ASSUME ReaderAndRun PROVE ShownIsFinal
  <2>1. Remembered /\ Inv
    BY <1>1 DEF ReaderAndRun, ReaderInv
  <2>2. Outcome(Evidence).status = status
    BY DEF Outcome, Evidence
  <2>3. ASSUME shown.status \in TerminalRun
        PROVE  shown = Outcome(Evidence) /\ SettledNodes(shown) = Nodes
    BY <2>1, <2>2, <2>3, TerminalIsSettled DEF Remembered
  <2>4. QED
    BY <2>1, <2>3 DEF Remembered, ShownIsFinal
<1>2. QED
  BY <1>1, ReaderInvariance, PTL

\* Artifacts that were read or shown can be served.
LEMMA ListedIsServed ==
  ASSUME ReaderAndRun, NEW n \in view.artifacts \cup shown.artifacts
  PROVE  directory /\ nodes[n] = "succeeded"
<1>1. n \in artifacts
  BY DEF ReaderAndRun, ReaderInv, Behind, BehindArtifacts, Remembered
<1>2. QED
  BY <1>1 DEF ReaderAndRun, EvidenceInv, Published

\* The rejection that is shown is of a Node that failed, after which nothing ran.
LEMMA RejectionShown ==
  ASSUME ReaderAndRun, NEW n \in Nodes, n \in view.rejected
  PROVE  /\ nodes[n] = "failed"
         /\ ShownNode(view, n) \in {"pending", "running", "failed"}
         /\ \A m \in Nodes : m > n => m \notin Observed(view) \cup view.artifacts
<1>1. nodes[n] = "failed" /\ view.nodes \in [Nodes -> NodeStatus]
  BY RejectedFailed DEF ReaderAndRun, ReaderInv, ReaderTypeOK, RunEvidence
<1>2. reader \in {"artifacts", "answer"}
  BY DEF ReaderAndRun, ReaderInv, Behind, BehindEvents
<1>3. /\ BehindNode(n)
      /\ \A m \in Nodes : n < m /\ view.nodes[m] # "absent" => view.nodes[n] \in Accepted
      /\ view.status \in TerminalRun => view.nodes = nodes
  BY <1>2 DEF ReaderAndRun, ReaderInv, Behind, BehindNodes
<1>4. view.nodes[n] \in {"absent", "running", "failed"}
  BY <1>1, <1>3 DEF BehindNode
<1>5. ShownNode(view, n) \in {"pending", "running", "failed"}
  BY <1>1, <1>3, <1>4 DEF ShownNode, Observed, Unobserved
<1>6. ASSUME NEW m \in Nodes, m > n PROVE m \notin Observed(view)
  BY <1>3, <1>4, <1>6 DEF Observed, Accepted, Nodes
<1>7. ASSUME NEW m \in Nodes, m > n PROVE m \notin view.artifacts
  <2>1. nodes[m] = "succeeded" => nodes[n] \in Accepted
    BY <1>7 DEF ReaderAndRun, EvidenceInv, RowsInOrder, Nodes
  <2>2. QED
    BY <1>1, <2>1, ListedIsServed DEF Accepted
<1>8. QED
  BY <1>1, <1>5, <1>6, <1>7

\* Events and rows that are read at different moments agree.
THEOREM EventsAgreeWithRows == ReaderSpec => []EventsAgree
<1>1. ASSUME ReaderAndRun PROVE EventsAgree
  <2>1. reader = "answer" => view.announced \subseteq view.artifacts
    BY <1>1 DEF ReaderAndRun, ReaderInv, Behind, BehindArtifacts
  <2>2. \A n \in view.artifacts \cup shown.artifacts : directory /\ nodes[n] = "succeeded"
    BY <1>1, ListedIsServed
  <2>3. \A n \in Nodes : StepError(view, n) = "EVALUATION_REJECTED" => n \in view.rejected
    BY DEF StepError
  <2>4. QED
    BY <1>1, <2>1, <2>2, <2>3, RejectionShown DEF EventsAgree
<1>2. QED
  BY <1>1, ReaderInvariance, PTL

\* A fork and its parent first differ where the fork began.
THEOREM ForkFirstDiverges == ReaderSpec => []ForkDivergesNoEarlier
<1>1. ASSUME ReaderAndRun, reader = "answer", parent # 0, NEW n \in Nodes, n < start
      PROVE  Differences(earlier[parent], view, n) \ {"execution_mode"} = {}
  <2>1. view.nodes[n] = "reused" /\ earlier[parent].nodes[n] = "succeeded"
    BY <1>1 DEF ReaderAndRun, ReaderInv, Forked, Behind, BehindNodes
  <2>2. BehindNode(n)
    BY <1>1 DEF ReaderAndRun, ReaderInv, Behind, BehindNodes
  <2>3. nodes[n] = "reused" /\ given[n] = view.given[n] /\ answer[n] = view.answer[n]
    BY <2>1, <2>2 DEF BehindNode
  <2>4. given[n] = earlier[parent].given[n] /\ answer[n] = earlier[parent].answer[n]
    BY <1>1, <2>3 DEF ReaderAndRun, ReaderInv, Forked
  <2>5. n \in Observed(earlier[parent]) \cap Observed(view)
    BY <2>1 DEF Observed
  <2>6. QED
    BY <2>1, <2>3, <2>4, <2>5 DEF Differences, NormalOutcome
<1>2. ASSUME ReaderAndRun PROVE ForkDivergesNoEarlier
  <2>1. start \in Nat
    BY <1>2, LifecycleAssumption DEF ReaderAndRun, Inv, Typed, TypeOK
  <2>2. QED
    BY <1>1, <1>2, <2>1 DEF ForkDivergesNoEarlier, Divergent, Nodes
<1>3. QED
  BY <1>2, ReaderInvariance, PTL

-----------------------------------------------------------------------------
(* The classes of the stability report.                                    *)

\* A finite set that is not empty has one element or at least two.
LEMMA OneOrMore ==
  ASSUME NEW S, IsFiniteSet(S), S # {}
  PROVE  /\ Cardinality(S) < 2 <=> \E i : S = {i}
         /\ (\E i, j \in S : i # j) <=> ~(\E i : S = {i})
<1>1. Cardinality(S) \in Nat /\ Cardinality(S) # 0
  BY FS_CardinalityType, FS_EmptySet
<1>2. Cardinality(S) = 1 <=> \E i : S = {i}
  BY FS_Singleton
<1>3. Cardinality(S) < 2 <=> \E i : S = {i}
  BY <1>1, <1>2
<1>4. (\E i, j \in S : i # j) <=> ~(\E i : S = {i})
  OBVIOUS
<1>5. QED
  BY <1>3, <1>4

\* A part of a finite set with as many elements is the whole.
LEMMA AsMany ==
  ASSUME NEW S, IsFiniteSet(S), NEW T \in SUBSET S
  PROVE  Cardinality(T) = Cardinality(S) <=> T = S
BY FS_Subset

\* _node_stability over a finite pool that build_stability_report accepts.
LEMMA ClassesMean ==
  ASSUME NEW runs, NEW pool, IsFiniteSet(pool), NEW n \in Nodes,
         \A i \in pool : ~Unpoolable(runs[i])
  PROVE  ClassMeans(runs, pool, n)
<1> DEFINE seen  == {i \in pool : n \in Observed(runs[i])}
           class == Classification(runs, pool, n)
           succeeded == {i \in seen : runs[i].nodes[n] = "succeeded"}
           failed    == {i \in seen : runs[i].nodes[n] \in {"failed", "cancelled"}}
<1>1. IsFiniteSet(seen)
  BY FS_Subset
<1>2. \A i \in seen : runs[i].nodes[n] \in {"succeeded", "failed", "cancelled"}
  BY DEF Unpoolable
<1>3. /\ Cardinality(succeeded) = Cardinality(seen) <=> succeeded = seen
      /\ Cardinality(failed) = Cardinality(seen) <=> failed = seen
  BY <1>1, AsMany
<1>4. class = IF seen = {} THEN "not_observed"
              ELSE IF Cardinality(seen) < 2 THEN "insufficient_evidence"
              ELSE IF Cardinality(succeeded) = Cardinality(seen) THEN "stable_success"
              ELSE IF Cardinality(failed) = Cardinality(seen) THEN "repeated_failure"
              ELSE "unstable"
  BY DEF Classification
<1>5. succeeded = seen => \A i \in seen : runs[i].nodes[n] = "succeeded"
  OBVIOUS
<1>6. failed = seen => \A i \in seen : runs[i].nodes[n] # "succeeded"
  OBVIOUS
<1>7. succeeded # seen /\ failed # seen =>
        \E i, j \in seen : runs[i].nodes[n] = "succeeded" /\ runs[j].nodes[n] # "succeeded"
  BY <1>2
<1> HIDE DEF succeeded, failed, seen, class
<1>8. /\ class = "not_observed" <=> seen = {}
      /\ class = "insufficient_evidence" <=> \E i \in seen : seen = {i}
      /\ class \in {"stable_success", "repeated_failure", "unstable"} <=> \E i, j \in seen : i # j
      /\ class = "stable_success" => \A i \in seen : runs[i].nodes[n] = "succeeded"
      /\ class = "repeated_failure" => \A i \in seen : runs[i].nodes[n] # "succeeded"
      /\ class = "unstable" => \E i, j \in seen : /\ runs[i].nodes[n] = "succeeded"
                                                  /\ runs[j].nodes[n] # "succeeded"
  <2>1. CASE seen = {}
    BY <1>4, <2>1
  <2>2. CASE seen # {} /\ Cardinality(seen) < 2
    <3>1. class = "insufficient_evidence" /\ (\E i : seen = {i})
      BY <1>1, <1>4, <2>2, OneOrMore
    <3>2. QED
      BY <3>1
  <2>3. CASE seen # {} /\ ~(Cardinality(seen) < 2)
    <3>1. ~(\E i : seen = {i}) /\ (\E i, j \in seen : i # j)
      BY <1>1, <2>3, OneOrMore
    <3>2. /\ class \in {"stable_success", "repeated_failure", "unstable"}
          /\ class = "stable_success" => succeeded = seen
          /\ class = "repeated_failure" => failed = seen
          /\ class = "unstable" => succeeded # seen /\ failed # seen
      BY <1>3, <1>4, <2>3
    <3>3. QED
      BY <1>5, <1>6, <1>7, <2>3, <3>1, <3>2
  <2>4. QED
    BY <2>1, <2>2, <2>3
<1>9. QED
  BY <1>8 DEF seen, class, ClassMeans

\* The classes mean what they say, over every history and at every moment.
THEOREM StabilityMeansWhatItSays == ReaderSpec => []StabilityAsSpecified
<1>1. ASSUME ReaderAndRun, reader = "answer", NEW n \in Nodes
      PROVE  ClassMeans(Append(earlier, view), Pool(Append(earlier, view), ThisFlow), n)
  <2> DEFINE runs == Append(earlier, view)
             pool == Pool(runs, ThisFlow)
  <2>1. earlier \in Seq(RunEvidence) /\ view \in RunEvidence
    BY <1>1 DEF ReaderAndRun, ReaderInv, ReaderTypeOK
  <2>2. DOMAIN runs = 1..(Len(earlier) + 1) /\ Len(earlier) + 1 \in Int
    BY <2>1
  <2>3. IsFiniteSet(DOMAIN runs)
    BY <2>2, FS_Interval
  <2>4. pool \subseteq DOMAIN runs
    BY DEF Pool
  <2>5. \A i \in pool : ~Unpoolable(runs[i])
    BY <1>1, PoolAccepted
  <2> HIDE DEF runs, pool
  <2>6. IsFiniteSet(pool)
    BY <2>3, <2>4, FS_Subset
  <2>7. ClassMeans(runs, pool, n)
    BY <2>5, <2>6, ClassesMean
  <2>8. QED
    BY <2>7 DEF runs, pool
<1>2. ReaderAndRun => StabilityAsSpecified
  BY <1>1 DEF StabilityAsSpecified
<1>3. QED
  BY <1>2, ReaderInvariance, PTL

-----------------------------------------------------------------------------
(* Polls.                                                                  *)

\* A new answer takes nothing of the last one back.
LEMMA AnswerAdvances ==
  ASSUME ReaderAndRun, reader = "answer", shown' = Outcome(view)
  PROVE  /\ \A n \in SettledNodes(shown) : shown'.nodes[n] = shown.nodes[n]
         /\ shown.artifacts \subseteq shown'.artifacts
         /\ shown.status \in TerminalRun => UNCHANGED shown
         /\ shown.status = "cancel_requested" => shown'.status \notin {"running", "succeeded"}
<1>0. Remembered /\ Behind
  BY DEF ReaderAndRun, ReaderInv
<1>1. /\ shown'.status = view.status /\ shown'.artifacts = view.artifacts
      /\ \A n \in Nodes : shown'.nodes[n] = ShownNode(view, n)
  BY DEF Outcome
<1>2. shown.status \in TerminalRun => UNCHANGED shown
  BY <1>0, TerminalViewIsWhole DEF Remembered
<1>3. ASSUME shown.status \notin TerminalRun, NEW n \in SettledNodes(shown)
      PROVE  shown'.nodes[n] = shown.nodes[n]
  <2>1. n \in Nodes /\ shown.nodes[n] \in {"succeeded", "failed", "cancelled", "reused"}
        /\ view.nodes[n] = shown.nodes[n]
    BY <1>0, <1>3 DEF Remembered, SettledNodes
  <2>2. QED
    BY <1>1, <2>1 DEF ShownNode, Observed
<1>4. shown.artifacts \subseteq shown'.artifacts
  BY <1>0, <1>1 DEF Remembered
<1>5. shown.status = "cancel_requested" => shown'.status \notin {"running", "succeeded"}
  BY <1>0, <1>1 DEF Remembered, Stopped
<1>6. QED
  BY <1>2, <1>3, <1>4, <1>5

\* Between two polls nothing is taken back.
THEOREM PollsOnlyAdvance == ReaderSpec => PollsAdvance
<1> DEFINE Adv == shown # NoOutcome =>
             /\ \A n \in SettledNodes(shown) : shown'.nodes[n] = shown.nodes[n]
             /\ shown.artifacts \subseteq shown'.artifacts
             /\ shown.status \in TerminalRun => UNCHANGED shown
             /\ shown.status = "cancel_requested" =>
                  shown'.status \notin {"running", "succeeded"}
<1>1. ASSUME ReaderAndRun, [ReaderNext]_allVars PROVE [Adv]_allVars
  <2>1. UNCHANGED shown \/ (reader = "answer" /\ shown' = Outcome(view))
    BY <1>1 DEF ReaderNext, Read, ReadRun, ReadNodes, ReadEvents, ReadArtifacts, Answer,
                Select, allVars, readerVars
  <2>2. CASE UNCHANGED shown
    BY <2>2
  <2>3. CASE reader = "answer" /\ shown' = Outcome(view)
    BY <1>1, <2>3, AnswerAdvances
  <2>4. QED
    BY <2>1, <2>2, <2>3
<1> HIDE DEF Adv
<1>2. ReaderAndRun /\ [ReaderNext]_allVars => [Adv]_allVars
  BY <1>1
<1>3. ReaderSpec => [][Adv]_allVars
  BY <1>2, ReaderInvariance, PTL DEF ReaderSpec
<1>4. QED
  BY <1>3 DEF PollsAdvance, Adv

-----------------------------------------------------------------------------
(* What the Run leaves to the Runs after it.                               *)

\* The evidence of a Run that is over is complete and consistent, and so the
\* history that the next Run of the workspace finds is one that
\* ReaderAssumption allows: a comparison accepts it, a stability report pools it
\* unless it is a fork, a fork may reuse its rows.
LeavesHistory ==
  status \in TerminalRun =>
    LET history == Append(earlier, Evidence)
    IN /\ history \in Seq(RunEvidence)
       /\ \A k \in DOMAIN history : Finished(history[k])

\* A Run that is over is one that the reports accept.
LEMMA OverIsFinished ==
  ASSUME ReaderAndRun, status \in TerminalRun PROVE Finished(Evidence)
<1>0. /\ Evidence.status = status /\ Evidence.nodes = nodes /\ Evidence.parent = parent
      /\ Evidence.given = given /\ Evidence.answer = answer
      /\ Evidence.rejected = UNION Rejections
  BY AboutIs DEF Evidence, Rejections
<1>1. nodes \in [Nodes -> NodeStatus] /\ \A n \in Nodes : nodes[n] # "running"
  BY NoneRuns DEF ReaderAndRun, Inv, Typed, TypeOK
<1>2. Evidence \in RunEvidence
  BY EvidenceType DEF ReaderAndRun, ReaderInv, ReaderTypeOK, Inv, Typed
<1>3. \A m, n \in Nodes : m < n /\ nodes[n] # "absent" => nodes[m] \in Accepted
  BY DEF ReaderAndRun, EvidenceInv, RowsInOrder
<1>4. ~Inconsistent(Evidence)
  <2>1. ~ \E m \in Nodes, n \in Observed(Evidence) : m < n /\ m \notin Observed(Evidence)
    BY <1>0, <1>3 DEF Observed, Accepted
  <2>2. status = "succeeded" => \A n \in Nodes : nodes[n] \in Accepted
    BY DEF ReaderAndRun, EvidenceInv, Complete, AcceptedNodes
  <2>3. ASSUME NEW n \in UNION Rejections PROVE n # 1 /\ FirstFailed(Evidence, n)
    <3>1. n \in EvaluationNodes /\ nodes[n] = "failed"
      BY <2>3 DEF ReaderAndRun, EvidenceInv, RejectedOnce
    <3>2. n \in Nodes /\ n # 1
      BY <3>1, LifecycleAssumption DEF Nodes
    <3>3. ASSUME NEW m \in Nodes, nodes[m] = "failed" PROVE n <= m
      BY <1>3, <3>1, <3>2, <3>3 DEF Nodes, Accepted
    <3>4. QED
      BY <1>0, <3>1, <3>2, <3>3 DEF FirstFailed, FailedNodes
  <2>4. QED
    BY <1>0, <2>1, <2>2, <2>3 DEF Inconsistent
<1>5. ~Incomparable(Evidence)
  BY <1>0, <1>1 DEF Incomparable, Observed
<1>6. parent = 0 => ~Unpoolable(Evidence)
  <2>1. parent = 0 => \A n \in Nodes : nodes[n] # "reused"
    BY DEF ReaderAndRun, ReaderInv, Forked, EvidenceInv, Seeded, Nodes
  <2>2. QED
    BY <1>0, <1>1, <2>1 DEF Unpoolable, Observed, NodeStatus
<1>7. \A n \in Observed(Evidence) : /\ given[n] \in Inputs
                                    /\ nodes[n] \in Accepted => answer[n] \in Outputs
  BY <1>0 DEF ReaderAndRun, ReaderInv, Written, Observed
<1>8. QED
  BY <1>0, <1>2, <1>4, <1>5, <1>6, <1>7 DEF Finished

\* The assumption on the earlier Runs is what every Run keeps for its successors.
THEOREM HistoryStaysReal == ReaderSpec => []LeavesHistory
<1>1. ASSUME ReaderAndRun, status \in TerminalRun
      PROVE  /\ Append(earlier, Evidence) \in Seq(RunEvidence)
             /\ \A k \in DOMAIN Append(earlier, Evidence) :
                  Finished(Append(earlier, Evidence)[k])
  <2>1. Finished(Evidence) /\ Evidence \in RunEvidence
    BY <1>1, OverIsFinished DEF Finished
  <2>2. earlier \in Seq(RunEvidence) /\ \A k \in DOMAIN earlier : Finished(earlier[k])
    BY <1>1 DEF ReaderAndRun, ReaderInv, ReaderTypeOK, Forked
  <2> DEFINE e == Evidence
  <2>3. e \in RunEvidence /\ Finished(e)
    BY <2>1
  <2> HIDE DEF e
  <2>4. Append(earlier, e) \in Seq(RunEvidence)
    BY <2>2, <2>3
  <2>5. ASSUME NEW k \in DOMAIN Append(earlier, e) PROVE Finished(Append(earlier, e)[k])
    <3>1. \/ k \in DOMAIN earlier /\ Append(earlier, e)[k] = earlier[k]
          \/ Append(earlier, e)[k] = e
      BY <2>2, <2>3
    <3>2. QED
      BY <2>2, <2>3, <3>1
  <2>6. QED
    BY <2>4, <2>5 DEF e
<1>2. ReaderAndRun => LeavesHistory
  BY <1>1 DEF LeavesHistory
<1>3. QED
  BY <1>2, ReaderInvariance, PTL
=============================================================================
